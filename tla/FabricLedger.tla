---------------------------- MODULE FabricLedger ----------------------------
(***************************************************************************)
(* What the execution fabric promises about one artifact of a mission,     *)
(* whoever executes the mission, however often (docs/execution-fabric.md,  *)
(* steps 4 and 5): an execution, named by its idempotency key, writes one  *)
(* version; it is reported as succeeded once, after it was witnessed, with *)
(* a version that exists and is not older than its own; what it wrote is   *)
(* never taken away.  A key whose reservation is failed under it before it *)
(* was reported is excused: it may write again.                            *)
(***************************************************************************)
EXTENDS Naturals, Sequences

CONSTANTS Keys,   \* idempotency keys that write to the artifact
          Editor  \* stands for the people who revise it

VARIABLES history,    \* who wrote each version of the artifact
          result,     \* version reported for each key, 0 before
          witnessed,  \* keys with an observation receipt
          excused     \* keys that may write again

LandedBy(k, v) == \E u \in 1..v : history[u] = k
Landed(k) == LandedBy(k, Len(history))

LedgerInit == /\ history = <<>>
              /\ result = [k \in Keys |-> 0]
              /\ witnessed = {}
              /\ excused = {}

Land(k) == /\ k \in excused \/ (~Landed(k) /\ result[k] = 0)
           /\ history' = Append(history, k)
           /\ UNCHANGED <<result, witnessed, excused>>

Edit == /\ history # <<>>
        /\ history' = Append(history, Editor)
        /\ UNCHANGED <<result, witnessed, excused>>

Witness(k) == /\ Landed(k)
              /\ witnessed' = witnessed \cup {k}
              /\ UNCHANGED <<history, result, excused>>

Report(k) == /\ result[k] = 0
             /\ k \in witnessed
             /\ \E v \in 1..Len(history) :
                  /\ LandedBy(k, v)
                  /\ result' = [result EXCEPT ![k] = v]
             /\ UNCHANGED <<history, witnessed, excused>>

Excuse(k) == /\ result[k] = 0
             /\ excused' = excused \cup {k}
             /\ UNCHANGED <<history, result, witnessed>>

LedgerNext == \/ Edit
              \/ \E k \in Keys : \/ Land(k) \/ Witness(k)
                                 \/ Report(k) \/ Excuse(k)

LedgerSpec == LedgerInit /\ [][LedgerNext]_<<history, result, witnessed, excused>>

=============================================================================
