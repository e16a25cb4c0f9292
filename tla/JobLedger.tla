------------------------------ MODULE JobLedger ------------------------------
(***************************************************************************)
(* What the durable queue promises about a job, without workers, leases or *)
(* tokens: a job that has been enqueued stays open while it is attempted   *)
(* and is settled exactly once.  A settled job is never attempted again    *)
(* and never changes its outcome.                                          *)
(***************************************************************************)
EXTENDS Naturals

CONSTANT JobIds

Outcome == {"completed", "dead_letter", "cancelled"}

VARIABLES outcome,   \* outcome[j] : "absent", "open" or how j was settled
          attempts   \* attempts[j] : how often j has been claimed

ledger == <<outcome, attempts>>

Init == /\ outcome \in [JobIds -> {"absent", "open"}]
        /\ attempts = [j \in JobIds |-> 0]

Enqueue(j) == /\ outcome[j] = "absent"
              /\ outcome' = [outcome EXCEPT ![j] = "open"]
              /\ UNCHANGED attempts

Attempt(j) == /\ outcome[j] = "open"
              /\ attempts' = [attempts EXCEPT ![j] = @ + 1]
              /\ UNCHANGED outcome

\* Only a job that has been attempted can complete or be dead-lettered.
Settle(j, o) == /\ outcome[j] = "open"
                /\ o # "cancelled" => attempts[j] > 0
                /\ outcome' = [outcome EXCEPT ![j] = o]
                /\ UNCHANGED attempts

Next == \E j \in JobIds : \/ Enqueue(j)
                          \/ Attempt(j)
                          \/ \E o \in Outcome : Settle(j, o)

Spec == Init /\ [][Next]_ledger

===============================================================================
