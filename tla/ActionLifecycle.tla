-------------------------- MODULE ActionLifecycle --------------------------
(***************************************************************************)
(* What the governed action plane promises about every action, whoever     *)
(* calls it and whatever crashes: it moves along the table of ActionFSM    *)
(* only, it is dispatched a bounded number of times, nothing takes effect  *)
(* at the provider before the first dispatch, and it is VERIFIED only over *)
(* an effect that is there.                                                *)
(***************************************************************************)
EXTENDS ActionFSM, Integers

CONSTANTS Actions, MaxAttempts

VARIABLES st,        \* the state of each action, "none" before it is proposed
          attempts,  \* how often it was dispatched
          effect     \* whether its effect was made

LifecycleInit == /\ st = [a \in Actions |-> "none"]
                 /\ attempts = [a \in Actions |-> 0]
                 /\ effect = [a \in Actions |-> FALSE]

Submit(a) == /\ st[a] = "none"
             /\ st' = [st EXCEPT ![a] = "PROPOSED"]
             /\ UNCHANGED <<attempts, effect>>

\* A dispatch is counted before anything is sent.
Start(a) == /\ "DISPATCHING" \in Edges(st[a])
            /\ attempts[a] < MaxAttempts
            /\ st' = [st EXCEPT ![a] = "DISPATCHING"]
            /\ attempts' = [attempts EXCEPT ![a] = @ + 1]
            /\ UNCHANGED effect

Advance(a) == /\ \E to \in Edges(st[a]) \ {"DISPATCHING"} :
                    /\ to = "VERIFIED" => effect[a]
                    /\ st' = [st EXCEPT ![a] = to]
              /\ UNCHANGED <<attempts, effect>>

\* The effect may be made at any time after a dispatch, even one given up.
TakeEffect(a) == /\ attempts[a] > 0
                 /\ effect' = [effect EXCEPT ![a] = TRUE]
                 /\ UNCHANGED <<st, attempts>>

LifecycleNext == \E a \in Actions : Submit(a) \/ Start(a) \/ Advance(a) \/ TakeEffect(a)

LifecycleSpec == LifecycleInit /\ [][LifecycleNext]_<<st, attempts, effect>>

=============================================================================
