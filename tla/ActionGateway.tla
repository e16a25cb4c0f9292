--------------------------- MODULE ActionGateway ---------------------------
(***************************************************************************)
(* The governed action plane: the rows of action_requests and of           *)
(* action_budget_reservations (persistence/actions.py), the callers that   *)
(* propose, dispatch, cancel, reconcile, retry and compensate actions      *)
(* through the gateway (agency/actions/gateway.py), their approvals        *)
(* (agency/actions/broker.py) and the provider behind the adapter          *)
(* (agency/actions/adapters.py).                                           *)
(*                                                                         *)
(* One action is one database transaction or one call of the adapter; a    *)
(* caller may lose its process between any two of them.  Every state       *)
(* change of an action is a compare-and-set on the version and the state   *)
(* of the row its caller read last; the version is abstracted to `fresh':  *)
(* whether that row is still the current one.  A read followed directly by *)
(* its compare-and-set is one step, because a stale read changes nothing.  *)
(*                                                                         *)
(* Wall time is abstracted to one bit per clock: `lease' and `due' of an   *)
(* action and `rdue' of a reservation say whether the deadline has passed. *)
(* Every spend costs one unit of one ceiling.  The approvals an action     *)
(* needs are abstracted to one, `unfit' when those decided do not          *)
(* authorise it together.                                                  *)
(***************************************************************************)
EXTENDS ActionFSM, Integers

CONSTANTS Actions,          \* action ids, of one tenant
          Callers,          \* requests and recovery sweeps in progress
          NoAction,         \* the caller works on no action
          SpendActions,     \* actions of class R4: they reserve budget
          ApprovalActions,  \* actions of class R3 and above: those with approval subjects
          Reservations,     \* reservation ids
          NoReservation,    \* budget_reservation_id is NULL
          Ceiling,          \* the ceiling of the budget policy
          MaxAttempts,      \* fsm.MAX_ATTEMPTS (3)
          MaxReconcile,     \* gateway.MAX_RECONCILE_ATTEMPTS (3)
          ReconBound        \* bound: reconciliations per action

ASSUME NoneAssumption == NoAction \notin Actions /\ NoReservation \notin Reservations
ASSUME ClassAssumption == SpendActions \subseteq ApprovalActions /\ ApprovalActions \subseteq Actions
ASSUME BoundAssumption == /\ MaxAttempts \in Nat \ {0} /\ MaxReconcile \in Nat \ {0}
                          /\ Ceiling \in Nat /\ ReconBound \in Nat
ASSUME FiniteAssumption == IsFiniteSet(Reservations)

VARIABLES
    \* the action_requests row
    st, attempts, recon, lease, eligible, resv,
    due,       \* expires_at has passed
    approval,  \* the approvals bound to the action
    \* the action_budget_reservations row
    ract, rstat, rdue,
    provider,  \* the record of the effect key at the provider
    \* the callers' local state: where they are, the action they work on, the
    \* reservation of the row they read and whether that row is current
    pc, act, sres, fresh

requestVars == <<st, attempts, recon, lease, eligible, resv>>
budgetVars  == <<ract, rstat, rdue>>
worldVars   == <<due, approval, provider>>
storeVars   == <<requestVars, budgetVars, worldVars>>
localVars   == <<act, sres>>
vars        == <<storeVars, pc, fresh, localVars>>

\* The compare-and-sets that write nothing beside the state.
Move == [toValidated  |-> [to |-> "VALIDATED",         then |-> "toPrepared"],
         toPrepared   |-> [to |-> "PREPARED",          then |-> "route"],
         toAwaiting   |-> [to |-> "AWAITING_APPROVAL", then |-> "idle"],
         toAuthorized |-> [to |-> "AUTHORIZED",        then |-> "idle"],
         toApproved   |-> [to |-> "AUTHORIZED",        then |-> "preflight"],
         toRejected   |-> [to |-> "REJECTED",          then |-> "idle"],
         toBlocked    |-> [to |-> "BLOCKED",           then |-> "idle"],
         toExpired    |-> [to |-> "EXPIRED",           then |-> "idle"],
         toCancelled  |-> [to |-> "CANCELLED",         then |-> "idle"],
         toObserving  |-> [to |-> "OBSERVING",         then |-> "observe"],
         toVerified   |-> [to |-> "VERIFIED",          then |-> "commitBudget"]]

PlainMoves == DOMAIN Move

\* Where _release_budget is called, what it writes and what follows.
Release == [releaseCancelled |-> [status |-> "RELEASED", then |-> "toCancelled"],
            releaseExpired   |-> [status |-> "EXPIRED",  then |-> "toExpired"],
            releaseLate      |-> [status |-> "RELEASED", then |-> "toExpired"],
            releaseBlocked   |-> [status |-> "RELEASED", then |-> "toBlocked"],
            releaseNoEffect  |-> [status |-> "RELEASED", then |-> "failNoEffect"],
            releasePermanent |-> [status |-> "RELEASED", then |-> "failPermanent"]]

ReleasePoints == DOMAIN Release
OtherMoves == {"toReserved", "toDispatching", "toUnknown", "failNoEffect", "failPermanent",
               "toNeedsHuman", "toCompleted", "annotate"}
CallPoints == {"route", "settle", "preflight", "preflightReserved", "reserve", "execute",
               "observe", "commitBudget", "probe", "compensate", "refund", "dispatch", "reconcile"}

PCs == {"idle"} \cup PlainMoves \cup ReleasePoints \cup OtherMoves \cup CallPoints

ReservationStatus == {"none", "RESERVED", "COMMITTED", "RELEASED", "EXPIRED", "REFUNDED"}
Approval == {"none", "pending", "approved", "rejected", "unfit", "stale"}

-----------------------------------------------------------------------------

\* The rows and the callers stay within their types; in particular no action is
\* dispatched more than MaxAttempts times.
TypeOK ==
    /\ st \in [Actions -> ActionState \cup {"none"}]
    /\ attempts \in [Actions -> 0..MaxAttempts]
    /\ recon \in [Actions -> Nat]
    /\ lease \in [Actions -> {"none", "live", "expired"}]
    /\ eligible \in [Actions -> BOOLEAN]
    /\ resv \in [Actions -> Reservations \cup {NoReservation}]
    /\ due \in [Actions -> BOOLEAN]
    /\ approval \in [Actions -> Approval]
    /\ provider \in [Actions -> {"absent", "applied", "compensated"}]
    /\ ract \in [Reservations -> Actions \cup {NoAction}]
    /\ rstat \in [Reservations -> ReservationStatus]
    /\ rdue \in [Reservations -> BOOLEAN]
    /\ pc \in [Callers -> PCs]
    /\ act \in [Callers -> Actions \cup {NoAction}]
    /\ sres \in [Callers -> Reservations \cup {NoReservation}]
    /\ fresh \in [Callers -> BOOLEAN]

Init ==
    /\ st = [a \in Actions |-> "none"]
    /\ attempts = [a \in Actions |-> 0]
    /\ recon = [a \in Actions |-> 0]
    /\ lease = [a \in Actions |-> "none"]
    /\ eligible = [a \in Actions |-> FALSE]
    /\ resv = [a \in Actions |-> NoReservation]
    /\ due = [a \in Actions |-> FALSE]
    /\ approval = [a \in Actions |-> "none"]
    /\ provider = [a \in Actions |-> "absent"]
    /\ ract = [n \in Reservations |-> NoAction]
    /\ rstat = [n \in Reservations |-> "none"]
    /\ rdue = [n \in Reservations |-> FALSE]
    /\ pc = [c \in Callers |-> "idle"]
    /\ act = [c \in Callers |-> NoAction]
    /\ sres = [c \in Callers |-> NoReservation]
    /\ fresh = [c \in Callers |-> FALSE]

-----------------------------------------------------------------------------
(* Helpers. *)

Goto(c, p) == pc' = [pc EXCEPT ![c] = p] /\ UNCHANGED <<fresh, localVars>>

\* The call returns or raises, or its process dies.
Leave(c) == /\ pc' = [pc EXCEPT ![c] = "idle"]
            /\ act' = [act EXCEPT ![c] = NoAction]
            /\ sres' = [sres EXCEPT ![c] = NoReservation]
            /\ fresh' = [fresh EXCEPT ![c] = FALSE]

\* get_request: the caller holds the current row.
Read(c, a, p) == /\ pc' = [pc EXCEPT ![c] = p]
                 /\ act' = [act EXCEPT ![c] = a]
                 /\ sres' = [sres EXCEPT ![c] = resv[a]]
                 /\ fresh' = [fresh EXCEPT ![c] = TRUE]

\* The caller wrote the row of a: nobody else's copy is current any more.
Wrote(c, a) == [d \in Callers |-> IF d = c THEN TRUE ELSE fresh[d] /\ act[d] # a]

\* Slip: the update is not conditioned on the version.
CASUnfenced(c, to, p) ==
    /\ st' = [st EXCEPT ![act[c]] = to]
    /\ IF p = "idle"
         THEN /\ pc' = [pc EXCEPT ![c] = "idle"]
              /\ act' = [act EXCEPT ![c] = NoAction]
              /\ sres' = [sres EXCEPT ![c] = NoReservation]
              /\ fresh' = [Wrote(c, act[c]) EXCEPT ![c] = FALSE]
         ELSE /\ pc' = [pc EXCEPT ![c] = p]
              /\ fresh' = Wrote(c, act[c])
              /\ UNCHANGED localVars

\* The compare-and-set of transition() wins and the caller goes on at p.
CAS(c, to, p) ==
    /\ fresh[c]
    /\ st' = [st EXCEPT ![act[c]] = to]
    /\ IF p = "idle"
         THEN /\ pc' = [pc EXCEPT ![c] = "idle"]
              /\ act' = [act EXCEPT ![c] = NoAction]
              /\ sres' = [sres EXCEPT ![c] = NoReservation]
              /\ fresh' = [Wrote(c, act[c]) EXCEPT ![c] = FALSE]
         ELSE /\ pc' = [pc EXCEPT ![c] = p]
              /\ fresh' = Wrote(c, act[c])
              /\ UNCHANGED localVars

\* stale_open_approvals, which follows the moves into a terminal state.  It
\* finds the approvals by the run_id of the row, which propose writes last: an
\* action cancelled before that leaves its approvals open.
StaleOpen(a, to) ==
    approval' = IF /\ to \in Terminal /\ approval[a] = "pending"
                   /\ st[a] \notin {"PROPOSED", "VALIDATED", "PREPARED"}
                  THEN [approval EXCEPT ![a] = "stale"] ELSE approval

\* Slip: a missing or undecided approval is no reason to refuse.
SatisfiedUnlessRejected(a) == approval[a] \notin {"rejected", "unfit", "stale"}

\* check_approvals: every subject was approved for the exact binding.
Satisfied(a) == approval[a] = "approved"

\* uncertainty(): the actions of the tenant whose outcome at the provider is not known.
Unresolved == {a \in Actions : st[a] \in {"UNKNOWN", "RECONCILING", "NEEDS_HUMAN"}}

Used == {n \in Reservations : rstat[n] \in {"RESERVED", "COMMITTED"}}

-----------------------------------------------------------------------------
(* propose. *)

\* insert_request: one row per idempotency key.
Propose(c, a) ==
    /\ pc[c] = "idle" /\ st[a] = "none"
    /\ st' = [st EXCEPT ![a] = "PROPOSED"]
    /\ Read(c, a, "toValidated")
    /\ UNCHANGED <<attempts, recon, lease, eligible, resv, budgetVars, worldVars>>

\* open_approvals; an action with blockers is blocked, one within the autonomy
\* ceiling needs no approval.
Route(c) ==
    /\ pc[c] = "route"
    /\ \/ Goto(c, "toBlocked") /\ UNCHANGED approval
       \/ /\ act[c] \in ApprovalActions
          /\ approval' = [approval EXCEPT ![act[c]] = "pending"]
          /\ Goto(c, "toAwaiting")
       \/ act[c] \notin ApprovalActions /\ Goto(c, "toAuthorized") /\ UNCHANGED approval
    /\ UNCHANGED <<requestVars, budgetVars, due, provider>>

\* The moves that write the state only.
PlainMove(c) ==
    /\ pc[c] \in PlainMoves
    /\ CAS(c, Move[pc[c]].to, Move[pc[c]].then)
    /\ StaleOpen(act[c], Move[pc[c]].to)
    /\ UNCHANGED <<attempts, recon, lease, eligible, resv, budgetVars, due, provider>>

\* The compare-and-set fails: ActionConflict.  (A dispatch whose settle loses
\* reads the row again and goes on: that is a call of its own here.)  Likewise
\* the sweep and retry raise when the action they go on with was moved away.
MoveLost(c) == /\ \/ pc[c] \in PlainMoves \cup OtherMoves /\ ~fresh[c]
                  \/ pc[c] = "reconcile" /\ st[act[c]] # "UNKNOWN"
                  \/ pc[c] = "dispatch" /\ st[act[c]] \notin {"AWAITING_APPROVAL", "AUTHORIZED", "RESERVED"}
               /\ Leave(c) /\ UNCHANGED storeVars

-----------------------------------------------------------------------------
(* settle, cancel, expire_due. *)

\* Everything that ends the action releases its reservation before the
\* compare-and-set that ends it.
ReleaseBudget(c) ==
    /\ pc[c] \in ReleasePoints
    /\ rstat' = IF sres[c] # NoReservation /\ rstat[sres[c]] = "RESERVED"
                  THEN [rstat EXCEPT ![sres[c]] = Release[pc[c]].status] ELSE rstat
    /\ Goto(c, Release[pc[c]].then)
    /\ UNCHANGED <<requestVars, ract, rdue, worldVars>>

\* Slip: an action whose outcome is unknown can be cancelled.
CancelUnresolved(c, a) == /\ pc[c] = "idle" /\ st[a] \in PreDispatch \cup {"UNKNOWN"}
                          /\ Read(c, a, "releaseCancelled") /\ UNCHANGED storeVars

Cancel(c, a) == /\ pc[c] = "idle" /\ st[a] \in PreDispatch
                /\ Read(c, a, "releaseCancelled") /\ UNCHANGED storeVars

Expire(c, a) == /\ pc[c] = "idle" /\ due[a]
                /\ st[a] \in {"PREPARED", "AWAITING_APPROVAL", "AUTHORIZED", "RESERVED"}
                /\ Read(c, a, "releaseExpired") /\ UNCHANGED storeVars

\* _settle, after check_approvals: nothing happens while one is pending.
Settle(c) ==
    LET a == act[c] IN
    /\ pc[c] = "settle"
    /\ \/ approval[a] = "rejected" /\ Goto(c, "toRejected")
       \/ approval[a] # "rejected" /\ due[a] /\ Goto(c, "toExpired")
       \/ approval[a] \in {"unfit", "stale"} /\ ~due[a] /\ Goto(c, "toBlocked")
       \/ Satisfied(a) /\ ~due[a] /\ Goto(c, "toApproved")
       \/ approval[a] = "pending" /\ ~due[a] /\ Leave(c)
    /\ UNCHANGED storeVars

-----------------------------------------------------------------------------
(* dispatch. *)

Dispatch(c, a) ==
    /\ pc[c] = "idle" \/ (pc[c] = "dispatch" /\ act[c] = a)
    /\ \/ st[a] = "AWAITING_APPROVAL" /\ Read(c, a, "settle")
       \/ st[a] = "AUTHORIZED"        /\ Read(c, a, "preflight")
       \/ st[a] = "RESERVED"          /\ Read(c, a, "preflightReserved")
    /\ UNCHANGED storeVars

\* preflight re-derives the facts.  A hold only refuses this call and goes before
\* any block: a freeze, a lowered ceiling or, from class R3 on, one unresolved
\* action of the tenant.  Any other change blocks the action.
Preflight(c) ==
    LET a == act[c] IN
    /\ pc[c] \in {"preflight", "preflightReserved"}
    /\ \/ Leave(c)
       \/ /\ a \in ApprovalActions => Unresolved = {}
          /\ \/ Goto(c, "releaseBlocked")
             \/ due[a] /\ Goto(c, "releaseLate")
             \/ /\ ~due[a] /\ (a \in ApprovalActions => Satisfied(a))
                /\ Goto(c, IF a \in SpendActions /\ pc[c] = "preflight"
                           THEN "reserve" ELSE "toDispatching")
    /\ UNCHANGED storeVars

\* Slip: only what was committed counts against the ceiling.
ReserveCommittedOnly(c) ==
    /\ pc[c] = "reserve"
    /\ LET swept == [n \in Reservations |-> IF rstat[n] = "RESERVED" /\ rdue[n] THEN "EXPIRED" ELSE rstat[n]]
       IN \E n \in Reservations :
             /\ rstat[n] = "none"
             /\ Cardinality({m \in Reservations : swept[m] = "COMMITTED"}) < Ceiling
             /\ rstat' = [swept EXCEPT ![n] = "RESERVED"]
             /\ ract' = [ract EXCEPT ![n] = act[c]]
             /\ sres' = [sres EXCEPT ![c] = n]
    /\ pc' = [pc EXCEPT ![c] = "toReserved"]
    /\ UNCHANGED <<requestVars, rdue, worldVars, act, fresh>>

\* reserve_budget: under one lock, expire what is overdue, compare with the
\* ceiling and insert.  A breach raises and rolls all of it back.
Reserve(c) ==
    /\ pc[c] = "reserve"
    /\ LET swept == [n \in Reservations |-> IF rstat[n] = "RESERVED" /\ rdue[n] THEN "EXPIRED" ELSE rstat[n]]
           used  == Cardinality({n \in Reservations : swept[n] \in {"RESERVED", "COMMITTED"}})
       IN \/ /\ used >= Ceiling
             /\ Goto(c, "toBlocked")
             /\ UNCHANGED <<ract, rstat>>
          \/ \E n \in Reservations :
             /\ rstat[n] = "none"
             /\ used < Ceiling
             /\ rstat' = [swept EXCEPT ![n] = "RESERVED"]
             /\ ract' = [ract EXCEPT ![n] = act[c]]
             /\ sres' = [sres EXCEPT ![c] = n]
             /\ pc' = [pc EXCEPT ![c] = "toReserved"]
             /\ UNCHANGED <<act, fresh>>
    /\ UNCHANGED <<requestVars, rdue, worldVars>>

ToReserved(c) ==
    /\ pc[c] = "toReserved"
    /\ CAS(c, "RESERVED", "toDispatching")
    /\ resv' = [resv EXCEPT ![act[c]] = sres[c]]
    /\ UNCHANGED <<attempts, recon, lease, eligible, budgetVars, worldVars>>

\* The lease is taken and the intent persisted before the effect.
ToDispatching(c) ==
    /\ pc[c] = "toDispatching"
    /\ CAS(c, "DISPATCHING", "execute")
    /\ lease' = [lease EXCEPT ![act[c]] = "live"]
    /\ attempts' = [attempts EXCEPT ![act[c]] = @ + 1]
    /\ UNCHANGED <<recon, eligible, resv, budgetVars, worldVars>>

\* adapter.execute.  The provider dedupes on the effect key; a late caller
\* that was given up for dead still makes the effect.
Execute(c) ==
    LET a == act[c] IN
    /\ pc[c] = "execute"
    /\ \/ /\ provider' = [provider EXCEPT ![a] = IF @ = "absent" THEN "applied" ELSE @]
          /\ \E p \in {"toObserving", "toUnknown"} : Goto(c, p)
       \/ /\ \E p \in {"toUnknown", "releaseNoEffect", "releasePermanent"} : Goto(c, p)
          /\ UNCHANGED provider
    /\ UNCHANGED <<requestVars, budgetVars, due, approval>>

\* _observe: the read-back fails, differs or matches.
Observe(c) ==
    /\ pc[c] = "observe"
    /\ \/ provider[act[c]] = "applied" /\ Goto(c, "toVerified")
       \/ Goto(c, "toUnknown")
    /\ UNCHANGED storeVars

\* _complete, after VERIFIED: the reservation is committed if it still stands.
CommitBudget(c) ==
    /\ pc[c] = "commitBudget"
    /\ rstat' = IF sres[c] # NoReservation /\ rstat[sres[c]] = "RESERVED"
                  THEN [rstat EXCEPT ![sres[c]] = "COMMITTED"] ELSE rstat
    /\ Goto(c, "toCompleted")
    /\ UNCHANGED <<requestVars, ract, rdue, worldVars>>

ToCompleted(c) ==
    /\ pc[c] = "toCompleted"
    /\ CAS(c, "COMPLETED", "idle")
    /\ lease' = [lease EXCEPT ![act[c]] = "none"]
    /\ eligible' = [eligible EXCEPT ![act[c]] = FALSE]
    /\ UNCHANGED <<attempts, recon, resv, budgetVars, worldVars>>

\* _to_unknown, and an unreadable provider during a reconciliation.
ToUnknown(c) ==
    /\ pc[c] = "toUnknown"
    /\ CAS(c, "UNKNOWN", "idle")
    /\ lease' = [lease EXCEPT ![act[c]] = "none"]
    /\ UNCHANGED <<attempts, recon, eligible, resv, budgetVars, worldVars>>

\* FAILED: eligible for a retry only when no effect was made.
ToFailed(c) ==
    LET a == act[c]
        none == pc[c] = "failNoEffect"
    IN  /\ pc[c] \in {"failNoEffect", "failPermanent"}
        /\ CAS(c, "FAILED", "idle")
        /\ lease' = [lease EXCEPT ![a] = "none"]
        /\ eligible' = [eligible EXCEPT ![a] = none /\ attempts[a] < MaxAttempts]
        /\ resv' = IF none THEN [resv EXCEPT ![a] = NoReservation] ELSE resv
        /\ UNCHANGED <<attempts, recon, budgetVars, worldVars>>

-----------------------------------------------------------------------------
(* reconcile, recover_stale, retry, compensate. *)

\* UNKNOWN, or by a person NEEDS_HUMAN; the sweep calls it for every action it
\* has found.
Reconcile(c, a) ==
    /\ pc[c] = "idle" \/ (pc[c] = "reconcile" /\ act[c] = a /\ st[a] = "UNKNOWN")
    /\ st[a] \in {"UNKNOWN", "NEEDS_HUMAN"}
    /\ recon[a] < ReconBound      \* bound
    /\ st' = [st EXCEPT ![a] = "RECONCILING"]
    /\ lease' = [lease EXCEPT ![a] = "live"]
    /\ recon' = [recon EXCEPT ![a] = @ + 1]
    /\ pc' = [pc EXCEPT ![c] = "probe"]
    /\ act' = [act EXCEPT ![c] = a]
    /\ sres' = [sres EXCEPT ![c] = resv[a]]
    /\ fresh' = Wrote(c, a)
    /\ UNCHANGED <<attempts, eligible, resv, budgetVars, worldVars>>

\* adapter.reconcile: a read-back only, the effect is never sent again.
Probe(c) ==
    LET a == act[c] IN
    /\ pc[c] = "probe"
    /\ \/ provider[a] = "applied" /\ Goto(c, "toVerified")
       \/ provider[a] = "absent"  /\ Goto(c, "releaseNoEffect")
       \/ provider[a] # "absent"  /\ Goto(c, "toNeedsHuman")
       \/ Goto(c, IF recon[a] >= MaxReconcile THEN "toNeedsHuman" ELSE "toUnknown")
    /\ UNCHANGED storeVars

ToNeedsHuman(c) ==
    /\ pc[c] = "toNeedsHuman"
    /\ CAS(c, "NEEDS_HUMAN", "idle")
    /\ lease' = [lease EXCEPT ![act[c]] = "none"]
    /\ UNCHANGED <<attempts, recon, eligible, resv, budgetVars, worldVars>>

\* Slip: the sweep leaves out the reconciliations that were interrupted.
SweepDispatchesOnly(c, a) ==
    /\ pc[c] = "idle"
    /\ st[a] \in {"DISPATCHING", "OBSERVING"} /\ lease[a] = "expired"
    /\ st' = [st EXCEPT ![a] = "UNKNOWN"]
    /\ lease' = [lease EXCEPT ![a] = "none"]
    /\ pc' = [pc EXCEPT ![c] = "reconcile"]
    /\ act' = [act EXCEPT ![c] = a]
    /\ sres' = [sres EXCEPT ![c] = resv[a]]
    /\ fresh' = Wrote(c, a)
    /\ UNCHANGED <<attempts, recon, eligible, resv, budgetVars, worldVars>>

\* recover_stale: an action under an expired lease becomes UNKNOWN and is then
\* reconciled.
Sweep(c, a) ==
    /\ pc[c] = "idle"
    /\ st[a] \in Leased /\ lease[a] = "expired"
    /\ st' = [st EXCEPT ![a] = "UNKNOWN"]
    /\ lease' = [lease EXCEPT ![a] = "none"]
    /\ pc' = [pc EXCEPT ![c] = "reconcile"]
    /\ act' = [act EXCEPT ![c] = a]
    /\ sres' = [sres EXCEPT ![c] = resv[a]]
    /\ fresh' = Wrote(c, a)
    /\ UNCHANGED <<attempts, recon, eligible, resv, budgetVars, worldVars>>

\* Slip: retry only looks at the state and the attempts.
RetryAny(c, a) ==
    /\ pc[c] = "idle"
    /\ st[a] = "FAILED"
    /\ st' = [st EXCEPT ![a] = "AUTHORIZED"]
    /\ eligible' = [eligible EXCEPT ![a] = FALSE]
    /\ resv' = [resv EXCEPT ![a] = NoReservation]
    /\ pc' = [pc EXCEPT ![c] = "dispatch"]
    /\ act' = [act EXCEPT ![c] = a]
    /\ sres' = [sres EXCEPT ![c] = NoReservation]
    /\ fresh' = Wrote(c, a)
    /\ UNCHANGED <<attempts, recon, lease, budgetVars, worldVars>>

\* retry, which then dispatches.
Retry(c, a) ==
    /\ pc[c] = "idle"
    /\ st[a] = "FAILED" /\ eligible[a] /\ attempts[a] < MaxAttempts
    /\ st' = [st EXCEPT ![a] = "AUTHORIZED"]
    /\ eligible' = [eligible EXCEPT ![a] = FALSE]
    /\ resv' = [resv EXCEPT ![a] = NoReservation]
    /\ pc' = [pc EXCEPT ![c] = "dispatch"]
    /\ act' = [act EXCEPT ![c] = a]
    /\ sres' = [sres EXCEPT ![c] = NoReservation]
    /\ fresh' = Wrote(c, a)
    /\ UNCHANGED <<attempts, recon, lease, budgetVars, worldVars>>

Compensate(c, a) == /\ pc[c] = "idle" /\ st[a] = "COMPLETED"
                    /\ Read(c, a, "compensate") /\ UNCHANGED storeVars

\* Slip: a compensation that fails is taken for one that was made.
ApplyCompensationAssumed(c) ==
    /\ pc[c] = "compensate"
    /\ \/ provider' = [provider EXCEPT ![act[c]] = "compensated"]
       \/ UNCHANGED provider
    /\ Goto(c, "refund")
    /\ UNCHANGED <<requestVars, budgetVars, due, approval>>

\* adapter.compensate: applied once, by compare-and-set on the provider's state.
\* When it fails the outcome is recorded as unconfirmed.
ApplyCompensation(c) ==
    /\ pc[c] = "compensate"
    /\ \/ /\ provider' = [provider EXCEPT ![act[c]] = "compensated"]
          /\ \E p \in {"refund", "annotate"} : Goto(c, p)
       \/ Goto(c, "annotate") /\ UNCHANGED provider
    /\ UNCHANGED <<requestVars, budgetVars, due, approval>>

\* The refund was observed: the committed reservation is refunded.
Refund(c) ==
    /\ pc[c] = "refund"
    /\ rstat' = IF sres[c] # NoReservation /\ rstat[sres[c]] = "COMMITTED"
                  THEN [rstat EXCEPT ![sres[c]] = "REFUNDED"] ELSE rstat
    /\ Goto(c, "annotate")
    /\ UNCHANGED <<requestVars, ract, rdue, worldVars>>

\* annotate: a new version of the row in the same state.
Annotate(c) == /\ pc[c] = "annotate"
               /\ CAS(c, st[act[c]], "idle")
               /\ UNCHANGED <<attempts, recon, lease, eligible, resv, budgetVars, worldVars>>

-----------------------------------------------------------------------------
(* Everyone else. *)

\* The decisions taken at /approvals/{id}/decide.
Decide(a) == /\ approval[a] = "pending"
             /\ \E d \in {"approved", "rejected", "unfit"} : approval' = [approval EXCEPT ![a] = d]
             /\ UNCHANGED <<requestVars, budgetVars, due, provider, pc, fresh, localVars>>

LeaseExpires(a) == /\ lease[a] = "live"
                   /\ lease' = [lease EXCEPT ![a] = "expired"]
                   /\ UNCHANGED <<st, attempts, recon, eligible, resv, budgetVars, worldVars, pc, fresh, localVars>>

ActionExpires(a) == /\ ~due[a] /\ st[a] \in PreDispatch
                    /\ due' = [due EXCEPT ![a] = TRUE]
                    /\ UNCHANGED <<requestVars, budgetVars, approval, provider, pc, fresh, localVars>>

ReservationExpires(n) == /\ ~rdue[n] /\ rstat[n] = "RESERVED"
                         /\ rdue' = [rdue EXCEPT ![n] = TRUE]
                         /\ UNCHANGED <<requestVars, ract, rstat, worldVars, pc, fresh, localVars>>

Crash(c) == pc[c] # "idle" /\ Leave(c) /\ UNCHANGED storeVars

-----------------------------------------------------------------------------

MoveStep(c) == \/ PlainMove(c) \/ MoveLost(c) \/ ToReserved(c) \/ ToDispatching(c) \/ ToCompleted(c)
               \/ ToUnknown(c) \/ ToFailed(c) \/ ToNeedsHuman(c) \/ Annotate(c)

CallStep(c) == \/ Route(c) \/ ReleaseBudget(c) \/ Settle(c) \/ Preflight(c) \/ Reserve(c)
               \/ Execute(c) \/ Observe(c) \/ CommitBudget(c) \/ Probe(c)
               \/ ApplyCompensation(c) \/ Refund(c)

\* The steps a call that is running keeps taking.
CallerStep(c) == MoveStep(c) \/ CallStep(c)

Begin(c, a) == \/ Propose(c, a) \/ Cancel(c, a) \/ Expire(c, a) \/ Dispatch(c, a)
               \/ Reconcile(c, a) \/ Sweep(c, a) \/ Retry(c, a) \/ Compensate(c, a)

CallerNext(c) == CallerStep(c) \/ Crash(c) \/ \E a \in Actions : Begin(c, a)

WorldNext == \/ \E a \in Actions : Decide(a) \/ LeaseExpires(a) \/ ActionExpires(a)
             \/ \E n \in Reservations : ReservationExpires(n)

Next == (\E c \in Callers : CallerNext(c)) \/ WorldNext

Spec == Init /\ [][Next]_vars

\* A call that is running goes on, time passes, and someone keeps asking for
\* the recovery sweep (POST /actions/recovery/sweep).
Fairness ==
    /\ \A c \in Callers : WF_vars(CallerStep(c))
    /\ \A a \in Actions : /\ WF_vars(LeaseExpires(a))
                          /\ SF_vars(\E c \in Callers : Sweep(c, a))

FairSpec == Spec /\ Fairness

-----------------------------------------------------------------------------
(* Properties. *)

\* Nothing takes effect at the provider that needed an approval and did not
\* get it, however dispatches race with decisions, cancellations and sweeps.
EffectsWereApproved ==
    \A a \in ApprovalActions : provider[a] # "absent" => approval[a] = "approved"

\* persistence/actions.py: concurrent reservations cannot jointly exceed a
\* ceiling, orphaned reservations of lost dispatches included.
ReservedWithinCeiling == Cardinality(Used) <= Ceiling

\* The ledger of reservations never claims what the provider does not show:
\* committed money was spent, and refunded money was refunded.
MoneyFollowsProvider ==
    \A n \in Reservations :
        /\ rstat[n] = "COMMITTED" => provider[ract[n]] # "absent"
        /\ rstat[n] = "REFUNDED"  => provider[ract[n]] = "compensated"

\* A spend is charged once: however many dispatches raced for an action and
\* whatever they reserved, at most one reservation of it is ever committed.
SpendCommittedOnce ==
    \A m, n \in Reservations :
        /\ rstat[m] \in {"COMMITTED", "REFUNDED"} /\ rstat[n] \in {"COMMITTED", "REFUNDED"}
        /\ ract[m] = ract[n]
        => m = n

\* The action plane keeps its promise about every action (ActionLifecycle):
\* the gateway, which never consults the transition table, follows it.
Lifecycle == INSTANCE ActionLifecycle WITH
    effect <- [a \in Actions |-> provider[a] # "absent"]

LifecycleSpec == Lifecycle!LifecycleSpec

\* No action stays in a state in which a worker holds a lease: a worker that
\* died there is replaced by the sweep.
LeasedStateLeft == \A a \in Actions : st[a] \in Leased ~> st[a] \notin Leased

\* What was spent at the provider and not refunded.
Spent == {a \in SpendActions : provider[a] = "applied"}

\* docs/ace-v12/security-controls.md: "Spend is bounded by budget ceilings".
SpendWithinCeiling == Cardinality(Spent) <= Ceiling

\* The spends that were reserved, and all of whose reservations have since been
\* expired or released.
Lapsed == {a \in Spent : /\ \E n \in Reservations : ract[n] = a
                        /\ \A n \in Reservations : ract[n] = a => rstat[n] \in {"EXPIRED", "RELEASED"}}

\* How far the ceiling can be exceeded: by the spends whose reservations lapsed
\* while they were on their way, and by nothing that was never reserved.
OverspendLapsed == Cardinality(Spent) <= Ceiling + Cardinality(Lapsed)

=============================================================================
