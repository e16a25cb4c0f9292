------------------------ MODULE ActionGateway_proofs ------------------------
(***************************************************************************)
(* Theorems about ActionGateway, for every set of actions, callers and     *)
(* reservations, every ceiling and every limit of attempts.                *)
(***************************************************************************)
EXTENDS ActionGateway, FiniteSetTheorems, TLAPS

(***************************************************************************)
(* The points of the gateway, spelled out.                                 *)
(***************************************************************************)
LEMMA PlainMovesAre ==
    PlainMoves = {"toValidated", "toPrepared", "toAwaiting", "toAuthorized", "toApproved", "toRejected",
                  "toBlocked", "toExpired", "toCancelled", "toObserving", "toVerified"}
  BY DEF PlainMoves, Move

\* The points where a reservation is released, spelled out.
LEMMA ReleasePointsAre ==
    ReleasePoints = {"releaseCancelled", "releaseExpired", "releaseLate", "releaseBlocked",
                     "releaseNoEffect", "releasePermanent"}
  BY DEF ReleasePoints, Release

\* The states an action can be in at each point of a call that holds its
\* current row.
StatesAt(p) == {s \in ActionState :
    \/ p = "toValidated" /\ s = "PROPOSED"
    \/ p = "toPrepared"  /\ s = "VALIDATED"
    \/ p \in {"route", "toAwaiting", "toAuthorized", "toBlocked", "releaseExpired", "toExpired"} /\ s = "PREPARED"
    \/ p \in {"settle", "toApproved", "toRejected", "toBlocked", "releaseExpired", "toExpired"} /\ s = "AWAITING_APPROVAL"
    \/ p \in {"dispatch", "preflight", "reserve", "toReserved", "toDispatching", "releaseBlocked", "releaseLate",
              "toBlocked", "releaseExpired", "toExpired"} /\ s = "AUTHORIZED"
    \/ p \in {"preflightReserved", "toDispatching", "releaseBlocked", "releaseLate", "toBlocked",
              "releaseExpired", "toExpired"} /\ s = "RESERVED"
    \/ p \in {"releaseCancelled", "toCancelled"} /\ s \in PreDispatch
    \/ p \in {"execute", "toObserving", "toUnknown", "releasePermanent", "failPermanent",
              "releaseNoEffect", "failNoEffect"} /\ s = "DISPATCHING"
    \/ p \in {"observe", "toVerified", "toUnknown"} /\ s = "OBSERVING"
    \/ p \in {"probe", "toVerified", "toUnknown", "toNeedsHuman", "releaseNoEffect", "failNoEffect"}
         /\ s = "RECONCILING"
    \/ p = "reconcile" /\ s = "UNKNOWN"
    \/ p \in {"commitBudget", "toCompleted"} /\ s = "VERIFIED"
    \/ p \in {"compensate", "refund", "annotate"} /\ s = "COMPLETED"}

\* A caller that works on an action has one; one that does not holds nothing.
LocalOK == \A c \in Callers :
    /\ pc[c] # "idle" => act[c] \in Actions /\ st[act[c]] # "none"
    /\ pc[c] = "idle" => act[c] = NoAction /\ sres[c] = NoReservation /\ ~fresh[c]

\* What a caller read of an action is still so as long as its row is current.
Knows == \A c \in Callers : fresh[c] => st[act[c]] \in StatesAt(pc[c])

\* An action that may yet be dispatched has an attempt left.
AttemptsLeft == \A a \in Actions :
    st[a] \in PreDispatch \cup {"none"} => attempts[a] < MaxAttempts

Base == TypeOK /\ LocalOK /\ Knows /\ AttemptsLeft


-----------------------------------------------------------------------------
(* Base: types, what a caller knows, and the attempts left. *)

\* What the table of plain moves says of its entries.
LEMMA MoveStates ==
    ASSUME NEW p \in PlainMoves
    PROVE  /\ Move[p].to \in ActionState /\ Move[p].then \in PCs
           /\ Move[p].to # "DISPATCHING"
           /\ Move[p].then # "idle" => Move[p].to \in StatesAt(Move[p].then)
           /\ Move[p].to \in PreDispatch => StatesAt(p) \subseteq PreDispatch
  BY PlainMovesAre DEF Move, StatesAt, ActionState, PreDispatch, Leased, Terminal, PCs, CallPoints, PlainMoves

\* A plain move leads along an edge of the transition table.
LEMMA MoveEdges ==
    ASSUME NEW p \in PlainMoves, NEW s \in StatesAt(p)
    PROVE  Move[p].to \in Edges(s)
  BY PlainMovesAre DEF Move, StatesAt, Edges, Stop, ActionState, PreDispatch, Leased, Terminal

\* A release leads to the move that ends the action or the attempt.
LEMMA ReleaseStates ==
    ASSUME NEW p \in ReleasePoints
    PROVE  /\ Release[p].then \in PCs /\ Release[p].then # "idle"
           /\ StatesAt(p) \subseteq StatesAt(Release[p].then)
           /\ Release[p].status \in {"RELEASED", "EXPIRED"}
  BY ReleasePointsAre, PlainMovesAre DEF Release, StatesAt, PCs, OtherMoves

\* The local half of Base after a step.
LocalBase == /\ pc \in [Callers -> PCs]
             /\ act \in [Callers -> Actions \cup {NoAction}]
             /\ fresh \in [Callers -> BOOLEAN]
             /\ LocalOK /\ Knows /\ AttemptsLeft

\* A step inside a call that leaves the rows alone.
LEMMA GotoBase ==
    ASSUME Base, NEW c \in Callers, pc[c] # "idle", NEW p \in PCs \ {"idle"},
           StatesAt(pc[c]) \subseteq StatesAt(p),
           pc' = [pc EXCEPT ![c] = p], UNCHANGED <<fresh, act, st, attempts>>,
           \A d \in Callers \ {c} : sres'[d] = sres[d]
    PROVE  LocalBase'
  BY DEF Base, TypeOK, LocalOK, Knows, AttemptsLeft, LocalBase

\* The end of a call.
LEMMA LeaveBase ==
    ASSUME Base, NEW c \in Callers, Leave(c), UNCHANGED <<st, attempts>>
    PROVE  LocalBase' /\ sres' \in [Callers -> Reservations \cup {NoReservation}]
  BY DEF Base, TypeOK, LocalOK, Knows, AttemptsLeft, LocalBase, Leave, PCs

\* A call that reads the row of an action.
LEMMA ReadBase ==
    ASSUME Base, NEW c \in Callers, NEW a \in Actions, NEW p \in PCs \ {"idle"}, Read(c, a, p),
           st[a] # "none", st[a] \in StatesAt(p), UNCHANGED <<st, attempts>>
    PROVE  LocalBase' /\ sres' \in [Callers -> Reservations \cup {NoReservation}]
  BY NoneAssumption DEF Base, TypeOK, LocalOK, Knows, AttemptsLeft, LocalBase, Read

\* A compare-and-set that wins and goes on at p.
LEMMA WriteBase ==
    ASSUME Base, NEW c \in Callers, NEW a \in Actions, NEW to \in ActionState, NEW p \in PCs \ {"idle"},
           st' = [st EXCEPT ![a] = to], fresh' = Wrote(c, a),
           pc' = [pc EXCEPT ![c] = p], act' = [act EXCEPT ![c] = a],
           \A d \in Callers \ {c} : sres'[d] = sres[d],
           to \in StatesAt(p),
           \A b \in Actions \ {a} : attempts'[b] = attempts[b],
           to \in PreDispatch => attempts'[a] < MaxAttempts
    PROVE  LocalBase'
<1>1. to # "none"
  BY DEF ActionState, PreDispatch, Leased, Terminal
<1>2. LocalOK'
  BY <1>1 DEF Base, TypeOK, LocalOK, Wrote
<1>3. Knows'
  BY ZenonT(40) DEF Base, TypeOK, LocalOK, Knows, Wrote
<1>4. AttemptsLeft'
  BY <1>1 DEF Base, TypeOK, AttemptsLeft
<1> QED
  BY <1>2, <1>3, <1>4 DEF Base, TypeOK, LocalBase, Wrote

\* CAS: a compare-and-set by a caller that is in a call.
LEMMA CASBase ==
    ASSUME Base, NEW c \in Callers, pc[c] # "idle", NEW to \in ActionState, NEW p \in PCs, CAS(c, to, p),
           p # "idle" => to \in StatesAt(p),
           \A b \in Actions \ {act[c]} : attempts'[b] = attempts[b],
           to \in PreDispatch => attempts'[act[c]] < MaxAttempts
    PROVE  /\ LocalBase' /\ st' \in [Actions -> ActionState \cup {"none"}]
           /\ sres' \in [Callers -> Reservations \cup {NoReservation}]
           /\ act[c] \in Actions /\ st[act[c]] \in StatesAt(pc[c])
           /\ st' = [st EXCEPT ![act[c]] = to]
<1> DEFINE a == act[c]
<1>0. a \in Actions /\ st' = [st EXCEPT ![a] = to] /\ to # "none" /\ fresh[c] /\ st[a] \in StatesAt(pc[c])
  BY DEF CAS, Base, LocalOK, Knows, ActionState, PreDispatch, Leased, Terminal
<1>1. CASE p # "idle"
  <2>1. /\ fresh' = Wrote(c, a) /\ pc' = [pc EXCEPT ![c] = p] /\ UNCHANGED <<act, sres>>
        /\ act' = [act EXCEPT ![c] = a]
    BY <1>1 DEF CAS, localVars, Base, TypeOK
  <2>2. LocalBase'
    BY <1>0, <1>1, <2>1, WriteBase
  <2> QED BY <1>0, <2>1, <2>2 DEF Base, TypeOK
<1>2. CASE p = "idle"
  <2>1. /\ pc' = [pc EXCEPT ![c] = "idle"] /\ act' = [act EXCEPT ![c] = NoAction]
        /\ sres' = [sres EXCEPT ![c] = NoReservation]
        /\ fresh' = [Wrote(c, a) EXCEPT ![c] = FALSE]
    BY <1>2 DEF CAS
  <2>2. fresh' = [d \in Callers |-> IF d = c THEN FALSE ELSE fresh[d] /\ act[d] # a]
    BY <2>1 DEF Wrote
  <2>3. pc' \in [Callers -> PCs] /\ act' \in [Callers -> Actions \cup {NoAction}] /\ fresh' \in [Callers -> BOOLEAN]
    BY <2>1, <2>2 DEF Base, TypeOK, PCs
  <2>4. LocalOK'
    BY <1>0, <2>1, <2>2 DEF Base, TypeOK, LocalOK
  <2>5. Knows'
    BY <1>0, <2>1, <2>2 DEF Base, TypeOK, LocalOK, Knows
  <2>6. AttemptsLeft'
    BY <1>0 DEF Base, TypeOK, AttemptsLeft
  <2> QED BY <1>0, <2>1, <2>3, <2>4, <2>5, <2>6 DEF Base, TypeOK, LocalBase
<1> QED BY <1>1, <1>2

\* The initial state.
LEMMA InitBase == Init => Base
  BY NoneAssumption, BoundAssumption
  DEF Init, Base, TypeOK, LocalOK, Knows, AttemptsLeft, PCs, Approval, ReservationStatus

\* Every step keeps Base.
LEMMA NextBase == Base /\ [Next]_vars => Base'
<1> SUFFICES ASSUME Base, [Next]_vars PROVE Base'
  OBVIOUS
<1> USE DEF requestVars, budgetVars, worldVars, localVars, storeVars
<1>a. TypeOK
  BY DEF Base
<1>b. ASSUME LocalBase', UNCHANGED storeVars, sres' \in [Callers -> Reservations \cup {NoReservation}]
      PROVE  Base'
  BY <1>a, <1>b DEF Base, LocalBase, TypeOK
<1>1. ASSUME NEW c \in Callers, NEW a \in Actions, Propose(c, a) PROVE Base'
  <2>1. Read(c, a, "toValidated") /\ st' = [st EXCEPT ![a] = "PROPOSED"] /\ UNCHANGED attempts /\ st[a] = "none"
    BY <1>1 DEF Propose
  <2>2. \A d \in Callers : act[d] # a
    BY <2>1, NoneAssumption DEF Base, LocalOK
  <2>3. LocalBase' /\ sres' \in [Callers -> Reservations \cup {NoReservation}]
    BY <2>1, <2>2, PlainMovesAre, NoneAssumption
    DEF Base, TypeOK, LocalOK, Knows, AttemptsLeft, LocalBase, Read, StatesAt, PreDispatch, ActionState, PCs
  <2> QED
    BY <1>a, <1>1, <2>1, <2>3 DEF Propose, Base, LocalBase, TypeOK, ActionState, PreDispatch
<1>2. ASSUME NEW c \in Callers, Route(c) PROVE Base'
  <2>1. PICK p \in {"toBlocked", "toAwaiting", "toAuthorized"} : Goto(c, p)
    BY <1>2 DEF Route
  <2>2. LocalBase'
    BY <1>2, <2>1, GotoBase, PlainMovesAre DEF Route, Goto, StatesAt, PCs
  <2> QED BY <1>a, <1>2, <2>1, <2>2 DEF Route, Goto, Base, LocalBase, TypeOK, Approval
<1>3. ASSUME NEW c \in Callers, PlainMove(c) PROVE Base'
  <2> DEFINE p == pc[c]
  <2>1. p \in PlainMoves /\ CAS(c, Move[p].to, Move[p].then) /\ UNCHANGED attempts /\ p # "idle"
    BY <1>3, PlainMovesAre DEF PlainMove
  <2>2. Move[p].to \in PreDispatch => attempts[act[c]] < MaxAttempts
    BY <2>1, MoveStates DEF Base, Knows, LocalOK, AttemptsLeft, CAS
  <2>3. /\ LocalBase' /\ st' \in [Actions -> ActionState \cup {"none"}]
        /\ sres' \in [Callers -> Reservations \cup {NoReservation}]
    BY <2>1, <2>2, MoveStates, CASBase
  <2> QED BY <1>a, <1>3, <2>1, <2>3 DEF PlainMove, StaleOpen, Base, LocalBase, TypeOK, Approval
<1>4. ASSUME NEW c \in Callers, Leave(c), UNCHANGED storeVars PROVE Base'
  BY <1>4, <1>b, LeaveBase
<1>5. ASSUME NEW c \in Callers, ReleaseBudget(c) PROVE Base'
  <2> DEFINE p == pc[c]
  <2>1. p \in ReleasePoints /\ Goto(c, Release[p].then) /\ UNCHANGED <<st, attempts>> /\ p # "idle"
    BY <1>5, ReleasePointsAre DEF ReleaseBudget
  <2>2. LocalBase'
    BY <2>1, ReleaseStates, GotoBase DEF Goto
  <2>3. rstat' \in [Reservations -> ReservationStatus]
    BY <1>5, <1>a, <2>1, ReleaseStates DEF ReleaseBudget, TypeOK, ReservationStatus
  <2> QED BY <1>a, <1>5, <2>1, <2>2, <2>3 DEF ReleaseBudget, Goto, Base, LocalBase, TypeOK
<1>6. ASSUME NEW c \in Callers, NEW a \in Actions, Cancel(c, a) \/ Expire(c, a) \/ Dispatch(c, a) \/ Compensate(c, a)
      PROVE Base'
  <2>1. PICK p \in PCs \ {"idle"} : Read(c, a, p) /\ st[a] # "none" /\ st[a] \in StatesAt(p)
    BY <1>6, ReleasePointsAre
    DEF Cancel, Expire, Dispatch, Compensate, PreDispatch, ActionState, Terminal, StatesAt, PCs, CallPoints
  <2> QED BY <1>6, <1>b, <2>1, ReadBase DEF Cancel, Expire, Dispatch, Compensate
<1>7. ASSUME NEW c \in Callers, Settle(c) \/ Preflight(c) \/ Observe(c) \/ Probe(c) PROVE Base'
  <2>1. CASE Leave(c)
    BY <1>4, <1>7, <2>1 DEF Settle, Preflight, Observe, Probe
  <2>2. ASSUME NEW p \in PCs \ {"idle"}, Goto(c, p), StatesAt(pc[c]) \subseteq StatesAt(p), pc[c] # "idle" PROVE Base'
    <3>1. LocalBase'
      BY <1>7, <2>2, GotoBase DEF Goto, Settle, Preflight, Observe, Probe
    <3> QED BY <1>7, <1>a, <1>b, <2>2, <3>1 DEF Goto, Settle, Preflight, Observe, Probe, TypeOK
  <2>3. CASE Settle(c)
    <3>1. PICK p \in {"toRejected", "toExpired", "toBlocked", "toApproved", "leave"} :
             IF p = "leave" THEN Leave(c) ELSE Goto(c, p)
      BY <2>3 DEF Settle
    <3> QED BY <2>1, <2>2, <2>3, <3>1, PlainMovesAre DEF Settle, StatesAt, PCs
  <2>4. CASE Preflight(c)
    <3>1. PICK p \in {"releaseBlocked", "releaseLate", "reserve", "toDispatching", "leave"} :
             /\ IF p = "leave" THEN Leave(c) ELSE Goto(c, p)
             /\ p = "reserve" => pc[c] = "preflight"
      BY <2>4 DEF Preflight
    <3> QED BY <2>1, <2>2, <2>4, <3>1, ReleasePointsAre DEF Preflight, StatesAt, PCs, OtherMoves, CallPoints
  <2>5. CASE Observe(c)
    <3>1. PICK p \in {"toVerified", "toUnknown"} : Goto(c, p)
      BY <2>5 DEF Observe
    <3> QED BY <2>2, <2>5, <3>1, PlainMovesAre DEF Observe, StatesAt, PCs, OtherMoves
  <2>6. CASE Probe(c)
    <3>1. PICK p \in {"toVerified", "releaseNoEffect", "toNeedsHuman", "toUnknown"} : Goto(c, p)
      BY <2>6 DEF Probe
    <3> QED BY <2>2, <2>6, <3>1, PlainMovesAre, ReleasePointsAre DEF Probe, StatesAt, PCs, OtherMoves
  <2> QED BY <1>7, <2>3, <2>4, <2>5, <2>6
<1>8. ASSUME NEW c \in Callers, Reserve(c) PROVE Base'
  <2>0. pc[c] = "reserve" /\ UNCHANGED <<requestVars, rdue, worldVars>>
    BY <1>8 DEF Reserve
  <2>1. CASE Goto(c, "toBlocked") /\ UNCHANGED <<ract, rstat>>
    <3>1. LocalBase'
      BY <2>0, <2>1, GotoBase, PlainMovesAre DEF Goto, StatesAt, PCs
    <3> QED BY <1>a, <2>0, <2>1, <3>1 DEF Goto, Base, LocalBase, TypeOK
  <2>2. ASSUME NEW n \in Reservations, NEW swept \in [Reservations -> ReservationStatus],
               rstat' = [swept EXCEPT ![n] = "RESERVED"], ract' = [ract EXCEPT ![n] = act[c]],
               sres' = [sres EXCEPT ![c] = n], pc' = [pc EXCEPT ![c] = "toReserved"], UNCHANGED <<act, fresh>>
        PROVE  Base'
    <3>1. /\ act[c] \in Actions
          /\ \A d \in Callers \ {c} : sres'[d] = sres[d]
      BY <1>a, <2>0, <2>2 DEF Base, LocalOK, TypeOK
    <3>2. /\ ract' \in [Reservations -> Actions \cup {NoAction}]
          /\ rstat' \in [Reservations -> ReservationStatus]
          /\ sres' \in [Callers -> Reservations \cup {NoReservation}]
      BY <1>a, <2>2, <3>1 DEF TypeOK, ReservationStatus
    <3>3. LocalBase'
      BY <2>0, <2>2, <3>1, GotoBase DEF StatesAt, PCs, OtherMoves
    <3> QED BY <1>a, <2>0, <2>2, <3>2, <3>3 DEF Base, LocalBase, TypeOK
  <2>3. [n \in Reservations |-> IF rstat[n] = "RESERVED" /\ rdue[n] THEN "EXPIRED" ELSE rstat[n]]
           \in [Reservations -> ReservationStatus]
    BY <1>a DEF TypeOK, ReservationStatus
  <2> QED BY <1>8, <2>1, <2>2, <2>3 DEF Reserve
<1>9. ASSUME NEW c \in Callers, ToReserved(c) PROVE Base'
  <2>1. /\ CAS(c, "RESERVED", "toDispatching") /\ UNCHANGED attempts /\ pc[c] = "toReserved"
        /\ resv' \in [Actions -> Reservations \cup {NoReservation}]
    BY <1>9, <1>a DEF ToReserved, TypeOK
  <2>2. attempts[act[c]] < MaxAttempts
    BY <2>1 DEF Base, Knows, LocalOK, AttemptsLeft, CAS, StatesAt, PreDispatch
  <2>3. /\ LocalBase' /\ st' \in [Actions -> ActionState \cup {"none"}]
        /\ sres' \in [Callers -> Reservations \cup {NoReservation}]
    BY <2>1, <2>2, CASBase DEF StatesAt, PCs, OtherMoves, ActionState, PreDispatch
  <2> QED BY <1>a, <1>9, <2>1, <2>3 DEF ToReserved, Base, LocalBase, TypeOK
<1>10. ASSUME NEW c \in Callers, ToDispatching(c) PROVE Base'
  <2>1. /\ CAS(c, "DISPATCHING", "execute") /\ pc[c] = "toDispatching"
        /\ attempts' = [attempts EXCEPT ![act[c]] = @ + 1]
    BY <1>10 DEF ToDispatching
  <2>2. act[c] \in Actions /\ attempts[act[c]] < MaxAttempts
    BY <2>1 DEF Base, Knows, LocalOK, AttemptsLeft, CAS, StatesAt, PreDispatch
  <2>3. attempts' \in [Actions -> 0..MaxAttempts]
    BY <1>a, <2>1, <2>2, BoundAssumption DEF TypeOK
  <2>4. \A b \in Actions \ {act[c]} : attempts'[b] = attempts[b]
    BY <1>a, <2>1 DEF TypeOK
  <2>5. /\ LocalBase' /\ st' \in [Actions -> ActionState \cup {"none"}]
        /\ sres' \in [Callers -> Reservations \cup {NoReservation}]
    BY <2>1, <2>4, CASBase DEF StatesAt, PCs, CallPoints, ActionState, PreDispatch, Leased
  <2> QED BY <1>a, <1>10, <2>3, <2>5 DEF ToDispatching, Base, LocalBase, TypeOK
<1>11. ASSUME NEW c \in Callers, ToUnknown(c) \/ ToFailed(c) \/ ToNeedsHuman(c) \/ ToCompleted(c) PROVE Base'
  <2>1. PICK to \in {"UNKNOWN", "FAILED", "NEEDS_HUMAN", "COMPLETED"} : CAS(c, to, "idle")
    BY <1>11 DEF ToUnknown, ToFailed, ToNeedsHuman, ToCompleted
  <2>2. pc[c] # "idle" /\ UNCHANGED attempts
    BY <1>11 DEF ToUnknown, ToFailed, ToNeedsHuman, ToCompleted
  <2>3. /\ LocalBase' /\ st' \in [Actions -> ActionState \cup {"none"}]
        /\ sres' \in [Callers -> Reservations \cup {NoReservation}]
    BY <2>1, <2>2, CASBase DEF PCs, ActionState, PreDispatch, Terminal
  <2>4. lease' \in [Actions -> {"none", "live", "expired"}] /\ UNCHANGED <<recon, worldVars, budgetVars>>
    BY <1>a, <1>11 DEF ToUnknown, ToFailed, ToNeedsHuman, ToCompleted, TypeOK
  <2>5. eligible' \in [Actions -> BOOLEAN]
    BY <1>a, <1>11 DEF ToUnknown, ToFailed, ToNeedsHuman, ToCompleted, TypeOK
  <2>6. resv' \in [Actions -> Reservations \cup {NoReservation}]
    BY <1>a, <1>11 DEF ToUnknown, ToFailed, ToNeedsHuman, ToCompleted, TypeOK
  <2> QED BY <1>a, <2>2, <2>3, <2>4, <2>5, <2>6 DEF Base, LocalBase, TypeOK
<1>12. ASSUME NEW c \in Callers, Annotate(c) PROVE Base'
  <2>1. st[act[c]] \in ActionState /\ st[act[c]] \notin PreDispatch
    BY <1>12 DEF Annotate, Base, Knows, CAS, StatesAt, PreDispatch
  <2>2. CAS(c, st[act[c]], "idle") /\ pc[c] # "idle" /\ UNCHANGED attempts
    BY <1>12 DEF Annotate
  <2>3. /\ LocalBase' /\ st' \in [Actions -> ActionState \cup {"none"}]
        /\ sres' \in [Callers -> Reservations \cup {NoReservation}]
    BY <2>1, <2>2, CASBase DEF PCs
  <2> QED BY <1>a, <1>12, <2>3 DEF Annotate, Base, LocalBase, TypeOK
<1>13. ASSUME NEW c \in Callers, Execute(c) \/ ApplyCompensation(c) PROVE Base'
  <2>1. PICK p \in {"toObserving", "toUnknown", "releaseNoEffect", "releasePermanent", "refund", "annotate"} :
           /\ Goto(c, p)
           /\ p \in {"refund", "annotate"} <=> pc[c] = "compensate"
           /\ pc[c] \in {"execute", "compensate"}
    BY <1>13 DEF Execute, ApplyCompensation
  <2>2. p \in PCs \ {"idle"} /\ StatesAt(pc[c]) \subseteq StatesAt(p)
    BY <2>1, PlainMovesAre, ReleasePointsAre DEF StatesAt, PCs, OtherMoves, CallPoints
  <2>3. LocalBase'
    BY <1>13, <2>1, <2>2, GotoBase DEF Execute, ApplyCompensation, Goto
  <2>4. provider' \in [Actions -> {"absent", "applied", "compensated"}]
    BY <1>a, <1>13 DEF Execute, ApplyCompensation, TypeOK
  <2> QED BY <1>a, <1>13, <2>1, <2>3, <2>4 DEF Execute, ApplyCompensation, Goto, Base, LocalBase, TypeOK
<1>14. ASSUME NEW c \in Callers, CommitBudget(c) \/ Refund(c) PROVE Base'
  <2>1. PICK p \in {"toCompleted", "annotate"} :
           Goto(c, p) /\ (p = "toCompleted" => pc[c] = "commitBudget") /\ (p = "annotate" => pc[c] = "refund")
    BY <1>14 DEF CommitBudget, Refund
  <2>2. LocalBase'
    BY <1>14, <2>1, GotoBase DEF CommitBudget, Refund, Goto, StatesAt, PCs, OtherMoves
  <2>3. rstat' \in [Reservations -> ReservationStatus]
    BY <1>a, <1>14 DEF CommitBudget, Refund, TypeOK, ReservationStatus
  <2> QED BY <1>a, <1>14, <2>1, <2>2, <2>3 DEF CommitBudget, Refund, Goto, Base, LocalBase, TypeOK
<1>15. ASSUME NEW c \in Callers, NEW a \in Actions, Reconcile(c, a) PROVE Base'
  <2>0. /\ st' = [st EXCEPT ![a] = "RECONCILING"] /\ fresh' = Wrote(c, a)
        /\ pc' = [pc EXCEPT ![c] = "probe"] /\ act' = [act EXCEPT ![c] = a]
        /\ \A d \in Callers \ {c} : sres'[d] = sres[d]
        /\ UNCHANGED attempts
    BY <1>a, <1>15 DEF Reconcile, TypeOK
  <2>1. LocalBase'
    BY <2>0, WriteBase DEF StatesAt, PCs, CallPoints, ActionState, PreDispatch, Leased
  <2>2. recon' \in [Actions -> Nat] /\ lease' \in [Actions -> {"none", "live", "expired"}]
    BY <1>a, <1>15 DEF Reconcile, TypeOK
  <2> QED BY <1>a, <1>15, <2>1, <2>2 DEF Reconcile, Base, LocalBase, TypeOK, ActionState, Leased
<1>16. ASSUME NEW c \in Callers, NEW a \in Actions, Sweep(c, a) PROVE Base'
  <2>0. /\ st' = [st EXCEPT ![a] = "UNKNOWN"] /\ fresh' = Wrote(c, a)
        /\ pc' = [pc EXCEPT ![c] = "reconcile"] /\ act' = [act EXCEPT ![c] = a]
        /\ \A d \in Callers \ {c} : sres'[d] = sres[d]
        /\ UNCHANGED attempts
    BY <1>a, <1>16 DEF Sweep, TypeOK
  <2>1. LocalBase'
    BY <2>0, WriteBase DEF StatesAt, PCs, CallPoints, ActionState, PreDispatch
  <2> QED BY <1>a, <1>16, <2>1 DEF Sweep, Base, LocalBase, TypeOK, ActionState
<1>17. ASSUME NEW c \in Callers, NEW a \in Actions, Retry(c, a) PROVE Base'
  <2>0. /\ st' = [st EXCEPT ![a] = "AUTHORIZED"] /\ fresh' = Wrote(c, a)
        /\ pc' = [pc EXCEPT ![c] = "dispatch"] /\ act' = [act EXCEPT ![c] = a]
        /\ \A d \in Callers \ {c} : sres'[d] = sres[d]
        /\ UNCHANGED attempts /\ attempts[a] < MaxAttempts
    BY <1>a, <1>17 DEF Retry, TypeOK
  <2>1. LocalBase'
    BY <2>0, WriteBase DEF StatesAt, PCs, CallPoints, ActionState, PreDispatch
  <2> QED BY <1>a, <1>17, <2>1 DEF Retry, Base, LocalBase, TypeOK, ActionState, PreDispatch
<1>18. ASSUME UNCHANGED <<st, attempts, pc, fresh, localVars>>, TypeOK' PROVE Base'
  BY <1>18 DEF Base, LocalOK, Knows, AttemptsLeft
<1>19. CASE WorldNext
  <2>1. UNCHANGED <<st, attempts, pc, fresh, localVars>>
    BY <1>19 DEF WorldNext, Decide, LeaseExpires, ActionExpires, ReservationExpires
  <2>2. ASSUME NEW a \in Actions, Decide(a) PROVE TypeOK'
    BY <1>a, <2>2 DEF Decide, TypeOK, Approval
  <2>3. ASSUME NEW a \in Actions, LeaseExpires(a) PROVE TypeOK'
    BY <1>a, <2>3 DEF LeaseExpires, TypeOK
  <2>4. ASSUME NEW a \in Actions, ActionExpires(a) PROVE TypeOK'
    BY <1>a, <2>4 DEF ActionExpires, TypeOK
  <2>5. ASSUME NEW n \in Reservations, ReservationExpires(n) PROVE TypeOK'
    BY <1>a, <2>5 DEF ReservationExpires, TypeOK
  <2> QED BY <1>18, <1>19, <2>1, <2>2, <2>3, <2>4, <2>5 DEF WorldNext
<1>20. CASE UNCHANGED vars
  BY <1>a, <1>18, <1>20 DEF vars, TypeOK
<1>21. ASSUME NEW c \in Callers, CallerNext(c) PROVE Base'
  BY <1>21, <1>1, <1>2, <1>3, <1>4, <1>5, <1>6, <1>7, <1>8, <1>9, <1>10, <1>11, <1>12, <1>13, <1>14, <1>15, <1>16, <1>17
  DEF CallerNext, CallerStep, MoveStep, CallStep, Begin, MoveLost, Crash
<1> QED
  BY <1>19, <1>20, <1>21 DEF Next

\* TypeOK holds in every reachable state: no state outside the table, no more
\* than MaxAttempts dispatches of an action.
THEOREM TypeCorrect == Spec => []TypeOK
<1>1. Spec => []Base
  BY InitBase, NextBase, PTL DEF Spec
<1> QED BY <1>1, PTL DEF Base

-----------------------------------------------------------------------------
(* What one step may do to each part of the state. *)

\* A step of one call leaves the others where they are.
LEMMA OthersKeep ==
    ASSUME Base, NEW c \in Callers, CallerNext(c), NEW d \in Callers \ {c}
    PROVE  pc'[d] = pc[d] /\ act'[d] = act[d] /\ sres'[d] = sres[d]
<1> USE DEF localVars, Base, TypeOK
<1>1. ASSUME NEW p, Goto(c, p) PROVE pc'[d] = pc[d] /\ act'[d] = act[d] /\ sres'[d] = sres[d]
  BY <1>1 DEF Goto
<1>2. CASE Leave(c)
  BY <1>2 DEF Leave
<1>3. ASSUME NEW a, NEW p, Read(c, a, p) PROVE pc'[d] = pc[d] /\ act'[d] = act[d] /\ sres'[d] = sres[d]
  BY <1>3 DEF Read
<1>4. ASSUME NEW to, NEW p, CAS(c, to, p) PROVE pc'[d] = pc[d] /\ act'[d] = act[d] /\ sres'[d] = sres[d]
  BY <1>4 DEF CAS
<1>5. CASE MoveStep(c)
  BY <1>2, <1>4, <1>5
  DEF MoveStep, PlainMove, MoveLost, ToReserved, ToDispatching, ToCompleted, ToUnknown, ToFailed, ToNeedsHuman, Annotate
<1>6. CASE CallStep(c)
  <2>1. CASE Reserve(c)
    BY ZenonT(40), <1>1, <2>1 DEF Reserve
  <2>2. CASE Route(c) \/ ReleaseBudget(c) \/ Settle(c) \/ Preflight(c)
    BY <1>1, <1>2, <2>2 DEF Route, ReleaseBudget, Settle, Preflight
  <2>3. CASE Execute(c) \/ Observe(c) \/ CommitBudget(c) \/ Probe(c) \/ ApplyCompensation(c) \/ Refund(c)
    BY <1>1, <2>3 DEF Execute, Observe, CommitBudget, Probe, ApplyCompensation, Refund
  <2> QED BY <1>6, <2>1, <2>2, <2>3 DEF CallStep
<1>7. ASSUME NEW a \in Actions, Begin(c, a) PROVE pc'[d] = pc[d] /\ act'[d] = act[d] /\ sres'[d] = sres[d]
  <2>1. CASE Propose(c, a) \/ Cancel(c, a) \/ Expire(c, a) \/ Dispatch(c, a) \/ Compensate(c, a)
    BY <1>3, <2>1 DEF Propose, Cancel, Expire, Dispatch, Compensate
  <2>2. CASE Reconcile(c, a) \/ Sweep(c, a) \/ Retry(c, a)
    BY <2>2 DEF Reconcile, Sweep, Retry
  <2> QED BY <1>7, <2>1, <2>2 DEF Begin
<1> QED
  BY <1>2, <1>5, <1>6, <1>7 DEF CallerNext, CallerStep, Crash

\* The state of an action moves along the table of its transitions, by one
\* compare-and-set at a time.
LEMMA StateSteps ==
    ASSUME Base, [Next]_vars, NEW a \in Actions
    PROVE  \/ st'[a] = st[a]
           \/ st[a] = "none" /\ st'[a] = "PROPOSED"
           \/ st'[a] \in Edges(st[a])
<1> USE DEF requestVars, budgetVars, worldVars, localVars, storeVars
<1>1. ASSUME NEW c \in Callers, NEW to, NEW p, pc[c] # "idle", CAS(c, to, p), st[act[c]] \in StatesAt(pc[c]) => to \in Edges(st[act[c]])
      PROVE  st'[a] = st[a] \/ st'[a] \in Edges(st[a])
  BY <1>1 DEF CAS, Base, TypeOK, LocalOK, Knows
<1>2. ASSUME NEW c \in Callers, PlainMove(c) PROVE st'[a] = st[a] \/ st'[a] \in Edges(st[a])
  BY <1>1, <1>2, MoveEdges, PlainMovesAre DEF PlainMove
<1>3. ASSUME NEW c \in Callers, ToReserved(c) \/ ToDispatching(c) \/ ToCompleted(c) \/ ToUnknown(c) \/ ToFailed(c) \/ ToNeedsHuman(c)
      PROVE  st'[a] = st[a] \/ st'[a] \in Edges(st[a])
  BY <1>1, <1>3
  DEF ToReserved, ToDispatching, ToCompleted, ToUnknown, ToFailed, ToNeedsHuman, StatesAt, Edges, ActionState,
      PreDispatch, Leased, Terminal
<1>4. ASSUME NEW c \in Callers, Annotate(c) PROVE st'[a] = st[a]
  BY <1>4 DEF Annotate, CAS, Base, TypeOK, LocalOK
<1>5. ASSUME NEW c \in Callers, MoveLost(c) \/ CallStep(c) \/ Crash(c) PROVE st'[a] = st[a]
  BY <1>5
  DEF MoveLost, Crash, CallStep, Route, ReleaseBudget, Settle, Preflight, Reserve, Execute, Observe, CommitBudget, Probe,
      ApplyCompensation, Refund
<1>6. ASSUME NEW c \in Callers, NEW b \in Actions, Begin(c, b)
      PROVE  st'[a] = st[a] \/ (st[a] = "none" /\ st'[a] = "PROPOSED") \/ st'[a] \in Edges(st[a])
  <2>1. CASE Propose(c, b)
    BY <2>1 DEF Propose, Base, TypeOK
  <2>2. CASE Cancel(c, b) \/ Expire(c, b) \/ Dispatch(c, b) \/ Compensate(c, b)
    BY <2>2 DEF Cancel, Expire, Dispatch, Compensate
  <2>3. CASE Reconcile(c, b) \/ Sweep(c, b) \/ Retry(c, b)
    BY <2>3 DEF Reconcile, Sweep, Retry, Base, TypeOK, Edges, ActionState, PreDispatch, Leased
  <2> QED BY <1>6, <2>1, <2>2, <2>3 DEF Begin
<1>7. CASE WorldNext \/ UNCHANGED vars
  BY <1>7 DEF WorldNext, Decide, LeaseExpires, ActionExpires, ReservationExpires, vars
<1> QED
  BY <1>2, <1>3, <1>4, <1>5, <1>6, <1>7 DEF Next, CallerNext, CallerStep, MoveStep

\* An effect is made by execute, undone by a compensation, and never
\* disappears from the provider's records.
LEMMA ProviderSteps ==
    ASSUME Base, [Next]_vars, NEW a \in Actions
    PROVE  \/ provider'[a] = provider[a]
           \/ /\ provider[a] = "absent" /\ provider'[a] = "applied"
              /\ \E c \in Callers : pc[c] = "execute" /\ act[c] = a
           \/ /\ provider'[a] = "compensated"
              /\ \E c \in Callers : pc[c] = "compensate" /\ act[c] = a
<1> USE DEF requestVars, budgetVars, worldVars, localVars, storeVars
<1>1. ASSUME NEW c \in Callers, Execute(c) \/ ApplyCompensation(c)
      PROVE  \/ provider'[a] = provider[a]
             \/ /\ provider[a] = "absent" /\ provider'[a] = "applied" /\ pc[c] = "execute" /\ act[c] = a
             \/ provider'[a] = "compensated" /\ pc[c] = "compensate" /\ act[c] = a
  BY <1>1 DEF Execute, ApplyCompensation, Base, TypeOK
<1>2. ASSUME NEW c \in Callers, MoveStep(c) \/ Crash(c) PROVE UNCHANGED provider
  BY <1>2
  DEF MoveStep, PlainMove, MoveLost, ToReserved, ToDispatching, ToCompleted, ToUnknown, ToFailed, ToNeedsHuman, Annotate, Crash
<1>3. ASSUME NEW c \in Callers, CallStep(c), ~Execute(c), ~ApplyCompensation(c) PROVE UNCHANGED provider
  BY <1>3
  DEF CallStep, Route, ReleaseBudget, Settle, Preflight, Reserve, Observe, CommitBudget, Probe, Refund
<1>4. ASSUME NEW c \in Callers, NEW b \in Actions, Begin(c, b) PROVE UNCHANGED provider
  BY <1>4 DEF Begin, Propose, Cancel, Expire, Dispatch, Compensate, Reconcile, Sweep, Retry
<1>5. CASE WorldNext \/ UNCHANGED vars
  BY <1>5 DEF WorldNext, Decide, LeaseExpires, ActionExpires, ReservationExpires, vars
<1> QED
  BY <1>1, <1>2, <1>3, <1>4, <1>5 DEF Next, CallerNext, CallerStep

\* An approval is opened by the proposer and decided or staled while pending;
\* a decided one never changes.
LEMMA ApprovalSteps ==
    ASSUME Base, [Next]_vars, NEW a \in Actions
    PROVE  \/ approval'[a] = approval[a]
           \/ approval[a] = "pending"
           \/ a \in ApprovalActions /\ \E c \in Callers : pc[c] = "route" /\ act[c] = a /\ pc'[c] = "toAwaiting"
<1> USE DEF requestVars, budgetVars, worldVars, localVars, storeVars
<1>1. ASSUME NEW c \in Callers, Route(c)
      PROVE  \/ approval'[a] = approval[a]
             \/ a \in ApprovalActions /\ pc[c] = "route" /\ act[c] = a /\ pc'[c] = "toAwaiting"
  BY <1>1 DEF Route, Goto, Base, TypeOK
<1>2. ASSUME NEW c \in Callers, PlainMove(c) PROVE approval'[a] = approval[a] \/ approval[a] = "pending"
  BY <1>2 DEF PlainMove, StaleOpen, Base, TypeOK
<1>3. ASSUME NEW c \in Callers, MoveStep(c) \/ Crash(c), ~PlainMove(c) PROVE UNCHANGED approval
  BY <1>3
  DEF MoveStep, MoveLost, ToReserved, ToDispatching, ToCompleted, ToUnknown, ToFailed, ToNeedsHuman, Annotate, Crash
<1>4. ASSUME NEW c \in Callers, CallStep(c), ~Route(c) PROVE UNCHANGED approval
  BY <1>4
  DEF CallStep, ReleaseBudget, Settle, Preflight, Reserve, Execute, Observe, CommitBudget, Probe, ApplyCompensation, Refund
<1>5. ASSUME NEW c \in Callers, NEW b \in Actions, Begin(c, b) PROVE UNCHANGED approval
  BY <1>5 DEF Begin, Propose, Cancel, Expire, Dispatch, Compensate, Reconcile, Sweep, Retry
<1>6. ASSUME NEW b \in Actions, Decide(b) PROVE approval'[a] = approval[a] \/ approval[a] = "pending"
  BY <1>6 DEF Decide, Base, TypeOK
<1>7. CASE (WorldNext /\ ~\E b \in Actions : Decide(b)) \/ UNCHANGED vars
  BY <1>7 DEF WorldNext, LeaseExpires, ActionExpires, ReservationExpires, vars
<1> QED
  BY <1>1, <1>2, <1>3, <1>4, <1>5, <1>6, <1>7 DEF Next, CallerNext, CallerStep, WorldNext

\* A reservation is made once, ends once, and is committed or refunded by the
\* call that holds it only.
LEMMA BudgetSteps ==
    ASSUME Base, [Next]_vars, NEW n \in Reservations
    PROVE  \/ rstat'[n] = rstat[n] /\ ract'[n] = ract[n]
           \/ /\ rstat[n] = "none" /\ rstat'[n] = "RESERVED"
              /\ \E c \in Callers : Reserve(c) /\ pc[c] = "reserve" /\ ract'[n] = act[c]
           \/ rstat[n] = "RESERVED" /\ rstat'[n] \in {"RELEASED", "EXPIRED"} /\ ract'[n] = ract[n]
           \/ /\ rstat[n] = "RESERVED" /\ rstat'[n] = "COMMITTED" /\ ract'[n] = ract[n]
              /\ \E c \in Callers : pc[c] = "commitBudget" /\ sres[c] = n /\ CommitBudget(c)
           \/ /\ rstat[n] = "COMMITTED" /\ rstat'[n] = "REFUNDED" /\ ract'[n] = ract[n]
              /\ \E c \in Callers : pc[c] = "refund" /\ sres[c] = n
<1> USE DEF requestVars, budgetVars, worldVars, localVars, storeVars
<1>1. ASSUME NEW c \in Callers, ReleaseBudget(c)
      PROVE  /\ ract'[n] = ract[n]
             /\ rstat'[n] = rstat[n] \/ (rstat[n] = "RESERVED" /\ rstat'[n] \in {"RELEASED", "EXPIRED"})
  BY <1>1, ReleaseStates DEF ReleaseBudget, Base, TypeOK
<1>2. ASSUME NEW c \in Callers, CommitBudget(c)
      PROVE  /\ ract'[n] = ract[n]
             /\ rstat'[n] = rstat[n] \/ (rstat[n] = "RESERVED" /\ rstat'[n] = "COMMITTED" /\ sres[c] = n /\ pc[c] = "commitBudget")
  BY <1>2 DEF CommitBudget, Base, TypeOK
<1>3. ASSUME NEW c \in Callers, Refund(c)
      PROVE  /\ ract'[n] = ract[n]
             /\ rstat'[n] = rstat[n] \/ (rstat[n] = "COMMITTED" /\ rstat'[n] = "REFUNDED" /\ sres[c] = n /\ pc[c] = "refund")
  BY <1>3 DEF Refund, Base, TypeOK
<1>4. ASSUME NEW c \in Callers, Reserve(c)
      PROVE  \/ rstat'[n] = rstat[n] /\ ract'[n] = ract[n]
             \/ rstat[n] = "none" /\ rstat'[n] = "RESERVED" /\ pc[c] = "reserve" /\ ract'[n] = act[c]
             \/ rstat[n] = "RESERVED" /\ rstat'[n] = "EXPIRED" /\ ract'[n] = ract[n]
  <2> DEFINE swept == [m \in Reservations |-> IF rstat[m] = "RESERVED" /\ rdue[m] THEN "EXPIRED" ELSE rstat[m]]
  <2>1. CASE UNCHANGED <<ract, rstat>>
    BY <2>1
  <2>2. ASSUME NEW m \in Reservations, rstat[m] = "none", rstat' = [swept EXCEPT ![m] = "RESERVED"],
               ract' = [ract EXCEPT ![m] = act[c]]
        PROVE  \/ rstat'[n] = rstat[n] /\ ract'[n] = ract[n]
               \/ rstat[n] = "none" /\ rstat'[n] = "RESERVED" /\ ract'[n] = act[c]
               \/ rstat[n] = "RESERVED" /\ rstat'[n] = "EXPIRED" /\ ract'[n] = ract[n]
    BY <2>2 DEF Base, TypeOK
  <2> QED BY <1>4, <2>1, <2>2 DEF Reserve
<1>5. ASSUME NEW c \in Callers, MoveStep(c) \/ Crash(c) PROVE UNCHANGED <<rstat, ract>>
  BY <1>5
  DEF MoveStep, PlainMove, MoveLost, ToReserved, ToDispatching, ToCompleted, ToUnknown, ToFailed, ToNeedsHuman, Annotate, Crash
<1>6. ASSUME NEW c \in Callers, CallStep(c), ~ReleaseBudget(c), ~CommitBudget(c), ~Refund(c), ~Reserve(c)
      PROVE  UNCHANGED <<rstat, ract>>
  BY <1>6 DEF CallStep, Route, Settle, Preflight, Execute, Observe, Probe, ApplyCompensation
<1>7. ASSUME NEW c \in Callers, NEW b \in Actions, Begin(c, b) PROVE UNCHANGED <<rstat, ract>>
  BY <1>7 DEF Begin, Propose, Cancel, Expire, Dispatch, Compensate, Reconcile, Sweep, Retry
<1>8. CASE WorldNext \/ UNCHANGED vars
  BY <1>8 DEF WorldNext, Decide, LeaseExpires, ActionExpires, ReservationExpires, vars
<1> QED
  BY <1>1, <1>2, <1>3, <1>4, <1>5, <1>6, <1>7, <1>8 DEF Next, CallerNext, CallerStep

\* Where a step of a call arrives, and from where.
Arrives(c) ==
    /\ pc'[c] = "execute" => /\ pc[c] = "toDispatching" /\ act'[c] = act[c]
                             /\ attempts'[act[c]] = attempts[act[c]] + 1
    /\ pc'[c] = "toVerified" => pc[c] \in {"observe", "probe"} /\ act'[c] = act[c] /\ provider[act[c]] = "applied"
    /\ pc'[c] = "commitBudget" => /\ pc[c] = "toVerified" /\ act'[c] = act[c] /\ fresh[c]
                                  /\ st'[act[c]] = "VERIFIED"
    /\ pc'[c] = "toCompleted" => pc[c] = "commitBudget" /\ act'[c] = act[c]
    /\ pc'[c] = "compensate" => st[act'[c]] = "COMPLETED"
    /\ pc'[c] = "refund" => pc[c] = "compensate" /\ act'[c] = act[c] /\ provider'[act[c]] = "compensated"
    /\ pc'[c] = "toValidated" => st[act'[c]] = "none"
    /\ pc'[c] = "toPrepared" => pc[c] = "toValidated" /\ act'[c] = act[c]
    /\ pc'[c] = "route" => pc[c] = "toPrepared" /\ act'[c] = act[c]
    /\ pc'[c] = "toReserved" => pc[c] = "reserve" /\ act'[c] = act[c]
    /\ pc'[c] \in {"reserve", "toDispatching"} =>
          /\ act'[c] = act[c]
          /\ \/ pc[c] = "toReserved"
             \/ pc[c] \in {"preflight", "preflightReserved"} /\ (act[c] \in ApprovalActions => approval[act[c]] = "approved")

\* Where a caller comes from: the guarded points are reached only through
\* their guards.
LEMMA Arrivals ==
    ASSUME Base, NEW c \in Callers, CallerNext(c)
    PROVE  Arrives(c)
<1> USE DEF localVars, requestVars, budgetVars, worldVars, storeVars
<1>a. TypeOK /\ LocalOK
  BY DEF Base
<1>1. CASE pc'[c] = "idle"
  BY <1>1 DEF Arrives
<1>2. ASSUME NEW p, Goto(c, p) PROVE pc'[c] = p /\ act'[c] = act[c]
  BY <1>a, <1>2 DEF Goto, TypeOK
<1>3. ASSUME Leave(c) PROVE pc'[c] = "idle"
  BY <1>a, <1>3 DEF Leave, TypeOK
<1>4. ASSUME NEW a \in Actions, NEW p, Read(c, a, p) PROVE pc'[c] = p /\ act'[c] = a
  BY <1>a, <1>4 DEF Read, TypeOK
<1>5. ASSUME NEW to, NEW p, pc[c] # "idle", CAS(c, to, p)
      PROVE  /\ pc'[c] = p /\ fresh[c] /\ st'[act[c]] = to
             /\ p # "idle" => act'[c] = act[c]
  BY <1>a, <1>5 DEF CAS, TypeOK, LocalOK
<1>6. CASE PlainMove(c)
  <2>1. PICK p \in PlainMoves : p = pc[c] /\ CAS(c, Move[p].to, Move[p].then)
    BY <1>6 DEF PlainMove
  <2>2. pc'[c] = Move[p].then /\ fresh[c] /\ st'[act[c]] = Move[p].to
        /\ (Move[p].then # "idle" => act'[c] = act[c])
    BY <1>5, <2>1, PlainMovesAre
  <2>3. Move[p].then \in {"idle", "toPrepared", "route", "preflight", "observe", "commitBudget"}
    BY PlainMovesAre DEF Move
  <2>4. /\ Move[p].then = "toPrepared" => p = "toValidated"
        /\ Move[p].then = "route" => p = "toPrepared"
        /\ Move[p].then = "commitBudget" => p = "toVerified" /\ Move[p].to = "VERIFIED"
    BY PlainMovesAre DEF Move
  <2> QED BY <2>1, <2>2, <2>3, <2>4 DEF Arrives
<1>7. CASE ToReserved(c)
  BY <1>5, <1>7 DEF ToReserved, Arrives
<1>8. CASE ToDispatching(c)
  <2>1. pc'[c] = "execute" /\ pc[c] = "toDispatching" /\ act'[c] = act[c]
    BY <1>5, <1>8 DEF ToDispatching
  <2>2. attempts'[act[c]] = attempts[act[c]] + 1
    BY <1>a, <1>8 DEF ToDispatching, TypeOK, LocalOK
  <2> QED BY <2>1, <2>2 DEF Arrives
<1>9. CASE ToCompleted(c) \/ ToUnknown(c) \/ ToFailed(c) \/ ToNeedsHuman(c) \/ Annotate(c) \/ MoveLost(c) \/ Crash(c)
  <2>1. pc'[c] = "idle"
    <3>1. CASE MoveLost(c) \/ Crash(c)
      BY <1>3, <3>1 DEF MoveLost, Crash
    <3>2. ASSUME NEW to, CAS(c, to, "idle"), pc[c] # "idle" PROVE pc'[c] = "idle"
      BY <1>5, <3>2
    <3> QED BY <1>9, <3>1, <3>2 DEF ToCompleted, ToUnknown, ToFailed, ToNeedsHuman, Annotate
  <2> QED BY <1>1, <2>1
<1>10. CASE Route(c)
  BY <1>2, <1>10 DEF Route, Arrives
<1>11. CASE ReleaseBudget(c)
  <2>1. PICK p \in ReleasePoints : p = pc[c] /\ Goto(c, Release[p].then)
    BY <1>11 DEF ReleaseBudget
  <2>2. Release[p].then \in {"toCancelled", "toExpired", "toBlocked", "failNoEffect", "failPermanent"}
    BY ReleasePointsAre DEF Release
  <2> QED BY <1>2, <2>1, <2>2 DEF Arrives
<1>12. CASE Settle(c)
  BY <1>2, <1>3, <1>12 DEF Settle, Arrives
<1>13. CASE Preflight(c)
  BY <1>2, <1>3, <1>13 DEF Preflight, Arrives, Satisfied
<1>14. CASE Reserve(c)
  <2>1. pc[c] = "reserve" /\ act'[c] = act[c] /\ pc'[c] \in {"toBlocked", "toReserved"}
    BY <1>2, <1>a, <1>14 DEF Reserve, TypeOK
  <2> QED BY <2>1 DEF Arrives
<1>15. CASE Execute(c)
  BY <1>2, <1>15 DEF Execute, Arrives
<1>16. CASE Observe(c) \/ Probe(c)
  BY <1>2, <1>16 DEF Observe, Probe, Arrives
<1>17. CASE CommitBudget(c)
  BY <1>2, <1>17 DEF CommitBudget, Arrives
<1>18. CASE ApplyCompensation(c)
  <2>1. PICK p \in {"refund", "annotate"} :
           Goto(c, p) /\ pc[c] = "compensate" /\ (p = "refund" => provider' = [provider EXCEPT ![act[c]] = "compensated"])
    BY <1>18 DEF ApplyCompensation
  <2>2. act[c] \in Actions
    BY <1>a, <2>1 DEF LocalOK
  <2> QED BY <1>2, <1>a, <2>1, <2>2 DEF Arrives, TypeOK
<1>19. CASE Refund(c)
  BY <1>2, <1>19 DEF Refund, Arrives
<1>20. ASSUME NEW a \in Actions, Begin(c, a) PROVE Arrives(c)
  <2>1. CASE Reconcile(c, a) \/ Sweep(c, a) \/ Retry(c, a)
    <3>1. pc'[c] \in {"probe", "reconcile", "dispatch"}
      BY <1>a, <2>1 DEF Reconcile, Sweep, Retry, TypeOK
    <3> QED BY <3>1 DEF Arrives
  <2>2. CASE Propose(c, a) \/ Compensate(c, a)
    BY <1>4, <2>2 DEF Propose, Compensate, Arrives
  <2>3. CASE Cancel(c, a) \/ Expire(c, a) \/ Dispatch(c, a)
    BY <1>4, <2>3 DEF Cancel, Expire, Dispatch, Arrives
  <2> QED BY <1>20, <2>1, <2>2, <2>3 DEF Begin
<1> QED
  BY <1>6, <1>7, <1>8, <1>9, <1>10, <1>11, <1>12, <1>13, <1>14, <1>15, <1>16, <1>17, <1>18, <1>19, <1>20
  DEF CallerNext, CallerStep, MoveStep, CallStep

\* Who verifies an action goes on to commit its budget.
LEMMA VerifiedBy ==
    ASSUME Base, [Next]_vars, NEW a \in Actions, st[a] # "VERIFIED", st'[a] = "VERIFIED"
    PROVE  \E c \in Callers : pc[c] = "toVerified" /\ act[c] = a /\ pc'[c] = "commitBudget" /\ fresh[c]
<1> USE DEF requestVars, budgetVars, worldVars, localVars, storeVars
<1>1. ASSUME NEW c \in Callers, PlainMove(c)
      PROVE  pc[c] = "toVerified" /\ act[c] = a /\ pc'[c] = "commitBudget" /\ fresh[c]
  <2>1. PICK p \in PlainMoves : p = pc[c] /\ CAS(c, Move[p].to, Move[p].then)
    BY <1>1 DEF PlainMove
  <2>2. act[c] = a /\ Move[p].to = "VERIFIED" /\ fresh[c]
    BY <2>1 DEF CAS, Base, TypeOK
  <2>3. p = "toVerified" /\ Move[p].then = "commitBudget"
    BY <2>2, PlainMovesAre DEF Move
  <2> QED BY <2>1, <2>2, <2>3 DEF CAS, Base, TypeOK
<1>2. ASSUME NEW c \in Callers, NEW to, NEW p, to # "VERIFIED", CAS(c, to, p) PROVE FALSE
  BY <1>2 DEF CAS, Base, TypeOK
<1>3. ASSUME NEW c \in Callers, MoveStep(c), ~PlainMove(c) PROVE FALSE
  <2>1. CASE Annotate(c)
    BY <2>1 DEF Annotate, CAS, Base, TypeOK, LocalOK
  <2> QED BY <1>2, <1>3, <2>1
    DEF MoveStep, MoveLost, ToReserved, ToDispatching, ToCompleted, ToUnknown, ToFailed, ToNeedsHuman
<1>4. ASSUME NEW c \in Callers, CallStep(c) \/ Crash(c) PROVE FALSE
  BY <1>4
  DEF Crash, CallStep, Route, ReleaseBudget, Settle, Preflight, Reserve, Execute, Observe, CommitBudget, Probe,
      ApplyCompensation, Refund
<1>5. ASSUME NEW c \in Callers, NEW b \in Actions, Begin(c, b) PROVE FALSE
  BY <1>5 DEF Begin, Propose, Cancel, Expire, Dispatch, Compensate, Reconcile, Sweep, Retry, Base, TypeOK
<1>6. CASE WorldNext \/ UNCHANGED vars
  BY <1>6 DEF WorldNext, Decide, LeaseExpires, ActionExpires, ReservationExpires, vars
<1> QED
  BY <1>1, <1>3, <1>4, <1>5, <1>6 DEF Next, CallerNext, CallerStep

\* Dispatches are counted, one at a time, by the compare-and-set before execute.
LEMMA AttemptSteps ==
    ASSUME Base, [Next]_vars, NEW a \in Actions
    PROVE  \/ attempts'[a] = attempts[a]
           \/ /\ attempts'[a] = attempts[a] + 1 /\ st'[a] = "DISPATCHING"
              /\ \E c \in Callers : ToDispatching(c) /\ act[c] = a
<1> USE DEF requestVars, budgetVars, worldVars, localVars, storeVars
<1>1. ASSUME NEW c \in Callers, ToDispatching(c)
      PROVE  \/ attempts'[a] = attempts[a]
             \/ attempts'[a] = attempts[a] + 1 /\ st'[a] = "DISPATCHING" /\ act[c] = a
  BY <1>1 DEF ToDispatching, CAS, Base, TypeOK
<1>2. ASSUME NEW c \in Callers, MoveStep(c) \/ Crash(c), ~ToDispatching(c) PROVE UNCHANGED attempts
  BY <1>2 DEF MoveStep, PlainMove, MoveLost, ToReserved, ToCompleted, ToUnknown, ToFailed, ToNeedsHuman, Annotate, Crash
<1>3. ASSUME NEW c \in Callers, CallStep(c) PROVE UNCHANGED attempts
  BY <1>3
  DEF CallStep, Route, ReleaseBudget, Settle, Preflight, Reserve, Execute, Observe, CommitBudget, Probe,
      ApplyCompensation, Refund
<1>4. ASSUME NEW c \in Callers, NEW b \in Actions, Begin(c, b) PROVE UNCHANGED attempts
  BY <1>4 DEF Begin, Propose, Cancel, Expire, Dispatch, Compensate, Reconcile, Sweep, Retry
<1>5. CASE WorldNext \/ UNCHANGED vars
  BY <1>5 DEF WorldNext, Decide, LeaseExpires, ActionExpires, ReservationExpires, vars
<1> QED
  BY <1>1, <1>2, <1>3, <1>4, <1>5 DEF Next, CallerNext, CallerStep

\* A step of nobody's call leaves every call where it is.
LEMMA CallsStay ==
    ASSUME WorldNext \/ UNCHANGED vars
    PROVE  UNCHANGED <<pc, act, sres, fresh, st, attempts, resv, provider>>
  BY DEF WorldNext, Decide, LeaseExpires, ActionExpires, ReservationExpires, vars, requestVars, worldVars, localVars, storeVars

-----------------------------------------------------------------------------
(* Effects: nothing before the first dispatch, and every call past a         *)
(* successful read-back works on an effect that is there.                    *)

Confirmed(c) == pc[c] \in {"toVerified", "commitBudget", "toCompleted", "compensate", "refund"}

Effects ==
    /\ \A c \in Callers : pc[c] = "execute" => attempts[act[c]] > 0
    /\ \A a \in Actions : st[a] \in {"VERIFIED", "COMPLETED"} => provider[a] # "absent"
    /\ \A c \in Callers : Confirmed(c) => provider[act[c]] # "absent"
    /\ \A c \in Callers : pc[c] = "refund" => provider[act[c]] = "compensated"

\* No effect and no refund exist before the first call.
LEMMA InitEffects == Init => Effects
  BY DEF Init, Effects, Confirmed

\* Every step keeps Effects: what a caller confirmed the provider does show.
LEMMA NextEffects == Base /\ Effects /\ [Next]_vars => Effects'
<1> SUFFICES ASSUME Base, Effects, [Next]_vars PROVE Effects'
  OBVIOUS
<1>a. TypeOK /\ LocalOK
  BY DEF Base
<1>1. ASSUME NEW a \in Actions
      PROVE  /\ provider[a] # "absent" => provider'[a] # "absent"
             /\ provider[a] = "compensated" => provider'[a] = "compensated"
             /\ attempts[a] > 0 => attempts'[a] > 0
  BY <1>a, <1>1, ProviderSteps, AttemptSteps DEF TypeOK
<1>2. ASSUME NEW a \in Actions, st'[a] \in {"VERIFIED", "COMPLETED"} PROVE provider'[a] # "absent"
  <2>1. CASE st[a] \in {"VERIFIED", "COMPLETED"}
    BY <1>1, <2>1 DEF Effects
  <2>2. CASE st[a] \notin {"VERIFIED", "COMPLETED"}
    <3>1. st'[a] = "VERIFIED" \/ (st[a] # st'[a] /\ st'[a] \in Edges(st[a]) /\ st'[a] = "COMPLETED")
      BY <1>2, <2>2, StateSteps
    <3>2. st'[a] = "VERIFIED"
      BY <2>2, <3>1 DEF Edges, PreDispatch, Stop
    <3>3. PICK c \in Callers : pc[c] = "toVerified" /\ act[c] = a
      BY <2>2, <3>2, VerifiedBy
    <3> QED BY <1>1, <3>3 DEF Effects, Confirmed
  <2> QED BY <2>1, <2>2
<1>3. ASSUME NEW d \in Callers, pc'[d] = pc[d], act'[d] = act[d]
      PROVE  /\ pc'[d] = "execute" => attempts'[act'[d]] > 0
             /\ Confirmed(d)' => provider'[act'[d]] # "absent"
             /\ pc'[d] = "refund" => provider'[act'[d]] = "compensated"
  BY <1>a, <1>1, <1>3 DEF Effects, Confirmed, LocalOK
<1>4. ASSUME NEW c \in Callers, CallerNext(c)
      PROVE  /\ pc'[c] = "execute" => attempts'[act'[c]] > 0
             /\ Confirmed(c)' => provider'[act'[c]] # "absent"
             /\ pc'[c] = "refund" => provider'[act'[c]] = "compensated"
  <2>1. Arrives(c)
    BY <1>4, Arrivals
  <2>2. pc'[c] = "execute" => attempts'[act'[c]] > 0
    BY <1>a, <2>1 DEF Arrives, TypeOK, LocalOK
  <2>3. pc'[c] = "refund" => provider'[act'[c]] = "compensated"
    BY <2>1 DEF Arrives
  <2>4. CASE pc'[c] = "toVerified"
    BY <1>a, <1>1, <2>1, <2>4 DEF Arrives, LocalOK
  <2>5. CASE pc'[c] \in {"commitBudget", "toCompleted"}
    BY <1>a, <1>1, <2>1, <2>5 DEF Arrives, LocalOK, Effects, Confirmed
  <2>6. CASE pc'[c] = "compensate"
    <3>1. act'[c] \in Actions
      BY <2>6, NextBase DEF Base, LocalOK
    <3> QED BY <1>1, <2>1, <2>6, <3>1 DEF Arrives, Effects
  <2> QED BY <2>2, <2>3, <2>4, <2>5, <2>6 DEF Confirmed
<1>5. ASSUME NEW d \in Callers
      PROVE  /\ pc'[d] = "execute" => attempts'[act'[d]] > 0
             /\ Confirmed(d)' => provider'[act'[d]] # "absent"
             /\ pc'[d] = "refund" => provider'[act'[d]] = "compensated"
  <2>1. CASE WorldNext \/ UNCHANGED vars
    BY <1>3, <2>1, CallsStay
  <2>2. ASSUME NEW c \in Callers, CallerNext(c)
        PROVE  (d # c => pc'[d] = pc[d] /\ act'[d] = act[d])
    BY <2>2, OthersKeep
  <2> QED BY <1>3, <1>4, <2>1, <2>2 DEF Next
<1> QED
  BY <1>2, <1>5 DEF Effects, Confirmed

\* Effects is an invariant of the gateway.
LEMMA EffectsHold == Spec => [](Base /\ Effects)
  BY InitBase, NextBase, InitEffects, NextEffects, PTL DEF Spec

-----------------------------------------------------------------------------
(* The refinement: the gateway implements ActionLifecycle.                   *)

\* What ActionLifecycle allows a state to become.
LEMMA EdgesMeet == ASSUME NEW s PROVE Lifecycle!Edges(s) = Edges(s)
  BY DEF Edges, Lifecycle!Edges, Lifecycle!Stop, Stop, Lifecycle!ActionState, ActionState,
         Lifecycle!PreDispatch, PreDispatch, Lifecycle!Leased, Leased, Lifecycle!Terminal, Terminal

\* One step of the gateway writes the state of at most one action.
LEMMA OneState ==
    ASSUME Base, [Next]_vars
    PROVE  \/ UNCHANGED st /\ UNCHANGED attempts
           \/ \E a \in Actions : \E to \in ActionState :
                 /\ st' = [st EXCEPT ![a] = to] /\ UNCHANGED provider
                 /\ \/ UNCHANGED attempts /\ (to = "DISPATCHING" => st[a] = to)
                    \/ to = "DISPATCHING" /\ st[a] # to /\ attempts' = [attempts EXCEPT ![a] = @ + 1]
<1> USE DEF requestVars, budgetVars, worldVars, localVars, storeVars
<1> DEFINE Goal ==
      \/ UNCHANGED st /\ UNCHANGED attempts
      \/ \E a \in Actions : \E to \in ActionState :
            /\ st' = [st EXCEPT ![a] = to] /\ UNCHANGED provider
            /\ \/ UNCHANGED attempts /\ (to = "DISPATCHING" => st[a] = to)
               \/ to = "DISPATCHING" /\ st[a] # to /\ attempts' = [attempts EXCEPT ![a] = @ + 1]
<1>1. ASSUME NEW c \in Callers, PlainMove(c) PROVE Goal
  <2>1. PICK p \in PlainMoves : p = pc[c] /\ CAS(c, Move[p].to, Move[p].then)
    BY <1>1 DEF PlainMove
  <2>2. act[c] \in Actions /\ st' = [st EXCEPT ![act[c]] = Move[p].to] /\ UNCHANGED <<attempts, provider>>
    BY <1>1, <2>1, PlainMovesAre DEF PlainMove, CAS, Base, LocalOK
  <2>3. Move[p].to \in ActionState /\ Move[p].to # "DISPATCHING"
    BY MoveStates
  <2> QED BY <2>2, <2>3
<1>2. ASSUME NEW c \in Callers, ToDispatching(c) PROVE Goal
  <2>1. /\ act[c] \in Actions /\ st' = [st EXCEPT ![act[c]] = "DISPATCHING"] /\ UNCHANGED provider
        /\ attempts' = [attempts EXCEPT ![act[c]] = @ + 1]
        /\ st[act[c]] # "DISPATCHING"
    BY <1>2 DEF ToDispatching, CAS, Base, LocalOK, Knows, StatesAt, PreDispatch
  <2>2. "DISPATCHING" \in ActionState
    BY DEF ActionState, Leased
  <2>3. \E to \in ActionState :
           /\ st' = [st EXCEPT ![act[c]] = to] /\ UNCHANGED provider
           /\ to = "DISPATCHING" /\ st[act[c]] # to /\ attempts' = [attempts EXCEPT ![act[c]] = @ + 1]
    BY <2>1, <2>2
  <2> QED BY <2>1, <2>3
<1>3. ASSUME NEW c \in Callers, ToReserved(c) \/ ToCompleted(c) \/ ToUnknown(c) \/ ToFailed(c) \/ ToNeedsHuman(c) PROVE Goal
  <2>1. PICK to \in {"RESERVED", "COMPLETED", "UNKNOWN", "FAILED", "NEEDS_HUMAN"} :
           act[c] \in Actions /\ st' = [st EXCEPT ![act[c]] = to] /\ UNCHANGED <<attempts, provider>>
    BY <1>3 DEF ToReserved, ToCompleted, ToUnknown, ToFailed, ToNeedsHuman, CAS, Base, LocalOK
  <2>2. to \in ActionState
    BY <2>1 DEF ActionState, PreDispatch, Terminal
  <2> QED BY <2>1, <2>2
<1>4. ASSUME NEW c \in Callers, Annotate(c) PROVE Goal
  BY <1>4 DEF Annotate, CAS, Base, TypeOK, LocalOK
<1>5. ASSUME NEW c \in Callers, CallStep(c) \/ Crash(c) \/ MoveLost(c) PROVE Goal
  BY <1>5
  DEF MoveLost, Crash, CallStep, Route, ReleaseBudget, Settle, Preflight, Reserve, Execute, Observe, CommitBudget, Probe,
      ApplyCompensation, Refund
<1>6. ASSUME NEW c \in Callers, NEW a \in Actions, Begin(c, a) PROVE Goal
  <2>1. CASE Propose(c, a) \/ Reconcile(c, a) \/ Sweep(c, a) \/ Retry(c, a)
    <3>1. PICK to \in {"PROPOSED", "RECONCILING", "UNKNOWN", "AUTHORIZED"} :
             st' = [st EXCEPT ![a] = to] /\ UNCHANGED <<attempts, provider>>
      BY <2>1 DEF Propose, Reconcile, Sweep, Retry
    <3>2. to \in ActionState
      BY DEF ActionState, PreDispatch, Leased
    <3> QED BY <3>1, <3>2
  <2>2. CASE Cancel(c, a) \/ Expire(c, a) \/ Dispatch(c, a) \/ Compensate(c, a)
    BY <2>2 DEF Cancel, Expire, Dispatch, Compensate
  <2> QED BY <1>6, <2>1, <2>2 DEF Begin
<1>7. CASE WorldNext \/ UNCHANGED vars
  BY <1>7, CallsStay
<1> QED
  BY <1>1, <1>2, <1>3, <1>4, <1>5, <1>6, <1>7 DEF Next, CallerNext, CallerStep, MoveStep

\* At most one effect changes in a step.
LEMMA OneEffect ==
    ASSUME Base, [Next]_vars
    PROVE  \/ UNCHANGED provider
           \/ \E c \in Callers : /\ pc[c] \in {"execute", "compensate"}
                                 /\ \E v \in {"applied", "compensated"} : provider' = [provider EXCEPT ![act[c]] = v]
<1> USE DEF requestVars, budgetVars, worldVars, localVars, storeVars
<1>1. ASSUME NEW c \in Callers, Execute(c) \/ ApplyCompensation(c), ~UNCHANGED provider
      PROVE  /\ pc[c] \in {"execute", "compensate"}
             /\ \E v \in {"applied", "compensated"} : provider' = [provider EXCEPT ![act[c]] = v]
  BY <1>1 DEF Execute, ApplyCompensation, Base, TypeOK, LocalOK
<1>2. ASSUME NEW c \in Callers, MoveStep(c) \/ Crash(c) PROVE UNCHANGED provider
  BY <1>2
  DEF MoveStep, PlainMove, MoveLost, ToReserved, ToDispatching, ToCompleted, ToUnknown, ToFailed, ToNeedsHuman, Annotate, Crash
<1>3. ASSUME NEW c \in Callers, CallStep(c), ~Execute(c), ~ApplyCompensation(c) PROVE UNCHANGED provider
  BY <1>3 DEF CallStep, Route, ReleaseBudget, Settle, Preflight, Reserve, Observe, CommitBudget, Probe, Refund
<1>4. ASSUME NEW c \in Callers, NEW b \in Actions, Begin(c, b) PROVE UNCHANGED provider
  BY <1>4 DEF Begin, Propose, Cancel, Expire, Dispatch, Compensate, Reconcile, Sweep, Retry
<1>5. CASE WorldNext \/ UNCHANGED vars
  BY <1>5, CallsStay
<1> QED
  BY <1>1, <1>2, <1>3, <1>4, <1>5 DEF Next, CallerNext, CallerStep

EffectMade == [a \in Actions |-> provider[a] # "absent"]

\* Every step of the gateway is a step of ActionLifecycle or a stutter.
LEMMA LifecycleStep ==
    Base /\ Effects /\ Effects' /\ [Next]_vars => [Lifecycle!LifecycleNext]_<<st, attempts, EffectMade>>
<1> SUFFICES ASSUME Base, Effects, Effects', [Next]_vars, ~UNCHANGED <<st, attempts, EffectMade>>
             PROVE  Lifecycle!LifecycleNext
  OBVIOUS
<1> USE DEF EffectMade
<1>a. TypeOK
  BY DEF Base
<1>1. ASSUME NEW a \in Actions, NEW to \in ActionState, st' = [st EXCEPT ![a] = to], UNCHANGED provider,
             \/ UNCHANGED attempts /\ (to = "DISPATCHING" => st[a] = to)
             \/ to = "DISPATCHING" /\ st[a] # to /\ attempts' = [attempts EXCEPT ![a] = @ + 1]
      PROVE  Lifecycle!LifecycleNext
  <2>1. st'[a] = to /\ st[a] \in ActionState \cup {"none"}
    BY <1>a, <1>1 DEF TypeOK
  <2>2. UNCHANGED EffectMade
    BY <1>1
  <2>3. CASE UNCHANGED attempts
    <3>1. st[a] # to
      BY <1>a, <1>1, <2>2, <2>3 DEF TypeOK
    <3>2. to # "DISPATCHING"
      BY <1>1, <2>3, <3>1, <1>a DEF TypeOK
    <3>3. CASE st[a] = "none" /\ to = "PROPOSED"
      BY <1>1, <2>2, <2>3, <3>3 DEF Lifecycle!LifecycleNext, Lifecycle!Submit
    <3>4. CASE to \in Edges(st[a])
      <4>1. to \in Lifecycle!Edges(st[a]) \ {"DISPATCHING"}
        BY <3>2, <3>4, EdgesMeet
      <4>2. to = "VERIFIED" => EffectMade[a]
        BY <1>1, <2>1 DEF Effects
      <4> QED BY <1>1, <2>2, <2>3, <4>1, <4>2 DEF Lifecycle!LifecycleNext, Lifecycle!Advance
    <3> QED BY <2>1, <3>1, <3>3, <3>4, StateSteps
  <2>4. CASE to = "DISPATCHING" /\ st[a] # to /\ attempts' = [attempts EXCEPT ![a] = @ + 1]
    <3>1. "DISPATCHING" \in Lifecycle!Edges(st[a])
      BY <2>1, <2>4, StateSteps, EdgesMeet
    <3>2. attempts[a] < MaxAttempts
      <4>1. Base'
        BY NextBase
      <4>2. attempts'[a] \in 0..MaxAttempts /\ attempts'[a] = attempts[a] + 1 /\ attempts[a] \in 0..MaxAttempts
        BY <1>a, <2>4, <4>1 DEF Base, TypeOK
      <4> QED BY <4>2, BoundAssumption
    <3> QED BY <1>1, <2>2, <2>4, <3>1, <3>2 DEF Lifecycle!LifecycleNext, Lifecycle!Start
  <2> QED BY <1>1, <2>3, <2>4
<1>2. CASE UNCHANGED st /\ UNCHANGED attempts
  <2>1. PICK c \in Callers : /\ pc[c] \in {"execute", "compensate"}
                             /\ \E v \in {"applied", "compensated"} : provider' = [provider EXCEPT ![act[c]] = v]
    BY <1>2, OneEffect
  <2>2. act[c] \in Actions
    BY <2>1 DEF Base, LocalOK
  <2>3. pc[c] = "execute"
    <3>1. SUFFICES ASSUME pc[c] = "compensate" PROVE FALSE
      BY <2>1
    <3>2. provider[act[c]] # "absent"
      BY <3>1 DEF Effects, Confirmed
    <3> QED BY <1>a, <1>2, <2>1, <2>2, <3>2 DEF TypeOK
  <2>4. attempts[act[c]] > 0
    BY <2>3 DEF Effects
  <2>5. EffectMade' = [EffectMade EXCEPT ![act[c]] = TRUE]
    BY <1>a, <2>1, <2>2 DEF TypeOK
  <2> QED BY <1>2, <2>2, <2>4, <2>5 DEF Lifecycle!LifecycleNext, Lifecycle!TakeEffect
<1> QED
  BY <1>1, <1>2, OneState

\* LifecycleSpec: the gateway follows the transition table that it never
\* consults, counts every dispatch before the adapter runs, and verifies an
\* action only over an effect the provider has.
THEOREM LifecycleCorrect == Spec => LifecycleSpec
<1>1. ASSUME Init PROVE Lifecycle!LifecycleInit
  <2>1. [a \in Actions |-> provider[a] # "absent"] = [a \in Actions |-> FALSE]
    BY <1>1, Zenon DEF Init
  <2> QED BY <1>1, <2>1 DEF Init, Lifecycle!LifecycleInit
<1>2. Base /\ Effects /\ Effects' /\ [Next]_vars
        => [Lifecycle!LifecycleNext]_<<st, attempts, [a \in Actions |-> provider[a] # "absent"]>>
  BY LifecycleStep DEF EffectMade
<1> QED
  BY <1>1, <1>2, EffectsHold, PTL DEF Spec, LifecycleSpec, Lifecycle!LifecycleSpec

-----------------------------------------------------------------------------
(* Approval: a proposer works alone and before any approval; whoever is past *)
(* preflight has seen the approval, and it stays given.                      *)

Proposing(c) == pc[c] \in {"toValidated", "toPrepared", "route"}
PastPreflight(c) == pc[c] \in {"reserve", "toReserved", "toDispatching", "execute"}

Approvals ==
    /\ \A a \in Actions : st[a] = "none" => approval[a] = "none"
    /\ \A c, d \in Callers : Proposing(c) /\ Proposing(d) /\ act[c] = act[d] => c = d
    /\ \A c \in Callers : Proposing(c) => approval[act[c]] = "none"
    /\ \A c \in Callers : PastPreflight(c) /\ act[c] \in ApprovalActions => approval[act[c]] = "approved"

\* No action needs an approval it does not have before the first call.
LEMMA InitApprovals == Init => Approvals
  BY DEF Init, Approvals, Proposing, PastPreflight

\* Every step keeps Approvals: past the preflight the approval was given.
LEMMA NextApprovals == Base /\ Approvals /\ [Next]_vars => Approvals'
<1> SUFFICES ASSUME Base, Approvals, [Next]_vars PROVE Approvals'
  OBVIOUS
<1>a. TypeOK /\ LocalOK /\ LocalOK'
  BY NextBase DEF Base
\* An approval that was given is not taken back, and one that was not opened
\* stays so unless the proposer opens it.
<1>1. ASSUME NEW a \in ApprovalActions, approval[a] = "approved" PROVE approval'[a] = "approved"
  <2>1. a \in Actions
    BY ClassAssumption
  <2> QED BY <1>1, <2>1, ApprovalSteps DEF Approvals, Proposing
<1>2. ASSUME NEW a \in Actions, approval[a] = "none",
             \A c \in Callers : pc[c] = "route" /\ act[c] = a => pc'[c] # "toAwaiting"
      PROVE  approval'[a] = "none"
  BY <1>2, ApprovalSteps
<1>3. ASSUME NEW a \in Actions, st'[a] = "none" PROVE approval'[a] = "none"
  <2>1. st[a] = "none"
    BY <1>3, StateSteps DEF Edges, ActionState, PreDispatch, Leased, Terminal
  <2>2. \A c \in Callers : act[c] # a
    BY <1>a, <2>1, NoneAssumption DEF LocalOK
  <2> QED BY <1>2, <2>1, <2>2 DEF Approvals
\* Who proposes after the step proposed the action before it or has just
\* inserted it.
<1>4. ASSUME NEW d \in Callers, Proposing(d)'
      PROVE  /\ act'[d] \in Actions
             /\ \/ Proposing(d) /\ act'[d] = act[d]
                \/ st[act'[d]] = "none" /\ \A e \in Callers \ {d} : pc'[e] = pc[e] /\ act'[e] = act[e]
  <2>1. act'[d] \in Actions
    BY <1>a, <1>4 DEF LocalOK, Proposing
  <2>2. CASE WorldNext \/ UNCHANGED vars
    BY <1>4, <2>1, <2>2, CallsStay DEF Proposing
  <2>3. ASSUME NEW c \in Callers, CallerNext(c), c # d PROVE Proposing(d) /\ act'[d] = act[d]
    BY <1>4, <2>3, OthersKeep DEF Proposing
  <2>4. ASSUME CallerNext(d)
        PROVE  \/ Proposing(d) /\ act'[d] = act[d]
               \/ st[act'[d]] = "none" /\ \A e \in Callers \ {d} : pc'[e] = pc[e] /\ act'[e] = act[e]
    BY <1>4, <2>4, Arrivals, OthersKeep DEF Proposing, Arrives
  <2> QED BY <2>1, <2>2, <2>3, <2>4 DEF Next
<1>5. ASSUME NEW c \in Callers, NEW d \in Callers, c # d, Proposing(c)', Proposing(d)', act'[c] = act'[d] PROVE FALSE
  <2>1. CASE st[act'[c]] = "none" /\ \A e \in Callers \ {c} : pc'[e] = pc[e] /\ act'[e] = act[e]
    <3>1. Proposing(d) /\ act[d] = act'[c]
      BY <1>5, <2>1 DEF Proposing
    <3> QED BY <1>a, <2>1, <3>1 DEF LocalOK, Proposing
  <2>2. CASE st[act'[d]] = "none" /\ \A e \in Callers \ {d} : pc'[e] = pc[e] /\ act'[e] = act[e]
    <3>1. Proposing(c) /\ act[c] = act'[d]
      BY <1>5, <2>2 DEF Proposing
    <3> QED BY <1>a, <2>2, <3>1 DEF LocalOK, Proposing
  <2> QED BY <1>4, <1>5, <2>1, <2>2 DEF Approvals
<1>6. ASSUME NEW d \in Callers, Proposing(d)' PROVE approval'[act'[d]] = "none"
  <2> DEFINE a == act'[d]
  <2>1. a \in Actions /\ approval[a] = "none"
    BY <1>4, <1>6 DEF Approvals
  <2>2. ASSUME NEW c \in Callers, pc[c] = "route", act[c] = a, pc'[c] = "toAwaiting" PROVE FALSE
    <3>1. c # d
      BY <1>6, <2>2 DEF Proposing
    <3>2. st[a] # "none"
      BY <1>a, <2>2 DEF LocalOK
    <3>3. Proposing(d) /\ act'[d] = act[d]
      BY <1>4, <1>6, <3>2
    <3> QED BY <2>2, <3>1, <3>3 DEF Approvals, Proposing
  <2> QED BY <1>2, <2>1, <2>2
<1>7. ASSUME NEW d \in Callers, PastPreflight(d)', act'[d] \in ApprovalActions PROVE approval'[act'[d]] = "approved"
  <2>1. CASE WorldNext \/ UNCHANGED vars
    BY <1>1, <1>7, <2>1, CallsStay DEF Approvals, PastPreflight
  <2>2. ASSUME NEW c \in Callers, CallerNext(c), c # d PROVE approval'[act'[d]] = "approved"
    BY <1>1, <1>7, <2>2, OthersKeep DEF Approvals, PastPreflight
  <2>3. CASE CallerNext(d)
    <3>1. act'[d] = act[d] /\ (PastPreflight(d) \/ approval[act[d]] = "approved")
      BY <1>7, <2>3, Arrivals DEF Arrives, PastPreflight
    <3> QED BY <1>1, <1>7, <3>1 DEF Approvals
  <2> QED BY <2>1, <2>2, <2>3 DEF Next
<1> QED
  BY <1>3, <1>5, <1>6, <1>7 DEF Approvals

\* EffectsWereApproved: between the approval and the effect lie a preflight, a
\* reservation and a dispatch, any of which may race with a decision, a
\* cancellation or another dispatch; the effect is made only under an approval
\* that was given.
THEOREM ApprovalCorrect == Spec => []EffectsWereApproved
<1>1. Init => EffectsWereApproved
  BY ClassAssumption DEF Init, EffectsWereApproved
<1>2. Base /\ Effects /\ Approvals /\ EffectsWereApproved /\ [Next]_vars => EffectsWereApproved'
  <2> SUFFICES ASSUME Base, Effects, Approvals, EffectsWereApproved, [Next]_vars,
                      NEW a \in ApprovalActions, provider'[a] # "absent"
               PROVE  approval'[a] = "approved"
    BY DEF EffectsWereApproved
  <2>0. a \in Actions
    BY ClassAssumption
  <2>1. approval[a] = "approved"
    BY <2>0, ProviderSteps DEF EffectsWereApproved, Effects, Confirmed, Approvals, PastPreflight
  <2> QED BY <2>0, <2>1, ApprovalSteps DEF Approvals, Proposing
<1>3. Spec => []Approvals
  BY InitBase, NextBase, InitApprovals, NextApprovals, PTL DEF Spec
<1> QED BY <1>1, <1>2, <1>3, EffectsHold, PTL DEF Spec

-----------------------------------------------------------------------------
(* Budget: never more than the ceiling is reserved or committed.             *)

\* ReservedWithinCeiling: reserve_budget compares and inserts under one lock;
\* every other step only ends reservations or commits what was reserved.
THEOREM CeilingCorrect == Spec => []ReservedWithinCeiling
<1>1. Init => ReservedWithinCeiling
  <2> SUFFICES ASSUME Init PROVE ReservedWithinCeiling
    OBVIOUS
  <2>1. Used = {}
    BY DEF Init, Used
  <2>2. Cardinality({}) = 0
    BY FS_EmptySet
  <2> QED BY <2>1, <2>2, BoundAssumption DEF ReservedWithinCeiling
<1>2. Base /\ ReservedWithinCeiling /\ [Next]_vars => ReservedWithinCeiling'
  <2> SUFFICES ASSUME Base, ReservedWithinCeiling, [Next]_vars PROVE ReservedWithinCeiling'
    OBVIOUS
  <2>1. Used \subseteq Reservations /\ IsFiniteSet(Used) /\ Cardinality(Used) \in Nat
    BY FiniteAssumption, FS_Subset, FS_CardinalityType DEF Used
  <2>2. ASSUME \A n \in Reservations : rstat[n] # "none" \/ rstat'[n] # "RESERVED" PROVE ReservedWithinCeiling'
    <3>1. Used' \subseteq Used
      BY <2>2, BudgetSteps DEF Used
    <3>2. Cardinality(Used') <= Cardinality(Used) /\ IsFiniteSet(Used')
      BY <2>1, <3>1, FS_Subset
    <3>3. Cardinality(Used') \in Nat
      BY <3>2, FS_CardinalityType
    <3> QED BY <2>1, <3>2, <3>3, BoundAssumption DEF ReservedWithinCeiling
  <2>3. ASSUME NEW c \in Callers, Reserve(c) PROVE ReservedWithinCeiling'
    <3> DEFINE swept == [n \in Reservations |-> IF rstat[n] = "RESERVED" /\ rdue[n] THEN "EXPIRED" ELSE rstat[n]]
    <3> DEFINE U == {n \in Reservations : swept[n] \in {"RESERVED", "COMMITTED"}}
    <3>1. CASE UNCHANGED rstat
      BY <3>1 DEF ReservedWithinCeiling, Used
    <3>2. ASSUME NEW n \in Reservations, Cardinality(U) < Ceiling, rstat' = [swept EXCEPT ![n] = "RESERVED"]
          PROVE  ReservedWithinCeiling'
      <4>1. IsFiniteSet(U) /\ Cardinality(U) \in Nat
        BY FiniteAssumption, FS_Subset, FS_CardinalityType
      <4>2. Used' = U \cup {n}
        BY <3>2 DEF Used
      <4>3. Cardinality(U \cup {n}) \in {Cardinality(U), Cardinality(U) + 1}
        BY <4>1, FS_AddElement
      <4> QED BY <3>2, <4>1, <4>2, <4>3, BoundAssumption DEF ReservedWithinCeiling
    <3> QED BY <2>3, <3>1, <3>2 DEF Reserve
  <2>4. ASSUME NEW n \in Reservations, rstat[n] = "none", rstat'[n] = "RESERVED" PROVE \E c \in Callers : Reserve(c)
    BY <2>4, BudgetSteps
  <2> QED BY <2>2, <2>3, <2>4
<1>3. Spec => []Base
  BY InitBase, NextBase, PTL DEF Spec
<1> QED BY <1>1, <1>2, <1>3, PTL DEF Spec

-----------------------------------------------------------------------------
(* Reservations: a caller and a row hold reservations of their own action.   *)

Holdings ==
    /\ \A n \in Reservations : rstat[n] # "none" => ract[n] \in Actions
    /\ \A a \in Actions : resv[a] # NoReservation => rstat[resv[a]] # "none" /\ ract[resv[a]] = a
    /\ \A c \in Callers : sres[c] # NoReservation => rstat[sres[c]] # "none" /\ ract[sres[c]] = act[c]

\* A row takes the reservation its caller made.
LEMMA RowHolds ==
    ASSUME Base, [Next]_vars, NEW a \in Actions
    PROVE  \/ resv'[a] \in {resv[a], NoReservation}
           \/ \E c \in Callers : pc[c] = "toReserved" /\ act[c] = a /\ resv'[a] = sres[c]
<1> USE DEF requestVars, budgetVars, worldVars, localVars, storeVars
<1>1. ASSUME NEW c \in Callers, ToReserved(c)
      PROVE  resv'[a] = resv[a] \/ (pc[c] = "toReserved" /\ act[c] = a /\ resv'[a] = sres[c])
  BY <1>1 DEF ToReserved, Base, TypeOK
<1>2. ASSUME NEW c \in Callers, MoveStep(c) \/ Crash(c), ~ToReserved(c) PROVE resv'[a] \in {resv[a], NoReservation}
  BY <1>2
  DEF MoveStep, PlainMove, MoveLost, ToDispatching, ToCompleted, ToUnknown, ToFailed, ToNeedsHuman, Annotate, Crash,
      Base, TypeOK
<1>3. ASSUME NEW c \in Callers, CallStep(c) PROVE UNCHANGED resv
  BY <1>3
  DEF CallStep, Route, ReleaseBudget, Settle, Preflight, Reserve, Execute, Observe, CommitBudget, Probe,
      ApplyCompensation, Refund
<1>4. ASSUME NEW c \in Callers, NEW b \in Actions, Begin(c, b) PROVE resv'[a] \in {resv[a], NoReservation}
  BY <1>4 DEF Begin, Propose, Cancel, Expire, Dispatch, Compensate, Reconcile, Sweep, Retry, Base, TypeOK
<1>5. CASE WorldNext \/ UNCHANGED vars
  BY <1>5, CallsStay
<1> QED
  BY <1>1, <1>2, <1>3, <1>4, <1>5 DEF Next, CallerNext, CallerStep

\* A caller holds what it read with the row or what it has just reserved.
LEMMA CallerHolds ==
    ASSUME Base, NEW c \in Callers, CallerNext(c)
    PROVE  \/ sres'[c] = NoReservation
           \/ sres'[c] = sres[c] /\ act'[c] = act[c]
           \/ act'[c] \in Actions /\ sres'[c] = resv[act'[c]]
           \/ /\ sres'[c] \in Reservations /\ rstat'[sres'[c]] = "RESERVED"
              /\ ract'[sres'[c]] = act'[c]
<1> USE DEF requestVars, budgetVars, worldVars, localVars, storeVars
<1>a. TypeOK
  BY DEF Base
<1>1. ASSUME NEW p, Goto(c, p) PROVE sres'[c] = sres[c] /\ act'[c] = act[c]
  BY <1>1 DEF Goto
<1>2. ASSUME Leave(c) PROVE sres'[c] = NoReservation
  BY <1>a, <1>2 DEF Leave, TypeOK
<1>3. ASSUME NEW a \in Actions, NEW p, Read(c, a, p) PROVE act'[c] \in Actions /\ sres'[c] = resv[act'[c]]
  BY <1>a, <1>3 DEF Read, TypeOK
<1>4. ASSUME NEW to, NEW p, CAS(c, to, p) PROVE sres'[c] = NoReservation \/ (sres'[c] = sres[c] /\ act'[c] = act[c])
  BY <1>a, <1>4 DEF CAS, TypeOK
<1>5. CASE MoveStep(c) \/ Crash(c)
  BY <1>2, <1>4, <1>5
  DEF MoveStep, PlainMove, MoveLost, ToReserved, ToDispatching, ToCompleted, ToUnknown, ToFailed, ToNeedsHuman, Annotate, Crash
<1>6. CASE Reserve(c)
  <2> DEFINE swept == [n \in Reservations |-> IF rstat[n] = "RESERVED" /\ rdue[n] THEN "EXPIRED" ELSE rstat[n]]
  <2>1. CASE Goto(c, "toBlocked")
    BY <1>1, <2>1
  <2>2. ASSUME NEW n \in Reservations, rstat' = [swept EXCEPT ![n] = "RESERVED"], ract' = [ract EXCEPT ![n] = act[c]],
               sres' = [sres EXCEPT ![c] = n], UNCHANGED act
        PROVE  sres'[c] = n /\ rstat'[n] = "RESERVED" /\ ract'[n] = act'[c]
    BY <1>a, <2>2 DEF TypeOK
  <2> QED BY <1>6, <2>1, <2>2 DEF Reserve
<1>7. CASE CallStep(c) /\ ~Reserve(c)
  BY <1>1, <1>2, <1>7
  DEF CallStep, Route, ReleaseBudget, Settle, Preflight, Execute, Observe, CommitBudget, Probe, ApplyCompensation, Refund
<1>8. ASSUME NEW a \in Actions, Begin(c, a)
      PROVE  sres'[c] = NoReservation \/ (act'[c] \in Actions /\ sres'[c] = resv[act'[c]])
  <2>1. CASE Propose(c, a) \/ Cancel(c, a) \/ Expire(c, a) \/ Dispatch(c, a) \/ Compensate(c, a)
    BY <1>3, <2>1 DEF Propose, Cancel, Expire, Dispatch, Compensate
  <2>2. CASE Reconcile(c, a) \/ Sweep(c, a) \/ Retry(c, a)
    BY <1>a, <2>2 DEF Reconcile, Sweep, Retry, TypeOK
  <2> QED BY <1>8, <2>1, <2>2 DEF Begin
<1> QED
  BY <1>5, <1>6, <1>7, <1>8 DEF CallerNext, CallerStep

\* A reservation stays with its action.
LEMMA ReservationStays ==
    ASSUME Base, [Next]_vars, NEW n \in Reservations, rstat[n] # "none"
    PROVE  rstat'[n] # "none" /\ ract'[n] = ract[n]
  BY BudgetSteps

\* No reservation is held before the first call.
LEMMA InitHoldings == Init => Holdings
  BY DEF Init, Holdings

\* Every step keeps Holdings: the reservation of a row or a caller is one made
\* for that action.
LEMMA NextHoldings == Base /\ Holdings /\ [Next]_vars => Holdings'
<1> SUFFICES ASSUME Base, Holdings, [Next]_vars PROVE Holdings'
  OBVIOUS
<1>a. TypeOK /\ LocalOK /\ LocalOK' /\ TypeOK'
  BY NextBase DEF Base
<1>1. ASSUME NEW n \in Reservations, rstat'[n] # "none" PROVE ract'[n] \in Actions
  <2>1. ASSUME NEW c \in Callers, pc[c] = "reserve" PROVE act[c] \in Actions
    BY <1>a, <2>1 DEF LocalOK
  <2> QED BY <1>1, <2>1, BudgetSteps DEF Holdings
<1>2. ASSUME NEW a \in Actions, resv'[a] # NoReservation PROVE rstat'[resv'[a]] # "none" /\ ract'[resv'[a]] = a
  <2>1. /\ resv'[a] \in Reservations /\ rstat[resv'[a]] # "none" /\ ract[resv'[a]] = a
    BY <1>a, <1>2, RowHolds DEF Holdings, TypeOK
  <2> QED BY <2>1, ReservationStays
<1>3. ASSUME NEW c \in Callers, sres'[c] # NoReservation PROVE rstat'[sres'[c]] # "none" /\ ract'[sres'[c]] = act'[c]
  <2>0. sres'[c] \in Reservations
    BY <1>a, <1>3 DEF TypeOK
  <2>1. ASSUME rstat[sres'[c]] # "none", ract[sres'[c]] = act'[c]
        PROVE  rstat'[sres'[c]] # "none" /\ ract'[sres'[c]] = act'[c]
    BY <2>0, <2>1, ReservationStays
  <2>2. CASE WorldNext \/ UNCHANGED vars
    BY <1>3, <2>1, <2>2, CallsStay DEF Holdings
  <2>3. ASSUME NEW d \in Callers, CallerNext(d), d # c PROVE rstat[sres'[c]] # "none" /\ ract[sres'[c]] = act'[c]
    BY <1>3, <2>3, OthersKeep DEF Holdings
  <2>4. CASE CallerNext(c)
    BY <1>3, <2>1, <2>4, CallerHolds DEF Holdings
  <2> QED BY <2>1, <2>2, <2>3, <2>4 DEF Next
<1> QED
  BY <1>1, <1>2, <1>3 DEF Holdings

\* Holdings is an invariant of the gateway.
LEMMA HoldingsHold == Spec => [](Base /\ Holdings)
  BY InitBase, NextBase, InitHoldings, NextHoldings, PTL DEF Spec

\* MoneyFollowsProvider: the budget is committed after a read-back showed the
\* effect and refunded after a confirmed compensation, and the reservation each
\* of them settles is the one of the action they worked on.
THEOREM MoneyCorrect == Spec => []MoneyFollowsProvider
<1>1. Init => MoneyFollowsProvider
  BY DEF Init, MoneyFollowsProvider
<1>2. Base /\ Effects /\ Holdings /\ MoneyFollowsProvider /\ [Next]_vars => MoneyFollowsProvider'
  <2> SUFFICES ASSUME Base, Effects, Holdings, MoneyFollowsProvider, [Next]_vars,
                      NEW n \in Reservations, rstat'[n] \in {"COMMITTED", "REFUNDED"}
               PROVE  /\ rstat'[n] = "COMMITTED" => provider'[ract'[n]] # "absent"
                      /\ rstat'[n] = "REFUNDED"  => provider'[ract'[n]] = "compensated"
    BY DEF MoneyFollowsProvider
  <2>1. rstat[n] # "none" /\ ract'[n] = ract[n] /\ ract[n] \in Actions
    BY BudgetSteps DEF Holdings
  <2>2. /\ provider[ract[n]] # "absent" => provider'[ract[n]] # "absent"
        /\ provider[ract[n]] = "compensated" => provider'[ract[n]] = "compensated"
    BY <2>1, ProviderSteps
  <2>3. n # NoReservation
    BY NoneAssumption
  <2>4. CASE rstat'[n] = "COMMITTED"
    <3>1. rstat[n] = "COMMITTED" \/ \E c \in Callers : pc[c] = "commitBudget" /\ sres[c] = n
      BY <2>4, BudgetSteps
    <3> QED BY <2>1, <2>2, <2>3, <2>4, <3>1 DEF MoneyFollowsProvider, Effects, Confirmed, Holdings
  <2>5. CASE rstat'[n] = "REFUNDED"
    <3>1. rstat[n] = "REFUNDED" \/ \E c \in Callers : pc[c] = "refund" /\ sres[c] = n
      BY <2>5, BudgetSteps
    <3> QED BY <2>1, <2>2, <2>3, <2>5, <3>1 DEF MoneyFollowsProvider, Effects, Holdings
  <2> QED BY <2>4, <2>5
<1> QED BY <1>1, <1>2, EffectsHold, HoldingsHold, PTL DEF Spec

-----------------------------------------------------------------------------
(* Charges: only the one caller that verified an action charges it.          *)

Charged(a) == \E n \in Reservations : ract[n] = a /\ rstat[n] \in {"COMMITTED", "REFUNDED"}
Charging(c) == pc[c] \in {"commitBudget", "toCompleted"}

Charges ==
    /\ \A a \in Actions : st[a] \notin {"VERIFIED", "COMPLETED"} => ~Charged(a)
    /\ \A c \in Callers : Charging(c) => st[act[c]] = "VERIFIED"
    /\ \A c, d \in Callers : Charging(c) /\ Charging(d) /\ act[c] = act[d] => c = d
    /\ \A c \in Callers : pc[c] = "commitBudget" => ~Charged(act[c])

\* A reservation is charged by the caller at the commit of its action.
LEMMA NewCharge ==
    ASSUME Base, Holdings, [Next]_vars, NEW n \in Reservations, rstat'[n] \in {"COMMITTED", "REFUNDED"}
    PROVE  /\ ract'[n] = ract[n] /\ ract[n] \in Actions
           /\ \/ rstat[n] \in {"COMMITTED", "REFUNDED"}
              \/ \E c \in Callers : /\ pc[c] = "commitBudget" /\ pc'[c] = "toCompleted"
                                    /\ sres[c] = n /\ act[c] = ract[n]
<1>1. rstat[n] # "none" /\ ract'[n] = ract[n] /\ ract[n] \in Actions
  BY BudgetSteps DEF Holdings
<1>2. ASSUME NEW c \in Callers, pc[c] = "commitBudget", sres[c] = n, CommitBudget(c)
      PROVE  pc'[c] = "toCompleted" /\ act[c] = ract[n]
  <2>1. pc'[c] = "toCompleted"
    BY <1>2 DEF CommitBudget, Goto, Base, TypeOK
  <2> QED BY <1>2, <2>1, NoneAssumption DEF Holdings
<1> QED
  BY <1>1, <1>2, BudgetSteps

\* Who leaves VERIFIED is the caller that completes the action.
LEMMA CompletedBy ==
    ASSUME Base, [Next]_vars, NEW a \in Actions, st[a] # "COMPLETED", st'[a] = "COMPLETED"
    PROVE  \E c \in Callers : pc[c] = "toCompleted" /\ act[c] = a /\ pc'[c] = "idle"
<1> USE DEF requestVars, budgetVars, worldVars, localVars, storeVars
<1>1. ASSUME NEW c \in Callers, ToCompleted(c) PROVE pc[c] = "toCompleted" /\ act[c] = a /\ pc'[c] = "idle"
  BY <1>1 DEF ToCompleted, CAS, Base, TypeOK
<1>2. ASSUME NEW c \in Callers, NEW to, NEW p, to # "COMPLETED", CAS(c, to, p) PROVE FALSE
  BY <1>2 DEF CAS, Base, TypeOK
<1>3. ASSUME NEW c \in Callers, MoveStep(c), ~ToCompleted(c) PROVE FALSE
  <2>1. CASE Annotate(c)
    BY <2>1 DEF Annotate, CAS, Base, TypeOK, LocalOK
  <2>2. CASE PlainMove(c)
    <3>1. Move[pc[c]].to # "COMPLETED"
      BY <2>2, PlainMovesAre DEF PlainMove, Move
    <3> QED BY <1>2, <2>2, <3>1 DEF PlainMove
  <2> QED BY <1>2, <1>3, <2>1, <2>2
    DEF MoveStep, MoveLost, ToReserved, ToDispatching, ToUnknown, ToFailed, ToNeedsHuman
<1>4. ASSUME NEW c \in Callers, CallStep(c) \/ Crash(c) PROVE FALSE
  BY <1>4
  DEF Crash, CallStep, Route, ReleaseBudget, Settle, Preflight, Reserve, Execute, Observe, CommitBudget, Probe,
      ApplyCompensation, Refund
<1>5. ASSUME NEW c \in Callers, NEW b \in Actions, Begin(c, b) PROVE FALSE
  BY <1>5 DEF Begin, Propose, Cancel, Expire, Dispatch, Compensate, Reconcile, Sweep, Retry, Base, TypeOK
<1>6. CASE WorldNext \/ UNCHANGED vars
  BY <1>6, CallsStay
<1> QED
  BY <1>1, <1>3, <1>4, <1>5, <1>6 DEF Next, CallerNext, CallerStep

\* Nothing is charged before the first call.
LEMMA InitCharges == Init => Charges
  BY DEF Init, Charges, Charged, Charging

\* Every step keeps Charges: at most one reservation of an action is charged.
LEMMA NextCharges == Base /\ Holdings /\ Charges /\ [Next]_vars => Charges'
<1> SUFFICES ASSUME Base, Holdings, Charges, [Next]_vars PROVE Charges'
  OBVIOUS
<1>a. TypeOK /\ LocalOK /\ Knows /\ LocalOK'
  BY NextBase DEF Base
<1>1. ASSUME NEW a \in Actions, Charged(a)'
      PROVE  Charged(a) \/ \E c \in Callers : pc[c] = "commitBudget" /\ pc'[c] = "toCompleted" /\ act[c] = a
  BY <1>1, NewCharge DEF Charged
<1>2. ASSUME NEW a \in Actions, Charged(a)' PROVE st'[a] \in {"VERIFIED", "COMPLETED"}
  <2>1. st[a] \in {"VERIFIED", "COMPLETED"}
    BY <1>1, <1>2 DEF Charges, Charging
  <2> QED BY <2>1, StateSteps DEF Edges
\* Who charges after the step did so before it or has just verified its action.
<1>3. ASSUME NEW d \in Callers, Charging(d)'
      PROVE  /\ act'[d] = act[d] /\ act[d] \in Actions
             /\ \/ Charging(d) /\ (pc'[d] = "commitBudget" => pc[d] = "commitBudget")
                \/ /\ st[act[d]] \notin {"VERIFIED", "COMPLETED"} /\ st'[act[d]] = "VERIFIED"
                   /\ \A e \in Callers \ {d} : pc'[e] = pc[e] /\ act'[e] = act[e]
  <2>1. CASE WorldNext \/ UNCHANGED vars
    BY <1>3, <1>a, <2>1, CallsStay DEF Charging, LocalOK
  <2>2. ASSUME NEW c \in Callers, CallerNext(c), c # d
        PROVE  act'[d] = act[d] /\ act[d] \in Actions /\ Charging(d) /\ pc'[d] = pc[d]
    BY <1>3, <1>a, <2>2, OthersKeep DEF Charging, LocalOK
  <2>3. CASE CallerNext(d)
    <3>1. act'[d] = act[d] /\ act'[d] \in Actions
      BY <1>3, <1>a, <2>3, Arrivals DEF Arrives, Charging, LocalOK
    <3>2. CASE pc'[d] = "toCompleted"
      BY <2>3, <3>1, <3>2, Arrivals DEF Arrives, Charging
    <3>3. CASE pc'[d] = "commitBudget"
      <4>1. pc[d] = "toVerified" /\ fresh[d] /\ st'[act[d]] = "VERIFIED"
        BY <2>3, <3>3, Arrivals DEF Arrives
      <4>2. st[act[d]] \in StatesAt("toVerified")
        BY <1>a, <4>1 DEF Knows
      <4> QED BY <2>3, <3>1, <4>1, <4>2, OthersKeep DEF StatesAt
    <3> QED BY <1>3, <3>2, <3>3 DEF Charging
  <2> QED BY <2>1, <2>2, <2>3 DEF Next
<1>4. ASSUME NEW d \in Callers, Charging(d)' PROVE st'[act'[d]] = "VERIFIED"
  <2>1. CASE Charging(d)
    <3>1. st[act[d]] = "VERIFIED" /\ act'[d] = act[d] /\ act[d] \in Actions
      BY <1>3, <1>4, <2>1 DEF Charges
    <3>2. ASSUME st'[act[d]] = "COMPLETED" PROVE FALSE
      <4>1. PICK c \in Callers : pc[c] = "toCompleted" /\ act[c] = act[d] /\ pc'[c] = "idle"
        BY <3>1, <3>2, CompletedBy
      <4>2. c = d
        BY <2>1, <4>1 DEF Charges, Charging
      <4> QED BY <1>4, <4>1, <4>2 DEF Charging
    <3> QED BY <3>1, <3>2, StateSteps DEF Edges
  <2> QED BY <1>3, <1>4, <2>1
<1>5. ASSUME NEW c \in Callers, NEW d \in Callers, c # d, Charging(c)', Charging(d)', act'[c] = act'[d] PROVE FALSE
  <2>1. act[c] = act[d] /\ (Charging(c) => ~Charging(d))
    BY <1>3, <1>5 DEF Charges
  <2>2. CASE Charging(c)
    BY <1>3, <1>5, <2>1, <2>2 DEF Charging, Charges
  <2>3. CASE Charging(d)
    BY <1>3, <1>5, <2>1, <2>3 DEF Charging, Charges
  <2>4. CASE ~Charging(c) /\ ~Charging(d)
    BY <1>3, <1>5, <2>4 DEF Charging
  <2> QED BY <2>2, <2>3, <2>4
<1>6. ASSUME NEW d \in Callers, pc'[d] = "commitBudget", Charged(act[d])' PROVE FALSE
  <2>1. Charging(d)'
    BY <1>6 DEF Charging
  <2>2. act'[d] = act[d] /\ act[d] \in Actions
    BY <1>3, <2>1
  <2>3. ~Charged(act[d])
    BY <1>3, <1>6, <2>1 DEF Charges
  <2>5. PICK c \in Callers : pc[c] = "commitBudget" /\ pc'[c] = "toCompleted" /\ act[c] = act[d]
    BY <1>1, <1>6, <2>2, <2>3
  <2>6. st[act[d]] = "VERIFIED"
    BY <2>5 DEF Charges, Charging
  <2>7. Charging(d)
    BY <1>3, <2>1, <2>6
  <2> QED BY <1>6, <2>5, <2>7 DEF Charges, Charging
<1> QED
  BY <1>2, <1>4, <1>5, <1>6 DEF Charges

\* SpendCommittedOnce: the compare-and-set into VERIFIED has one winner, and
\* the winner commits one reservation; a dispatch that lost the race leaves its
\* reservation behind, uncommitted.
THEOREM SpendCorrect == Spec => []SpendCommittedOnce
<1>1. Init => SpendCommittedOnce
  BY DEF Init, SpendCommittedOnce
<1>2. Base /\ Holdings /\ Charges /\ SpendCommittedOnce /\ [Next]_vars => SpendCommittedOnce'
  <2> SUFFICES ASSUME Base, Holdings, Charges, SpendCommittedOnce, [Next]_vars,
                      NEW m \in Reservations, NEW n \in Reservations,
                      rstat'[m] \in {"COMMITTED", "REFUNDED"}, rstat'[n] \in {"COMMITTED", "REFUNDED"},
                      ract'[m] = ract'[n]
               PROVE  m = n
    BY DEF SpendCommittedOnce
  <2>1. ract[m] = ract[n]
    BY NewCharge
  <2>2. CASE rstat[m] \in {"COMMITTED", "REFUNDED"} /\ rstat[n] \in {"COMMITTED", "REFUNDED"}
    BY <2>1, <2>2 DEF SpendCommittedOnce
  <2>3. ASSUME NEW x \in Reservations, NEW c \in Callers, pc[c] = "commitBudget", act[c] = ract[x],
               rstat[x] \in {"COMMITTED", "REFUNDED"}
        PROVE  FALSE
    BY <2>3 DEF Charges, Charged
  <2>4. ASSUME NEW c \in Callers, NEW d \in Callers, pc[c] = "commitBudget", pc[d] = "commitBudget", act[c] = act[d]
        PROVE  c = d
    BY <2>4 DEF Charges, Charging
  <2> QED BY <2>1, <2>2, <2>3, <2>4, NewCharge
<1>3. Spec => []Charges
  BY HoldingsHold, InitCharges, NextCharges, PTL DEF Spec
<1> QED BY <1>1, <1>2, <1>3, HoldingsHold, PTL DEF Spec

-----------------------------------------------------------------------------
(* Overspend: every spend was reserved before it was dispatched, so what     *)
(* exceeds the ceiling are spends whose reservations lapsed.                 *)

Backed(a) == \E n \in Reservations : rstat[n] # "none" /\ ract[n] = a

\* A spend action is reserved, or past that point, only with a reservation, and
\* the row of a reservation names nobody before it is made.
Backing ==
    /\ \A n \in Reservations : rstat[n] = "none" => ract[n] = NoAction
    /\ \A a \in SpendActions : st[a] = "RESERVED" \/ provider[a] # "absent" => Backed(a)
    /\ \A c \in Callers :
          /\ act[c] \in SpendActions
          /\ pc[c] \in {"preflightReserved", "toReserved", "toDispatching", "execute"}
          => Backed(act[c])

\* An action becomes RESERVED by the call that reserved for it.
LEMMA ReservedBy ==
    ASSUME Base, [Next]_vars, NEW a \in Actions, st[a] # "RESERVED", st'[a] = "RESERVED"
    PROVE  \E c \in Callers : pc[c] = "toReserved" /\ act[c] = a
<1> USE DEF requestVars, budgetVars, worldVars, localVars, storeVars
<1>1. ASSUME NEW c \in Callers, ToReserved(c) PROVE pc[c] = "toReserved" /\ act[c] = a
  BY <1>1 DEF ToReserved, CAS, Base, TypeOK
<1>2. ASSUME NEW c \in Callers, NEW to, NEW p, to # "RESERVED", CAS(c, to, p) PROVE FALSE
  BY <1>2 DEF CAS, Base, TypeOK
<1>3. ASSUME NEW c \in Callers, MoveStep(c), ~ToReserved(c) PROVE FALSE
  <2>1. CASE Annotate(c)
    BY <2>1 DEF Annotate, CAS, Base, TypeOK, LocalOK
  <2>2. CASE PlainMove(c)
    <3>1. Move[pc[c]].to # "RESERVED"
      BY <2>2, PlainMovesAre DEF PlainMove, Move
    <3> QED BY <1>2, <2>2, <3>1 DEF PlainMove
  <2> QED BY <1>2, <1>3, <2>1, <2>2
    DEF MoveStep, MoveLost, ToDispatching, ToCompleted, ToUnknown, ToFailed, ToNeedsHuman
<1>4. ASSUME NEW c \in Callers, CallStep(c) \/ Crash(c) PROVE FALSE
  BY <1>4
  DEF Crash, CallStep, Route, ReleaseBudget, Settle, Preflight, Reserve, Execute, Observe, CommitBudget, Probe,
      ApplyCompensation, Refund
<1>5. ASSUME NEW c \in Callers, NEW b \in Actions, Begin(c, b) PROVE FALSE
  BY <1>5 DEF Begin, Propose, Cancel, Expire, Dispatch, Compensate, Reconcile, Sweep, Retry, Base, TypeOK
<1>6. CASE WorldNext \/ UNCHANGED vars
  BY <1>6, CallsStay
<1> QED
  BY <1>1, <1>3, <1>4, <1>5, <1>6 DEF Next, CallerNext, CallerStep

\* What the call of a spend has passed: it skips the reservation only for an
\* action it has read as RESERVED.
LEMMA SpendArrivals ==
    ASSUME Base, NEW c \in Callers, CallerNext(c)
    PROVE  /\ pc'[c] = "preflightReserved" => st[act'[c]] = "RESERVED"
           /\ pc'[c] = "toDispatching" /\ act'[c] \in SpendActions => pc[c] \in {"toReserved", "preflightReserved"}
           /\ pc'[c] = "toReserved" =>
                 act'[c] = act[c] /\ \E n \in Reservations : rstat'[n] = "RESERVED" /\ ract'[n] = act[c]
<1> USE DEF localVars, requestVars, budgetVars, worldVars, storeVars
<1>a. TypeOK /\ LocalOK
  BY DEF Base
<1>1. ASSUME NEW p, Goto(c, p) PROVE pc'[c] = p /\ act'[c] = act[c]
  BY <1>a, <1>1 DEF Goto, TypeOK
<1>2. ASSUME Leave(c) PROVE pc'[c] = "idle"
  BY <1>a, <1>2 DEF Leave, TypeOK
<1>3. ASSUME NEW a \in Actions, NEW p, Read(c, a, p) PROVE pc'[c] = p /\ act'[c] = a
  BY <1>a, <1>3 DEF Read, TypeOK
<1>4. ASSUME NEW to, NEW p, CAS(c, to, p) PROVE pc'[c] = p
  BY <1>a, <1>4 DEF CAS, TypeOK
<1>5. CASE MoveStep(c)
  <2>1. CASE PlainMove(c)
    <3>1. PICK p \in PlainMoves : p = pc[c] /\ CAS(c, Move[p].to, Move[p].then)
      BY <2>1 DEF PlainMove
    <3>2. Move[p].then \in {"idle", "toPrepared", "route", "preflight", "observe", "commitBudget"}
      BY PlainMovesAre DEF Move
    <3> QED BY <1>4, <3>1, <3>2
  <2>2. CASE ToReserved(c)
    BY <1>4, <2>2 DEF ToReserved
  <2> QED BY <1>2, <1>4, <1>5, <2>1, <2>2
    DEF MoveStep, MoveLost, ToDispatching, ToCompleted, ToUnknown, ToFailed, ToNeedsHuman, Annotate
<1>6. CASE Reserve(c)
  <2>1. pc'[c] \in {"toBlocked", "toReserved"} /\ act'[c] = act[c]
    BY <1>a, <1>1, <1>6 DEF Reserve, TypeOK
  <2>2. ASSUME pc'[c] = "toReserved" PROVE \E n \in Reservations : rstat'[n] = "RESERVED" /\ ract'[n] = act[c]
    <3> DEFINE swept == [n \in Reservations |-> IF rstat[n] = "RESERVED" /\ rdue[n] THEN "EXPIRED" ELSE rstat[n]]
    <3>1. ~Goto(c, "toBlocked")
      BY <1>1, <2>2
    <3>2. PICK n \in Reservations : rstat' = [swept EXCEPT ![n] = "RESERVED"] /\ ract' = [ract EXCEPT ![n] = act[c]]
      BY <1>6, <3>1 DEF Reserve
    <3> QED BY <1>a, <3>2 DEF TypeOK
  <2> QED BY <2>1, <2>2
<1>7. CASE Preflight(c)
  <2>1. pc'[c] \in {"idle", "releaseBlocked", "releaseLate", "reserve", "toDispatching"}
    BY <1>1, <1>2, <1>7 DEF Preflight
  <2>2. pc'[c] = "toDispatching" => act'[c] = act[c] /\ (act[c] \notin SpendActions \/ pc[c] = "preflightReserved")
    BY <1>1, <1>2, <1>7 DEF Preflight
  <2> QED BY <2>1, <2>2
<1>8. CASE ReleaseBudget(c)
  <2>1. PICK p \in ReleasePoints : p = pc[c] /\ Goto(c, Release[p].then)
    BY <1>8 DEF ReleaseBudget
  <2>2. Release[p].then \notin {"preflightReserved", "toDispatching", "toReserved"}
    BY ReleasePointsAre DEF Release
  <2> QED BY <1>1, <2>1, <2>2
<1>9. CASE CallStep(c) /\ ~Reserve(c) /\ ~Preflight(c) /\ ~ReleaseBudget(c)
  BY <1>1, <1>2, <1>9 DEF CallStep, Route, Settle, Execute, Observe, CommitBudget, Probe, ApplyCompensation, Refund
<1>10. ASSUME NEW a \in Actions, Begin(c, a)
       PROVE  pc'[c] \notin {"toReserved", "toDispatching"} /\ (pc'[c] = "preflightReserved" => st[act'[c]] = "RESERVED")
  <2>1. CASE Dispatch(c, a)
    BY <1>3, <2>1 DEF Dispatch
  <2>2. CASE Propose(c, a) \/ Cancel(c, a) \/ Expire(c, a) \/ Compensate(c, a)
    BY <1>3, <2>2 DEF Propose, Cancel, Expire, Compensate
  <2>3. CASE Reconcile(c, a) \/ Sweep(c, a) \/ Retry(c, a)
    BY <1>a, <2>3 DEF Reconcile, Sweep, Retry, TypeOK
  <2> QED BY <1>10, <2>1, <2>2, <2>3 DEF Begin
<1>11. CASE Crash(c)
  BY <1>2, <1>11 DEF Crash
<1> QED BY <1>5, <1>6, <1>7, <1>8, <1>9, <1>10, <1>11 DEF CallerNext, CallerStep

\* A reservation made for an action remains, in whatever status.
LEMMA BackedStays ==
    ASSUME Base, [Next]_vars, NEW a \in Actions, Backed(a)
    PROVE  Backed(a)'
  BY ReservationStays DEF Backed

\* Every step keeps Backing: the reservation comes before the dispatch.
LEMMA NextBacking == Base /\ Effects /\ Backing /\ [Next]_vars => Backing'
<1> SUFFICES ASSUME Base, Effects, Backing, [Next]_vars PROVE Backing'
  OBVIOUS
<1>a. SpendActions \subseteq Actions
  BY ClassAssumption
<1>b. ASSUME NEW a \in SpendActions, Backed(a) PROVE Backed(a)'
  BY <1>a, <1>b, BackedStays
<1>1. ASSUME NEW a \in SpendActions, st'[a] = "RESERVED" \/ provider'[a] # "absent" PROVE Backed(a)
  <2>1. a \in Actions
    BY <1>a
  <2>2. CASE st[a] = "RESERVED" \/ provider[a] # "absent"
    BY <2>2 DEF Backing
  <2>3. CASE st[a] # "RESERVED" /\ st'[a] = "RESERVED"
    <3>1. PICK c \in Callers : pc[c] = "toReserved" /\ act[c] = a
      BY <2>1, <2>3, ReservedBy
    <3> QED BY <3>1 DEF Backing
  <2>4. CASE provider[a] = "absent" /\ provider'[a] # "absent"
    <3>1. PICK c \in Callers : pc[c] \in {"execute", "compensate"} /\ act[c] = a
      BY <2>1, <2>4, ProviderSteps
    <3>2. pc[c] = "execute"
      BY <2>4, <3>1 DEF Effects, Confirmed
    <3> QED BY <3>1, <3>2 DEF Backing
  <2> QED BY <1>1, <2>2, <2>3, <2>4
<1>2. ASSUME NEW c \in Callers, CallerNext(c), act'[c] \in SpendActions,
             pc'[c] \in {"preflightReserved", "toReserved", "toDispatching", "execute"}
      PROVE  Backed(act[c])'
  <2>1. Arrives(c)
    BY <1>2, Arrivals
  <2>2. CASE pc'[c] = "preflightReserved"
    <3>1. st[act'[c]] = "RESERVED"
      BY <1>2, <2>2, SpendArrivals
    <3>2. PICK a \in SpendActions : a = act'[c]
      BY <1>2
    <3>3. Backed(a)'
      BY <1>b, <3>1, <3>2 DEF Backing
    <3> QED BY <3>2, <3>3 DEF Backed
  <2>3. CASE pc'[c] = "toReserved"
    BY <1>2, <2>3, SpendArrivals DEF Backed
  <2>4. CASE pc'[c] \in {"toDispatching", "execute"}
    <3>1. act'[c] = act[c] /\ pc[c] \in {"toReserved", "preflightReserved", "toDispatching"}
      BY <1>2, <2>1, <2>4, SpendArrivals DEF Arrives
    <3>2. PICK a \in SpendActions : a = act[c] /\ a = act'[c]
      BY <1>2, <3>1
    <3>3. Backed(a)'
      BY <1>b, <3>1, <3>2 DEF Backing
    <3> QED BY <3>2, <3>3 DEF Backed
  <2> QED BY <1>2, <2>2, <2>3, <2>4
<1>3. ASSUME NEW d \in Callers, act'[d] \in SpendActions, pc'[d] = pc[d], act'[d] = act[d],
             pc[d] \in {"preflightReserved", "toReserved", "toDispatching", "execute"}
      PROVE  Backed(act[d])'
  <2>1. PICK a \in SpendActions : a = act[d] /\ a = act'[d]
    BY <1>3
  <2>2. Backed(a)'
    BY <1>b, <1>3, <2>1 DEF Backing
  <2> QED BY <2>1, <2>2 DEF Backed
<1>4. ASSUME NEW d \in Callers, act'[d] \in SpendActions,
             pc'[d] \in {"preflightReserved", "toReserved", "toDispatching", "execute"}
      PROVE  Backed(act[d])'
  <2>1. CASE WorldNext \/ UNCHANGED vars
    BY <1>3, <1>4, <2>1, CallsStay
  <2>2. ASSUME NEW c \in Callers, CallerNext(c) PROVE Backed(act[d])'
    BY <1>2, <1>3, <1>4, <2>2, OthersKeep
  <2> QED BY <2>1, <2>2 DEF Next
<1>5. ASSUME NEW a \in SpendActions, st'[a] = "RESERVED" \/ provider'[a] # "absent" PROVE Backed(a)'
  BY <1>b, <1>1, <1>5
<1>6. \A n \in Reservations : rstat'[n] = "none" => ract'[n] = NoAction
  BY BudgetSteps DEF Backing
<1> HIDE DEF Backed
<1> QED BY <1>4, <1>5, <1>6 DEF Backing

\* OverspendLapsed: a spend was reserved before it took effect; a reservation
\* that stands or was committed counts against the ceiling, one that was
\* refunded belongs to an effect that was taken back, and the others lapsed.
THEOREM OverspendCorrect == Spec => []OverspendLapsed
<1>1. Init => Backing
  BY ClassAssumption DEF Init, Backing
<1>2. Backing /\ ReservedWithinCeiling /\ MoneyFollowsProvider /\ TypeOK => OverspendLapsed
  <2> SUFFICES ASSUME Backing, ReservedWithinCeiling, MoneyFollowsProvider, TypeOK PROVE OverspendLapsed
    OBVIOUS
  <2> DEFINE charged == [n \in Used |-> ract[n]]
             Covered == {ract[n] : n \in Used}
             Owners == {ract[n] : n \in Reservations}
  <2>1. IsFiniteSet(Used) /\ Cardinality(Used) \in Nat /\ Cardinality(Used) <= Ceiling
    BY FiniteAssumption, FS_Subset, FS_CardinalityType DEF Used, ReservedWithinCeiling
  <2>2. IsFiniteSet(Covered) /\ Cardinality(Covered) <= Cardinality(Used)
    <3>1. charged \in Surjection(Used, Covered)
      BY DEF Surjection
    <3> QED BY <2>1, <3>1, FS_Surjection
  <2>3. IsFiniteSet(Owners)
    <3>1. [n \in Reservations |-> ract[n]] \in Surjection(Reservations, Owners)
      BY DEF Surjection
    <3> QED BY <3>1, FiniteAssumption, FS_Surjection
  <2>4. ASSUME NEW a \in Spent PROVE a \in Owners /\ (a \in Covered \/ a \in Lapsed)
    <3>1. PICK n \in Reservations : rstat[n] # "none" /\ ract[n] = a
      BY <2>4 DEF Spent, Backing, Backed
    <3>2. CASE a \notin Covered
      <4>1. ASSUME NEW m \in Reservations, ract[m] = a PROVE rstat[m] \in {"none", "EXPIRED", "RELEASED"}
        <5>1. rstat[m] \notin {"RESERVED", "COMMITTED"}
          BY <3>2, <4>1 DEF Used
        <5>2. rstat[m] # "REFUNDED"
          BY <2>4, <4>1 DEF Spent, MoneyFollowsProvider
        <5>3. rstat[m] \in ReservationStatus
          BY <4>1 DEF TypeOK
        <5> QED BY <5>1, <5>2, <5>3 DEF ReservationStatus
      <4>2. ASSUME NEW m \in Reservations, ract[m] = a PROVE rstat[m] # "none"
        BY <2>4, <4>2, ClassAssumption, NoneAssumption DEF Spent, Backing
      <4>3. a \in Lapsed
        BY <2>4, <3>1, <4>1, <4>2 DEF Lapsed
      <4> QED BY <3>1, <4>3
    <3> QED BY <3>1, <3>2
  <2> HIDE DEF charged, Covered, Owners
  <2>5. IsFiniteSet(Spent) /\ IsFiniteSet(Lapsed)
    BY <2>3, <2>4, FS_Subset DEF Lapsed
  <2>6. /\ IsFiniteSet(Covered \cup Lapsed)
        /\ Cardinality(Covered \cup Lapsed) = Cardinality(Covered) + Cardinality(Lapsed) - Cardinality(Covered \cap Lapsed)
    BY <2>2, <2>5, FS_Union
  <2>7. Cardinality(Spent) <= Cardinality(Covered \cup Lapsed)
    BY <2>4, <2>6, FS_Subset
  <2>8. IsFiniteSet(Covered \cap Lapsed)
    BY <2>2, FS_Subset
  <2>9. /\ Cardinality(Spent) \in Nat /\ Cardinality(Lapsed) \in Nat /\ Cardinality(Covered) \in Nat
        /\ Cardinality(Covered \cup Lapsed) \in Nat /\ Cardinality(Covered \cap Lapsed) \in Nat
    BY <2>2, <2>5, <2>6, <2>8, FS_CardinalityType
  <2> QED BY <2>1, <2>2, <2>6, <2>7, <2>9, BoundAssumption DEF OverspendLapsed
<1> QED BY <1>1, <1>2, NextBacking, EffectsHold, CeilingCorrect, MoneyCorrect, TypeCorrect, PTL DEF Spec

=============================================================================
