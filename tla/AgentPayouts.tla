----------------------------- MODULE AgentPayouts -----------------------------
(***************************************************************************)
(* Payout sweeps: aisl-proxy/src/services/payoutService.ts and             *)
(* db/repositories/payouts.ts, for one agent and one currency with a       *)
(* registered account.  A sweeper is one process of the scheduled job;     *)
(* several may run at once.                                                *)
(***************************************************************************)
EXTENDS CommissionLedger

CONSTANT Sweepers

VARIABLES payouts,  \* payouts: status, and the items it was created with
          claimed,  \* payout_items: conversions claimed, by payout
          landed,   \* payouts whose transfer the rail has made
          sweeper   \* per sweeper: pc, the conversions read and its payout

sweeps == <<payouts, claimed, landed, sweeper>>

PayoutTypeOK ==
  /\ payouts \in Seq([status : {"IN_FLIGHT", "PAID", "FAILED"}, items : SUBSET Nat])
  /\ claimed \in Seq(SUBSET DOMAIN conv)
  /\ Len(claimed) = Len(payouts)
  /\ landed \subseteq DOMAIN payouts
  /\ sweeper \in [Sweepers -> [pc : {"idle", "claim", "transfer", "confirm", "release"},
                               read : SUBSET DOMAIN conv, payout : Nat]]

NoSweep == [pc |-> "idle", read |-> {}, payout |-> 0]

PayoutInit == /\ payouts = <<>> /\ claimed = <<>> /\ landed = {}
              /\ sweeper = [s \in Sweepers |-> NoSweep]

Phase(s, pc) == sweeper' = [sweeper EXCEPT ![s].pc = pc]
Leave(s) == sweeper' = [sweeper EXCEPT ![s] = NoSweep]

\* The conversions that payout_items names.
Claimed == UNION {claimed[p] : p \in DOMAIN claimed}

\* ELIGIBLE_PREDICATE: a settled sale, or a reversal of a claimed sale.
Eligible ==
  {i \in DOMAIN conv \ Claimed :
     /\ AgentCents(i) # 0
     /\ IF IsSale(i) THEN conv[i].status = "SETTLED" ELSE conv[i].parent \in Claimed}

Total(items) == LET sales == {i \in items : IsSale(i)}
                IN (Cardinality(sales) - Cardinality(items \ sales))
                      * Split(Gross, Rate, Cut).agentPayout

\* The select of claim() runs on a snapshot ...
ReadEligible(s) ==
  /\ sweeper[s].pc = "idle"
  /\ Eligible # {}
  /\ sweeper' = [sweeper EXCEPT ![s].pc = "claim", ![s].read = Eligible]
  /\ UNCHANGED <<payouts, claimed, landed, conv, rails>>

\* Slip: the rows are not locked, so they are not looked at again.
UnlockedItems(s) == sweeper[s].read

\* ... and FOR UPDATE OF c looks at a row again that has changed meanwhile: a
\* sale that has been refunded is not taken.  payout_items is not read again.
LockedItems(s) == {i \in sweeper[s].read : IsSale(i) => conv[i].status = "SETTLED"}

\* Slip: a conversion that is already claimed is claimed again.
ClaimOverlapping(s) ==
  /\ sweeper[s].pc = "claim"
  /\ LET items == LockedItems(s)
     IN IF Total(items) <= 0
        THEN Leave(s) /\ UNCHANGED <<payouts, claimed>>
        ELSE /\ payouts' = Append(payouts, [status |-> "IN_FLIGHT", items |-> items])
             /\ claimed' = Append(claimed, items)
             /\ sweeper' = [sweeper EXCEPT ![s] = [pc |-> "transfer", read |-> {},
                                                   payout |-> Len(payouts) + 1]]
  /\ UNCHANGED <<landed, conv, rails>>

\* The rest of claim(): nothing to pay, or a conversion another sweep has taken
\* (the unique index aborts the transaction), or a new payout in flight.
ClaimItems(s) ==
  /\ sweeper[s].pc = "claim"
  /\ LET items == LockedItems(s)
     IN IF Total(items) <= 0 \/ items \cap Claimed # {}
        THEN Leave(s) /\ UNCHANGED <<payouts, claimed>>
        ELSE /\ payouts' = Append(payouts, [status |-> "IN_FLIGHT", items |-> items])
             /\ claimed' = Append(claimed, items)
             /\ sweeper' = [sweeper EXCEPT ![s] = [pc |-> "transfer", read |-> {},
                                                   payout |-> Len(payouts) + 1]]
  /\ UNCHANGED <<landed, conv, rails>>

\* transfers.create: made; refused; or made and the answer lost.
Transfer(s) ==
  /\ sweeper[s].pc = "transfer"
  /\ \/ Smooth /\ landed' = landed \cup {sweeper[s].payout} /\ Phase(s, "confirm")
     \/ Fault /\ landed' = landed \cup {sweeper[s].payout} /\ Phase(s, "release")
     \/ Fault /\ UNCHANGED landed /\ Phase(s, "release")
  /\ UNCHANGED <<payouts, claimed, conv, rail, emitted>>

\* markPaid; when it raises, the same catch releases the claim: also when it was
\* committed and only the answer to COMMIT was lost.
MarkPaid(s) ==
  /\ sweeper[s].pc = "confirm"
  /\ \/ Smooth /\ Leave(s) /\ payouts' = [payouts EXCEPT ![sweeper[s].payout].status = "PAID"]
     \/ /\ Fault /\ Phase(s, "release")
        /\ payouts' \in {payouts, [payouts EXCEPT ![sweeper[s].payout].status = "PAID"]}
  /\ UNCHANGED <<claimed, landed, conv, rail, emitted>>

\* markFailed, whatever the status: the items are deleted.  When it raises, the
\* claim is stranded.
MarkFailed(s) ==
  /\ sweeper[s].pc = "release"
  /\ Leave(s)
  /\ \/ /\ Smooth
        /\ payouts' = [payouts EXCEPT ![sweeper[s].payout].status = "FAILED"]
        /\ claimed' = [claimed EXCEPT ![sweeper[s].payout] = {}]
     \/ Fault /\ UNCHANGED <<payouts, claimed>>
  /\ UNCHANGED <<landed, conv, rail, emitted>>

\* The process dies; the payout, if it has one, stays in flight.
SweeperDies(s) ==
  /\ sweeper[s].pc # "idle"
  /\ Fault
  /\ Leave(s)
  /\ UNCHANGED <<payouts, claimed, landed, conv, rail, emitted>>

SweepStep(s) == \/ ReadEligible(s) \/ ClaimItems(s) \/ Transfer(s) \/ MarkPaid(s)
                \/ MarkFailed(s)

PayoutNext == \E s \in Sweepers : SweepStep(s) \/ SweeperDies(s)

===============================================================================
