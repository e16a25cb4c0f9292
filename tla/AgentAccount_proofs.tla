------------------------- MODULE AgentAccount_proofs -------------------------
(***************************************************************************)
(* Commerce keeps the account of AgentAccount: for any number of purchases,*)
(* handlers, deliveries and sweepers, and any number of faults.            *)
(***************************************************************************)
EXTENDS Commerce_proofs

-----------------------------------------------------------------------------
(* What the account reads in the tables                                    *)

\* The cause of a row tells a sale from a reversal.
RowsNamed == \A i \in DOMAIN conv :
  IF IsSale(i) THEN conv[i].cause = "none" ELSE conv[i].cause \in EventType

\* A sale that has a reversal is refunded.
ReversedRefunded == \A r \in DOMAIN conv :
  ~IsSale(r) => conv[conv[r].parent].status = "REFUNDED"

\* What has been in a payout is a row that had been settled ...
TakenEarned == \A p \in DOMAIN payouts : \A i \in payouts[p].items :
  i \in DOMAIN conv /\ (IsSale(i) => conv[i].status # "PENDING_SETTLEMENT")

\* ... and a sweep sets a reversal off only against a sale that has been taken.
ReadTaken == \A s \in Sweepers : \A i \in sweeper[s].read :
  ~IsSale(i) => \E p \in DOMAIN payouts : conv[i].parent \in payouts[p].items

AccountInv == RowsNamed /\ ReversedRefunded /\ TakenEarned /\ ReadTaken

saleOf == [c \in Clicks |-> IF SalesOf(c) = {} THEN "none" ELSE conv[FindSale(c)].status]
reversalsOf == {AccountEntry(i) : i \in {r \in DOMAIN conv : ~IsSale(r)}}
itemsOf(p) == {AccountEntry(i) : i \in payouts[p].items}
payoutsOf == [p \in DOMAIN payouts |-> [status |-> payouts[p].status, items |-> itemsOf(p)]]

-----------------------------------------------------------------------------
(* The invariant                                                           *)

LEMMA LeastOf ==
    ASSUME NEW S \in SUBSET Nat, NEW i \in S, \A j \in S : i <= j
    PROVE  (CHOOSE k \in S : \A j \in S : k <= j) = i
  <1>1. \A k \in S : (\A j \in S : k <= j) => k = i
    OBVIOUS
  <1>2. \E k \in S : \A j \in S : k <= j
    OBVIOUS
  <1> DEFINE m == CHOOSE k \in S : \A j \in S : k <= j
  <1>3. m \in S /\ \A j \in S : m <= j
    BY <1>2
  <1> QED  BY <1>1, <1>3

\* Kinds of rows, before and after a step.
LEMMA RowKinds ==
    ASSUME ConvTypeOK, NEW i \in DOMAIN conv
    PROVE  /\ i \in Nat \ {0} /\ conv[i] \in Row
           /\ ~IsSale(i) => /\ conv[i].entry = "REVERSAL" /\ conv[i].status = "REVERSAL"
                            /\ conv[i].parent \in DOMAIN conv /\ conv[i].parent < i
                            /\ conv[conv[i].parent].entry = "SALE"
                            /\ conv[conv[i].parent].click = conv[i].click
           /\ IsSale(i) => conv[i].status \in SaleStatus
  <1>1. i \in 1..Len(conv) /\ Len(conv) \in Nat /\ conv[i] \in Row
    BY RowsOf
  <1>2. RowOK(conv, i)
    BY DEF ConvTypeOK, RowOK
  <1>3. ~IsSale(i) => conv[i].entry = "REVERSAL"
    BY <1>1 DEF IsSale, Row
  <1> QED  BY <1>1, <1>2, <1>3, RowsOf DEF RowOK, IsSale

\* The four ways the table changes, row by row.
LEMMA NewSaleRows ==
    ASSUME ConvTypeOK, NEW c \in Clicks, NewSale(c)
    PROVE  /\ DOMAIN conv' = DOMAIN conv \cup {Len(conv) + 1} /\ Len(conv) + 1 \notin DOMAIN conv
           /\ \A j \in DOMAIN conv : conv'[j] = conv[j]
           /\ conv'[Len(conv) + 1] = Sale(c)
  <1>1. DOMAIN conv' = 1..(Len(conv) + 1)
    BY LenProperties DEF NewSale
  <1> QED  BY <1>1, RowsOf DEF NewSale

LEMMA SettlesRows ==
    ASSUME ConvTypeOK, NEW i \in DOMAIN conv, Settles(i)
    PROVE  /\ DOMAIN conv' = DOMAIN conv
           /\ \A j \in DOMAIN conv \ {i} : conv'[j] = conv[j]
           /\ conv[i].status = "PENDING_SETTLEMENT" /\ conv'[i].status = "SETTLED"
           /\ conv'[i].entry = conv[i].entry /\ conv'[i].click = conv[i].click
           /\ conv'[i].parent = conv[i].parent /\ conv'[i].cause = conv[i].cause
  <1>1. DOMAIN conv' = 1..Len(conv)
    BY LenProperties DEF Settles
  <1>2. conv'[i] = [conv[i] EXCEPT !.status = "SETTLED"] /\ conv[i] \in Row
    BY RowsOf DEF Settles
  <1> QED  BY <1>1, <1>2, RowsOf, RestatedRow DEF Settles, SaleStatus

LEMMA ReversesRows ==
    ASSUME ConvTypeOK, NEW i \in DOMAIN conv, NEW t \in EventType, Reverses(i, t)
    PROVE  /\ DOMAIN conv' = DOMAIN conv \cup {Len(conv) + 1} /\ Len(conv) + 1 \notin DOMAIN conv
           /\ \A j \in DOMAIN conv \ {i} : conv'[j] = conv[j]
           /\ conv'[i].status = "REFUNDED"
           /\ conv'[i].entry = conv[i].entry /\ conv'[i].click = conv[i].click
           /\ conv'[i].parent = conv[i].parent /\ conv'[i].cause = conv[i].cause
           /\ conv'[Len(conv) + 1] = Reversal(i, t)
  <1>1. DOMAIN conv' = 1..(Len(conv) + 1)
    BY LenProperties DEF Reverses
  <1>2. conv'[i] = [conv[i] EXCEPT !.status = "REFUNDED"] /\ conv[i] \in Row
    BY RowsOf DEF Reverses
  <1> QED  BY <1>1, <1>2, RowsOf, RestatedRow DEF Reverses, SaleStatus

\* Steps of the ledger keep the kinds of rows and refund what they reverse.
LEMMA RowsStep ==
    ASSUME ConvTypeOK, RowsNamed, ReversedRefunded, LedgerStep
    PROVE  RowsNamed' /\ ReversedRefunded'
  <1>1. CASE UNCHANGED conv
    BY <1>1 DEF RowsNamed, ReversedRefunded, IsSale
  <1>2. ASSUME NEW c \in Clicks, NewSale(c)
        PROVE  RowsNamed' /\ ReversedRefunded'
    <2> DEFINE n == Len(conv) + 1
    <2>1. /\ DOMAIN conv' = DOMAIN conv \cup {n} /\ n \notin DOMAIN conv
          /\ \A j \in DOMAIN conv : conv'[j] = conv[j]
          /\ conv'[n] = Sale(c)
      BY <1>2, NewSaleRows
    <2>2. conv'[n].entry = "SALE" /\ conv'[n].cause = "none"
      BY <2>1 DEF Sale
    <2> HIDE DEF n
    <2>3. RowsNamed'
      BY <2>1, <2>2 DEF RowsNamed, IsSale
    <2>4. ReversedRefunded'
      <3> SUFFICES ASSUME NEW r \in DOMAIN conv', ~IsSale(r)'
                   PROVE  conv'[conv'[r].parent].status = "REFUNDED"
        BY DEF ReversedRefunded
      <3>1. r \in DOMAIN conv
        BY <2>1, <2>2 DEF IsSale
      <3>2. conv'[r] = conv[r] /\ ~IsSale(r)
        BY <2>1, <3>1 DEF IsSale
      <3>3. conv[conv[r].parent].status = "REFUNDED" /\ conv[r].parent \in DOMAIN conv
        BY <3>1, <3>2, RowKinds DEF ReversedRefunded
      <3> QED  BY <2>1, <3>2, <3>3
    <2> QED  BY <2>3, <2>4
  <1>3. ASSUME NEW c \in Clicks, SalesOf(c) # {}, Settles(FindSale(c))
        PROVE  RowsNamed' /\ ReversedRefunded'
    <2> DEFINE f == FindSale(c)
    <2>1. f \in DOMAIN conv
      BY <1>3, FoundSale
    <2> HIDE DEF f
    <2>2. /\ DOMAIN conv' = DOMAIN conv
          /\ \A j \in DOMAIN conv \ {f} : conv'[j] = conv[j]
          /\ conv[f].status = "PENDING_SETTLEMENT"
          /\ conv'[f].entry = conv[f].entry /\ conv'[f].cause = conv[f].cause
          /\ conv'[f].parent = conv[f].parent
      BY <1>3, <2>1, SettlesRows DEF f
    <2>3. RowsNamed'
      BY <2>2 DEF RowsNamed, IsSale
    <2>4. ReversedRefunded'
      <3> SUFFICES ASSUME NEW r \in DOMAIN conv', ~IsSale(r)'
                   PROVE  conv'[conv'[r].parent].status = "REFUNDED"
        BY DEF ReversedRefunded
      <3>1. r \in DOMAIN conv /\ ~IsSale(r) /\ conv'[r].parent = conv[r].parent
        BY <2>2 DEF IsSale
      <3>2. conv[conv[r].parent].status = "REFUNDED" /\ conv[r].parent \in DOMAIN conv
        BY <3>1, RowKinds DEF ReversedRefunded
      <3> QED  BY <2>2, <3>1, <3>2
    <2> QED  BY <2>3, <2>4
  <1>4. ASSUME NEW c \in Clicks, NEW t \in EventType, SalesOf(c) # {}, Reverses(FindSale(c), t)
        PROVE  RowsNamed' /\ ReversedRefunded'
    <2> DEFINE f == FindSale(c)
               n == Len(conv) + 1
    <2>1. f \in DOMAIN conv /\ conv[f].entry = "SALE"
      BY <1>4, FoundSale
    <2> HIDE DEF f
    <2>2. /\ DOMAIN conv' = DOMAIN conv \cup {n} /\ n \notin DOMAIN conv
          /\ \A j \in DOMAIN conv \ {f} : conv'[j] = conv[j]
          /\ conv'[f].status = "REFUNDED"
          /\ conv'[f].entry = conv[f].entry /\ conv'[f].cause = conv[f].cause
          /\ conv'[f].parent = conv[f].parent
          /\ conv'[n] = Reversal(f, t)
      BY <1>4, <2>1, ReversesRows DEF f
    <2> HIDE DEF n
    <2>3. conv'[n].entry = "REVERSAL" /\ conv'[n].cause = t /\ conv'[n].parent = f
      BY <2>2 DEF Reversal
    <2>4. RowsNamed'
      BY <2>2, <2>3 DEF RowsNamed, IsSale
    <2>5. ReversedRefunded'
      <3> SUFFICES ASSUME NEW r \in DOMAIN conv', ~IsSale(r)'
                   PROVE  conv'[conv'[r].parent].status = "REFUNDED"
        BY DEF ReversedRefunded
      <3>1. CASE r = n
        BY <2>2, <2>3, <3>1
      <3>2. CASE r \in DOMAIN conv
        <4>1. ~IsSale(r) /\ conv'[r].parent = conv[r].parent
          BY <2>2, <3>2 DEF IsSale
        <4>2. conv[conv[r].parent].status = "REFUNDED" /\ conv[r].parent \in DOMAIN conv
          BY <3>2, <4>1, RowKinds DEF ReversedRefunded
        <4> QED  BY <2>2, <4>1, <4>2
      <3> QED  BY <2>2, <3>1, <3>2
    <2> QED  BY <2>4, <2>5
  <1> QED  BY <1>1, <1>2, <1>3, <1>4 DEF LedgerStep

\* Rows that were in a payout or have been read for one stay what they were.
LEMMA TakenKept ==
    ASSUME ConvTypeOK, PayoutTypeOK, TakenEarned, ReadTaken, LedgerStep, UNCHANGED sweeps
    PROVE  TakenEarned' /\ ReadTaken'
  <1>1. RowsKept
    BY StepKeepsRows
  <1>2. \A i \in DOMAIN conv : conv[i].status # "PENDING_SETTLEMENT" /\ IsSale(i)
                                => conv'[i].status # "PENDING_SETTLEMENT"
    <2> SUFFICES ASSUME NEW i \in DOMAIN conv, conv[i].status # "PENDING_SETTLEMENT",
                        conv'[i] # conv[i]
                 PROVE  conv'[i].status # "PENDING_SETTLEMENT"
      OBVIOUS
    <2>1. ASSUME NEW c \in Clicks, NewSale(c) PROVE FALSE
      BY <2>1, NewSaleRows
    <2>2. ASSUME NEW c \in Clicks, SalesOf(c) # {}, Settles(FindSale(c)) PROVE FALSE
      BY <2>2, FoundSale, SettlesRows
    <2>3. ASSUME NEW c \in Clicks, NEW t \in EventType, SalesOf(c) # {}, Reverses(FindSale(c), t)
          PROVE  conv'[i].status # "PENDING_SETTLEMENT"
      <3>1. i = FindSale(c)
        BY <2>3, FoundSale, ReversesRows
      <3>2. conv'[FindSale(c)].status = "REFUNDED"
        BY <2>3, FoundSale, ReversesRows
      <3> QED  BY <3>1, <3>2
    <2> QED  BY <2>1, <2>2, <2>3 DEF LedgerStep
  <1>3. TakenEarned'
    BY <1>1, <1>2 DEF TakenEarned, RowsKept, IsSale, sweeps
  <1>4. \A s \in Sweepers : sweeper[s].read \subseteq DOMAIN conv
    BY PayoutRows DEF SweeperType
  <1>5. ReadTaken'
    BY <1>1, <1>4 DEF ReadTaken, RowsKept, IsSale, sweeps
  <1> QED  BY <1>3, <1>5

-----------------------------------------------------------------------------
(* What a sweep does to the payouts                                        *)

\* A sweep opens a payout of what it holds the rows of ...
Opens(s) ==
  LET n == Len(payouts) + 1
  IN /\ Total(LockedItems(s)) > 0 /\ LockedItems(s) \cap Claimed = {}
     /\ DOMAIN payouts' = DOMAIN payouts \cup {n} /\ n \notin DOMAIN payouts
     /\ \A p \in DOMAIN payouts : payouts'[p] = payouts[p]
     /\ payouts'[n] = [status |-> "IN_FLIGHT", items |-> LockedItems(s)]

\* ... or ends one that has not failed.
Ends(p, st) == /\ payouts[p].status = "IN_FLIGHT" \/ st = "FAILED"
               /\ payouts[p].status # "FAILED" /\ DOMAIN payouts' = DOMAIN payouts
               /\ payouts'[p].status = st /\ payouts'[p].items = payouts[p].items
               /\ \A q \in DOMAIN payouts \ {p} : payouts'[q] = payouts[q]

LEMMA ClaimOpens ==
    ASSUME ConvTypeOK, PayoutTypeOK, NEW s \in Sweepers, ClaimItems(s)
    PROVE  UNCHANGED payouts \/ Opens(s)
  <1> DEFINE items == LockedItems(s)
             row == [status |-> "IN_FLIGHT", items |-> items]
             n == Len(payouts) + 1
  <1> SUFFICES ASSUME ~(Total(items) <= 0), items \cap Claimed = {},
                      payouts' = Append(payouts, row)
               PROVE  Opens(s)
    BY DEF ClaimItems
  <1>1. items \in SUBSET DOMAIN conv
    BY PayoutRows DEF LockedItems, SweeperType
  <1>2. Total(items) > 0
    BY <1>1, TotalNumber
  <1>3. row \in PayoutRow
    BY <1>1, RowsOf DEF PayoutRow
  <1> HIDE DEF items, row
  <1>4. /\ payouts' \in Seq(PayoutRow) /\ Len(payouts') = n
        /\ \A p \in 1..Len(payouts) : payouts'[p] = payouts[p]
        /\ payouts'[n] = row
    BY <1>3, PayoutRows, AppendProperties
  <1>5. DOMAIN payouts' = 1..n
    BY <1>4, LenProperties
  <1> QED  BY <1>2, <1>4, <1>5, PayoutRows DEF Opens, items, row

LEMMA StatusEnds ==
    ASSUME PayoutTypeOK, HasPayout, NEW s \in Sweepers, sweeper[s].pc \in Paying,
           NEW st \in {"PAID", "FAILED"}, st = "PAID" => sweeper[s].pc # "release",
           payouts' = [payouts EXCEPT ![sweeper[s].payout].status = st]
    PROVE  sweeper[s].payout \in DOMAIN payouts /\ Ends(sweeper[s].payout, st)
  <1> DEFINE n == sweeper[s].payout
             row == [payouts[n] EXCEPT !.status = st]
  <1>1. /\ n \in 1..Len(payouts) /\ payouts[n] \in PayoutRow
        /\ payouts[n].status # "FAILED" /\ (st = "PAID" => payouts[n].status = "IN_FLIGHT")
    BY PayoutRows DEF HasPayout, InHand
  <1>2. row \in PayoutRow /\ row.status = st /\ row.items = payouts[n].items
    BY <1>1 DEF PayoutRow
  <1>3. payouts' = [payouts EXCEPT ![n] = row]
    OBVIOUS
  <1> HIDE DEF n, row
  <1>4. /\ payouts' \in Seq(PayoutRow) /\ Len(payouts') = Len(payouts)
        /\ \A p \in 1..Len(payouts) : payouts'[p] = IF p = n THEN row ELSE payouts[p]
    BY <1>1, <1>2, <1>3, PayoutRows, ExceptSeq
  <1>5. DOMAIN payouts' = 1..Len(payouts)
    BY <1>4, LenProperties
  <1> QED  BY <1>1, <1>2, <1>4, <1>5, PayoutRows DEF Ends, n

LEMMA SweepEffects ==
    ASSUME ConvTypeOK, PayoutTypeOK, HasPayout, PayoutNext
    PROVE  \/ UNCHANGED payouts
           \/ \E s \in Sweepers : Opens(s)
           \/ \E p \in DOMAIN payouts, st \in {"PAID", "FAILED"} : Ends(p, st)
  <1> PICK s \in Sweepers : SweepStep(s) \/ SweeperDies(s)
    BY DEF PayoutNext
  <1>1. CASE ClaimItems(s)
    BY <1>1, ClaimOpens
  <1>2. CASE MarkPaid(s)
    <2>1. sweeper[s].pc \in Paying /\ sweeper[s].pc # "release"
      BY <1>2 DEF MarkPaid, Paying
    <2>2. UNCHANGED payouts \/ payouts' = [payouts EXCEPT ![sweeper[s].payout].status = "PAID"]
      BY <1>2 DEF MarkPaid
    <2> QED  BY <2>1, <2>2, StatusEnds
  <1>3. CASE MarkFailed(s)
    <2>1. sweeper[s].pc \in Paying
      BY <1>3 DEF MarkFailed, Paying
    <2>2. UNCHANGED payouts \/ payouts' = [payouts EXCEPT ![sweeper[s].payout].status = "FAILED"]
      BY <1>3 DEF MarkFailed
    <2> QED  BY <2>1, <2>2, StatusEnds
  <1>4. CASE ReadEligible(s) \/ Transfer(s) \/ SweeperDies(s)
    BY <1>4 DEF ReadEligible, Transfer, SweeperDies
  <1> QED  BY <1>1, <1>2, <1>3, <1>4 DEF SweepStep

\* No payout is lost, and none changes its items.
LEMMA SweepKeepsItems ==
    ASSUME ConvTypeOK, PayoutTypeOK, HasPayout, PayoutNext
    PROVE  \A p \in DOMAIN payouts : p \in DOMAIN payouts' /\ payouts'[p].items = payouts[p].items
  <1>1. ASSUME NEW s \in Sweepers, Opens(s)
        PROVE  \A p \in DOMAIN payouts : p \in DOMAIN payouts' /\ payouts'[p] = payouts[p]
    BY <1>1 DEF Opens
  <1>2. ASSUME NEW p \in DOMAIN payouts, NEW st \in {"PAID", "FAILED"}, Ends(p, st)
        PROVE  \A q \in DOMAIN payouts : q \in DOMAIN payouts' /\ payouts'[q].items = payouts[q].items
    BY <1>2 DEF Ends
  <1> QED  BY <1>1, <1>2, SweepEffects

\* A sweep reads what is eligible, or nothing new.
LEMMA SweepReads ==
    ASSUME PayoutTypeOK, PayoutNext, NEW t \in Sweepers, NEW i \in sweeper'[t].read
    PROVE  i \in sweeper[t].read \/ i \in Eligible
  <1> PICK s \in Sweepers : SweepStep(s) \/ SweeperDies(s)
    BY DEF PayoutNext
  <1>1. sweeper \in [Sweepers -> SweeperType(DOMAIN conv)] /\ NoSweep.read = {}
    BY PayoutRows DEF NoSweep
  <1>2. CASE ReadEligible(s)
    <2>1. sweeper' = [sweeper EXCEPT ![s].pc = "claim", ![s].read = Eligible]
      BY <1>2 DEF ReadEligible
    <2>2. CASE t = s
      <3>1. sweeper'[s].read = Eligible
        BY <1>1, <2>1 DEF SweeperType
      <3> QED  BY <2>2, <3>1
    <2>3. CASE t # s
      BY <1>1, <2>1, <2>3
    <2> QED  BY <2>2, <2>3
  <1>3. CASE ClaimItems(s)
    <2>1. Leave(s) \/ sweeper' = [sweeper EXCEPT ![s] = [pc |-> "transfer", read |-> {},
                                                        payout |-> Len(payouts) + 1]]
      BY <1>3 DEF ClaimItems
    <2> QED  BY <1>1, <2>1 DEF Leave
  <1>4. CASE Transfer(s) \/ MarkPaid(s) \/ MarkFailed(s) \/ SweeperDies(s)
    <2>1. Leave(s) \/ \E pc \in Paying : Phase(s, pc)
      BY <1>4 DEF Transfer, MarkPaid, MarkFailed, SweeperDies, Paying
    <2>2. ASSUME NEW pc \in Paying, Phase(s, pc) PROVE sweeper'[t].read = sweeper[t].read
      BY <1>1, <2>2 DEF Phase, SweeperType
    <2> QED  BY <1>1, <2>1, <2>2 DEF Leave
  <1> QED  BY <1>2, <1>3, <1>4 DEF SweepStep

LEMMA LockedTaken ==
    ASSUME ConvTypeOK, PayoutTypeOK, NEW s \in Sweepers, NEW i \in LockedItems(s)
    PROVE  /\ i \in DOMAIN conv /\ i \in sweeper[s].read
           /\ IsSale(i) => conv[i].status = "SETTLED"
  BY PayoutRows DEF LockedItems, SweeperType

LEMMA SweepsTake ==
    ASSUME ConvTypeOK, PayoutTypeOK, PayoutInv, TakenEarned, ReadTaken, PayoutNext,
           UNCHANGED conv
    PROVE  TakenEarned' /\ ReadTaken'
  <1> USE DEF PayoutInv
  <1>1. TakenEarned'
    <2>1. CASE UNCHANGED payouts
      BY <2>1 DEF TakenEarned, IsSale
    <2>2. ASSUME NEW s \in Sweepers, Opens(s) PROVE TakenEarned'
      <3> DEFINE n == Len(payouts) + 1
      <3>1. /\ DOMAIN payouts' = DOMAIN payouts \cup {n}
            /\ \A p \in DOMAIN payouts : payouts'[p] = payouts[p]
            /\ payouts'[n].items = LockedItems(s)
        BY <2>2 DEF Opens
      <3> HIDE DEF n
      <3>2. \A i \in LockedItems(s) : i \in DOMAIN conv /\ (IsSale(i) => conv[i].status = "SETTLED")
        BY LockedTaken
      <3> QED  BY <3>1, <3>2 DEF TakenEarned, IsSale
    <2>3. ASSUME NEW p \in DOMAIN payouts, NEW st \in {"PAID", "FAILED"}, Ends(p, st)
          PROVE  TakenEarned'
      BY <2>3 DEF TakenEarned, Ends, IsSale
    <2> QED  BY <2>1, <2>2, <2>3, SweepEffects
  <1>2. ReadTaken'
    <2> SUFFICES ASSUME NEW s \in Sweepers, NEW i \in sweeper'[s].read, ~IsSale(i)
                 PROVE  \E p \in DOMAIN payouts : conv[i].parent \in payouts[p].items
      BY SweepKeepsItems DEF ReadTaken, IsSale
    <2>1. CASE i \in sweeper[s].read
      BY <2>1 DEF ReadTaken
    <2>2. CASE i \in Eligible
      <3>1. conv[i].parent \in Claimed
        BY <2>2 DEF Eligible
      <3>2. PICK p \in DOMAIN payouts : conv[i].parent \in claimed[p]
        BY <3>1, PayoutRows DEF Claimed
      <3>3. claimed[p] = payouts[p].items
        BY <3>2 DEF ClaimsExclusive
      <3> QED  BY <3>2, <3>3
    <2> QED  BY <2>1, <2>2, SweepReads
  <1> QED  BY <1>1, <1>2

LEMMA AccountInvInit == Init => AccountInv
  <1> SUFFICES ASSUME Init PROVE AccountInv
    OBVIOUS
  <1>1. conv = <<>> /\ payouts = <<>> /\ sweeper = [s \in Sweepers |-> NoSweep]
    BY DEF Init, ConvInit, PayoutInit
  <1>2. DOMAIN conv = {} /\ DOMAIN payouts = {} /\ \A s \in Sweepers : sweeper[s].read = {}
    BY <1>1 DEF NoSweep
  <1> QED  BY <1>2 DEF AccountInv, RowsNamed, ReversedRefunded, TakenEarned, ReadTaken

\* A step is one of the sweeps, or leaves them alone.
LEMMA SweepsApart ==
    ASSUME IInv, [Next]_vars
    PROVE  \/ PayoutNext /\ UNCHANGED conv
           \/ UNCHANGED sweeps
  <1>1. PayoutNext => UNCHANGED conv
    BY PayoutSteps DEF IInv
  <1> QED  BY <1>1 DEF Next, vars

LEMMA AccountInvStep ==
    ASSUME IInv, AccountInv, [Next]_vars
    PROVE  AccountInv'
  <1> USE DEF IInv, TypeOK, AccountInv
  <1>1. RowsNamed' /\ ReversedRefunded'
    BY StepsOfLedger, RowsStep
  <1>2. TakenEarned' /\ ReadTaken'
    BY StepsOfLedger, SweepsApart, TakenKept, SweepsTake
  <1> QED  BY <1>1, <1>2

LEMMA AccountInductive == Spec => []AccountInv
  <1>1. IInv /\ IInv' /\ AccountInv /\ [Next]_vars => AccountInv'
    BY AccountInvStep
  <1> QED  BY <1>1, AccountInvInit, Inductive, PTL DEF Spec

-----------------------------------------------------------------------------
(* The account as the tables show it                                       *)

\* The sale the account shows is the one that is not pending any more.
LEMMA ShownSale ==
    ASSUME ConvTypeOK, OldestEarns, NEW c \in Clicks, NEW i \in SalesOf(c),
           conv[i].status # "PENDING_SETTLEMENT"
    PROVE  FindSale(c) = i /\ saleOf[c] = conv[i].status
  <1>1. SalesOf(c) \in SUBSET Nat
    BY RowsOf DEF SalesOf
  <1>2. \A j \in SalesOf(c) : i <= j
    BY DEF OldestEarns
  <1>3. FindSale(c) = i
    BY <1>1, <1>2, LeastOf DEF FindSale
  <1> QED  BY <1>3 DEF saleOf

\* A reversal is of the sale the account shows.
LEMMA ReversedSale ==
    ASSUME ConvTypeOK, OldestEarns, ReversedRefunded, NEW r \in DOMAIN conv, ~IsSale(r)
    PROVE  /\ conv[r].click \in Clicks /\ conv[r].parent \in SalesOf(conv[r].click)
           /\ conv[r].parent = FindSale(conv[r].click)
  <1>1. conv[r].click \in Clicks /\ conv[r].parent \in SalesOf(conv[r].click)
    BY RowKinds DEF SalesOf, IsSale, Row
  <1>2. conv[conv[r].parent].status = "REFUNDED"
    BY DEF ReversedRefunded
  <1> QED  BY <1>1, <1>2, ShownSale

\* Two rows that are not pending sales show as two entries.
LEMMA EntriesApart ==
    ASSUME ConvTypeOK, OldestEarns, ReversedOncePerEvent, RowsNamed, ReversedRefunded,
           NEW i \in DOMAIN conv, NEW k \in DOMAIN conv,
           IsSale(i) => conv[i].status # "PENDING_SETTLEMENT",
           IsSale(k) => conv[k].status # "PENDING_SETTLEMENT",
           AccountEntry(i) = AccountEntry(k)
    PROVE  i = k
  <1>1. conv[i].click = conv[k].click /\ conv[i].cause = conv[k].cause
    BY DEF AccountEntry
  <1>2. conv[i] \in Row /\ conv[k] \in Row /\ conv[i].click \in Clicks
    BY RowKinds DEF Row
  <1>3. "none" \notin EventType
    BY DEF EventType
  <1>4. CASE IsSale(i)
    <2>1. IsSale(k)
      BY <1>1, <1>3, <1>4 DEF RowsNamed
    <2>2. i \in SalesOf(conv[i].click) /\ k \in SalesOf(conv[i].click)
      BY <1>1, <1>4, <2>1 DEF SalesOf
    <2> QED  BY <1>2, <1>4, <2>1, <2>2, ShownSale
  <1>5. CASE ~IsSale(i)
    <2>1. ~IsSale(k)
      BY <1>1, <1>3, <1>5 DEF RowsNamed
    <2>2. conv[i].parent = conv[k].parent
      BY <1>1, <1>5, <2>1, ReversedSale
    <2>3. /\ conv[i].entry = "REVERSAL" /\ conv[k].entry = "REVERSAL"
          /\ conv[i].status = "REVERSAL" /\ conv[k].status = "REVERSAL"
      BY <1>5, <2>1, RowKinds
    <2>4. conv[i] = conv[k]
      BY <1>1, <1>2, <2>2, <2>3 DEF Row
    <2> QED  BY <2>3, <2>4 DEF ReversedOncePerEvent
  <1> QED  BY <1>4, <1>5

\* A step of the ledger changes no payout.
LEMMA PayoutsShown ==
    ASSUME ConvTypeOK, PayoutTypeOK, TakenEarned, LedgerStep, UNCHANGED payouts
    PROVE  UNCHANGED payoutsOf
  <1>1. \A i \in DOMAIN conv : AccountEntry(i)' = AccountEntry(i)
    BY StepKeepsRows DEF RowsKept, AccountEntry
  <1>2. \A p \in DOMAIN payouts : itemsOf(p)' = itemsOf(p)
    BY <1>1 DEF itemsOf, TakenEarned
  <1> QED  BY <1>2 DEF payoutsOf

\* The sales of a payment before and after a step of the ledger.
LEMMA SalesAfter ==
    ASSUME ConvTypeOK, LedgerStep, NEW d \in Clicks
    PROVE  SalesOf(d)' = SalesOf(d) \cup {j \in DOMAIN conv' \ DOMAIN conv :
                                            conv'[j].entry = "SALE" /\ conv'[j].click = d}
  BY StepKeepsRows DEF RowsKept, SalesOf, IsSale

LEMMA ReversalsAfter ==
    ASSUME ConvTypeOK, LedgerStep
    PROVE  reversalsOf' = reversalsOf \cup
             {[payment |-> conv'[j].click, cause |-> conv'[j].cause] :
                j \in {r \in DOMAIN conv' \ DOMAIN conv : conv'[r].entry # "SALE"}}
  <1>1. \A i \in DOMAIN conv : /\ AccountEntry(i)' = AccountEntry(i) /\ i \in DOMAIN conv'
                               /\ IsSale(i)' = IsSale(i)
    BY StepKeepsRows DEF RowsKept, AccountEntry, IsSale
  <1> QED  BY <1>1 DEF reversalsOf, IsSale, AccountEntry

\* A new sale earns the commission of its payment, once.
LEMMA EarnShown ==
    ASSUME ConvTypeOK, PayoutTypeOK, TakenEarned, UNCHANGED payouts,
           NEW c \in Clicks, NewSale(c)
    PROVE  Account!Earn(c) \/ UNCHANGED <<saleOf, reversalsOf, payoutsOf>>
  <1> DEFINE n == Len(conv) + 1
  <1>1. /\ DOMAIN conv' = DOMAIN conv \cup {n} /\ n \notin DOMAIN conv
        /\ \A j \in DOMAIN conv : conv'[j] = conv[j]
        /\ conv'[n] = Sale(c)
    BY NewSaleRows
  <1>2. /\ conv'[n].entry = "SALE" /\ conv'[n].click = c
        /\ conv'[n].status = "PENDING_SETTLEMENT"
    BY <1>1 DEF Sale
  <1>3. \A j \in DOMAIN conv : j < n /\ j \in Nat
    BY RowsOf
  <1>4. n \in Nat
    BY RowsOf
  <1> HIDE DEF n
  <1>5. LedgerStep
    BY DEF LedgerStep
  <1>6. UNCHANGED payoutsOf
    BY <1>5, PayoutsShown
  <1>7. UNCHANGED reversalsOf
    BY <1>1, <1>2, <1>5, ReversalsAfter
  <1>8. SalesOf(c)' = SalesOf(c) \cup {n} /\ \A d \in Clicks \ {c} : SalesOf(d)' = SalesOf(d)
    <2>1. DOMAIN conv' \ DOMAIN conv = {n}
      BY <1>1
    <2>2. SalesOf(c)' = SalesOf(c) \cup {n}
      BY <1>2, <1>5, <2>1, SalesAfter
    <2>3. \A d \in Clicks \ {c} : SalesOf(d)' = SalesOf(d)
      BY <1>2, <1>5, <2>1, SalesAfter
    <2> QED  BY <2>2, <2>3
  <1>9. \A d \in Clicks \ {c} : FindSale(d)' = FindSale(d)
    BY <1>8 DEF FindSale
  <1>10. \A d \in Clicks \ {c} : saleOf'[d] = saleOf[d]
    BY <1>1, <1>8, <1>9, FoundSale DEF saleOf
  <1>11. CASE SalesOf(c) = {}
    <2>1. FindSale(c)' = n
      <3>1. SalesOf(c)' = {n}
        BY <1>8, <1>11
      <3> QED  BY <1>4, <3>1, LeastOf DEF FindSale
    <2>2. saleOf[c] = "none" /\ saleOf'[c] = "PENDING_SETTLEMENT"
      BY <1>2, <1>8, <1>11, <2>1 DEF saleOf
    <2>3. saleOf' = [saleOf EXCEPT ![c] = "PENDING_SETTLEMENT"]
      BY <1>10, <2>2 DEF saleOf
    <2> QED  BY <1>6, <1>7, <2>2, <2>3 DEF Account!Earn, saleOf, reversalsOf, payoutsOf, itemsOf
  <1>12. CASE SalesOf(c) # {}
    <2> DEFINE f == FindSale(c)
    <2>1. f \in SalesOf(c) /\ \A j \in SalesOf(c) : f <= j
      BY <1>12, OldestSale
    <2>2. f \in DOMAIN conv /\ SalesOf(c)' \in SUBSET Nat
      BY <1>3, <1>4, <1>8, <2>1 DEF SalesOf
    <2> HIDE DEF f
    <2>3. \A j \in SalesOf(c)' : f <= j
      BY <1>3, <1>4, <1>8, <2>1, <2>2
    <2>4. FindSale(c)' = f
      <3>1. f \in SalesOf(c)'
        BY <1>8, <2>1
      <3>2. (CHOOSE k \in SalesOf(c)' : \A j \in SalesOf(c)' : k <= j) = f
        BY <2>2, <2>3, <3>1, LeastOf
      <3> QED  BY <3>2 DEF FindSale
    <2>5. saleOf'[c] = saleOf[c]
      BY <1>1, <1>8, <1>12, <2>2, <2>4 DEF saleOf, f
    <2>6. saleOf' = saleOf
      BY <1>10, <2>5 DEF saleOf
    <2> QED  BY <1>6, <1>7, <2>6
  <1> QED  BY <1>11, <1>12

\* The settlement of the oldest sale is the one the account shows.
LEMMA SettleShown ==
    ASSUME ConvTypeOK, PayoutTypeOK, TakenEarned, UNCHANGED payouts,
           NEW c \in Clicks, SalesOf(c) # {}, Settles(FindSale(c))
    PROVE  Account!Settle(c)
  <1> DEFINE f == FindSale(c)
  <1>1. f \in DOMAIN conv /\ f \in SalesOf(c) /\ conv[f].click = c
    BY FoundSale, OldestSale
  <1>2. /\ DOMAIN conv' = DOMAIN conv
        /\ \A j \in DOMAIN conv \ {f} : conv'[j] = conv[j]
        /\ conv[f].status = "PENDING_SETTLEMENT" /\ conv'[f].status = "SETTLED"
    BY <1>1, SettlesRows
  <1>3. LedgerStep
    BY DEF LedgerStep
  <1>4. UNCHANGED payoutsOf
    BY <1>3, PayoutsShown
  <1>5. UNCHANGED reversalsOf
    BY <1>2, <1>3, ReversalsAfter
  <1>6. \A d \in Clicks : SalesOf(d)' = SalesOf(d)
    BY <1>2, <1>3, SalesAfter
  <1>7. \A d \in Clicks : FindSale(d)' = FindSale(d)
    BY <1>6 DEF FindSale
  <1>8. saleOf[c] = "PENDING_SETTLEMENT" /\ saleOf'[c] = "SETTLED"
    BY <1>2, <1>6, <1>7 DEF saleOf
  <1> HIDE DEF f
  <1>9. \A d \in Clicks \ {c} : saleOf'[d] = saleOf[d]
    <2> SUFFICES ASSUME NEW d \in Clicks \ {c}, SalesOf(d) # {}
                 PROVE  conv'[FindSale(d)] = conv[FindSale(d)]
      BY <1>6, <1>7 DEF saleOf
    <2> QED  BY <1>1, <1>2, FoundSale
  <1>10. saleOf' = [saleOf EXCEPT ![c] = "SETTLED"]
    BY <1>8, <1>9 DEF saleOf
  <1> QED  BY <1>4, <1>5, <1>8, <1>10 DEF Account!Settle, saleOf, reversalsOf, payoutsOf, itemsOf

\* So is its reversal, and the account has not shown that one before.
LEMMA ReverseShown ==
    ASSUME ConvTypeOK, PayoutTypeOK, OldestEarns, RowsNamed, ReversedRefunded, TakenEarned,
           UNCHANGED payouts,
           NEW c \in Clicks, NEW t \in EventType, SalesOf(c) # {}, Reverses(FindSale(c), t)
    PROVE  Account!Reverse(c, t)
  <1> DEFINE f == FindSale(c)
             n == Len(conv) + 1
             e == [payment |-> c, cause |-> t]
  <1>1. f \in DOMAIN conv /\ f \in SalesOf(c) /\ conv[f].click = c /\ conv[f].status \in SaleStatus
    BY FoundSale, OldestSale, RowKinds DEF IsSale
  <1>2. /\ DOMAIN conv' = DOMAIN conv \cup {n} /\ n \notin DOMAIN conv
        /\ \A j \in DOMAIN conv \ {f} : conv'[j] = conv[j]
        /\ conv'[f].status = "REFUNDED"
        /\ conv'[n] = Reversal(f, t)
    BY <1>1, ReversesRows
  <1>3. /\ conv'[n].entry = "REVERSAL"
        /\ [payment |-> conv'[n].click, cause |-> conv'[n].cause] = e
    BY <1>1, <1>2 DEF Reversal
  <1>4. LedgerStep
    BY DEF LedgerStep
  <1>5. UNCHANGED payoutsOf
    BY <1>4, PayoutsShown
  <1>6. reversalsOf' = reversalsOf \cup {e}
    <2> HIDE DEF e, n
    <2> QED  BY <1>2, <1>3, <1>4, ReversalsAfter
  <1>7. e \notin reversalsOf
    <2> SUFFICES ASSUME NEW r \in DOMAIN conv, ~IsSale(r), AccountEntry(r) = e
                 PROVE  FALSE
      BY DEF reversalsOf
    <2>1. conv[r].click = c /\ conv[r].cause = t
      BY DEF AccountEntry
    <2>2. conv[r].parent = f
      BY <2>1, ReversedSale
    <2>3. conv[r] = Reversal(f, t)
      <3>1. conv[r] \in Row /\ conv[r].entry = "REVERSAL" /\ conv[r].status = "REVERSAL"
        BY RowKinds
      <3> HIDE DEF f
      <3> QED  BY <1>1, <2>1, <2>2, <3>1 DEF Reversal, Row
    <2> QED  BY <2>3 DEF Reverses
  <1>8. \A d \in Clicks : SalesOf(d)' = SalesOf(d)
    BY <1>2, <1>3, <1>4, SalesAfter
  <1>9. \A d \in Clicks : FindSale(d)' = FindSale(d)
    BY <1>8 DEF FindSale
  <1>10. saleOf[c] # "none" /\ saleOf'[c] = "REFUNDED"
    BY <1>1, <1>2, <1>8, <1>9 DEF saleOf, SaleStatus
  <1> HIDE DEF f
  <1>11. \A d \in Clicks \ {c} : saleOf'[d] = saleOf[d]
    <2> SUFFICES ASSUME NEW d \in Clicks \ {c}, SalesOf(d) # {}
                 PROVE  conv'[FindSale(d)] = conv[FindSale(d)]
      BY <1>8, <1>9 DEF saleOf
    <2> QED  BY <1>1, <1>2, FoundSale
  <1>12. saleOf' = [saleOf EXCEPT ![c] = "REFUNDED"]
    BY <1>10, <1>11 DEF saleOf
  <1> QED  BY <1>5, <1>6, <1>7, <1>10, <1>12
             DEF Account!Reverse, Account!Reversal, saleOf, reversalsOf, payoutsOf, itemsOf

\* A payout that ends, ends in the account.
LEMMA EndShown ==
    ASSUME UNCHANGED conv, NEW p \in DOMAIN payouts, NEW st \in {"PAID", "FAILED"}, Ends(p, st)
    PROVE  Account!End(p, st)
  <1>1. UNCHANGED <<saleOf, reversalsOf>>
    BY DEF saleOf, reversalsOf, SalesOf, FindSale, IsSale, AccountEntry
  <1>2. \A q \in DOMAIN payouts : itemsOf(q)' = itemsOf(q)
    BY DEF Ends, itemsOf, AccountEntry
  <1>3. payoutsOf' = [payoutsOf EXCEPT ![p].status = st]
    BY <1>2 DEF payoutsOf, Ends
  <1>4. /\ payoutsOf[p].status = "IN_FLIGHT" \/ st = "FAILED"
        /\ payoutsOf[p].status # "FAILED"
    BY DEF payoutsOf, Ends
  <1> QED  BY <1>1, <1>3, <1>4 DEF Account!End, saleOf, reversalsOf, payoutsOf, itemsOf

\* What a payout is made of is due in the account, ...
LEMMA LockedDue ==
    ASSUME ConvTypeOK, PayoutTypeOK, OldestEarns, AccountInv,
           NEW s \in Sweepers, NEW i \in LockedItems(s)
    PROVE  AccountEntry(i) \in Account!Due
  <1> USE DEF AccountInv
  <1>1. i \in DOMAIN conv /\ i \in sweeper[s].read /\ (IsSale(i) => conv[i].status = "SETTLED")
    BY LockedTaken
  <1>2. conv[i].click \in Clicks
    BY <1>1, RowKinds DEF Row
  <1>3. CASE IsSale(i)
    <2>1. saleOf[conv[i].click] = "SETTLED"
      BY <1>1, <1>2, <1>3, ShownSale DEF SalesOf
    <2>2. AccountEntry(i) = Account!Commission(conv[i].click)
      BY <1>1, <1>3 DEF AccountEntry, Account!Commission, RowsNamed
    <2> QED  BY <1>2, <2>1, <2>2 DEF Account!Due, saleOf
  <1>4. CASE ~IsSale(i)
    <2>1. AccountEntry(i) \in reversalsOf
      BY <1>1, <1>4 DEF reversalsOf
    <2>2. PICK p \in DOMAIN payouts : conv[i].parent \in payouts[p].items
      BY <1>1, <1>4 DEF ReadTaken
    <2>3. AccountEntry(conv[i].parent) = Account!Commission(AccountEntry(i).payment)
      BY <1>1, <1>4, RowKinds DEF RowsNamed, AccountEntry, Account!Commission, IsSale
    <2>4. AccountEntry(conv[i].parent) \in payoutsOf[p].items
      BY <2>2 DEF payoutsOf, itemsOf
    <2>5. Account!Commission(AccountEntry(i).payment) \in Account!Taken
      BY <2>2, <2>3, <2>4 DEF Account!Taken, payoutsOf, itemsOf
    <2> QED  BY <2>1, <2>5 DEF Account!Due, reversalsOf
  <1> QED  BY <1>3, <1>4

\* ... and in no other payout of it that has not failed.
LEMMA LockedFree ==
    ASSUME ConvTypeOK, PayoutTypeOK, OldestEarns, ReversedOncePerEvent, ClaimsExclusive, AccountInv,
           NEW s \in Sweepers, LockedItems(s) \cap Claimed = {}, NEW i \in LockedItems(s)
    PROVE  AccountEntry(i) \notin Account!Held
  <1> USE DEF AccountInv
  <1> SUFFICES ASSUME AccountEntry(i) \in Account!Held PROVE FALSE
    OBVIOUS
  <1>1. PICK q \in DOMAIN payouts : payouts[q].status # "FAILED" /\ AccountEntry(i) \in itemsOf(q)
    BY DEF Account!Held, payoutsOf, itemsOf
  <1>2. PICK k \in payouts[q].items : AccountEntry(k) = AccountEntry(i)
    BY <1>1 DEF itemsOf
  <1>3. k \in DOMAIN conv /\ (IsSale(k) => conv[k].status # "PENDING_SETTLEMENT")
    BY DEF TakenEarned
  <1>4. i \in DOMAIN conv /\ (IsSale(i) => conv[i].status # "PENDING_SETTLEMENT")
    BY LockedTaken
  <1>5. i = k
    BY <1>2, <1>3, <1>4, EntriesApart
  <1>6. k \in Claimed
    BY <1>1, PayoutRows DEF Claimed, ClaimsExclusive
  <1> QED  BY <1>5, <1>6

\* A positive total has more commissions than reversals.
LEMMA TotalPositive ==
    ASSUME ConvTypeOK, NEW items \in SUBSET DOMAIN conv, Total(items) > 0
    PROVE  /\ IsFiniteSet(items)
           /\ Cardinality({i \in items : IsSale(i)}) > Cardinality(items \ {i \in items : IsSale(i)})
  <1> DEFINE sales == {i \in items : IsSale(i)}
             cents == Split(Gross, Rate, Cut).agentPayout
  <1>1. IsFiniteSet(1..Len(conv))
    BY RowsOf, FS_Interval
  <1>2. IsFiniteSet(items) /\ IsFiniteSet(sales) /\ IsFiniteSet(items \ sales)
    BY <1>1, RowsOf, FS_Subset
  <1>3. Cardinality(sales) \in Nat /\ Cardinality(items \ sales) \in Nat
    BY <1>2, FS_CardinalityType
  <1>4. cents \in Nat
    BY LedgerAssumption, SplitBounded
  <1>5. Total(items) = (Cardinality(sales) - Cardinality(items \ sales)) * cents
    BY DEF Total
  <1> HIDE DEF cents
  <1>6. ASSUME NEW a \in Nat, NEW b \in Nat, NEW c \in Nat, (a - b) * c > 0
        PROVE  a > b
    <2> SUFFICES ASSUME b >= a PROVE FALSE
      BY <1>6
    <2> DEFINE d == b - a
    <2>1. d \in Nat /\ a - b = 0 - d
      OBVIOUS
    <2> HIDE DEF d
    <2>2. d * c >= 0 /\ (0 - d) * c = 0 - d * c /\ d * c \in Int
      BY <2>1
    <2> QED  BY <1>6, <2>1, <2>2
  <1> HIDE DEF sales
  <1>7. Cardinality(sales) > Cardinality(items \ sales)
    BY <1>3, <1>4, <1>5, <1>6
  <1> QED  BY <1>2, <1>7 DEF sales

\* The image of a set under the entries of its rows.
LEMMA EntriesOf ==
    ASSUME NEW S, IsFiniteSet(S)
    PROVE  LET T == {AccountEntry(i) : i \in S}
           IN /\ IsFiniteSet(T) /\ Cardinality(T) \in Nat
              /\ Cardinality(T) <= Cardinality(S)
              /\ (\A i, k \in S : AccountEntry(i) = AccountEntry(k) => i = k)
                   => Cardinality(T) = Cardinality(S)
  <1> DEFINE T == {AccountEntry(i) : i \in S}
             f == [i \in S |-> AccountEntry(i)]
  <1>1. f \in Surjection(S, T)
    BY DEF Surjection
  <1>2. (\A i, k \in S : AccountEntry(i) = AccountEntry(k) => i = k) => f \in Injection(S, T)
    BY DEF Injection, IsInjective
  <1> HIDE DEF f, T
  <1>3. /\ IsFiniteSet(T) /\ Cardinality(T) <= Cardinality(S)
        /\ Cardinality(T) = Cardinality(S) <=> f \in Injection(S, T)
    BY <1>1, FS_Surjection
  <1>4. Cardinality(T) \in Nat
    BY <1>3, FS_CardinalityType
  <1> QED  BY <1>2, <1>3, <1>4 DEF T

\* The account counts with the same cardinality.
LEMMA AccountCounts == \A S : Account!Cardinality(S) = Cardinality(S)
  BY DEF Account!Cardinality, Cardinality

\* A new payout is one of the account: of what is due and free, and positive.
LEMMA OpenShown ==
    ASSUME ConvTypeOK, PayoutTypeOK, OldestEarns, ReversedOncePerEvent, ClaimsExclusive, AccountInv,
           UNCHANGED conv, NEW s \in Sweepers, Opens(s)
    PROVE  \E p \in DOMAIN payoutsOf' \ DOMAIN payoutsOf : Account!PayOut(p)
  <1>0. PICK n : n = Len(payouts) + 1
    OBVIOUS
  <1> DEFINE items == LockedItems(s)
             sales == {i \in items : IsSale(i)}
             paid == {AccountEntry(i) : i \in items}
  <1> USE DEF AccountInv
  <1>1. UNCHANGED <<saleOf, reversalsOf>>
    BY DEF saleOf, reversalsOf, SalesOf, FindSale, IsSale, AccountEntry
  <1>2. /\ DOMAIN payouts' = DOMAIN payouts \cup {n} /\ n \notin DOMAIN payouts
        /\ \A p \in DOMAIN payouts : payouts'[p] = payouts[p]
        /\ payouts'[n] = [status |-> "IN_FLIGHT", items |-> items]
    BY <1>0, LenProperties DEF Opens, PayoutTypeOK
  <1>3. \A i \in items : /\ i \in DOMAIN conv
                         /\ IsSale(i) => conv[i].status # "PENDING_SETTLEMENT"
    BY LockedTaken
  <1>4. paid \in SUBSET (Account!Due \ Account!Held)
    BY LockedDue, LockedFree DEF Opens
  <1>5. Cardinality(paid \cap Account!Commissions) > Cardinality(paid \ Account!Commissions)
    <2>1. IsFiniteSet(items) /\ Cardinality(sales) > Cardinality(items \ sales)
      BY <1>3, TotalPositive DEF Opens
    <2>2. IsFiniteSet(sales) /\ IsFiniteSet(items \ sales)
      BY <2>1, FS_Subset
    <2>3. \A i \in items : IsSale(i) <=> AccountEntry(i) \in Account!Commissions
      <3> SUFFICES ASSUME NEW i \in items
                   PROVE  IsSale(i) <=> AccountEntry(i) \in Account!Commissions
        OBVIOUS
      <3>1. conv[i].click \in Clicks
        BY <1>3, RowKinds DEF Row
      <3>2. IsSale(i) <=> AccountEntry(i).cause = "none"
        BY <1>3 DEF RowsNamed, AccountEntry, EventType
      <3>3. AccountEntry(i) \in Account!Commissions <=> AccountEntry(i).cause = "none"
        BY <3>1 DEF AccountEntry, Account!Commissions, Account!Commission
      <3> QED  BY <3>2, <3>3
    <2>4. paid \cap Account!Commissions = {AccountEntry(i) : i \in sales}
      BY <2>3
    <2>5. paid \ Account!Commissions = {AccountEntry(i) : i \in items \ sales}
      BY <2>3
    <2>6. \A i, k \in sales : AccountEntry(i) = AccountEntry(k) => i = k
      BY <1>3, EntriesApart
    <2> HIDE DEF items, sales, paid
    <2>7. Cardinality({AccountEntry(i) : i \in sales}) = Cardinality(sales)
      BY <2>2, <2>6, EntriesOf
    <2>8. /\ Cardinality({AccountEntry(i) : i \in items \ sales}) <= Cardinality(items \ sales)
          /\ Cardinality({AccountEntry(i) : i \in items \ sales}) \in Nat
      BY <2>2, EntriesOf
    <2>9. Cardinality(sales) \in Nat /\ Cardinality(items \ sales) \in Nat
      BY <2>2, FS_CardinalityType
    <2> QED  BY <2>1, <2>4, <2>5, <2>7, <2>8, <2>9
  <1>6. payoutsOf' = [q \in DOMAIN payoutsOf \cup {n} |->
                        IF q = n THEN [status |-> "IN_FLIGHT", items |-> paid] ELSE payoutsOf[q]]
    <2>1. \A q \in DOMAIN payouts : itemsOf(q)' = itemsOf(q) /\ payouts'[q].status = payouts[q].status
      BY <1>2 DEF itemsOf, AccountEntry
    <2>2. {AccountEntry(i)' : i \in payouts'[n].items} = paid /\ payouts'[n].status = "IN_FLIGHT"
      BY <1>2 DEF AccountEntry
    <2> HIDE DEF paid, items
    <2>3. DOMAIN payoutsOf = DOMAIN payouts
      BY DEF payoutsOf
    <2>4. payoutsOf' = [q \in DOMAIN payouts' |-> [status |-> payouts'[q].status,
                          items |-> {AccountEntry(i)' : i \in payouts'[q].items}]]
      BY DEF payoutsOf, itemsOf
    <2>5. \A q \in DOMAIN payouts : payoutsOf[q] = [status |-> payouts'[q].status,
                          items |-> {AccountEntry(i)' : i \in payouts'[q].items}]
      BY <2>1 DEF payoutsOf, itemsOf
    <2> QED  BY <1>2, <2>2, <2>3, <2>4, <2>5
  <1>7. n \in DOMAIN payoutsOf' \ DOMAIN payoutsOf
    BY <1>2 DEF payoutsOf
  <1> HIDE DEF items, sales, paid
  <1>8. Account!PayOut(n)
    <2>1. paid \in SUBSET (Account!Due \ Account!Held)
          /\ Cardinality(paid \cap Account!Commissions) > Cardinality(paid \ Account!Commissions)
      BY <1>4, <1>5
    <2>2. \E x \in SUBSET (Account!Due \ Account!Held) :
             /\ Cardinality(x \cap Account!Commissions) > Cardinality(x \ Account!Commissions)
             /\ payoutsOf' = [q \in DOMAIN payoutsOf \cup {n} |->
                                IF q = n THEN [status |-> "IN_FLIGHT", items |-> x] ELSE payoutsOf[q]]
             /\ UNCHANGED <<saleOf, reversalsOf>>
      BY <1>1, <1>6, <2>1
    <2> QED  BY <2>2, AccountCounts DEF Account!PayOut, payoutsOf, itemsOf, saleOf, reversalsOf
  <1> QED  BY <1>7, <1>8

LEMMA AccountInit == Init => Account!Init
  <1> SUFFICES ASSUME Init PROVE Account!Init
    OBVIOUS
  <1>1. conv = <<>> /\ payouts = <<>> /\ DOMAIN conv = {} /\ DOMAIN payouts = {}
    BY DEF Init, ConvInit, PayoutInit
  <1>2. \A c \in Clicks : SalesOf(c) = {}
    BY <1>1 DEF SalesOf
  <1> QED  BY <1>1, <1>2 DEF Account!Init

LEMMA AccountStep ==
    ASSUME IInv, AccountInv, [Next]_vars
    PROVE  UNCHANGED <<conv, payouts>> \/ [Account!Next]_(Account!account)
  <1> USE DEF IInv, TypeOK
  <1>1. CASE UNCHANGED sweeps
    <2>1. UNCHANGED payouts /\ TakenEarned /\ RowsNamed /\ ReversedRefunded
      BY <1>1 DEF sweeps, AccountInv
    <2>2. ASSUME NEW c \in Clicks, NewSale(c)
          PROVE  Account!Earn(c) \/ UNCHANGED Account!account
      BY <2>1, <2>2, EarnShown DEF Account!account, saleOf, reversalsOf, payoutsOf, itemsOf
    <2>3. ASSUME NEW c \in Clicks, SalesOf(c) # {}, Settles(FindSale(c))
          PROVE  Account!Settle(c)
      BY <2>1, <2>3, SettleShown
    <2>4. ASSUME NEW c \in Clicks, NEW t \in EventType, SalesOf(c) # {}, Reverses(FindSale(c), t)
          PROVE  Account!Reverse(c, t)
      BY <2>1, <2>4, ReverseShown
    <2>5. LedgerStep
      BY StepsOfLedger
    <2> QED  BY <2>1, <2>2, <2>3, <2>4, <2>5 DEF LedgerStep, Account!Next
  <1>2. CASE PayoutNext /\ UNCHANGED conv
    <2>1. CASE UNCHANGED payouts
      BY <1>2, <2>1
    <2>2. ASSUME NEW s \in Sweepers, Opens(s) PROVE Account!Next
      <3>1. \E p \in DOMAIN payoutsOf' \ DOMAIN payoutsOf : Account!PayOut(p)
        BY <1>2, <2>2, OpenShown DEF PayoutInv
      <3> QED  BY <3>1 DEF Account!Next, payoutsOf, itemsOf
    <2>3. ASSUME NEW p \in DOMAIN payouts, NEW st \in {"PAID", "FAILED"}, Ends(p, st)
          PROVE  Account!Next
      <3>1. Account!End(p, st) /\ p \in DOMAIN payoutsOf
        BY <1>2, <2>3, EndShown DEF payoutsOf
      <3> QED  BY <3>1 DEF Account!Next, payoutsOf, itemsOf
    <2> QED  BY <1>2, <2>1, <2>2, <2>3, SweepEffects DEF PayoutInv
  <1> QED  BY <1>1, <1>2, SweepsApart

-----------------------------------------------------------------------------
(* The theorems                                                            *)

\* Every step of the gateway is one of the account of the agent: a payment earns
\* one commission, a refund ends it, and what is due goes into one payout that
\* has not failed, whatever requests, deliveries and sweeps are interleaved.
THEOREM AccountCorrect == Spec => AccountKept
  <1>1. IInv /\ AccountInv /\ [Next]_vars =>
          [UNCHANGED <<conv, payouts>> \/ Account!Next]_(Account!account)
    BY AccountStep
  <1> QED  BY <1>1, AccountInit, Inductive, AccountInductive, PTL DEF Spec, AccountKept

===============================================================================
