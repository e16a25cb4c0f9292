--------------------------- MODULE Commerce_proofs ---------------------------
(***************************************************************************)
(* Theorems about Commerce, for any number of purchases, handlers,         *)
(* deliveries and sweepers, any prices and any bounds.                     *)
(***************************************************************************)
EXTENDS Commerce, SequenceTheorems, FiniteSetTheorems, TLAPS

USE RailAssumption, LedgerAssumption

-----------------------------------------------------------------------------
(* Commissions                                                             *)

\* applyBps yields integers, on either side of zero.
LEMMA BpsInteger ==
    ASSUME NEW a \in Int, NEW b \in Int
    PROVE  applyBps(a, b) \in Int
  <1>1. a * b \in Int /\ (-a) * b \in Int
    OBVIOUS
  <1> QED  BY <1>1 DEF applyBps

LEMMA BpsRange == \A b \in Bps : b \in Nat /\ b <= 10000
  BY DEF Bps

LEMMA TimesMonotone ==
    ASSUME NEW a \in Nat, NEW b \in Nat, NEW c \in Nat, b <= c
    PROVE  a * b <= a * c
  <1>1. a * c = a * b + a * (c - b)
    OBVIOUS
  <1>2. a * (c - b) >= 0
    <2> DEFINE d == c - b
    <2>1. d \in Nat
      OBVIOUS
    <2> HIDE DEF d
    <2>2. a * d >= 0
      BY <2>1
    <2> QED  BY <2>2 DEF d
  <1>3. a * b \in Int /\ a * c \in Int /\ a * (c - b) \in Int
    OBVIOUS
  <1> QED  BY <1>1, <1>2, <1>3

LEMMA FeesMonotone ==
    ASSUME NEW x \in Nat, NEW y \in Nat, x <= y
    PROVE  x \div 10000 <= y \div 10000 /\ x \div 10000 \in Nat
  OBVIOUS

LEMMA Truncated ==
    ASSUME NEW x \in Nat
    PROVE  /\ x \div 10000 \in Nat
           /\ 10000 * (x \div 10000) <= x /\ x < 10000 * (x \div 10000) + 10000
  OBVIOUS

\* money.ts, applyBps: a fee is the exact share truncated, and the fee of the
\* negated amount is exactly the negated fee.
LEMMA FeeTruncated ==
    ASSUME NEW gross \in Nat, NEW b \in Bps
    PROVE  /\ applyBps(gross, b) \in Nat
           /\ 10000 * applyBps(gross, b) <= gross * b
           /\ gross * b < 10000 * applyBps(gross, b) + 10000
           /\ applyBps(-gross, b) = -applyBps(gross, b)
  <1>1. b \in Nat
    BY BpsRange
  <1>2. gross * b \in Nat
    BY <1>1
  <1>3. applyBps(gross, b) = (gross * b) \div 10000
    BY DEF applyBps
  <1>4. applyBps(-gross, b) = -((gross * b) \div 10000)
    <2> DEFINE a == -gross
    <2>1. a \in Int /\ a + gross = 0 /\ -a = gross
      OBVIOUS
    <2> HIDE DEF a
    <2>2. CASE a >= 0
      <3>1. a = gross /\ gross = 0
        BY <2>1, <2>2
      <3>2. gross * b = 0
        BY <1>1, <3>1
      <3>3. (gross * b) \div 10000 = 0
        BY <3>2
      <3>4. applyBps(a, b) = 0
        BY <1>3, <3>1, <3>3
      <3> QED  BY <3>3, <3>4 DEF a
    <2>3. CASE ~(a >= 0)
      <3>1. -a * b = gross * b
        <4>1. -a * b = (-a) * b
          BY <1>1, <2>1
        <4> QED  BY <2>1, <4>1
      <3>2. applyBps(a, b) = -((-a * b) \div 10000)
        BY <2>3 DEF applyBps
      <3> QED  BY <3>1, <3>2 DEF a
    <2> QED  BY <2>2, <2>3
  <1> DEFINE x == gross * b
             q == x \div 10000
  <1>5. q \in Nat /\ 10000 * q <= x /\ x < 10000 * q + 10000
    BY <1>2, Truncated
  <1>6. applyBps(gross, b) = q /\ applyBps(-gross, b) = -q
    BY <1>3, <1>4
  <1> HIDE DEF q
  <1> QED  BY <1>5, <1>6

\* money.ts, computeCommissionSplit: "the merchant is never short-changed by a
\* rounding artifact": the commission is never above the exact rate, what is cut
\* off is less than a cent and is the merchant's, and truncating the commission
\* and the fee of the platform apart moves the agent by less than a cent.
THEOREM SplitFair ==
    ASSUME NEW gross \in Nat, NEW rate \in Bps, NEW cut \in Bps, cut <= rate
    PROVE  LET s == Split(gross, rate, cut)
           IN /\ 10000 * s.merchantNet >= gross * (10000 - rate)
              /\ 10000 * s.merchantNet < gross * (10000 - rate) + 10000
              /\ 10000 * s.aislFee <= gross * cut
              /\ 10000 * s.agentPayout > gross * (rate - cut) - 10000
              /\ 10000 * s.agentPayout < gross * (rate - cut) + 10000
  <1> DEFINE r == applyBps(gross, rate)
             c == applyBps(gross, cut)
             x == gross * rate
             y == gross * cut
  <1>1. rate \in Nat /\ cut \in Nat
    BY BpsRange
  <1>2. x \in Nat /\ y \in Nat
    BY <1>1
  <1>3. gross * (10000 - rate) = 10000 * gross - x /\ gross * (rate - cut) = x - y
    BY <1>1
  <1>4. /\ r \in Nat /\ 10000 * r <= x /\ x < 10000 * r + 10000
        /\ c \in Nat /\ 10000 * c <= y /\ y < 10000 * c + 10000
    BY FeeTruncated
  <1>5. /\ Split(gross, rate, cut).merchantNet = gross - r
        /\ Split(gross, rate, cut).aislFee = c
        /\ Split(gross, rate, cut).agentPayout = r - c
    BY DEF Split
  <1> HIDE DEF r, c, x, y
  <1>6. /\ 10000 * (gross - r) >= 10000 * gross - x
        /\ 10000 * (gross - r) < 10000 * gross - x + 10000
        /\ 10000 * (r - c) > x - y - 10000
        /\ 10000 * (r - c) < x - y + 10000
    BY <1>2, <1>4
  <1>7. 10000 * c <= gross * cut
    BY <1>4 DEF y
  <1> QED  BY <1>3, <1>5, <1>6, <1>7

\* money.ts, applyBps: "a reversal of X is exactly -X": the split of the negated
\* amount is the negated split, so a reversal that were computed afresh would be
\* the one that negateSplit writes.
THEOREM ReversalExact ==
    ASSUME NEW gross \in Nat, NEW rate \in Bps, NEW cut \in Bps, cut <= rate
    PROVE  Split(-gross, rate, cut) = negateSplit(Split(gross, rate, cut))
  <1> DEFINE r == applyBps(gross, rate)
             c == applyBps(gross, cut)
  <1>1. /\ applyBps(-gross, rate) = -r /\ applyBps(-gross, cut) = -c
        /\ r \in Nat /\ c \in Nat
    BY FeeTruncated
  <1>2. Split(-gross, rate, cut) =
          [gross |-> -gross, commission |-> -r, aislFee |-> -c,
           agentPayout |-> (-r) - (-c), merchantNet |-> (-gross) - (-r)]
    BY <1>1 DEF Split
  <1>3. negateSplit(Split(gross, rate, cut)) =
          [gross |-> -gross, commission |-> -r, aislFee |-> -c,
           agentPayout |-> -(r - c), merchantNet |-> -(gross - r)]
    BY DEF Split, negateSplit
  <1> HIDE DEF r, c
  <1>4. (-r) - (-c) = -(r - c) /\ (-gross) - (-r) = -(gross - r)
    BY <1>1
  <1> QED  BY <1>2, <1>3, <1>4

\* money.ts, computeCommissionSplit: with a cut of at most the rate nobody is
\* paid less than nothing, and the fees of a sale never exceed the sale.
THEOREM SplitBounded ==
    ASSUME NEW gross \in Nat, NEW rate \in Bps, NEW cut \in Bps, cut <= rate
    PROVE  LET s == Split(gross, rate, cut)
           IN s.aislFee \in Nat /\ s.agentPayout \in Nat /\ s.merchantNet \in Nat
  <1> DEFINE fee(b) == applyBps(gross, b)
  <1>1. \A b \in Bps : fee(b) = (gross * b) \div 10000 /\ gross * b \in Nat
    <2> TAKE b \in Bps
    <2>1. b \in Nat
      BY BpsRange
    <2>2. gross * b \in Nat
      BY <2>1
    <2> QED  BY <2>2 DEF applyBps
  <1>2. gross * cut <= gross * rate /\ gross * rate <= gross * 10000
    <2>1. cut \in Nat /\ rate \in Nat /\ rate <= 10000
      BY BpsRange
    <2>2. 10000 \in Nat
      OBVIOUS
    <2> QED  BY ONLY <2>1, <2>2, gross \in Nat, cut <= rate, TimesMonotone
  <1>3. fee(cut) <= fee(rate) /\ fee(cut) \in Nat /\ fee(rate) \in Nat
    BY <1>1, <1>2, FeesMonotone
  <1>4. fee(rate) <= gross
    <2>1. gross * 10000 \in Nat /\ (gross * 10000) \div 10000 = gross
      OBVIOUS
    <2> QED  BY <1>1, <1>2, <2>1, FeesMonotone
  <1>5. /\ Split(gross, rate, cut).aislFee = fee(cut)
        /\ Split(gross, rate, cut).agentPayout = fee(rate) - fee(cut)
        /\ Split(gross, rate, cut).merchantNet = gross - fee(rate)
    BY DEF Split
  <1> HIDE DEF fee
  <1>6. fee(rate) - fee(cut) \in Nat /\ gross - fee(rate) \in Nat
    BY <1>3, <1>4
  <1> QED  BY <1>3, <1>5, <1>6

-----------------------------------------------------------------------------
(* The ledger of conversions                                               *)

Row == [entry : {"SALE", "REVERSAL"}, click : Clicks, status : SaleStatus \cup {"REVERSAL"},
        parent : Nat, cause : EventType \cup {"none"}]

Sale(c) == [entry |-> "SALE", click |-> c, status |-> "PENDING_SETTLEMENT",
            parent |-> 0, cause |-> "none"]

LEMMA RowsOf ==
    ASSUME ConvTypeOK
    PROVE  /\ conv \in Seq(Row) /\ Len(conv) \in Nat /\ DOMAIN conv = 1..Len(conv)
           /\ \A i \in DOMAIN conv : conv[i] \in Row
  <1>1. conv \in Seq(Row)
    BY DEF ConvTypeOK, Row
  <1>2. Len(conv) \in Nat /\ DOMAIN conv = 1..Len(conv)
    BY <1>1, LenProperties
  <1>3. \A i \in 1..Len(conv) : conv[i] \in Row
    BY <1>1, ElementOfSeq
  <1> QED  BY <1>1, <1>2, <1>3

LEMMA RestatedRow ==
    ASSUME NEW r \in Row, NEW s \in SaleStatus
    PROVE  LET q == [r EXCEPT !.status = s]
           IN /\ q \in Row /\ q.status = s /\ q.entry = r.entry /\ q.click = r.click
              /\ q.parent = r.parent /\ q.cause = r.cause
              /\ r.status = s => q = r
  BY DEF Row

LEMMA RestatedSale ==
    ASSUME ConvTypeOK, NEW i \in DOMAIN conv, NEW s \in SaleStatus
    PROVE  /\ [conv EXCEPT ![i].status = s] \in Seq(Row)
           /\ Len([conv EXCEPT ![i].status = s]) = Len(conv)
           /\ [conv EXCEPT ![i].status = s][i] = [conv[i] EXCEPT !.status = s]
           /\ \A j \in DOMAIN conv \ {i} : [conv EXCEPT ![i].status = s][j] = conv[j]
  <1> DEFINE e == [conv[i] EXCEPT !.status = s]
  <1>1. [conv EXCEPT ![i].status = s] = [conv EXCEPT ![i] = e]
    OBVIOUS
  <1>2. e \in Row
    BY RowsOf, RestatedRow
  <1> HIDE DEF e
  <1>3. /\ [conv EXCEPT ![i] = e] \in Seq(Row) /\ Len([conv EXCEPT ![i] = e]) = Len(conv)
        /\ \A j \in 1..Len(conv) : [conv EXCEPT ![i] = e][j] = IF j = i THEN e ELSE conv[j]
    BY RowsOf, <1>2, ExceptSeq
  <1> QED  BY <1>1, <1>3, RowsOf DEF e

\* The oldest sale of a payment exists.
LEMMA OldestSale ==
    ASSUME ConvTypeOK, NEW c \in Clicks, SalesOf(c) # {}
    PROVE  FindSale(c) \in SalesOf(c) /\ \A j \in SalesOf(c) : FindSale(c) <= j
  <1> DEFINE Less == {ss \in Nat \X Nat : ss[1] < ss[2]}
  <1>1. SalesOf(c) \subseteq Nat
    BY RowsOf DEF SalesOf
  <1>2. IsWellFoundedOn(Less, Nat)
    <2>1. OpToRel(<, Nat) = Less
      BY DEF OpToRel
    <2> QED  BY <2>1, NatLessThanWellFounded
  <1>3. \A j, k \in Nat : <<j, k>> \notin Less => k <= j
    OBVIOUS
  <1> HIDE DEF Less
  <1>4. PICK i \in SalesOf(c) : \A j \in SalesOf(c) : <<j, i>> \notin Less
    BY <1>1, <1>2, WFMin
  <1>5. \A j \in SalesOf(c) : i <= j
    BY <1>1, <1>3, <1>4, Zenon
  <1> QED  BY <1>5 DEF FindSale

\* The three ways a transaction changes the table: a new sale, ...
NewSale(c) ==
  /\ conv' \in Seq(Row) /\ Len(conv') = Len(conv) + 1
  /\ \A j \in DOMAIN conv : conv'[j] = conv[j]
  /\ conv'[Len(conv) + 1] = Sale(c)

\* ... the settlement of a pending one ...
Settles(i) ==
  /\ conv[i].status = "PENDING_SETTLEMENT"
  /\ conv' \in Seq(Row) /\ Len(conv') = Len(conv)
  /\ conv'[i] = [conv[i] EXCEPT !.status = "SETTLED"]
  /\ \A j \in DOMAIN conv \ {i} : conv'[j] = conv[j]

\* ... and the reversal of one, by an event that has not reversed it yet.
Reverses(i, t) ==
  /\ \A r \in DOMAIN conv : conv[r] # Reversal(i, t)
  /\ conv' \in Seq(Row) /\ Len(conv') = Len(conv) + 1
  /\ conv'[i] = [conv[i] EXCEPT !.status = "REFUNDED"]
  /\ \A j \in DOMAIN conv \ {i} : conv'[j] = conv[j]
  /\ conv'[Len(conv) + 1] = Reversal(i, t)

LedgerStep ==
  \/ UNCHANGED conv
  \/ \E c \in Clicks : NewSale(c)
  \/ \E c \in Clicks : SalesOf(c) # {} /\ Settles(FindSale(c))
  \/ \E c \in Clicks, t \in EventType : SalesOf(c) # {} /\ Reverses(FindSale(c), t)

LEMMA RecordSaleSteps ==
    ASSUME ConvTypeOK, NEW c \in Clicks, RecordSale(c)
    PROVE  LedgerStep
  <1>1. Sale(c) \in Row
    BY DEF Sale, Row, SaleStatus
  <1>2. conv' = Append(conv, Sale(c))
    BY DEF RecordSale, Sale
  <1>3. NewSale(c)
    BY <1>1, <1>2, RowsOf, AppendProperties DEF NewSale
  <1> QED  BY <1>3 DEF LedgerStep

LEMMA MarkSettledSteps ==
    ASSUME ConvTypeOK, NEW c \in Clicks, SalesOf(c) # {}, MarkSettled(FindSale(c))
    PROVE  LedgerStep
  <1> DEFINE i == FindSale(c)
  <1>1. i \in DOMAIN conv
    BY OldestSale DEF SalesOf
  <1>2. CASE conv[i].status = "PENDING_SETTLEMENT"
    <2>1. conv' = [conv EXCEPT ![i].status = "SETTLED"]
      BY <1>2 DEF MarkSettled
    <2> HIDE DEF i
    <2>2. Settles(i)
      BY <1>1, <1>2, <2>1, RestatedSale DEF Settles, SaleStatus
    <2> QED  BY <2>2 DEF LedgerStep, i
  <1>3. CASE conv[i].status # "PENDING_SETTLEMENT"
    BY <1>3 DEF MarkSettled, LedgerStep
  <1> QED  BY <1>2, <1>3

LEMMA RecordReversalSteps ==
    ASSUME ConvTypeOK, NEW c \in Clicks, SalesOf(c) # {}, NEW t \in EventType,
           RecordReversal(FindSale(c), t)
    PROVE  LedgerStep
  <1> DEFINE i == FindSale(c)
             e == [conv EXCEPT ![i].status = "REFUNDED"]
  <1>1. i \in DOMAIN conv /\ i \in Nat
    BY OldestSale, RowsOf DEF SalesOf
  <1>2. CASE \E r \in DOMAIN conv : conv[r] = Reversal(i, t)
    BY <1>2 DEF RecordReversal, LedgerStep
  <1>3. CASE ~ \E r \in DOMAIN conv : conv[r] = Reversal(i, t)
    <2>1. conv' = Append(e, Reversal(i, t))
      BY <1>3 DEF RecordReversal
    <2> HIDE DEF i
    <2>2. conv[i].click \in Clicks
      BY <1>1, RowsOf DEF Row
    <2>3. Reversal(i, t) \in Row
      BY <1>1, <2>2 DEF Reversal, Row
    <2>4. /\ e \in Seq(Row) /\ Len(e) = Len(conv)
          /\ e[i] = [conv[i] EXCEPT !.status = "REFUNDED"]
          /\ \A j \in DOMAIN conv \ {i} : e[j] = conv[j]
      BY <1>1, RestatedSale DEF SaleStatus
    <2> HIDE DEF e
    <2>5. /\ conv' \in Seq(Row) /\ Len(conv') = Len(conv) + 1
          /\ \A j \in 1..Len(conv) : conv'[j] = e[j]
          /\ conv'[Len(conv) + 1] = Reversal(i, t)
      BY <2>1, <2>3, <2>4, AppendProperties
    <2>6. Reverses(i, t)
      BY <1>1, <1>3, <2>4, <2>5, RowsOf DEF Reverses
    <2> QED  BY <2>6 DEF LedgerStep, i
  <1> QED  BY <1>2, <1>3

\* No row is deleted or loses its kind or its payment, and a reversal or a
\* refunded sale does not change at all.
RowsKept ==
  \A j \in DOMAIN conv :
    /\ j \in DOMAIN conv'
    /\ conv'[j].entry = conv[j].entry /\ conv'[j].click = conv[j].click
    /\ conv'[j].parent = conv[j].parent /\ conv'[j].cause = conv[j].cause
    /\ conv[j].status = "REFUNDED" \/ conv[j].entry = "REVERSAL" => conv'[j] = conv[j]

LEMMA FoundSale ==
    ASSUME ConvTypeOK, NEW c \in Clicks, SalesOf(c) # {}
    PROVE  /\ FindSale(c) \in DOMAIN conv /\ FindSale(c) \in 1..Len(conv)
           /\ conv[FindSale(c)] \in Row
           /\ conv[FindSale(c)].entry = "SALE" /\ conv[FindSale(c)].click = c
  BY OldestSale, RowsOf DEF SalesOf, IsSale

LEMMA StepKeepsRows ==
    ASSUME ConvTypeOK, LedgerStep
    PROVE  RowsKept
  <1>1. CASE UNCHANGED conv
    BY <1>1, RowsOf DEF RowsKept
  <1>2. ASSUME NEW c \in Clicks, NewSale(c) PROVE RowsKept
    <2>1. \A j \in DOMAIN conv : j \in DOMAIN conv' /\ conv'[j] = conv[j]
      BY <1>2, RowsOf, LenProperties DEF NewSale
    <2> QED  BY <2>1 DEF RowsKept
  <1>3. ASSUME NEW c \in Clicks, SalesOf(c) # {}, Settles(FindSale(c)) PROVE RowsKept
    <2> DEFINE i == FindSale(c)
    <2>1. \A j \in DOMAIN conv : j \in DOMAIN conv'
      BY <1>3, RowsOf, LenProperties DEF Settles
    <2>2. /\ conv'[i].entry = conv[i].entry /\ conv'[i].click = conv[i].click
          /\ conv'[i].parent = conv[i].parent /\ conv'[i].cause = conv[i].cause
      <3>1. conv'[i] = [conv[i] EXCEPT !.status = "SETTLED"] /\ conv[i] \in Row
        BY <1>3, FoundSale DEF Settles
      <3> HIDE DEF i
      <3> QED  BY <3>1, RestatedRow DEF SaleStatus
    <2>3. conv[i].status # "REFUNDED" /\ conv[i].entry # "REVERSAL"
      BY <1>3, FoundSale DEF Settles
    <2>4. \A j \in DOMAIN conv \ {i} : conv'[j] = conv[j]
      BY <1>3 DEF Settles
    <2> HIDE DEF i
    <2> QED  BY <2>1, <2>2, <2>3, <2>4 DEF RowsKept
  <1>4. ASSUME NEW c \in Clicks, NEW t \in EventType, SalesOf(c) # {}, Reverses(FindSale(c), t)
        PROVE  RowsKept
    <2> DEFINE i == FindSale(c)
    <2>1. \A j \in DOMAIN conv : j \in DOMAIN conv'
      BY <1>4, RowsOf, LenProperties DEF Reverses
    <2>2. /\ conv'[i].entry = conv[i].entry /\ conv'[i].click = conv[i].click
          /\ conv'[i].parent = conv[i].parent /\ conv'[i].cause = conv[i].cause
          /\ conv[i].status = "REFUNDED" => conv'[i] = conv[i]
      <3>1. conv'[i] = [conv[i] EXCEPT !.status = "REFUNDED"] /\ conv[i] \in Row
        BY <1>4, FoundSale DEF Reverses
      <3>2. "REFUNDED" \in SaleStatus
        BY DEF SaleStatus
      <3> HIDE DEF i
      <3> QED  BY <3>1, <3>2, RestatedRow
    <2>3. conv[i].entry # "REVERSAL"
      BY <1>4, FoundSale
    <2>4. \A j \in DOMAIN conv \ {i} : conv'[j] = conv[j]
      BY <1>4 DEF Reverses
    <2> HIDE DEF i
    <2> QED  BY <2>1, <2>2, <2>3, <2>4 DEF RowsKept
  <1> QED  BY <1>1, <1>2, <1>3, <1>4 DEF LedgerStep

\* Sales are not lost, and the oldest one of a payment stays the oldest.
LEMMA StepKeepsSales ==
    ASSUME ConvTypeOK, LedgerStep, NEW c \in Clicks
    PROVE  SalesOf(c) \subseteq SalesOf(c)'
  BY StepKeepsRows DEF RowsKept, SalesOf, IsSale

\* What ConvTypeOK says of one row.
RowOK(s, i) == IF s[i].entry = "SALE"
               THEN s[i].status \in SaleStatus
               ELSE /\ s[i].status = "REVERSAL"
                    /\ s[i].parent \in 1..(i - 1)
                    /\ s[s[i].parent].entry = "SALE"
                    /\ s[s[i].parent].click = s[i].click

LEMMA RowsTyped ==
    ASSUME ConvTypeOK, LedgerStep
    PROVE  ConvTypeOK'
  <1>1. conv' \in Seq(Row)
    BY RowsOf DEF LedgerStep, NewSale, Settles, Reverses
  <1>2. Len(conv') \in Nat /\ DOMAIN conv' = 1..Len(conv')
    BY <1>1, LenProperties
  <1>3. \A i \in DOMAIN conv : RowOK(conv, i)
    BY DEF ConvTypeOK, RowOK
  <1>4. ASSUME NEW i \in DOMAIN conv, conv'[i] = conv[i] PROVE RowOK(conv', i)
    <2>1. CASE conv[i].entry = "SALE"
      BY <1>3, <1>4, <2>1 DEF RowOK
    <2>2. CASE conv[i].entry # "SALE"
      <3>1. conv[i].parent \in DOMAIN conv
        BY <1>3, <2>2, RowsOf DEF RowOK
      <3> QED  BY <1>3, <1>4, <2>2, <3>1, StepKeepsRows DEF RowOK, RowsKept
    <2> QED  BY <2>1, <2>2
  <1>5. CASE UNCHANGED conv
    BY <1>5 DEF ConvTypeOK
  <1>6. ASSUME NEW c \in Clicks, NewSale(c) PROVE \A i \in DOMAIN conv' : RowOK(conv', i)
    <2>1. RowOK(conv', Len(conv) + 1)
      BY <1>6 DEF NewSale, RowOK, Sale, SaleStatus
    <2>2. \A i \in DOMAIN conv : RowOK(conv', i)
      BY <1>4, <1>6 DEF NewSale
    <2> QED  BY <1>2, <1>6, <2>1, <2>2, RowsOf DEF NewSale
  <1>7. ASSUME NEW c \in Clicks, SalesOf(c) # {}, Settles(FindSale(c))
        PROVE  \A i \in DOMAIN conv' : RowOK(conv', i)
    <2>1. RowOK(conv', FindSale(c))
      <3>1. /\ conv'[FindSale(c)] = [conv[FindSale(c)] EXCEPT !.status = "SETTLED"]
            /\ conv[FindSale(c)] \in Row /\ conv[FindSale(c)].entry = "SALE"
        BY <1>7, FoundSale DEF Settles
      <3> QED  BY <3>1, RestatedRow DEF RowOK, SaleStatus
    <2>2. \A i \in DOMAIN conv \ {FindSale(c)} : RowOK(conv', i)
      BY <1>4, <1>7 DEF Settles
    <2> QED  BY <1>2, <1>7, <2>1, <2>2, RowsOf DEF Settles
  <1>8. ASSUME NEW c \in Clicks, NEW t \in EventType, SalesOf(c) # {}, Reverses(FindSale(c), t)
        PROVE  \A i \in DOMAIN conv' : RowOK(conv', i)
    <2> DEFINE i == FindSale(c)
    <2>1. RowOK(conv', i)
      <3>1. /\ conv'[i] = [conv[i] EXCEPT !.status = "REFUNDED"]
            /\ conv[i] \in Row /\ conv[i].entry = "SALE"
        BY <1>8, FoundSale DEF Reverses
      <3> HIDE DEF i
      <3> QED  BY <3>1, RestatedRow DEF RowOK, SaleStatus
    <2>2. \A j \in DOMAIN conv \ {i} : RowOK(conv', j)
      BY <1>4, <1>8 DEF Reverses
    <2>3. RowOK(conv', Len(conv) + 1)
      <3>1. /\ i \in 1..Len(conv) /\ conv'[i].entry = "SALE" /\ conv'[i].click = conv[i].click
        BY <1>8, FoundSale, StepKeepsRows DEF RowsKept
      <3>2. conv'[Len(conv) + 1] = Reversal(i, t)
        BY <1>8 DEF Reverses
      <3> HIDE DEF i
      <3>3. LET r == conv'[Len(conv) + 1]
            IN /\ r.entry = "REVERSAL" /\ r.status = "REVERSAL" /\ r.parent = i
               /\ r.click = conv[i].click
        BY <3>2 DEF Reversal
      <3> QED  BY <3>1, <3>3, RowsOf DEF RowOK
    <2> HIDE DEF i
    <2>4. Len(conv') = Len(conv) + 1
      BY <1>8 DEF Reverses
    <2> QED  BY <1>2, <2>1, <2>2, <2>3, <2>4, RowsOf
  <1>9. \A i \in DOMAIN conv' : RowOK(conv', i)
    BY <1>3, <1>4, <1>5, <1>6, <1>7, <1>8 DEF LedgerStep
  <1> QED  BY <1>1, <1>9 DEF ConvTypeOK, RowOK, Row

\* A sale that is not pending any more is the oldest of its payment.
OldestEarns ==
  \A c \in Clicks : \A i, j \in SalesOf(c) :
    conv[i].status # "PENDING_SETTLEMENT" => i <= j

LEMMA OldestEarnsStep ==
    ASSUME ConvTypeOK, OldestEarns, LedgerStep
    PROVE  OldestEarns'
  <1> SUFFICES ASSUME NEW c \in Clicks, NEW i \in SalesOf(c)', NEW j \in SalesOf(c)',
                      conv'[i].status # "PENDING_SETTLEMENT"
               PROVE  i <= j
    BY DEF OldestEarns
  <1>1. i \in DOMAIN conv' /\ j \in DOMAIN conv' /\ i \in Nat \ {0} /\ j \in Nat \ {0}
    BY RowsTyped, RowsOf, LenProperties DEF SalesOf, ConvTypeOK
  <1>2. /\ i \in DOMAIN conv => i \in SalesOf(c)
        /\ j \in DOMAIN conv => j \in SalesOf(c)
    BY StepKeepsRows DEF RowsKept, SalesOf, IsSale
  <1>3. ASSUME i \in DOMAIN conv, j \notin DOMAIN conv PROVE i <= j
    BY <1>1, <1>3, RowsOf
  <1>4. CASE UNCHANGED conv
    BY <1>4 DEF OldestEarns, SalesOf, IsSale
  <1>5. ASSUME NEW d \in Clicks, NewSale(d) PROVE i <= j
    <2>1. i \in DOMAIN conv
      <3>1. ASSUME i = Len(conv) + 1 PROVE FALSE
        BY <1>5, <3>1 DEF NewSale, Sale
      <3>2. DOMAIN conv' = 1..(Len(conv) + 1)
        BY <1>5, LenProperties DEF NewSale
      <3> QED  BY <1>1, <3>1, <3>2, RowsOf
    <2>2. conv'[i] = conv[i]
      BY <1>5, <2>1 DEF NewSale
    <2> QED  BY <1>2, <1>3, <2>1, <2>2 DEF OldestEarns
  <1>6. ASSUME NEW d \in Clicks, SalesOf(d) # {}, NEW t \in EventType,
               Settles(FindSale(d)) \/ Reverses(FindSale(d), t)
        PROVE  i <= j
    <2> DEFINE f == FindSale(d)
    <2>1. i \in DOMAIN conv
      <3>1. ASSUME Reverses(f, t), i = Len(conv) + 1 PROVE FALSE
        BY <3>1 DEF Reverses, Reversal, SalesOf, IsSale
      <3>2. CASE Settles(f)
        BY <1>1, <3>2, RowsOf, LenProperties DEF Settles
      <3>3. CASE Reverses(f, t)
        <4>1. DOMAIN conv' = 1..(Len(conv) + 1)
          BY <3>3, LenProperties DEF Reverses
        <4> QED  BY <1>1, <3>1, <3>3, <4>1, RowsOf
      <3> QED  BY <1>6, <3>2, <3>3
    <2>2. CASE i = f /\ j \in DOMAIN conv
      <3>1. c = d
        BY <1>2, <2>1, <2>2, <1>6, FoundSale DEF SalesOf
      <3> QED  BY <1>2, <2>2, <3>1, <1>6, OldestSale
    <2>3. CASE i # f
      <3>1. conv'[i] = conv[i]
        BY <1>6, <2>1, <2>3 DEF Settles, Reverses
      <3> QED  BY <1>2, <1>3, <2>1, <3>1 DEF OldestEarns
    <2> QED  BY <1>3, <2>1, <2>2, <2>3
  <1>7. EventType # {}
    BY DEF EventType
  <1> QED  BY <1>4, <1>5, <1>6, <1>7 DEF LedgerStep

LEMMA OldestEarnsOne ==
    ASSUME ConvTypeOK, OldestEarns
    PROVE  OneCommissionPerPayment
  <1> SUFFICES ASSUME NEW c \in Clicks
               PROVE  Cardinality({i \in SalesOf(c) : conv[i].status # "PENDING_SETTLEMENT"}) <= 1
    BY DEF OneCommissionPerPayment
  <1> DEFINE S == {i \in SalesOf(c) : conv[i].status # "PENDING_SETTLEMENT"}
  <1>1. SalesOf(c) \subseteq Nat
    BY RowsOf DEF SalesOf
  <1>2. \A i, j \in S : i = j
    BY <1>1 DEF OldestEarns
  <1> HIDE DEF S
  <1>3. CASE S = {}
    <2>1. Cardinality(S) <= 1
      BY <1>3, FS_EmptySet
    <2> QED  BY <2>1 DEF S
  <1>4. CASE S # {}
    <2>1. PICK i \in S : TRUE
      BY <1>4
    <2>2. S = {i}
      BY <1>2, <2>1
    <2>3. Cardinality(S) = 1
      BY <2>2, FS_Singleton
    <2>4. Cardinality(S) <= 1
      BY <2>3
    <2> QED  BY <2>4 DEF S
  <1> QED  BY <1>3, <1>4

LEMMA ReversedOnceStep ==
    ASSUME ConvTypeOK, ReversedOncePerEvent, LedgerStep
    PROVE  ReversedOncePerEvent'
  <1> SUFFICES ASSUME NEW i \in DOMAIN conv', NEW j \in DOMAIN conv',
                      conv'[i].entry = "REVERSAL", conv'[i] = conv'[j]
               PROVE  i = j
    BY DEF ReversedOncePerEvent
  <1>1. DOMAIN conv' = 1..Len(conv')
    BY RowsTyped, LenProperties DEF ConvTypeOK
  <1>2. \A k \in DOMAIN conv : conv'[k].entry = "REVERSAL" => conv'[k] = conv[k]
    BY StepKeepsRows DEF RowsKept
  <1>3. CASE i \in DOMAIN conv /\ j \in DOMAIN conv
    BY <1>2, <1>3 DEF ReversedOncePerEvent
  <1>4. ASSUME NEW c \in Clicks, NEW t \in EventType, SalesOf(c) # {}, Reverses(FindSale(c), t)
        PROVE  i = j
    <2>1. \A k \in DOMAIN conv : conv'[k].entry = "REVERSAL" => conv'[k] # conv'[Len(conv) + 1]
      BY <1>2, <1>4 DEF Reverses
    <2>2. Len(conv') = Len(conv) + 1
      BY <1>4 DEF Reverses
    <2> QED  BY <1>1, <1>3, <2>1, <2>2, RowsOf
  <1>5. ASSUME NEW c \in Clicks, NewSale(c) PROVE i = j
    <2>1. Len(conv') = Len(conv) + 1 /\ conv'[Len(conv) + 1].entry = "SALE"
      BY <1>5 DEF NewSale, Sale
    <2> QED  BY <1>1, <1>3, <2>1, RowsOf
  <1>6. ASSUME NEW c \in Clicks, SalesOf(c) # {}, Settles(FindSale(c)) PROVE i = j
    BY <1>1, <1>3, <1>6, RowsOf DEF Settles
  <1> QED  BY <1>3, <1>4, <1>5, <1>6 DEF LedgerStep

-----------------------------------------------------------------------------
(* The payment rail                                                        *)

LEMMA EventTyped ==
    ASSUME NEW c \in Clicks, NEW t \in EventType
    PROVE  Event(c, t) \in Events
  BY DEF Event, Events

LEMMA CreatePaymentTyped ==
    ASSUME RailTypeOK, NEW c \in Clicks, CreatePayment(c)
    PROVE  rail' \in [Clicks -> {"none", "captured", "refunded"}] /\ emitted' \subseteq Events
  <1>1. Event(c, "payment_intent.succeeded") \in Events
    BY EventTyped DEF EventType
  <1> QED  BY <1>1 DEF RailTypeOK, CreatePayment

LEMMA RefundPaymentTyped ==
    ASSUME RailTypeOK, NEW c \in Clicks, RefundPayment(c)
    PROVE  rail' \in [Clicks -> {"none", "captured", "refunded"}] /\ emitted' \subseteq Events
  <1>1. Event(c, "charge.refunded") \in Events
    BY EventTyped DEF EventType
  <1> QED  BY <1>1 DEF RailTypeOK, RefundPayment

LEMMA CountersTyped ==
    ASSUME RailTypeOK, Fault \/ Smooth
    PROVE  faults' \in Nat /\ claims' \in Nat
  BY DEF RailTypeOK, Fault, Smooth

LEMMA RailNextTyped ==
    ASSUME RailTypeOK, RailNext
    PROVE  RailTypeOK'
  <1> PICK c \in Clicks : MerchantRefunds(c) \/ BuyerDisputes(c)
    BY DEF RailNext
  <1>1. CASE MerchantRefunds(c)
    BY <1>1, RefundPaymentTyped DEF MerchantRefunds, RailTypeOK
  <1>2. CASE BuyerDisputes(c)
    <2>1. Event(c, "charge.dispute.created") \in Events
      BY EventTyped DEF EventType
    <2> QED  BY <1>2, <2>1 DEF BuyerDisputes, RailTypeOK
  <1> QED  BY <1>1, <1>2

-----------------------------------------------------------------------------
(* Checkouts                                                               *)

HandlerType == [pc : {"idle", "pay", "order", "refund", "settle", "complete", "release"},
                click : Clicks \cup {"none"}]

\* A handler serves a click while it works.
Serving == \A g \in Handlers : IF handler[g].pc = "idle" THEN handler[g].click = "none"
                                                         ELSE handler[g].click \in Clicks

\* It has the key of the click to itself, ...
KeyHeld == \A g \in Handlers : handler[g].pc # "idle" => checkoutKey[handler[g].click] = "IN_FLIGHT"
Alone == \A g, h \in Handlers :
  g # h /\ handler[g].pc # "idle" => handler[g].click # handler[h].click

\* ... settles what it has ordered and completes what it has settled.
Progress == \A g \in Handlers :
  /\ handler[g].pc \in {"settle", "complete"} => orders[handler[g].click] > 0
  /\ handler[g].pc = "complete" => SalesOf(handler[g].click) # {}

Stored == \A c \in Clicks : checkoutKey[c] = "COMPLETED" => SalesOf(c) # {} /\ orders[c] > 0

CheckoutInv == Serving /\ KeyHeld /\ Alone /\ Progress /\ Stored

\* The one handler that a step changes, and what it becomes.
Becomes(g, v) == handler' = [handler EXCEPT ![g] = v]
At(g, pc) == [pc |-> pc, click |-> handler[g].click]

LEMMA ToBecomes ==
    ASSUME CheckoutTypeOK, NEW g \in Handlers, NEW pc, To(g, pc)
    PROVE  Becomes(g, At(g, pc))
  <1>1. handler \in [Handlers -> HandlerType]
    BY DEF CheckoutTypeOK, HandlerType
  <1>2. handler' = [handler EXCEPT ![g] = [handler[g] EXCEPT !.pc = pc]]
    BY DEF To
  <1>3. [handler[g] EXCEPT !.pc = pc] = At(g, pc)
    BY <1>1 DEF HandlerType, At
  <1> QED  BY <1>2, <1>3 DEF Becomes

LEMMA HandlersTyped ==
    ASSUME CheckoutTypeOK, Serving, NEW g \in Handlers, NEW v \in HandlerType, Becomes(g, v),
           IF v.pc = "idle" THEN v.click = "none" ELSE v.click \in Clicks
    PROVE  handler' \in [Handlers -> HandlerType] /\ Serving'
  BY DEF CheckoutTypeOK, HandlerType, Becomes, Serving

\* What a step of a checkout does to the handlers, the keys and the orders.
CheckoutEffect(g) ==
  \/ /\ \E pc \in {"order", "refund", "release"} :
          handler[g].pc # "idle" /\ Becomes(g, At(g, pc))
     /\ UNCHANGED <<checkoutKey, conv>>
     /\ orders' \in {orders, [orders EXCEPT ![handler[g].click] = @ + 1]}
  \/ /\ \E c \in Clicks : /\ handler[g].pc = "idle" /\ checkoutKey[c] = "none"
                          /\ checkoutKey' = [checkoutKey EXCEPT ![c] = "IN_FLIGHT"]
                          /\ Becomes(g, [pc |-> "pay", click |-> c])
     /\ UNCHANGED <<orders, conv>>
  \/ /\ handler[g].pc = "order" /\ Becomes(g, At(g, "settle"))
     /\ orders' = [orders EXCEPT ![handler[g].click] = @ + 1]
     /\ UNCHANGED <<checkoutKey, conv>>
  \/ /\ handler[g].pc = "settle" /\ Becomes(g, At(g, "complete"))
     /\ RecordSale(handler[g].click)
     /\ UNCHANGED <<checkoutKey, orders>>
  \/ /\ handler[g].pc # "idle" /\ Becomes(g, NoRequest)
     /\ \/ UNCHANGED checkoutKey
        \/ checkoutKey' = [checkoutKey EXCEPT ![handler[g].click] = "none"]
        \/ /\ handler[g].pc = "complete"
           /\ checkoutKey' = [checkoutKey EXCEPT ![handler[g].click] = "COMPLETED"]
     /\ UNCHANGED <<orders, conv>>

LEMMA CheckoutEffects ==
    ASSUME TypeOK, Serving, KeyHeld, NEW g \in Handlers,
           CheckoutStep(g) \/ HandlerDies(g) \/ \E c \in Clicks : ClaimKey(g, c)
    PROVE  CheckoutEffect(g) /\ RailTypeOK' /\ LedgerStep
  <1> DEFINE c == handler[g].click
  <1>1. RailTypeOK /\ CheckoutTypeOK /\ ConvTypeOK
    BY DEF TypeOK
  <1>2. handler[g].pc # "idle" => c \in Clicks
    BY DEF Serving
  <1>3. \A pc : To(g, pc) => Becomes(g, At(g, pc))
    BY <1>1, ToBecomes
  <1>4. CASE Authorize(g)
    <2>1. RailTypeOK'
      BY <1>1, <1>2, <1>4, CreatePaymentTyped, CountersTyped DEF Authorize, RailTypeOK
    <2>2. CheckoutEffect(g)
      BY <1>3, <1>4 DEF Authorize, CheckoutEffect
    <2> QED  BY <1>4, <2>1, <2>2 DEF Authorize, LedgerStep
  <1>5. CASE CreateOrder(g)
    <2>1. RailTypeOK'
      BY <1>1, <1>5, CountersTyped DEF CreateOrder, RailTypeOK
    <2>2. CheckoutEffect(g)
      BY <1>3, <1>5 DEF CreateOrder, CheckoutEffect
    <2> QED  BY <1>5, <2>1, <2>2 DEF CreateOrder, LedgerStep
  <1>6. CASE Compensate(g)
    <2>1. RailTypeOK'
      BY <1>1, <1>2, <1>6, RefundPaymentTyped, CountersTyped DEF Compensate, RailTypeOK
    <2>2. CheckoutEffect(g)
      BY <1>3, <1>6 DEF Compensate, CheckoutEffect
    <2> QED  BY <1>6, <2>1, <2>2 DEF Compensate, LedgerStep
  <1>7. CASE SettleSale(g)
    <2>1. RailTypeOK'
      BY <1>1, <1>7, CountersTyped DEF SettleSale, RailTypeOK
    <2>2. CheckoutEffect(g)
      BY <1>3, <1>7 DEF SettleSale, CheckoutEffect
    <2>3. LedgerStep
      <3>1. CASE RecordSale(c)
        BY <1>1, <1>2, <1>7, <3>1, RecordSaleSteps DEF SettleSale
      <3>2. CASE UNCHANGED conv
        BY <3>2 DEF LedgerStep
      <3> QED  BY <1>7, <3>1, <3>2 DEF SettleSale
    <2> QED  BY <2>1, <2>2, <2>3
  <1>8. CASE CompleteKey(g)
    <2>1. RailTypeOK'
      BY <1>1, <1>8, CountersTyped DEF CompleteKey, RailTypeOK
    <2>2. CheckoutEffect(g)
      BY <1>3, <1>8 DEF CompleteKey, Answered, Becomes, CheckoutEffect
    <2> QED  BY <1>8, <2>1, <2>2 DEF CompleteKey, LedgerStep
  <1>9. CASE ReleaseKey(g)
    <2>1. RailTypeOK'
      BY <1>1, <1>9, CountersTyped DEF ReleaseKey, RailTypeOK
    <2>2. checkoutKey[c] = "IN_FLIGHT"
      BY <1>9 DEF ReleaseKey, KeyHeld
    <2>3. CheckoutEffect(g)
      BY <1>9, <2>2 DEF ReleaseKey, Answered, Becomes, CheckoutEffect
    <2> QED  BY <1>9, <2>1, <2>3 DEF ReleaseKey, LedgerStep
  <1>10. CASE HandlerDies(g)
    <2>1. RailTypeOK'
      BY <1>1, <1>10, CountersTyped DEF HandlerDies, RailTypeOK
    <2>2. CheckoutEffect(g)
      BY <1>10 DEF HandlerDies, Answered, Becomes, CheckoutEffect
    <2> QED  BY <1>10, <2>1, <2>2 DEF HandlerDies, LedgerStep
  <1>11. CASE \E d \in Clicks : ClaimKey(g, d)
    BY <1>1, <1>11 DEF ClaimKey, Becomes, CheckoutEffect, LedgerStep, RailTypeOK, rails
  <1> QED  BY <1>4, <1>5, <1>6, <1>7, <1>8, <1>9, <1>10, <1>11 DEF CheckoutStep

LEMMA CheckoutTyped ==
    ASSUME CheckoutTypeOK, Serving, NEW g \in Handlers, CheckoutEffect(g)
    PROVE  CheckoutTypeOK' /\ Serving'
  <1>1. \A pc \in {"order", "refund", "release", "settle", "complete"} :
           handler[g].pc # "idle" => At(g, pc) \in HandlerType /\ At(g, pc).click \in Clicks
                                       /\ At(g, pc).pc = pc
    BY DEF Serving, At, HandlerType
  <1>2. NoRequest \in HandlerType /\ NoRequest.pc = "idle" /\ NoRequest.click = "none"
    BY DEF NoRequest, HandlerType
  <1>3. \A c \in Clicks : [pc |-> "pay", click |-> c] \in HandlerType
    BY DEF HandlerType
  <1>4. handler[g].pc # "idle" => handler[g].click \in Clicks
    BY DEF Serving
  <1>5. handler' \in [Handlers -> HandlerType] /\ Serving'
    BY <1>1, <1>2, <1>3, HandlersTyped DEF CheckoutEffect
  <1>6. checkoutKey' \in [Clicks -> {"none", "IN_FLIGHT", "COMPLETED"}]
    BY <1>4 DEF CheckoutTypeOK, CheckoutEffect
  <1>7. orders' \in [Clicks -> Nat]
    BY <1>4 DEF CheckoutTypeOK, CheckoutEffect
  <1> QED  BY <1>5, <1>6, <1>7 DEF CheckoutTypeOK, HandlerType

LEMMA CheckoutInvStep ==
    ASSUME CheckoutTypeOK, ConvTypeOK, CheckoutInv, LedgerStep,
           NEW g \in Handlers, CheckoutEffect(g)
    PROVE  CheckoutInv'
  <1> DEFINE c == handler[g].click
  <1> USE DEF CheckoutInv
  <1>1. \A h \in Handlers \ {g} : handler'[h] = handler[h]
    BY DEF CheckoutEffect, CheckoutTypeOK, Becomes
  <1>2. Serving'
    BY CheckoutTyped
  <1>3. \A d \in Clicks : SalesOf(d) # {} => SalesOf(d)' # {}
    BY StepKeepsSales
  <1>4. \A h \in Handlers \ {g} : handler[g].pc # "idle" /\ handler[h].pc # "idle" => handler[h].click # c
    BY DEF Alone
  <1>5. \A h \in Handlers : handler[h].pc # "idle" => handler[h].click \in Clicks
    BY DEF Serving
  <1>6. \A d \in Clicks : orders[d] > 0 => orders'[d] > 0
    BY <1>5 DEF CheckoutEffect, CheckoutTypeOK
  <1>7. "none" \notin Clicks
    OBVIOUS
  \* The handler stays with its click, and moves to pc.
  <1>8. ASSUME NEW pc, pc # "idle", handler[g].pc # "idle", Becomes(g, At(g, pc)), UNCHANGED checkoutKey,
               /\ pc \in {"settle", "complete"} => orders'[c] > 0
               /\ pc = "complete" => SalesOf(c)' # {}
        PROVE  CheckoutInv'
    <2>1. handler'[g].pc = pc /\ handler'[g].click = c
      BY <1>8 DEF Becomes, At, CheckoutTypeOK
    <2>2. KeyHeld'
      BY <1>1, <1>8, <2>1 DEF KeyHeld
    <2>3. Alone'
      BY <1>1, <1>8, <2>1 DEF Alone
    <2>4. Progress'
      <3>1. ASSUME NEW h \in Handlers \ {g}
            PROVE  /\ handler'[h].pc \in {"settle", "complete"} => orders'[handler'[h].click] > 0
                   /\ handler'[h].pc = "complete" => SalesOf(handler[h].click)' # {}
        BY <1>1, <1>3, <1>5, <1>6 DEF Progress
      <3>2. /\ handler'[g].pc \in {"settle", "complete"} => orders'[handler'[g].click] > 0
            /\ handler'[g].pc = "complete" => SalesOf(c)' # {}
        BY <1>8, <2>1
      <3> QED  BY <1>1, <2>1, <3>1, <3>2 DEF Progress
    <2>5. Stored'
      BY <1>3, <1>6, <1>8 DEF Stored
    <2> QED  BY <1>2, <2>2, <2>3, <2>4, <2>5
  <1>9. CASE /\ \E pc \in {"order", "refund", "release"} : handler[g].pc # "idle" /\ Becomes(g, At(g, pc))
             /\ UNCHANGED checkoutKey
    BY <1>8, <1>9
  <1>10. CASE /\ handler[g].pc = "order" /\ Becomes(g, At(g, "settle"))
              /\ orders' = [orders EXCEPT ![c] = @ + 1] /\ UNCHANGED checkoutKey
    BY <1>5, <1>8, <1>10 DEF CheckoutTypeOK
  <1>11. CASE /\ handler[g].pc = "settle" /\ Becomes(g, At(g, "complete")) /\ RecordSale(c)
              /\ UNCHANGED <<checkoutKey, orders>>
    <2>1. SalesOf(c)' # {}
      <3>1. conv' = Append(conv, Sale(c)) /\ Sale(c) \in Row
        BY <1>5, <1>11 DEF RecordSale, Sale, Row, SaleStatus
      <3>2. Len(conv) + 1 \in DOMAIN conv' /\ conv'[Len(conv) + 1] = Sale(c)
        BY <3>1, RowsOf, AppendProperties, LenProperties
      <3>3. handler'[g].click = c
        BY <1>11 DEF Becomes, At, CheckoutTypeOK
      <3>4. Len(conv) + 1 \in SalesOf(c)'
        BY <3>2, <3>3 DEF SalesOf, IsSale, Sale
      <3> QED  BY <3>4
    <2>2. orders'[c] > 0
      BY <1>11 DEF Progress
    <2> QED  BY <1>8, <1>11, <2>1, <2>2
  <1>12. ASSUME NEW d \in Clicks, handler[g].pc = "idle", checkoutKey[d] = "none",
                checkoutKey' = [checkoutKey EXCEPT ![d] = "IN_FLIGHT"],
                Becomes(g, [pc |-> "pay", click |-> d])
         PROVE  CheckoutInv'
    <2>1. handler'[g].pc = "pay" /\ handler'[g].click = d
      BY <1>12 DEF Becomes, CheckoutTypeOK
    <2>2. \A h \in Handlers : handler[h].click # d
      BY <1>7, <1>12 DEF KeyHeld, Serving
    <2>3. KeyHeld'
      BY <1>1, <1>12, <2>1, <1>5 DEF KeyHeld, CheckoutTypeOK
    <2>4. Alone'
      BY <1>1, <1>12, <2>1, <2>2 DEF Alone
    <2>5. Progress'
      BY <1>1, <1>3, <1>5, <1>6, <2>1 DEF Progress
    <2>6. Stored'
      BY <1>3, <1>6, <1>12 DEF Stored, CheckoutTypeOK
    <2> QED  BY <1>2, <2>3, <2>4, <2>5, <2>6
  <1>13. CASE /\ handler[g].pc # "idle" /\ Becomes(g, NoRequest)
              /\ \/ UNCHANGED checkoutKey
                 \/ checkoutKey' = [checkoutKey EXCEPT ![c] = "none"]
                 \/ /\ handler[g].pc = "complete"
                    /\ checkoutKey' = [checkoutKey EXCEPT ![c] = "COMPLETED"]
    <2>1. handler'[g].pc = "idle" /\ handler'[g].click = "none"
      BY <1>13 DEF Becomes, NoRequest, CheckoutTypeOK
    <2>2. KeyHeld'
      BY <1>1, <1>4, <1>5, <1>13, <2>1 DEF KeyHeld, CheckoutTypeOK
    <2>3. Alone'
      BY <1>1, <1>5, <1>7, <2>1 DEF Alone
    <2>4. Progress'
      BY <1>1, <1>3, <1>5, <1>6, <2>1 DEF Progress
    <2>5. ASSUME NEW d \in Clicks, checkoutKey'[d] = "COMPLETED"
          PROVE  SalesOf(d)' # {} /\ orders'[d] > 0
      <3>1. SalesOf(d) # {} /\ orders[d] > 0
        BY <1>5, <1>13, <2>5 DEF Stored, Progress, CheckoutTypeOK
      <3> QED  BY <1>3, <1>6, <3>1
    <2>6. Stored'
      BY <2>5 DEF Stored
    <2> QED  BY <1>2, <2>2, <2>3, <2>4, <2>6
  <1> QED  BY <1>9, <1>10, <1>11, <1>12, <1>13 DEF CheckoutEffect

LEMMA CheckoutInvImplies == CheckoutInv => CheckoutsExclusive
  BY DEF CheckoutInv, Alone, Stored, CheckoutsExclusive

-----------------------------------------------------------------------------
(* Webhooks                                                                *)

DeliveryType == [pc : {"idle", "claim", "dispatch", "complete", "release", "uncache"},
                 event : Events \cup {NoEvent}, outcome : Outcome \cup {"none"}]

\* A delivery at work has an event.
Delivers == \A x \in Deliveries : delivery[x].pc # "idle" => delivery[x].event \in Events

LEMMA DeliveryTo ==
    ASSUME WebhookTypeOK, NEW x \in Deliveries, NEW v \in DeliveryType,
           delivery' = [delivery EXCEPT ![x] = v],
           Delivers, v.pc # "idle" => v.event \in Events
    PROVE  delivery' \in [Deliveries -> DeliveryType] /\ Delivers'
  BY DEF WebhookTypeOK, DeliveryType, Delivers

LEMMA Stepped ==
    ASSUME WebhookTypeOK, Delivers, NEW x \in Deliveries, delivery[x].pc # "idle",
           NEW pc \in {"claim", "dispatch", "complete", "release", "uncache"}, Step(x, pc)
    PROVE  delivery' \in [Deliveries -> DeliveryType] /\ Delivers'
  <1> DEFINE v == [delivery[x] EXCEPT !.pc = pc]
  <1>1. delivery[x] \in DeliveryType
    BY DEF WebhookTypeOK, DeliveryType
  <1>2. v \in DeliveryType /\ v.event = delivery[x].event
    BY <1>1 DEF DeliveryType
  <1>3. delivery' = [delivery EXCEPT ![x] = v]
    BY DEF Step
  <1>4. delivery[x].event \in Events
    BY DEF Delivers
  <1> HIDE DEF v
  <1> QED  BY <1>2, <1>3, <1>4, DeliveryTo

LEMMA ReportedTo ==
    ASSUME WebhookTypeOK, Delivers, NEW x \in Deliveries, delivery[x].pc # "idle",
           NEW o \in Outcome, Report(x, o)
    PROVE  delivery' \in [Deliveries -> DeliveryType] /\ Delivers'
  <1> DEFINE v == [[delivery[x] EXCEPT !.pc = "complete"] EXCEPT !.outcome = o]
  <1>1. delivery[x] \in DeliveryType /\ delivery \in [Deliveries -> DeliveryType]
    BY DEF WebhookTypeOK, DeliveryType
  <1>2. v \in DeliveryType /\ v.event = delivery[x].event
    BY <1>1 DEF DeliveryType
  <1>3. delivery' = [delivery EXCEPT ![x] = v]
    BY <1>1 DEF Report
  <1>4. delivery[x].event \in Events
    BY DEF Delivers
  <1> HIDE DEF v
  <1> QED  BY <1>2, <1>3, <1>4, DeliveryTo

LEMMA DoneTyped ==
    ASSUME WebhookTypeOK, Delivers, NEW x \in Deliveries, Done(x)
    PROVE  delivery' \in [Deliveries -> DeliveryType] /\ Delivers'
  <1>1. NoDelivery \in DeliveryType /\ NoDelivery.pc = "idle"
    BY DEF NoDelivery, DeliveryType
  <1> QED  BY <1>1, DeliveryTo DEF Done

\* The rest of WebhookTypeOK.
RowsAndKeys == /\ acked \subseteq Events /\ cache \subseteq Events
               /\ eventRow \in [Events -> Outcome \cup {"none", "IN_FLIGHT"}]

LEMMA DeliverTyped ==
    ASSUME WebhookTypeOK, Delivers, NEW x \in Deliveries, NEW e \in Events, Deliver(x, e)
    PROVE  delivery' \in [Deliveries -> DeliveryType] /\ Delivers' /\ RowsAndKeys'
  <1>1. RowsAndKeys'
    BY DEF Deliver, Accept, RowsAndKeys, WebhookTypeOK
  <1>2. CASE Accept(x, e)
    BY <1>1, <1>2, DoneTyped DEF Accept
  <1>3. CASE delivery' = [delivery EXCEPT ![x] = [pc |-> "claim", event |-> e, outcome |-> "none"]]
    <2> DEFINE v == [pc |-> "claim", event |-> e, outcome |-> "none"]
    <2>1. v \in DeliveryType /\ v.event \in Events
      BY DEF DeliveryType
    <2> HIDE DEF v
    <2> QED  BY <1>1, <1>3, <2>1, DeliveryTo DEF v
  <1> QED  BY <1>2, <1>3 DEF Deliver

LEMMA DispatchSteps ==
    ASSUME ConvTypeOK, WebhookTypeOK, Delivers, NEW x \in Deliveries, Dispatch(x)
    PROVE  delivery' \in [Deliveries -> DeliveryType] /\ Delivers' /\ LedgerStep
  <1> DEFINE c == On(x).click
  <1>1. c \in Clicks /\ On(x).type \in EventType /\ delivery[x].pc # "idle"
    BY DEF Dispatch, Delivers, On, Events
  <1>2. ASSUME NEW o \in Outcome, Report(x, o)
        PROVE  delivery' \in [Deliveries -> DeliveryType] /\ Delivers'
    BY <1>1, <1>2, ReportedTo
  <1>3. CASE UNCHANGED conv /\ Report(x, "IGNORED_NO_MATCHING_CONVERSION")
    BY <1>2, <1>3 DEF Outcome, LedgerStep
  <1>4. CASE /\ SalesOf(c) # {} /\ MarkSettled(FindSale(c))
             /\ Report(x, IF conv[FindSale(c)].status = "PENDING_SETTLEMENT"
                          THEN "SETTLED" ELSE "IGNORED_ALREADY_REFUNDED")
    <2>1. LedgerStep
      BY <1>1, <1>4, MarkSettledSteps
    <2>2. (IF conv[FindSale(c)].status = "PENDING_SETTLEMENT"
           THEN "SETTLED" ELSE "IGNORED_ALREADY_REFUNDED") \in Outcome
      BY DEF Outcome
    <2> QED  BY <1>2, <1>4, <2>1, <2>2
  <1>5. CASE SalesOf(c) # {} /\ RecordReversal(FindSale(c), On(x).type) /\ Report(x, "REVERSED")
    <2>1. LedgerStep
      BY <1>1, <1>5, RecordReversalSteps
    <2> QED  BY <1>2, <1>5, <2>1 DEF Outcome
  <1>6. CASE UNCHANGED conv /\ Step(x, "release")
    BY <1>1, <1>6, Stepped DEF LedgerStep
  <1> QED  BY <1>3, <1>4, <1>5, <1>6 DEF Dispatch

LEMMA WebhookSteps ==
    ASSUME TypeOK, Delivers, WebhookNext
    PROVE  RailTypeOK' /\ WebhookTypeOK' /\ Delivers' /\ LedgerStep
  <1> USE DEF TypeOK
  <1>1. ASSUME NEW x \in Deliveries, NEW e \in Events, Deliver(x, e)
        PROVE  RailTypeOK' /\ WebhookTypeOK' /\ Delivers' /\ LedgerStep
    <2>1. RailTypeOK' /\ LedgerStep
      BY <1>1 DEF Deliver, LedgerStep, RailTypeOK, rails
    <2> QED  BY <1>1, <2>1, DeliverTyped DEF WebhookTypeOK, DeliveryType, RowsAndKeys
  <1>2. ASSUME NEW x \in Deliveries, ClaimEvent(x)
        PROVE  RailTypeOK' /\ WebhookTypeOK' /\ Delivers' /\ LedgerStep
    <2>1. RailTypeOK'
      BY <1>2, CountersTyped DEF ClaimEvent, RailTypeOK
    <2>2. On(x) \in Events /\ delivery[x].pc # "idle"
      BY <1>2 DEF ClaimEvent, Delivers, On
    <2>3. RowsAndKeys' /\ LedgerStep
      BY <1>2, <2>2 DEF ClaimEvent, Accept, RowsAndKeys, WebhookTypeOK, LedgerStep
    <2>4. delivery' \in [Deliveries -> DeliveryType] /\ Delivers'
      BY <1>2, <2>2, Stepped, DoneTyped DEF ClaimEvent, Accept
    <2> QED  BY <2>1, <2>3, <2>4 DEF WebhookTypeOK, DeliveryType, RowsAndKeys
  <1>3. ASSUME NEW x \in Deliveries, Dispatch(x)
        PROVE  RailTypeOK' /\ WebhookTypeOK' /\ Delivers' /\ LedgerStep
    <2>1. RailTypeOK'
      BY <1>3, CountersTyped DEF Dispatch, RailTypeOK
    <2>2. RowsAndKeys'
      BY <1>3 DEF Dispatch, RowsAndKeys, WebhookTypeOK
    <2> QED  BY <1>3, <2>1, <2>2, DispatchSteps DEF WebhookTypeOK, DeliveryType, RowsAndKeys
  <1>4. ASSUME NEW x \in Deliveries, CompleteEvent(x)
        PROVE  RailTypeOK' /\ WebhookTypeOK' /\ Delivers' /\ LedgerStep
    <2>1. RailTypeOK'
      BY <1>4, CountersTyped DEF CompleteEvent, RailTypeOK
    <2>2. On(x) \in Events /\ delivery[x].pc # "idle"
      BY <1>4 DEF CompleteEvent, Delivers, On
    <2>3. RowsAndKeys' /\ LedgerStep
      BY <1>4, <2>2 DEF CompleteEvent, Accept, RowsAndKeys, WebhookTypeOK, LedgerStep
    <2>4. delivery' \in [Deliveries -> DeliveryType] /\ Delivers'
      BY <1>4, <2>2, Stepped, DoneTyped DEF CompleteEvent, Accept
    <2> QED  BY <2>1, <2>3, <2>4 DEF WebhookTypeOK, DeliveryType, RowsAndKeys
  <1>5. ASSUME NEW x \in Deliveries, ReleaseEvent(x) \/ DropKey(x)
        PROVE  RailTypeOK' /\ WebhookTypeOK' /\ Delivers' /\ LedgerStep
    <2>1. RailTypeOK' /\ LedgerStep
      BY <1>5 DEF ReleaseEvent, DropKey, RailTypeOK, rails, LedgerStep
    <2>2. On(x) \in Events /\ delivery[x].pc # "idle"
      BY <1>5 DEF ReleaseEvent, DropKey, Delivers, On
    <2>3. RowsAndKeys'
      BY <1>5, <2>2 DEF ReleaseEvent, DropKey, RowsAndKeys, WebhookTypeOK
    <2>4. delivery' \in [Deliveries -> DeliveryType] /\ Delivers'
      BY <1>5, <2>2, Stepped, DoneTyped DEF ReleaseEvent, DropKey
    <2> QED  BY <2>1, <2>3, <2>4 DEF WebhookTypeOK, DeliveryType, RowsAndKeys
  <1>6. ASSUME NEW x \in Deliveries, DeliveryDies(x)
        PROVE  RailTypeOK' /\ WebhookTypeOK' /\ Delivers' /\ LedgerStep
    <2>1. RailTypeOK' /\ RowsAndKeys' /\ LedgerStep
      BY <1>6, CountersTyped
      DEF DeliveryDies, RailTypeOK, RowsAndKeys, WebhookTypeOK, LedgerStep
    <2> QED  BY <1>6, <2>1, DoneTyped DEF DeliveryDies, WebhookTypeOK, DeliveryType, RowsAndKeys
  <1>7. CASE CacheFlush
    BY <1>7, CountersTyped DEF CacheFlush, RailTypeOK, WebhookTypeOK, Delivers, LedgerStep
  <1> QED  BY <1>1, <1>2, <1>3, <1>4, <1>5, <1>6, <1>7 DEF WebhookNext, DeliveryStep

-----------------------------------------------------------------------------
(* Payouts                                                                 *)

PayoutRow == [status : {"IN_FLIGHT", "PAID", "FAILED"}, items : SUBSET Nat]
SweeperType(rows) == [pc : {"idle", "claim", "transfer", "confirm", "release"},
                      read : SUBSET rows, payout : Nat]
Paying == {"transfer", "confirm", "release"}

\* A sweeper that pays has a payout in flight, or, when it gives the payout up,
\* one that may have become paid without its knowledge ...
InHand(pc, status) == IF pc = "release" THEN status # "FAILED" ELSE status = "IN_FLIGHT"

HasPayout == \A s \in Sweepers :
  sweeper[s].pc \in Paying => /\ sweeper[s].payout \in DOMAIN payouts
                              /\ InHand(sweeper[s].pc, payouts[sweeper[s].payout].status)

\* ... that no other one has.
PaysAlone == \A s, t \in Sweepers :
  s # t /\ sweeper[s].pc \in Paying /\ sweeper[t].pc \in Paying
    => sweeper[s].payout # sweeper[t].payout

PayoutInv == HasPayout /\ PaysAlone /\ ClaimsExclusive

LEMMA PayoutRows ==
    ASSUME PayoutTypeOK
    PROVE  /\ payouts \in Seq(PayoutRow) /\ claimed \in Seq(SUBSET DOMAIN conv)
           /\ Len(payouts) \in Nat /\ Len(claimed) = Len(payouts)
           /\ DOMAIN payouts = 1..Len(payouts) /\ DOMAIN claimed = 1..Len(payouts)
           /\ \A p \in DOMAIN payouts : payouts[p] \in PayoutRow /\ claimed[p] \subseteq DOMAIN conv
           /\ sweeper \in [Sweepers -> SweeperType(DOMAIN conv)]
  <1>1. payouts \in Seq(PayoutRow) /\ claimed \in Seq(SUBSET DOMAIN conv) /\ Len(claimed) = Len(payouts)
    BY DEF PayoutTypeOK, PayoutRow
  <1>2. /\ Len(payouts) \in Nat /\ DOMAIN payouts = 1..Len(payouts)
        /\ DOMAIN claimed = 1..Len(claimed)
    BY <1>1, LenProperties
  <1>3. \A p \in 1..Len(payouts) : payouts[p] \in PayoutRow
    BY <1>1, ElementOfSeq
  <1>4. \A p \in 1..Len(claimed) : claimed[p] \in SUBSET DOMAIN conv
    BY <1>1, ElementOfSeq
  <1>5. sweeper \in [Sweepers -> SweeperType(DOMAIN conv)]
    BY DEF PayoutTypeOK, SweeperType
  <1> QED  BY <1>1, <1>2, <1>3, <1>4, <1>5

\* The total of a payout is a number.
LEMMA TotalNumber ==
    ASSUME ConvTypeOK, NEW items \in SUBSET DOMAIN conv
    PROVE  Total(items) \in Int
  <1> DEFINE sales == {i \in items : IsSale(i)}
             cents == Split(Gross, Rate, Cut).agentPayout
  <1>1. IsFiniteSet(1..Len(conv))
    BY RowsOf, FS_Interval
  <1>2. IsFiniteSet(sales) /\ IsFiniteSet(items \ sales)
    BY <1>1, RowsOf, FS_Subset
  <1>3. Cardinality(sales) \in Nat /\ Cardinality(items \ sales) \in Nat
    BY <1>2, FS_CardinalityType
  <1>4. cents \in Int
    <2>1. Gross \in Int /\ Rate \in Int /\ Cut \in Int
      BY DEF Bps
    <2>2. applyBps(Gross, Rate) \in Int /\ applyBps(Gross, Cut) \in Int
      BY <2>1, BpsInteger
    <2>3. cents = applyBps(Gross, Rate) - applyBps(Gross, Cut)
      BY DEF Split
    <2> HIDE DEF cents
    <2> QED  BY <2>2, <2>3
  <1>5. Total(items) = (Cardinality(sales) - Cardinality(items \ sales)) * cents
    BY DEF Total
  <1> HIDE DEF sales, cents
  <1> QED  BY <1>3, <1>4, <1>5

\* Steps of the ledger keep what the sweeps have.
LEMMA PayoutsKept ==
    ASSUME ConvTypeOK, PayoutTypeOK, PayoutInv, LedgerStep, UNCHANGED sweeps
    PROVE  PayoutTypeOK' /\ PayoutInv'
  <1>1. DOMAIN conv \subseteq DOMAIN conv'
    BY StepKeepsRows DEF RowsKept
  <1>2. claimed \in Seq(SUBSET DOMAIN conv')
    <2>1. SUBSET DOMAIN conv \subseteq SUBSET DOMAIN conv'
      BY <1>1
    <2> QED  BY <2>1, PayoutRows, SeqMonotonic
  <1>3. sweeper \in [Sweepers -> SweeperType(DOMAIN conv')]
    BY <1>1, PayoutRows DEF SweeperType
  <1>4. PayoutTypeOK'
    BY <1>2, <1>3 DEF PayoutTypeOK, sweeps, SweeperType
  <1>5. HasPayout' /\ PaysAlone'
    BY DEF PayoutInv, HasPayout, PaysAlone, sweeps
  <1>6. \A p \in DOMAIN payouts : Total(claimed[p])' = Total(claimed[p])
    <2> TAKE p \in DOMAIN payouts
    <2> DEFINE items == claimed[p]
    <2>1. items \in SUBSET DOMAIN conv /\ items' = items
      BY PayoutRows DEF sweeps
    <2>2. {i \in items : IsSale(i)}' = {i \in items : IsSale(i)}
      BY <2>1, StepKeepsRows DEF RowsKept, IsSale
    <2> QED  BY <2>1, <2>2 DEF Total
  <1>7. ClaimsExclusive'
    BY <1>6 DEF PayoutInv, ClaimsExclusive, sweeps
  <1> QED  BY <1>4, <1>5, <1>7 DEF PayoutInv

SweeperBecomes(s, v) == /\ v \in SweeperType(DOMAIN conv)
                        /\ sweeper' = [sweeper EXCEPT ![s] = v]

LEMMA PhaseBecomes ==
    ASSUME PayoutTypeOK, NEW s \in Sweepers, NEW pc \in Paying, Phase(s, pc)
    PROVE  \E v : SweeperBecomes(s, v) /\ v.pc = pc /\ v.payout = sweeper[s].payout
  <1> DEFINE v == [sweeper[s] EXCEPT !.pc = pc]
  <1>1. sweeper[s] \in SweeperType(DOMAIN conv)
    BY PayoutRows
  <1>2. v \in SweeperType(DOMAIN conv) /\ v.pc = pc /\ v.payout = sweeper[s].payout
    BY <1>1 DEF SweeperType, Paying
  <1>3. sweeper' = [sweeper EXCEPT ![s] = v]
    BY DEF Phase
  <1> HIDE DEF v
  <1> QED  BY <1>2, <1>3 DEF SweeperBecomes

LEMMA LeaveBecomes ==
    ASSUME NEW s \in Sweepers, Leave(s)
    PROVE  SweeperBecomes(s, NoSweep) /\ NoSweep.pc = "idle"
  BY DEF Leave, SweeperBecomes, SweeperType, NoSweep

LEMMA SweepersTyped ==
    ASSUME PayoutTypeOK, UNCHANGED conv, NEW s \in Sweepers, NEW v, SweeperBecomes(s, v)
    PROVE  /\ sweeper' \in [Sweepers -> SweeperType(DOMAIN conv')]
           /\ sweeper'[s] = v
           /\ \A t \in Sweepers \ {s} : sweeper'[t] = sweeper[t]
  BY PayoutRows DEF SweeperBecomes

\* A sweeper reads, gives up, or goes on with the payout it has.
LEMMA SweeperMoves ==
    ASSUME ConvTypeOK, PayoutTypeOK, PayoutInv, UNCHANGED <<conv, payouts, claimed>>,
           landed' \subseteq DOMAIN payouts,
           NEW s \in Sweepers, NEW v, SweeperBecomes(s, v),
           v.pc \in Paying => /\ sweeper[s].pc \in Paying \ {"release"}
                              /\ v.payout = sweeper[s].payout
    PROVE  PayoutTypeOK' /\ PayoutInv'
  <1>1. PayoutTypeOK'
    BY SweepersTyped DEF PayoutTypeOK, SweeperType
  <1>2. HasPayout' /\ PaysAlone'
    BY SweepersTyped DEF PayoutInv, HasPayout, PaysAlone, InHand
  <1>3. ClaimsExclusive'
    BY ZenonT(40) DEF PayoutInv, ClaimsExclusive, Total, IsSale
  <1> QED  BY <1>1, <1>2, <1>3 DEF PayoutInv

LEMMA ReadEligibleStep ==
    ASSUME ConvTypeOK, PayoutTypeOK, PayoutInv, NEW s \in Sweepers, ReadEligible(s)
    PROVE  PayoutTypeOK' /\ PayoutInv'
  <1> DEFINE v == [[sweeper[s] EXCEPT !.pc = "claim"] EXCEPT !.read = Eligible]
  <1>1. sweeper[s] \in SweeperType(DOMAIN conv) /\ sweeper \in [Sweepers -> SweeperType(DOMAIN conv)]
    BY PayoutRows
  <1>2. Eligible \subseteq DOMAIN conv
    BY DEF Eligible
  <1>3. v \in SweeperType(DOMAIN conv) /\ v.pc = "claim"
    BY <1>1, <1>2 DEF SweeperType
  <1>4. sweeper' = [sweeper EXCEPT ![s] = v]
    BY <1>1 DEF ReadEligible
  <1> HIDE DEF v
  <1>5. SweeperBecomes(s, v) /\ v.pc \notin Paying
    BY <1>3, <1>4 DEF SweeperBecomes, Paying
  <1>6. UNCHANGED <<conv, payouts, claimed>> /\ landed' \subseteq DOMAIN payouts
    BY DEF ReadEligible, PayoutTypeOK
  <1> QED  BY <1>5, <1>6, SweeperMoves

LEMMA TransferStep ==
    ASSUME ConvTypeOK, PayoutTypeOK, PayoutInv, NEW s \in Sweepers, Transfer(s)
    PROVE  PayoutTypeOK' /\ PayoutInv'
  <1>1. sweeper[s].pc \in Paying \ {"release"} /\ sweeper[s].payout \in DOMAIN payouts
    BY DEF Transfer, Paying, PayoutInv, HasPayout
  <1>2. UNCHANGED <<conv, payouts, claimed>> /\ landed' \subseteq DOMAIN payouts
    BY <1>1 DEF Transfer, PayoutTypeOK
  <1>3. PICK pc \in Paying : Phase(s, pc)
    BY DEF Transfer, Paying
  <1> QED  BY <1>1, <1>2, <1>3, PhaseBecomes, SweeperMoves

LEMMA SweeperGivesUp ==
    ASSUME ConvTypeOK, PayoutTypeOK, PayoutInv, NEW s \in Sweepers, Leave(s),
           UNCHANGED <<conv, payouts, claimed, landed>>
    PROVE  PayoutTypeOK' /\ PayoutInv'
  <1>1. SweeperBecomes(s, NoSweep) /\ NoSweep.pc \notin Paying
    BY LeaveBecomes DEF Paying
  <1>2. landed' \subseteq DOMAIN payouts
    BY DEF PayoutTypeOK
  <1> QED  BY <1>1, <1>2, SweeperMoves

\* A new payout, of conversions that no payout has claimed.
LEMMA ClaimItemsStep ==
    ASSUME ConvTypeOK, PayoutTypeOK, PayoutInv, NEW s \in Sweepers, ClaimItems(s)
    PROVE  PayoutTypeOK' /\ PayoutInv'
  <1> DEFINE items == LockedItems(s)
             row == [status |-> "IN_FLIGHT", items |-> items]
             n == Len(payouts) + 1
             v == [pc |-> "transfer", read |-> {}, payout |-> n]
  <1>1. CASE Leave(s) /\ UNCHANGED <<payouts, claimed>>
    BY <1>1, SweeperGivesUp DEF ClaimItems, rails
  <1>2. CASE /\ ~ (Total(items) <= 0) /\ items \cap Claimed = {}
             /\ payouts' = Append(payouts, row) /\ claimed' = Append(claimed, items)
             /\ sweeper' = [sweeper EXCEPT ![s] = v]
    <2>1. items \subseteq DOMAIN conv /\ UNCHANGED <<conv, landed>>
      BY PayoutRows DEF LockedItems, SweeperType, ClaimItems
    <2>2. row \in PayoutRow /\ row.status = "IN_FLIGHT" /\ row.items = items
      BY <2>1, RowsOf DEF PayoutRow
    <2>3. Total(items) > 0
      BY <1>2, <2>1, TotalNumber
    <2>4. v \in SweeperType(DOMAIN conv) /\ v.pc = "transfer" /\ v.payout = n
      BY PayoutRows DEF SweeperType
    <2> HIDE DEF items, row, v
    <2>5. /\ payouts' \in Seq(PayoutRow) /\ Len(payouts') = n
          /\ \A p \in 1..Len(payouts) : payouts'[p] = payouts[p]
          /\ payouts'[n] = row
      BY <1>2, <2>2, PayoutRows, AppendProperties
    <2>6. /\ claimed' \in Seq(SUBSET DOMAIN conv) /\ Len(claimed') = n
          /\ \A p \in 1..Len(payouts) : claimed'[p] = claimed[p]
          /\ claimed'[n] = items
      BY <1>2, <2>1, PayoutRows, AppendProperties
    <2>7. DOMAIN payouts' = DOMAIN payouts \cup {n} /\ n \notin DOMAIN payouts
      <3>1. DOMAIN payouts' = 1..n
        BY <2>5, LenProperties
      <3> QED  BY <3>1, PayoutRows
    <2>8. /\ sweeper' \in [Sweepers -> SweeperType(DOMAIN conv)] /\ sweeper'[s] = v
          /\ \A t \in Sweepers \ {s} : sweeper'[t] = sweeper[t]
      BY <1>2, <2>4, PayoutRows
    <2>9. PayoutTypeOK'
      <3>1. landed' \subseteq DOMAIN payouts'
        BY <2>1, <2>7 DEF PayoutTypeOK
      <3> QED  BY <2>1, <2>5, <2>6, <2>8, <3>1 DEF PayoutTypeOK, PayoutRow, SweeperType
    <2>10. HasPayout'
      <3>1. payouts'[v.payout].status = "IN_FLIGHT" /\ v.payout \in DOMAIN payouts'
        BY <2>2, <2>4, <2>5, <2>7
      <3>2. \A t \in Sweepers \ {s} : sweeper[t].pc \in Paying =>
               /\ sweeper[t].payout \in DOMAIN payouts'
               /\ InHand(sweeper[t].pc, payouts'[sweeper[t].payout].status)
        BY <2>5, <2>7, PayoutRows DEF PayoutInv, HasPayout
      <3>3. InHand(v.pc, payouts'[v.payout].status)
        BY <2>4, <3>1 DEF InHand
      <3> QED  BY <2>8, <3>1, <3>2, <3>3 DEF HasPayout
    <2>11. PaysAlone'
      <3>1. \A t \in Sweepers : sweeper[t].pc \in Paying => sweeper[t].payout # n
        BY <2>7 DEF PayoutInv, HasPayout
      <3> QED  BY <2>4, <2>8, <3>1 DEF PayoutInv, PaysAlone
    <2>12. ClaimsExclusive'
      <3>1. \A p \in DOMAIN payouts : claimed[p] \cap items = {}
        BY <1>2, PayoutRows DEF Claimed
      <3>2. ASSUME NEW p \in DOMAIN payouts'
            PROVE  /\ payouts'[p].status # "FAILED" => /\ claimed'[p] = payouts'[p].items
                                                        /\ Total(claimed[p])' > 0
                   /\ payouts'[p].status = "FAILED" => claimed'[p] = {}
        <4>1. CASE p \in DOMAIN payouts
          <5>1. payouts'[p] = payouts[p] /\ claimed'[p] = claimed[p]
            BY <2>5, <2>6, <4>1, PayoutRows
          <5>2. Total(claimed[p])' = Total(claimed[p])
            BY <2>1, <5>1 DEF Total, IsSale
          <5> QED  BY <4>1, <5>1, <5>2 DEF PayoutInv, ClaimsExclusive
        <4>2. CASE p = n
          <5>1. payouts'[p] = row /\ claimed'[p] = items
            BY <2>5, <2>6, <4>2
          <5>2. Total(claimed[p])' = Total(items)
            BY <2>1, <5>1 DEF Total, IsSale
          <5> QED  BY <2>2, <2>3, <5>1, <5>2
        <4> QED  BY <2>7, <4>1, <4>2
      <3>3. \A p, q \in DOMAIN payouts' : p # q => claimed'[p] \cap claimed'[q] = {}
        BY <2>6, <2>7, <3>1, PayoutRows DEF PayoutInv, ClaimsExclusive
      <3> QED  BY <3>2, <3>3 DEF ClaimsExclusive
    <2> QED  BY <2>9, <2>10, <2>11, <2>12 DEF PayoutInv
  <1> QED  BY <1>1, <1>2 DEF ClaimItems

\* A payout is paid with its items, or fails without any.  Its sweeper leaves it,
\* or does not know that it is paid and is to give it up.
LEMMA PayoutEnds ==
    ASSUME ConvTypeOK, PayoutTypeOK, PayoutInv, NEW s \in Sweepers, sweeper[s].pc \in Paying,
           UNCHANGED <<conv, landed>>, NEW st \in {"PAID", "FAILED"},
           NEW v, SweeperBecomes(s, v),
           v.pc \in Paying => v.pc = "release" /\ v.payout = sweeper[s].payout /\ st = "PAID",
           payouts' = [payouts EXCEPT ![sweeper[s].payout].status = st],
           claimed' = IF st = "PAID" THEN claimed ELSE [claimed EXCEPT ![sweeper[s].payout] = {}]
    PROVE  PayoutTypeOK' /\ PayoutInv'
  <1> DEFINE n == sweeper[s].payout
             row == [payouts[n] EXCEPT !.status = st]
  <1>1. n \in 1..Len(payouts) /\ payouts[n] \in PayoutRow /\ payouts[n].status # "FAILED"
    BY PayoutRows DEF PayoutInv, HasPayout, InHand
  <1>2. row \in PayoutRow /\ row.status = st /\ row.items = payouts[n].items
    BY <1>1 DEF PayoutRow
  <1>3. payouts' = [payouts EXCEPT ![n] = row]
    OBVIOUS
  <1>4. v.pc \in Paying => v.pc = "release" /\ v.payout = n /\ st = "PAID"
    OBVIOUS
  <1>5. /\ sweeper' \in [Sweepers -> SweeperType(DOMAIN conv)] /\ sweeper'[s] = v
        /\ \A t \in Sweepers \ {s} : sweeper'[t] = sweeper[t]
    BY SweepersTyped
  <1>6. \A t \in Sweepers \ {s} : sweeper[t].pc \in Paying => sweeper[t].payout # n
    BY DEF PayoutInv, PaysAlone
  <1> HIDE DEF n, row
  <1>7. /\ payouts' \in Seq(PayoutRow) /\ Len(payouts') = Len(payouts)
        /\ \A p \in 1..Len(payouts) : payouts'[p] = IF p = n THEN row ELSE payouts[p]
    <2> DEFINE ends == [payouts EXCEPT ![n] = row]
    <2>1. payouts \in Seq(PayoutRow) /\ n \in 1..Len(payouts) /\ row \in PayoutRow
      BY <1>1, <1>2, PayoutRows
    <2>2. /\ ends \in Seq(PayoutRow) /\ Len(ends) = Len(payouts)
          /\ \A p \in 1..Len(payouts) : ends[p] = IF p = n THEN row ELSE payouts[p]
      BY <2>1, ExceptSeq
    <2> HIDE DEF ends
    <2>3. payouts' = ends
      BY <1>3 DEF ends
    <2> QED  BY <2>2, <2>3
  <1>8. /\ claimed' \in Seq(SUBSET DOMAIN conv) /\ Len(claimed') = Len(claimed)
        /\ \A p \in 1..Len(payouts) :
             claimed'[p] = IF p = n /\ st = "FAILED" THEN {} ELSE claimed[p]
    <2>1. CASE st = "PAID"
      BY <2>1, PayoutRows
    <2>2. CASE st = "FAILED"
      <3> DEFINE Sets == SUBSET DOMAIN conv
                 none == {}
      <3>1. claimed' = [claimed EXCEPT ![n] = none]
        BY <2>2 DEF n
      <3>2. none \in Sets
        OBVIOUS
      <3>3. claimed \in Seq(Sets) /\ n \in 1..Len(claimed)
        BY <1>1, PayoutRows
      <3> HIDE DEF Sets, none
      <3> DEFINE ends == [claimed EXCEPT ![n] = none]
      <3>4. /\ ends \in Seq(Sets) /\ Len(ends) = Len(claimed)
            /\ \A p \in 1..Len(claimed) : ends[p] = IF p = n THEN none ELSE claimed[p]
        BY <3>2, <3>3, ExceptSeq
      <3> HIDE DEF ends
      <3>5. claimed' = ends
        BY <3>1 DEF ends
      <3> QED  BY <2>2, <3>4, <3>5, PayoutRows DEF Sets, none
    <2> QED  BY <2>1, <2>2
  <1>9. DOMAIN payouts' = 1..Len(payouts)
    BY <1>7, LenProperties
  <1>10. PayoutTypeOK'
    <2>1. landed' \subseteq DOMAIN payouts'
      BY <1>9, PayoutRows DEF PayoutTypeOK
    <2> QED  BY <1>5, <1>7, <1>8, <2>1, PayoutRows DEF PayoutTypeOK, PayoutRow, SweeperType
  <1>11. HasPayout'
    <2>1. \A t \in Sweepers \ {s} : sweeper[t].pc \in Paying =>
             /\ sweeper[t].payout \in DOMAIN payouts'
             /\ InHand(sweeper[t].pc, payouts'[sweeper[t].payout].status)
      BY <1>6, <1>7, <1>9, PayoutRows DEF PayoutInv, HasPayout
    <2>2. v.pc \in Paying => n \in DOMAIN payouts' /\ InHand(v.pc, payouts'[n].status)
      BY <1>1, <1>2, <1>4, <1>7, <1>9 DEF InHand
    <2> QED  BY <1>4, <1>5, <2>1, <2>2 DEF HasPayout
  <1>12. PaysAlone'
    BY <1>4, <1>5, <1>6 DEF PayoutInv, PaysAlone
  <1>13. ClaimsExclusive'
    <2>1. ASSUME NEW p \in DOMAIN payouts'
          PROVE  /\ payouts'[p].status # "FAILED" => /\ claimed'[p] = payouts'[p].items
                                                      /\ Total(claimed[p])' > 0
                 /\ payouts'[p].status = "FAILED" => claimed'[p] = {}
      <3>1. p \in DOMAIN payouts
        BY <1>9, PayoutRows
      <3>2. claimed'[p] = claimed[p] => Total(claimed[p])' = Total(claimed[p])
        BY DEF Total, IsSale
      <3>3. CASE p = n
        <4>1. payouts'[p].status = st /\ payouts'[p].items = payouts[n].items
          BY <1>2, <1>7, <1>9, <3>3
        <4>2. claimed[p] = payouts[n].items /\ Total(claimed[p]) > 0
          BY <1>1, <3>1, <3>3 DEF PayoutInv, ClaimsExclusive
        <4>3. claimed'[p] = IF st = "FAILED" THEN {} ELSE claimed[p]
          BY <1>8, <1>9, <3>3
        <4> QED  BY <3>2, <4>1, <4>2, <4>3
      <3>4. CASE p # n
        <4>1. payouts'[p] = payouts[p] /\ claimed'[p] = claimed[p]
          BY <1>7, <1>8, <1>9, <3>4
        <4> QED  BY <3>1, <3>2, <4>1 DEF PayoutInv, ClaimsExclusive
      <3> QED  BY <3>3, <3>4
    <2>2. \A p, q \in DOMAIN payouts' : p # q => claimed'[p] \cap claimed'[q] = {}
      BY <1>8, <1>9, PayoutRows DEF PayoutInv, ClaimsExclusive
    <2> QED  BY <2>1, <2>2 DEF ClaimsExclusive
  <1> QED  BY <1>10, <1>11, <1>12, <1>13 DEF PayoutInv

LEMMA PayoutSteps ==
    ASSUME TypeOK, PayoutInv, PayoutNext
    PROVE  RailTypeOK' /\ PayoutTypeOK' /\ PayoutInv' /\ UNCHANGED conv
  <1> USE DEF TypeOK
  <1> PICK s \in Sweepers : SweepStep(s) \/ SweeperDies(s)
    BY DEF PayoutNext
  <1>1. CASE ReadEligible(s) \/ ClaimItems(s)
    <2>1. RailTypeOK' /\ UNCHANGED conv
      BY <1>1 DEF ReadEligible, ClaimItems, rails, RailTypeOK
    <2> QED  BY <1>1, <2>1, ReadEligibleStep, ClaimItemsStep
  <1>2. CASE Transfer(s)
    <2>1. RailTypeOK' /\ UNCHANGED conv
      BY <1>2, CountersTyped DEF Transfer, RailTypeOK
    <2> QED  BY <1>2, <2>1, TransferStep
  <1>3. CASE MarkPaid(s)
    <2>1. RailTypeOK' /\ UNCHANGED <<conv, landed, claimed>> /\ sweeper[s].pc \in Paying
      BY <1>3, CountersTyped DEF MarkPaid, RailTypeOK, Paying
    <2>2. CASE Leave(s) /\ payouts' = [payouts EXCEPT ![sweeper[s].payout].status = "PAID"]
      <3>1. SweeperBecomes(s, NoSweep) /\ NoSweep.pc \notin Paying
        BY <2>2, LeaveBecomes DEF Paying
      <3> QED  BY <2>1, <2>2, <3>1, PayoutEnds
    <2>3. CASE Phase(s, "release")
      <3>1. PICK v : SweeperBecomes(s, v) /\ v.pc = "release" /\ v.payout = sweeper[s].payout
        BY <2>3, PhaseBecomes DEF Paying
      <3>2. landed' \subseteq DOMAIN payouts /\ sweeper[s].pc # "release"
        BY <1>3, <2>1 DEF PayoutTypeOK, MarkPaid
      <3>3. CASE UNCHANGED payouts
        BY <2>1, <3>1, <3>2, <3>3, SweeperMoves
      <3>4. CASE payouts' = [payouts EXCEPT ![sweeper[s].payout].status = "PAID"]
        BY <2>1, <3>1, <3>4, PayoutEnds
      <3> QED  BY <1>3, <3>2, <3>3, <3>4 DEF MarkPaid
    <2> QED  BY <1>3, <2>2, <2>3 DEF MarkPaid
  <1>4. CASE MarkFailed(s)
    <2>1. RailTypeOK' /\ UNCHANGED <<conv, landed>> /\ sweeper[s].pc \in Paying /\ Leave(s)
      BY <1>4, CountersTyped DEF MarkFailed, RailTypeOK, Paying
    <2>2. CASE /\ payouts' = [payouts EXCEPT ![sweeper[s].payout].status = "FAILED"]
               /\ claimed' = [claimed EXCEPT ![sweeper[s].payout] = {}]
      <3>1. SweeperBecomes(s, NoSweep) /\ NoSweep.pc \notin Paying
        BY <2>1, LeaveBecomes DEF Paying
      <3> QED  BY <2>1, <2>2, <3>1, PayoutEnds
    <2>3. CASE UNCHANGED <<payouts, claimed>>
      BY <2>1, <2>3, SweeperGivesUp
    <2> QED  BY <1>4, <2>1, <2>2, <2>3 DEF MarkFailed
  <1>5. CASE SweeperDies(s)
    <2>1. RailTypeOK' /\ UNCHANGED conv
      BY <1>5, CountersTyped DEF SweeperDies, RailTypeOK
    <2> QED  BY <1>5, <2>1, SweeperGivesUp DEF SweeperDies
  <1> QED  BY <1>1, <1>2, <1>3, <1>4, <1>5 DEF SweepStep

-----------------------------------------------------------------------------
(* The inductive invariant                                                 *)

IInv == /\ TypeOK /\ OldestEarns /\ ReversedOncePerEvent
        /\ CheckoutInv /\ Delivers /\ PayoutInv

LEMMA InitIInv == Init => IInv
  <1> SUFFICES ASSUME Init PROVE IInv
    OBVIOUS
  <1>1. RailTypeOK
    BY DEF Init, RailInit, RailTypeOK
  <1>2. conv = <<>> /\ DOMAIN conv = {} /\ conv \in Seq(Row)
    BY EmptySeq DEF Init, ConvInit
  <1>3. ConvTypeOK /\ OldestEarns /\ ReversedOncePerEvent
    BY <1>2 DEF ConvTypeOK, Row, OldestEarns, SalesOf, ReversedOncePerEvent
  <1>4. CheckoutTypeOK /\ CheckoutInv
    BY DEF Init, CheckoutInit, CheckoutTypeOK, NoRequest, CheckoutInv, Serving, KeyHeld, Alone,
           Progress, Stored
  <1>5. WebhookTypeOK /\ Delivers
    BY DEF Init, WebhookInit, WebhookTypeOK, NoDelivery, Delivers
  <1>6. PayoutTypeOK /\ PayoutInv
    <2>1. payouts = <<>> /\ claimed = <<>> /\ landed = {} /\ DOMAIN payouts = {}
      BY DEF Init, PayoutInit
    <2>2. payouts \in Seq(PayoutRow) /\ claimed \in Seq(SUBSET DOMAIN conv)
      BY <2>1, EmptySeq
    <2>3. sweeper = [s \in Sweepers |-> NoSweep] /\ NoSweep \in SweeperType(DOMAIN conv)
      BY DEF Init, PayoutInit, NoSweep, SweeperType
    <2>4. PayoutTypeOK
      BY <2>1, <2>2, <2>3 DEF PayoutTypeOK, PayoutRow, SweeperType
    <2>5. PayoutInv
      BY <2>1, <2>3 DEF PayoutInv, HasPayout, PaysAlone, ClaimsExclusive, NoSweep, Paying
    <2> QED  BY <2>4, <2>5
  <1> QED  BY <1>1, <1>3, <1>4, <1>5, <1>6 DEF IInv, TypeOK

\* Every step is a step of the ledger.
LEMMA StepsOfLedger ==
    ASSUME IInv, [Next]_vars
    PROVE  LedgerStep
  <1> USE DEF IInv, CheckoutInv
  <1>1. CASE UNCHANGED conv
    BY <1>1 DEF LedgerStep
  <1>2. CASE CheckoutNext
    BY <1>2, CheckoutEffects DEF CheckoutNext
  <1>3. CASE WebhookNext
    BY <1>3, WebhookSteps
  <1>4. CASE PayoutNext
    BY <1>1, <1>4, PayoutSteps
  <1> QED  BY <1>1, <1>2, <1>3, <1>4 DEF Next, vars

LEMMA StepIInv ==
    ASSUME IInv, [Next]_vars
    PROVE  IInv'
  <1> USE DEF IInv
  <1>1. LedgerStep /\ ConvTypeOK
    BY StepsOfLedger DEF TypeOK
  <1>2. ConvTypeOK' /\ OldestEarns' /\ ReversedOncePerEvent'
    BY <1>1, RowsTyped, OldestEarnsStep, ReversedOnceStep
  <1>3. CASE RailNext /\ UNCHANGED <<conv, checkouts, webhooks, sweeps>>
    <2>1. RailTypeOK'
      BY <1>3, RailNextTyped DEF TypeOK
    <2>2. CheckoutTypeOK' /\ CheckoutInv'
      BY <1>3 DEF TypeOK, CheckoutTypeOK, CheckoutInv, Serving, KeyHeld, Alone, Progress, Stored,
                  SalesOf, IsSale, checkouts
    <2>3. WebhookTypeOK' /\ Delivers'
      BY <1>3 DEF TypeOK, WebhookTypeOK, Delivers, webhooks
    <2>4. PayoutTypeOK' /\ PayoutInv'
      BY <1>1, <1>3, PayoutsKept DEF TypeOK
    <2> QED  BY <1>2, <2>1, <2>2, <2>3, <2>4 DEF TypeOK
  <1>4. CASE CheckoutNext /\ UNCHANGED <<webhooks, sweeps>>
    <2>1. PICK g \in Handlers : CheckoutStep(g) \/ HandlerDies(g) \/ \E c \in Clicks : ClaimKey(g, c)
      BY <1>4 DEF CheckoutNext
    <2>2. CheckoutEffect(g) /\ RailTypeOK'
      BY <2>1, CheckoutEffects DEF CheckoutInv
    <2>3. CheckoutTypeOK' /\ CheckoutInv'
      BY <1>1, <2>2, CheckoutTyped, CheckoutInvStep DEF CheckoutInv, TypeOK
    <2>4. WebhookTypeOK' /\ Delivers'
      BY <1>4 DEF TypeOK, WebhookTypeOK, Delivers, webhooks
    <2>5. PayoutTypeOK' /\ PayoutInv'
      BY <1>1, <1>4, PayoutsKept DEF TypeOK
    <2> QED  BY <1>2, <2>2, <2>3, <2>4, <2>5 DEF TypeOK
  <1>5. CASE WebhookNext /\ UNCHANGED <<checkouts, sweeps>>
    <2>1. RailTypeOK' /\ WebhookTypeOK' /\ Delivers'
      BY <1>5, WebhookSteps
    <2>2. \A c \in Clicks : SalesOf(c) # {} => SalesOf(c)' # {}
      BY <1>1, StepKeepsSales
    <2>3. CheckoutTypeOK' /\ Serving' /\ KeyHeld' /\ Alone'
      BY <1>5 DEF TypeOK, CheckoutTypeOK, CheckoutInv, Serving, KeyHeld, Alone, checkouts
    <2>4. Progress'
      <3>1. \A g \in Handlers : handler[g].pc = "complete" => handler[g].click \in Clicks
        BY DEF CheckoutInv, Serving
      <3>2. \A g \in Handlers : handler[g].pc = "complete" => SalesOf(handler[g].click)' # {}
        BY <1>5, <2>2, <3>1 DEF CheckoutInv, Progress, checkouts
      <3> QED  BY <1>5, <3>2 DEF CheckoutInv, Progress, checkouts
    <2>5. Stored'
      BY <1>5, <2>2 DEF CheckoutInv, Stored, checkouts
    <2>6. PayoutTypeOK' /\ PayoutInv'
      BY <1>1, <1>5, PayoutsKept DEF TypeOK
    <2> QED  BY <1>2, <2>1, <2>3, <2>4, <2>5, <2>6 DEF TypeOK, CheckoutInv
  <1>6. CASE PayoutNext /\ UNCHANGED <<checkouts, webhooks>>
    <2>1. RailTypeOK' /\ PayoutTypeOK' /\ PayoutInv' /\ UNCHANGED conv
      BY <1>6, PayoutSteps
    <2>2. CheckoutTypeOK' /\ CheckoutInv'
      BY <1>6, <2>1 DEF TypeOK, CheckoutTypeOK, CheckoutInv, Serving, KeyHeld, Alone, Progress, Stored,
                        SalesOf, IsSale, checkouts
    <2>3. WebhookTypeOK' /\ Delivers'
      BY <1>6 DEF TypeOK, WebhookTypeOK, Delivers, webhooks
    <2> QED  BY <1>2, <2>1, <2>2, <2>3 DEF TypeOK
  <1>7. CASE UNCHANGED vars
    <2>1. UNCHANGED <<rails, conv, checkouts, webhooks, sweeps>>
      BY <1>7 DEF vars
    <2>2. CheckoutTypeOK' /\ CheckoutInv'
      BY <2>1 DEF TypeOK, CheckoutTypeOK, CheckoutInv, Serving, KeyHeld, Alone, Progress, Stored,
                  SalesOf, IsSale, checkouts
    <2>3. RailTypeOK' /\ WebhookTypeOK' /\ Delivers'
      BY <2>1 DEF TypeOK, RailTypeOK, rails, WebhookTypeOK, Delivers, webhooks
    <2>4. PayoutTypeOK' /\ PayoutInv'
      BY <1>1, <2>1, PayoutsKept DEF TypeOK
    <2> QED  BY <1>2, <2>2, <2>3, <2>4 DEF TypeOK
  <1> QED  BY <1>3, <1>4, <1>5, <1>6, <1>7 DEF Next

LEMMA Inductive == Spec => []IInv
  BY InitIInv, StepIInv, PTL DEF Spec

\* A step settles no refunded sale, and takes none into a payout.
LEMMA RefundFinalStep ==
    ASSUME IInv, [Next]_vars, NEW i \in DOMAIN conv, conv[i].status = "REFUNDED"
    PROVE  /\ conv'[i] = conv[i]
           /\ IsSale(i) /\ i \in Claimed' => i \in Claimed
  <1>1. conv'[i] = conv[i]
    BY StepsOfLedger, StepKeepsRows DEF IInv, TypeOK, RowsKept
  <1>2. CASE Claimed' \subseteq Claimed
    BY <1>1, <1>2
  <1>3. CASE PayoutNext
    <2>1. PICK s \in Sweepers : SweepStep(s) \/ SweeperDies(s)
      BY <1>3 DEF PayoutNext
    <2>2. CASE ClaimItems(s)
      <3>1. CASE UNCHANGED claimed
        BY <1>2, <3>1 DEF Claimed
      <3>2. CASE claimed' = Append(claimed, LockedItems(s))
        <4>1. claimed \in Seq(SUBSET DOMAIN conv) /\ LockedItems(s) \in SUBSET DOMAIN conv
          BY PayoutRows DEF LockedItems, SweeperType, IInv, TypeOK
        <4>2. Claimed' \subseteq Claimed \cup LockedItems(s)
          BY <3>2, <4>1, AppendProperties, LenProperties DEF Claimed
        <4>3. IsSale(i) => i \notin LockedItems(s)
          BY DEF LockedItems
        <4> QED  BY <1>1, <4>2, <4>3
      <3> QED  BY <2>2, <3>1, <3>2 DEF ClaimItems
    <2>3. CASE MarkFailed(s)
      <3>1. claimed' = claimed \/ claimed' = [claimed EXCEPT ![sweeper[s].payout] = {}]
        BY <2>3 DEF MarkFailed
      <3> QED  BY <1>2, <3>1 DEF Claimed
    <2>4. CASE ReadEligible(s) \/ Transfer(s) \/ MarkPaid(s) \/ SweeperDies(s)
      BY <1>2, <2>4 DEF ReadEligible, Transfer, MarkPaid, SweeperDies, Claimed
    <2> QED  BY <2>1, <2>2, <2>3, <2>4 DEF SweepStep
  <1>4. CASE UNCHANGED sweeps
    BY <1>2, <1>4 DEF Claimed, sweeps
  <1> QED  BY <1>3, <1>4 DEF Next, vars

-----------------------------------------------------------------------------
(* The theorems                                                            *)

\* The rows of all tables, the requests, deliveries and sweeps in progress stay
\* within their types.
THEOREM TypeCorrect == Spec => []TypeOK
  <1>1. IInv => TypeOK
    BY DEF IInv
  <1> QED  BY <1>1, Inductive, PTL

\* One payment earns one commission, however often its checkout is retried.
THEOREM CommissionCorrect == Spec => []OneCommissionPerPayment
  <1>1. IInv => OneCommissionPerPayment
    BY OldestEarnsOne DEF IInv, TypeOK
  <1> QED  BY <1>1, Inductive, PTL

\* No two payouts that may have been paid share a conversion, for any number of
\* overlapping sweeps.
THEOREM ClaimsCorrect == Spec => []ClaimsExclusive
  <1>1. IInv => ClaimsExclusive
    BY DEF IInv, PayoutInv
  <1> QED  BY <1>1, Inductive, PTL

\* No event reverses a sale twice, however often it is delivered.
THEOREM ReversalCorrect == Spec => []ReversedOncePerEvent
  <1>1. IInv => ReversedOncePerEvent
    BY DEF IInv
  <1> QED  BY <1>1, Inductive, PTL

\* Requests for one click exclude each other, and a stored response is that of
\* a sale.
THEOREM CheckoutCorrect == Spec => []CheckoutsExclusive
  <1>1. IInv => CheckoutsExclusive
    BY CheckoutInvImplies DEF IInv
  <1> QED  BY <1>1, Inductive, PTL

\* A refunded sale is neither settled nor claimed afterwards.
THEOREM RefundCorrect == Spec => RefundFinal
  <1>1. IInv /\ [Next]_vars =>
          [\A i \in DOMAIN conv :
             conv[i].status = "REFUNDED" =>
               /\ conv'[i] = conv[i]
               /\ IsSale(i) /\ i \in Claimed' => i \in Claimed]_vars
    BY RefundFinalStep
  <1> QED  BY <1>1, Inductive, PTL DEF Spec, RefundFinal

-----------------------------------------------------------------------------
(* Lost transfers: each cost a call that failed                            *)

\* A transfer that was made is in doubt once its sweeper is to release it.
Doubtful == {p \in landed : \/ payouts[p].status = "FAILED"
                            \/ \E s \in Sweepers : sweeper[s].pc = "release" /\ sweeper[s].payout = p}

\* A step that puts another transfer in doubt is one that fails.
LEMMA DoubtSteps ==
    ASSUME IInv, [Next]_vars
    PROVE  /\ faults \in Nat /\ faults' \in {faults, faults + 1}
           /\ \/ Doubtful' \subseteq Doubtful
              \/ faults' = faults + 1 /\ \E s \in Sweepers : Doubtful' \subseteq Doubtful \cup {sweeper[s].payout}
  <1>a. faults \in Nat
    BY DEF IInv, TypeOK, RailTypeOK
  <1>1. CASE UNCHANGED sweeps
    <2>1. Doubtful' = Doubtful
      BY <1>1 DEF Doubtful, sweeps
    <2>2. faults' \in {faults, faults + 1}
      <3>1. CASE RailNext
        BY <3>1 DEF RailNext, MerchantRefunds, BuyerDisputes
      <3>2. CASE CheckoutNext
        BY <3>2 DEF CheckoutNext, CheckoutStep, ClaimKey, Authorize, CreateOrder, Compensate, SettleSale,
                    CompleteKey, ReleaseKey, HandlerDies, Smooth, Fault, rails
      <3>3. CASE WebhookNext
        BY <3>3 DEF WebhookNext, DeliveryStep, DeliveryDies, CacheFlush, Deliver, ClaimEvent, Dispatch, CompleteEvent, ReleaseEvent,
                    DropKey, Smooth, Fault, rails
      <3>4. CASE PayoutNext
        BY <3>4 DEF PayoutNext, SweepStep, ReadEligible, ClaimItems, Transfer, MarkPaid, MarkFailed,
                    SweeperDies, Smooth, Fault, rails
      <3> QED  BY <3>1, <3>2, <3>3, <3>4 DEF Next, vars, rails
    <2> QED  BY <1>a, <2>1, <2>2
  <1>2. CASE PayoutNext
    <2> PICK s \in Sweepers : SweepStep(s) \/ SweeperDies(s)
      BY <1>2 DEF PayoutNext
    <2> DEFINE n == sweeper[s].payout
    <2>1. faults' \in {faults, faults + 1}
      BY DEF SweepStep, ReadEligible, ClaimItems, Transfer, MarkPaid, MarkFailed, SweeperDies, Smooth, Fault, rails
    <2>2. /\ landed \subseteq DOMAIN payouts /\ DOMAIN payouts = 1..Len(payouts) /\ Len(payouts) \in Nat
          /\ sweeper \in [Sweepers -> SweeperType(DOMAIN conv)]
          /\ \A p \in DOMAIN payouts : payouts[p] \in PayoutRow
      BY PayoutRows DEF IInv, TypeOK, PayoutTypeOK
    <2>3. CASE ReadEligible(s)
      <3>1. UNCHANGED <<payouts, landed>> /\ sweeper'[s].pc = "claim" /\ \A t \in Sweepers \ {s} : sweeper'[t] = sweeper[t]
        BY <2>2, <2>3 DEF ReadEligible, SweeperType
      <3>2. Doubtful' \subseteq Doubtful
        BY <3>1 DEF Doubtful
      <3> QED  BY <1>a, <2>1, <3>2
    <2>4. CASE ClaimItems(s)
      <3>1. UNCHANGED landed /\ sweeper'[s].pc \in {"idle", "transfer"} /\ \A t \in Sweepers \ {s} : sweeper'[t] = sweeper[t]
        BY <2>2, <2>4 DEF ClaimItems, Leave, NoSweep
      <3>2. \A p \in DOMAIN payouts : payouts'[p] = payouts[p]
        <4>1. CASE UNCHANGED payouts
          BY <4>1
        <4>2. ASSUME NEW row, payouts' = Append(payouts, row) PROVE \A p \in DOMAIN payouts : payouts'[p] = payouts[p]
          BY <4>2 DEF IInv, TypeOK, PayoutTypeOK
        <4> QED  BY <2>4, <4>1, <4>2 DEF ClaimItems
      <3>3. Doubtful' \subseteq Doubtful
        BY <2>2, <3>1, <3>2 DEF Doubtful
      <3> QED  BY <1>a, <2>1, <3>3
    <2>5. CASE Transfer(s)
      <3>1. UNCHANGED payouts /\ sweeper'[s].payout = n /\ \A t \in Sweepers \ {s} : sweeper'[t] = sweeper[t]
        BY <2>2, <2>5 DEF Transfer, Phase, SweeperType
      <3>2. /\ payouts[n].status = "IN_FLIGHT"
            /\ \A t \in Sweepers \ {s} : sweeper[t].pc = "release" => sweeper[t].payout # n
        BY <2>5 DEF Transfer, IInv, PayoutInv, HasPayout, PaysAlone, Paying, InHand
      <3>3. CASE Fault
        <4>1. Doubtful' \subseteq Doubtful \cup {n}
          BY <2>5, <3>1 DEF Doubtful, Transfer
        <4> QED  BY <1>a, <3>3, <4>1 DEF Fault
      <3>4. CASE landed' = landed \cup {n} /\ Phase(s, "confirm")
        <4>1. sweeper'[s].pc = "confirm"
          BY <2>2, <3>4 DEF Phase, SweeperType
        <4>2. Doubtful' \subseteq Doubtful
          BY <3>1, <3>2, <3>4, <4>1 DEF Doubtful
        <4> QED  BY <1>a, <2>1, <4>2
      <3> QED  BY <2>5, <3>3, <3>4 DEF Transfer
    <2>6. CASE MarkPaid(s)
      <3>1. UNCHANGED landed /\ \A t \in Sweepers \ {s} : sweeper'[t] = sweeper[t]
        BY <2>2, <2>6 DEF MarkPaid, Phase, Leave
      <3>2. \A p \in landed : payouts'[p].status = "FAILED" => payouts[p].status = "FAILED"
        BY <2>2, <2>6 DEF MarkPaid, PayoutRow
      <3>3. CASE Fault /\ Phase(s, "release")
        <4>1. sweeper'[s].payout = n
          BY <2>2, <3>3 DEF Phase, SweeperType
        <4>2. Doubtful' \subseteq Doubtful \cup {n}
          BY <3>1, <3>2, <4>1 DEF Doubtful
        <4> QED  BY <1>a, <3>3, <4>2 DEF Fault
      <3>4. CASE Leave(s)
        <4>1. sweeper'[s].pc = "idle"
          BY <2>2, <3>4 DEF Leave, NoSweep
        <4>2. Doubtful' \subseteq Doubtful
          BY <3>1, <3>2, <4>1 DEF Doubtful
        <4> QED  BY <1>a, <2>1, <4>2
      <3> QED  BY <2>6, <3>3, <3>4 DEF MarkPaid
    <2>7. CASE MarkFailed(s) \/ SweeperDies(s)
      <3>1. /\ UNCHANGED landed /\ sweeper'[s].pc = "idle" /\ \A t \in Sweepers \ {s} : sweeper'[t] = sweeper[t]
        BY <2>2, <2>7 DEF MarkFailed, SweeperDies, Leave, NoSweep
      <3>2. \A p \in landed : payouts'[p].status = "FAILED" =>
               payouts[p].status = "FAILED" \/ (sweeper[s].pc = "release" /\ n = p)
        BY <2>2, <2>7 DEF MarkFailed, SweeperDies, PayoutRow
      <3>3. Doubtful' \subseteq Doubtful
        BY <3>1, <3>2 DEF Doubtful
      <3> QED  BY <1>a, <2>1, <3>3
    <2> QED  BY <2>3, <2>4, <2>5, <2>6, <2>7 DEF SweepStep
  <1> QED  BY <1>1, <1>2 DEF Next, vars

\* PaidTwiceOnlyLost: payouts that have not failed share no conversion
\* (ClaimsExclusive), and what is in doubt never grows faster than the failures.
THEOREM PaidCorrect == Spec => []PaidTwiceOnlyLost
  <1> DEFINE Counted == Cardinality(Doubtful) <= faults
  <1>a. IInv => IsFiniteSet(landed) /\ IsFiniteSet(Doubtful)
    <2> SUFFICES ASSUME IInv PROVE IsFiniteSet(landed) /\ IsFiniteSet(Doubtful)
      OBVIOUS
    <2>1. landed \subseteq 1..Len(payouts) /\ Len(payouts) \in Nat
      BY PayoutRows DEF IInv, TypeOK, PayoutTypeOK
    <2>2. IsFiniteSet(1..Len(payouts))
      BY <2>1, FS_Interval
    <2>3. Doubtful \subseteq landed
      BY DEF Doubtful
    <2> QED  BY <2>1, <2>2, <2>3, FS_Subset
  <1>1. Init => Counted
    <2> SUFFICES ASSUME Init PROVE Counted
      OBVIOUS
    <2>1. Doubtful = {} /\ faults = 0
      BY DEF Doubtful, Init, PayoutInit, RailInit
    <2> QED  BY <2>1, FS_EmptySet
  <1>2. IInv /\ Counted /\ [Next]_vars => Counted'
    <2> SUFFICES ASSUME IInv, Counted, [Next]_vars PROVE Counted'
      OBVIOUS
    <2>1. IsFiniteSet(Doubtful) /\ Cardinality(Doubtful) \in Nat
      BY <1>a, FS_CardinalityType
    <2>2. faults \in Nat /\ faults' \in {faults, faults + 1}
      BY DoubtSteps
    <2>3. CASE Doubtful' \subseteq Doubtful
      <3>1. Cardinality(Doubtful') <= Cardinality(Doubtful) /\ IsFiniteSet(Doubtful')
        BY <2>1, <2>3, FS_Subset
      <3>2. Cardinality(Doubtful') \in Nat
        BY <3>1, FS_CardinalityType
      <3> QED  BY <2>1, <2>2, <3>1, <3>2
    <2>4. ASSUME NEW n, faults' = faults + 1, Doubtful' \subseteq Doubtful \cup {n} PROVE Counted'
      <3>1. /\ IsFiniteSet(Doubtful \cup {n})
            /\ Cardinality(Doubtful \cup {n}) \in {Cardinality(Doubtful), Cardinality(Doubtful) + 1}
        BY <2>1, FS_AddElement
      <3>2. Cardinality(Doubtful') <= Cardinality(Doubtful \cup {n}) /\ IsFiniteSet(Doubtful')
        BY <2>4, <3>1, FS_Subset
      <3>3. Cardinality(Doubtful') \in Nat
        BY <3>2, FS_CardinalityType
      <3> QED  BY <2>1, <2>2, <2>4, <3>1, <3>2, <3>3
    <2> QED  BY <2>3, <2>4, DoubtSteps
  <1>3. IInv /\ Counted => PaidTwiceOnlyLost
    <2> SUFFICES ASSUME IInv, Counted PROVE PaidTwiceOnlyLost
      OBVIOUS
    <2>1. Lost \subseteq Doubtful /\ IsFiniteSet(Doubtful)
      BY <1>a DEF Lost, Doubtful
    <2>2. Cardinality(Lost) <= Cardinality(Doubtful) /\ IsFiniteSet(Lost)
      BY <2>1, FS_Subset
    <2>3. Cardinality(Lost) \in Nat /\ Cardinality(Doubtful) \in Nat /\ faults \in Nat
      BY <2>1, <2>2, FS_CardinalityType DEF IInv, TypeOK, RailTypeOK
    <2>4. Cardinality(Lost) <= faults
      BY <2>2, <2>3
    <2>5. landed \subseteq DOMAIN payouts
      BY DEF IInv, TypeOK, PayoutTypeOK
    <2> QED  BY <2>4, <2>5 DEF PaidTwiceOnlyLost, Lost, IInv, PayoutInv, ClaimsExclusive
  <1> QED  BY <1>1, <1>2, <1>3, Inductive, PTL DEF Spec

=============================================================================
