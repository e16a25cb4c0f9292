--------------------------- MODULE CommissionLedger ---------------------------
(***************************************************************************)
(* The table conversions of aisl-proxy/src/db/repositories/conversions.ts: *)
(* sales and their reversals, in the order of created_at.  Each operation  *)
(* is one database transaction, and writes its balanced ledger legs in it; *)
(* the legs are functions of the row and are left out.                     *)
(***************************************************************************)
EXTENDS Integers, Sequences, FiniteSets, CommissionSplit, PaymentRail

CONSTANTS Gross,  \* cents of one purchase: min(order total, captured)
          Rate,   \* commission_rate_bps of the merchant
          Cut     \* aisl_cut_bps of the merchant

ASSUME LedgerAssumption == /\ Gross \in Nat
                           /\ Rate \in Bps /\ Cut \in Bps /\ Cut <= Rate

VARIABLE conv

SaleStatus == {"PENDING_SETTLEMENT", "SETTLED", "REFUNDED"}

\* A reversal names its sale (the index of it) and the event that caused it.
ConvTypeOK ==
  /\ conv \in Seq([entry : {"SALE", "REVERSAL"}, click : Clicks,
                   status : SaleStatus \cup {"REVERSAL"},
                   parent : Nat, cause : EventType \cup {"none"}])
  /\ \A i \in DOMAIN conv :
       IF conv[i].entry = "SALE"
       THEN conv[i].status \in SaleStatus
       ELSE /\ conv[i].status = "REVERSAL"
            /\ conv[i].parent \in 1..(i - 1)
            /\ conv[conv[i].parent].entry = "SALE"
            /\ conv[conv[i].parent].click = conv[i].click

ConvInit == conv = <<>>

IsSale(i) == conv[i].entry = "SALE"

\* agent_payout_cents: the reversal of a sale is its exact negation.
AgentCents(i) == LET s == Split(Gross, Rate, Cut)
                 IN IF IsSale(i) THEN s.agentPayout ELSE negateSplit(s).agentPayout

\* recordSale.  The order id is fresh, so its unique index never refuses.
RecordSale(c) ==
  conv' = Append(conv, [entry |-> "SALE", click |-> c, status |-> "PENDING_SETTLEMENT",
                        parent |-> 0, cause |-> "none"])

SalesOf(c) == {i \in DOMAIN conv : IsSale(i) /\ conv[i].click = c}

\* Slip: the newest sale of the payment instead of the oldest.
LatestSale(c) == CHOOSE i \in SalesOf(c) : \A j \in SalesOf(c) : j <= i

\* findSaleByStripeReference: ORDER BY created_at ASC LIMIT 1.
FindSale(c) == CHOOSE i \in SalesOf(c) : \A j \in SalesOf(c) : i <= j

\* markSettled: only a sale that is still pending.
MarkSettled(i) == conv' = IF conv[i].status = "PENDING_SETTLEMENT"
                          THEN [conv EXCEPT ![i].status = "SETTLED"]
                          ELSE conv

Reversal(i, cause) == [entry |-> "REVERSAL", click |-> conv[i].click, status |-> "REVERSAL",
                       parent |-> i, cause |-> cause]

\* Slip: the reversal is of the newest row.
RecordReversalOfLast(i, cause) ==
  conv' = IF \E r \in DOMAIN conv : conv[r] = Reversal(i, cause) THEN conv
          ELSE Append([conv EXCEPT ![i].status = "REFUNDED"], Reversal(Len(conv), cause))

\* Slip: without ON CONFLICT and its unique key.
RecordReversalAgain(i, cause) ==
  conv' = Append([conv EXCEPT ![i].status = "REFUNDED"], Reversal(i, cause))

\* recordReversal: the row is unique in its sale and event; the first insert
\* also flips the sale, a repeated one finds the row and changes nothing.
RecordReversal(i, cause) ==
  conv' = IF \E r \in DOMAIN conv : conv[r] = Reversal(i, cause) THEN conv
          ELSE Append([conv EXCEPT ![i].status = "REFUNDED"], Reversal(i, cause))

===============================================================================
