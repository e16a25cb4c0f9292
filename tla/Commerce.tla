------------------------------- MODULE Commerce -------------------------------
(***************************************************************************)
(* The gateway of aisl-proxy/: checkouts, webhooks and payout sweeps over  *)
(* one ledger of conversions and one payment rail.                         *)
(***************************************************************************)
EXTENDS Checkout, StripeWebhooks, AgentPayouts

vars == <<rails, conv, checkouts, webhooks, sweeps>>

TypeOK == /\ RailTypeOK /\ ConvTypeOK
          /\ CheckoutTypeOK /\ WebhookTypeOK /\ PayoutTypeOK

Init == RailInit /\ ConvInit /\ CheckoutInit /\ WebhookInit /\ PayoutInit

Next == \/ RailNext     /\ UNCHANGED <<conv, checkouts, webhooks, sweeps>>
        \/ CheckoutNext /\ UNCHANGED <<webhooks, sweeps>>
        \/ WebhookNext  /\ UNCHANGED <<checkouts, sweeps>>
        \/ PayoutNext   /\ UNCHANGED <<checkouts, webhooks>>

Spec == Init /\ [][Next]_vars

-----------------------------------------------------------------------------

\* One captured payment earns one commission, however often its checkout was
\* retried and ordered again: at most one of its sales ever leaves PENDING.
OneCommissionPerPayment ==
  \A c \in Clicks :
    Cardinality({i \in SalesOf(c) : conv[i].status # "PENDING_SETTLEMENT"}) <= 1

\* 003_payouts.sql: "a conversion contributes to at most one payout", and its
\* amounts add up: no payout that may have been transferred is empty or shares
\* a conversion, also with sweeps that overlap, fail and die.
ClaimsExclusive ==
  \A p, q \in DOMAIN payouts :
    /\ payouts[p].status # "FAILED" => /\ claimed[p] = payouts[p].items
                                       /\ Total(claimed[p]) > 0
    /\ payouts[p].status = "FAILED" => claimed[p] = {}
    /\ p # q => claimed[p] \cap claimed[q] = {}

\* webhookService.ts: a redelivery "that somehow gets past both dedupe layers
\* still cannot write a second reversal".
ReversedOncePerEvent ==
  \A i, j \in DOMAIN conv : conv[i].entry = "REVERSAL" /\ conv[i] = conv[j] => i = j

\* The gateway keeps its account with the agent, over every interleaving of
\* checkouts, redelivered webhooks and sweeps: a payment earns one commission, a
\* refund ends it, and what is due goes into one payout that has not failed.
\* Of the sales of a payment the account shows the oldest.
AccountEntry(i) == [payment |-> conv[i].click, cause |-> conv[i].cause]

Account == INSTANCE AgentAccount WITH
  Payments  <- Clicks,
  Causes    <- EventType,
  sale      <- [c \in Clicks |-> IF SalesOf(c) = {} THEN "none" ELSE conv[FindSale(c)].status],
  reversals <- {AccountEntry(i) : i \in {r \in DOMAIN conv : ~IsSale(r)}},
  payouts   <- [p \in DOMAIN payouts |-> [status |-> payouts[p].status,
                                         items  |-> {AccountEntry(i) : i \in payouts[p].items}]]

\* Account!Spec; most steps change no row and no payout, and are let pass first.
AccountKept == /\ Account!Init
               /\ [][UNCHANGED <<conv, payouts>> \/ Account!Next]_(Account!account)

\* A refund is final: a refunded sale stays refunded, whatever settlement comes
\* late, and no sweep that read it before the refund takes it afterwards.
RefundFinal ==
  [][\A i \in DOMAIN conv :
       conv[i].status = "REFUNDED" =>
         /\ conv'[i] = conv[i]
         /\ IsSale(i) /\ i \in Claimed' => i \in Claimed]_vars

\* A stored response is that of a recorded sale of a placed order, and only one
\* handler at a time is between the claim of a key and its release.
CheckoutsExclusive ==
  /\ \A c \in Clicks : checkoutKey[c] = "COMPLETED" => SalesOf(c) # {} /\ orders[c] > 0
  /\ \A g, h \in Handlers :
       g # h /\ handler[g].pc # "idle" => handler[g].click # handler[h].click

\* README: "An agent is never paid twice."
NeverPaidTwice ==
  \A p, q \in landed : p # q => payouts[p].items \cap payouts[q].items = {}

\* Transfers the rail has made and the gateway has given up as failed.
Lost == {p \in landed : payouts[p].status = "FAILED"}

\* How an agent can be paid twice: only by a transfer that was made and given up,
\* and each of these took a call that failed.
PaidTwiceOnlyLost ==
  /\ \A p, q \in landed \ Lost : p # q => payouts[p].items \cap payouts[q].items = {}
  /\ Cardinality(Lost) <= faults

===============================================================================
