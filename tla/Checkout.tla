------------------------------- MODULE Checkout -------------------------------
(***************************************************************************)
(* Delegated checkout: aisl-proxy/src/services/checkoutService.ts and      *)
(* db/repositories/checkoutIdempotency.ts.  A handler is one request in    *)
(* execution; the idempotency key is the default one, acp:<click>.  A      *)
(* request that is answered before it claims its key (token, merchant and  *)
(* variant checks, replay, in_flight) changes nothing and is left out.     *)
(***************************************************************************)
EXTENDS CommissionLedger

CONSTANT Handlers

VARIABLES checkoutKey,  \* checkout_idempotency: "none", "IN_FLIGHT", "COMPLETED"
          orders,       \* orders[c]: orders of the merchant for the click
          handler       \* per handler: pc and the click it serves

checkouts == <<checkoutKey, orders, handler>>

CheckoutTypeOK ==
  /\ checkoutKey \in [Clicks -> {"none", "IN_FLIGHT", "COMPLETED"}]
  /\ orders \in [Clicks -> Nat]
  /\ handler \in [Handlers -> [pc : {"idle", "pay", "order", "refund", "settle",
                                     "complete", "release"},
                               click : Clicks \cup {"none"}]]

NoRequest == [pc |-> "idle", click |-> "none"]

CheckoutInit ==
  /\ checkoutKey = [c \in Clicks |-> "none"]
  /\ orders = [c \in Clicks |-> 0]
  /\ handler = [g \in Handlers |-> NoRequest]

To(g, pc) == handler' = [handler EXCEPT ![g].pc = pc]
Answered(g) == handler' = [handler EXCEPT ![g] = NoRequest]

\* claim: the insert of the key is the lock.
ClaimKey(g, c) ==
  /\ handler[g].pc = "idle"
  /\ checkoutKey[c] = "none"
  /\ checkoutKey' = [checkoutKey EXCEPT ![c] = "IN_FLIGHT"]
  /\ handler' = [handler EXCEPT ![g] = [pc |-> "pay", click |-> c]]
  /\ UNCHANGED <<orders, conv, rails>>

\* payments.authorize: charged; declined; or charged and the answer lost.
Authorize(g) ==
  /\ handler[g].pc = "pay"
  /\ \/ Smooth /\ CreatePayment(handler[g].click) /\ To(g, "order")
     \/ Fault /\ CreatePayment(handler[g].click) /\ To(g, "release")
     \/ Fault /\ UNCHANGED <<rail, emitted>> /\ To(g, "release")
  /\ UNCHANGED <<checkoutKey, orders, conv>>

\* dispatcher.createOrder has no idempotency of its own: every call that gets
\* through is a new order of the merchant.
CreateOrder(g) ==
  /\ handler[g].pc = "order"
  /\ \/ /\ Smooth /\ To(g, "settle")
        /\ orders' = [orders EXCEPT ![handler[g].click] = @ + 1]
     \/ /\ Fault /\ To(g, "refund")
        /\ orders' \in {orders, [orders EXCEPT ![handler[g].click] = @ + 1]}
  /\ UNCHANGED <<checkoutKey, conv, rail, emitted>>

\* compensate: a refund that fails as well is logged and swallowed.
Compensate(g) ==
  /\ handler[g].pc = "refund"
  /\ To(g, "release")
  /\ \/ Smooth /\ RefundPayment(handler[g].click)
     \/ Fault /\ UNCHANGED <<rail, emitted>>
  /\ UNCHANGED <<checkoutKey, orders, conv>>

\* Slip: the failure is logged and the request answered all the same.
SettleSaleAnyway(g) ==
  /\ handler[g].pc = "settle"
  /\ To(g, "complete")
  /\ \/ Smooth /\ RecordSale(handler[g].click)
     \/ Fault /\ UNCHANGED conv
  /\ UNCHANGED <<checkoutKey, orders, rail, emitted>>

\* settle: the sale is recorded; a failure leaves the order and the payment.
SettleSale(g) ==
  /\ handler[g].pc = "settle"
  /\ \/ Smooth /\ RecordSale(handler[g].click) /\ To(g, "complete")
     \/ Fault /\ UNCHANGED conv /\ To(g, "release")
  /\ UNCHANGED <<checkoutKey, orders, rail, emitted>>

\* complete: the response is stored under the key; a failure is released too.
CompleteKey(g) ==
  /\ handler[g].pc = "complete"
  /\ \/ /\ Smooth /\ Answered(g)
        /\ checkoutKey' = [checkoutKey EXCEPT ![handler[g].click] = "COMPLETED"]
     \/ Fault /\ UNCHANGED checkoutKey /\ To(g, "release")
  /\ UNCHANGED <<orders, conv, rail, emitted>>

\* release: the unfinished claim is dropped, and the request fails.
ReleaseKey(g) ==
  /\ handler[g].pc = "release"
  /\ Answered(g)
  /\ \/ /\ Smooth
        /\ checkoutKey' = [checkoutKey EXCEPT ![handler[g].click] =
                             IF @ = "IN_FLIGHT" THEN "none" ELSE @]
     \/ Fault /\ UNCHANGED checkoutKey
  /\ UNCHANGED <<orders, conv, rail, emitted>>

\* The process dies: nothing releases the key.
HandlerDies(g) ==
  /\ handler[g].pc # "idle"
  /\ Fault
  /\ Answered(g)
  /\ UNCHANGED <<checkoutKey, orders, conv, rail, emitted>>

CheckoutStep(g) == \/ Authorize(g) \/ CreateOrder(g) \/ Compensate(g) \/ SettleSale(g)
                   \/ CompleteKey(g) \/ ReleaseKey(g)

CheckoutNext == \E g \in Handlers : \/ CheckoutStep(g) \/ HandlerDies(g)
                                    \/ \E c \in Clicks : ClaimKey(g, c)

===============================================================================
