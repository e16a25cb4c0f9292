------------------------------ MODULE PaymentRail ------------------------------
(***************************************************************************)
(* The payment rail (Stripe) as the gateway of aisl-proxy/ uses it: one    *)
(* payment per click, created under the idempotency key of its checkout,   *)
(* and the webhook events the rail emits about it.                         *)
(***************************************************************************)
EXTENDS Naturals

CONSTANTS Clicks,     \* acp_tokens, each one purchase of one agent
          MaxFaults,  \* bound: calls that raise and processes that die
          MaxClaims   \* bound: refunds by the merchant and disputes by the buyer

ASSUME RailAssumption == /\ {MaxFaults, MaxClaims} \subseteq Nat
                         /\ "none" \notin Clicks

VARIABLES rail,     \* rail[c]: "none", "captured" or "refunded"
          emitted,  \* events the rail has emitted and will deliver
          faults,   \* how many calls have failed and processes have died
          claims    \* how many refunds and disputes have come from outside

rails == <<rail, emitted, faults, claims>>

EventType == {"payment_intent.succeeded", "charge.refunded", "charge.dispute.created"}
Events == [click : Clicks, type : EventType]
Event(c, t) == [click |-> c, type |-> t]

RailTypeOK == /\ rail \in [Clicks -> {"none", "captured", "refunded"}]
              /\ emitted \subseteq Events
              /\ faults \in Nat /\ claims \in Nat

RailInit == /\ rail = [c \in Clicks |-> "none"]
            /\ emitted = {}
            /\ faults = 0
            /\ claims = 0

\* paymentIntents.create: the idempotency key makes a repeated call return the
\* first payment as it was then, also after that payment has been refunded.
CreatePayment(c) ==
  IF rail[c] = "none"
  THEN /\ rail' = [rail EXCEPT ![c] = "captured"]
       /\ emitted' = emitted \cup {Event(c, "payment_intent.succeeded")}
  ELSE UNCHANGED <<rail, emitted>>

\* refunds.create: the whole payment; refused for one already refunded.
RefundPayment(c) ==
  IF rail[c] = "captured"
  THEN /\ rail' = [rail EXCEPT ![c] = "refunded"]
       /\ emitted' = emitted \cup {Event(c, "charge.refunded")}
  ELSE UNCHANGED <<rail, emitted>>

\* The merchant refunds a charge from the dashboard of the rail.
MerchantRefunds(c) ==
  /\ claims < MaxClaims /\ claims' = claims + 1
  /\ rail[c] = "captured"
  /\ RefundPayment(c)
  /\ UNCHANGED faults

\* The buyer disputes a charge, once.
BuyerDisputes(c) ==
  /\ claims < MaxClaims /\ claims' = claims + 1
  /\ rail[c] # "none"
  /\ Event(c, "charge.dispute.created") \notin emitted
  /\ emitted' = emitted \cup {Event(c, "charge.dispute.created")}
  /\ UNCHANGED <<rail, faults>>

RailNext == \E c \in Clicks : MerchantRefunds(c) \/ BuyerDisputes(c)

\* Something goes wrong in a step: counted, and bounded.
Fault == faults < MaxFaults /\ faults' = faults + 1 /\ UNCHANGED claims
Smooth == UNCHANGED <<faults, claims>>

===============================================================================
