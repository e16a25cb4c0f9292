---------------------------- MODULE StripeWebhooks ----------------------------
(***************************************************************************)
(* Webhook ingestion: aisl-proxy/src/services/webhookService.ts with       *)
(* db/repositories/webhookEvents.ts and the SETNX of redis/store.ts.  The  *)
(* rail delivers an event again, also while it is being delivered, until   *)
(* one delivery is answered with 200.  A delivery is a process of its own. *)
(***************************************************************************)
EXTENDS CommissionLedger

CONSTANT Deliveries

VARIABLES acked,     \* events that were answered with 200
          cache,     \* events whose dedupe key is in Redis
          eventRow,  \* webhook_events: "none", "IN_FLIGHT" or the outcome
          delivery   \* per delivery: pc, event and the outcome it will report

webhooks == <<acked, cache, eventRow, delivery>>

Outcome == {"SETTLED", "REVERSED", "IGNORED_NO_MATCHING_CONVERSION",
            "IGNORED_ALREADY_REFUNDED"}

NoEvent == Event("none", "none")
NoDelivery == [pc |-> "idle", event |-> NoEvent, outcome |-> "none"]

WebhookTypeOK ==
  /\ acked \subseteq Events /\ cache \subseteq Events
  /\ eventRow \in [Events -> Outcome \cup {"none", "IN_FLIGHT"}]
  /\ delivery \in [Deliveries ->
        [pc : {"idle", "claim", "dispatch", "complete", "release", "uncache"},
         event : Events \cup {NoEvent}, outcome : Outcome \cup {"none"}]]


WebhookInit == /\ acked = {} /\ cache = {}
               /\ eventRow = [e \in Events |-> "none"]
               /\ delivery = [x \in Deliveries |-> NoDelivery]

On(x) == delivery[x].event
Step(x, pc) == delivery' = [delivery EXCEPT ![x].pc = pc]
Done(x) == delivery' = [delivery EXCEPT ![x] = NoDelivery]
\* Answered 200: processed, or recognised as a duplicate.
Accept(x, e) == acked' = acked \cup {e} /\ Done(x)

\* setIfAbsent of the dedupe key, the first thing a delivery does.
Deliver(x, e) ==
  /\ delivery[x].pc = "idle"
  /\ e \in emitted \ acked
  /\ \/ e \in cache /\ Accept(x, e) /\ UNCHANGED cache
     \/ /\ e \notin cache /\ cache' = cache \cup {e}
        /\ delivery' = [delivery EXCEPT ![x] = [pc |-> "claim", event |-> e, outcome |-> "none"]]
        /\ UNCHANGED acked
  /\ UNCHANGED <<eventRow, conv, rails>>

\* events.claim, before the try: when it raises, the key in Redis is left.
ClaimEvent(x) ==
  /\ delivery[x].pc = "claim"
  /\ \/ /\ Smooth /\ eventRow[On(x)] # "none"
        /\ Accept(x, On(x)) /\ UNCHANGED eventRow
     \/ /\ Smooth /\ eventRow[On(x)] = "none"
        /\ eventRow' = [eventRow EXCEPT ![On(x)] = "IN_FLIGHT"]
        /\ Step(x, "dispatch") /\ UNCHANGED acked
     \/ Fault /\ Done(x) /\ UNCHANGED <<acked, eventRow>>
  /\ UNCHANGED <<cache, conv, rail, emitted>>

Report(x, outcome) == delivery' = [delivery EXCEPT ![x].pc = "complete", ![x].outcome = outcome]

\* dispatch: settle or clawback.  The sale that is found is the oldest of the
\* payment and stays so, so finding and changing it are one step here.
Dispatch(x) ==
  /\ delivery[x].pc = "dispatch"
  /\ LET c == On(x).click
         i == FindSale(c)
     IN \/ /\ Smooth /\ SalesOf(c) = {} /\ UNCHANGED conv
           /\ Report(x, "IGNORED_NO_MATCHING_CONVERSION")
        \/ /\ Smooth /\ SalesOf(c) # {} /\ On(x).type = "payment_intent.succeeded"
           /\ MarkSettled(i)
           /\ Report(x, IF conv[i].status = "PENDING_SETTLEMENT"
                        THEN "SETTLED" ELSE "IGNORED_ALREADY_REFUNDED")
        \/ /\ Smooth /\ SalesOf(c) # {} /\ On(x).type # "payment_intent.succeeded"
           /\ RecordReversal(i, On(x).type)
           /\ Report(x, "REVERSED")
        \/ Fault /\ UNCHANGED conv /\ Step(x, "release")
  /\ UNCHANGED <<acked, cache, eventRow, rail, emitted>>

\* events.complete; when it raises, what dispatch has written stays written, and
\* so does the outcome when only the answer was lost.
CompleteEvent(x) ==
  /\ delivery[x].pc = "complete"
  /\ \/ /\ Smooth /\ Accept(x, On(x))
        /\ eventRow' = [eventRow EXCEPT ![On(x)] = delivery[x].outcome]
     \/ /\ Fault /\ Step(x, "release") /\ UNCHANGED acked
        /\ eventRow' \in {eventRow, [eventRow EXCEPT ![On(x)] = delivery[x].outcome]}
  /\ UNCHANGED <<cache, conv, rail, emitted>>

\* events.release: only a row without an outcome is deleted ...
ReleaseEvent(x) ==
  /\ delivery[x].pc = "release"
  /\ eventRow' = [eventRow EXCEPT ![On(x)] = IF @ = "IN_FLIGHT" THEN "none" ELSE @]
  /\ Step(x, "uncache")
  /\ UNCHANGED <<acked, cache, conv, rails>>

\* ... and cache.del, before the delivery is answered with an error.
DropKey(x) ==
  /\ delivery[x].pc = "uncache"
  /\ cache' = cache \ {On(x)}
  /\ Done(x)
  /\ UNCHANGED <<acked, eventRow, conv, rails>>

\* The process dies: both claims stay, and the delivery is not answered.
DeliveryDies(x) ==
  /\ delivery[x].pc # "idle"
  /\ Fault
  /\ Done(x)
  /\ UNCHANGED <<acked, cache, eventRow, conv, rail, emitted>>

\* Redis is flushed or fails over.
CacheFlush ==
  /\ cache # {} /\ cache' = {}
  /\ Fault
  /\ UNCHANGED <<acked, eventRow, delivery, conv, rail, emitted>>

DeliveryStep(x) == \/ ClaimEvent(x) \/ Dispatch(x) \/ CompleteEvent(x)
                   \/ ReleaseEvent(x) \/ DropKey(x)

WebhookNext == \/ \E x \in Deliveries : \/ DeliveryStep(x) \/ DeliveryDies(x)
                                        \/ \E e \in Events : Deliver(x, e)
               \/ CacheFlush

===============================================================================
