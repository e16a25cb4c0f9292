----------------------------- MODULE AgentAccount -----------------------------
(***************************************************************************)
(* What the gateway of aisl-proxy/ promises an agent, without checkouts,   *)
(* deliveries, sweepers or the order of the table: a payment earns one     *)
(* commission, a refund ends it for good, and every commission and every   *)
(* reversal is in at most one payout that has not failed.  A payout takes  *)
(* settled commissions and what is to be set off against them, pays a      *)
(* positive amount, and once it has failed it stays failed.                *)
(***************************************************************************)
EXTENDS Naturals, FiniteSets

CONSTANTS Payments, Causes

VARIABLES sale,       \* sale[c]: "none", or the status of the commission of c
          reversals,  \* the reversals of commissions, each with its cause
          payouts     \* by id: status, and the entries the payout was made of

account == <<sale, reversals, payouts>>

\* What a payout is made of.
Commission(c) == [payment |-> c, cause |-> "none"]
Reversal(c, t) == [payment |-> c, cause |-> t]
Commissions == {Commission(c) : c \in Payments}

\* What has ever been in a payout, and what is in one that has not failed.
Taken == UNION {payouts[p].items : p \in DOMAIN payouts}
Held == UNION {payouts[p].items : p \in {q \in DOMAIN payouts : payouts[q].status # "FAILED"}}

\* A reversal is set off once its commission has been taken.
Due == {Commission(c) : c \in {d \in Payments : sale[d] = "SETTLED"}}
       \cup {e \in reversals : Commission(e.payment) \in Taken}

Init == /\ sale = [c \in Payments |-> "none"]
        /\ reversals = {}
        /\ payouts = [p \in {} |-> {}]

Earn(c) == /\ UNCHANGED <<payouts, reversals>>
           /\ sale[c] = "none"
           /\ sale' = [sale EXCEPT ![c] = "PENDING_SETTLEMENT"]

Settle(c) == /\ UNCHANGED <<payouts, reversals>>
             /\ sale[c] = "PENDING_SETTLEMENT"
             /\ sale' = [sale EXCEPT ![c] = "SETTLED"]

Reverse(c, t) == /\ UNCHANGED payouts
                 /\ sale[c] # "none" /\ Reversal(c, t) \notin reversals
                 /\ reversals' = reversals \cup {Reversal(c, t)}
                 /\ sale' = [sale EXCEPT ![c] = "REFUNDED"]

\* A new payout, p, of entries that are due and in no other.
PayOut(p) ==
  \E items \in SUBSET (Due \ Held) :
    /\ Cardinality(items \cap Commissions) > Cardinality(items \ Commissions)
    /\ payouts' = [q \in DOMAIN payouts \cup {p} |->
                     IF q = p THEN [status |-> "IN_FLIGHT", items |-> items] ELSE payouts[q]]
    /\ UNCHANGED <<sale, reversals>>

\* A payout that is paid may still be given up, one given up is never paid.
End(p, status) == /\ payouts[p].status = "IN_FLIGHT" \/ status = "FAILED"
                  /\ payouts[p].status # "FAILED"
                  /\ payouts' = [payouts EXCEPT ![p].status = status]
                  /\ UNCHANGED <<sale, reversals>>

Next == \/ \E c \in Payments : \/ Earn(c) \/ Settle(c)
                               \/ \E t \in Causes : Reverse(c, t)
        \/ \E p \in DOMAIN payouts' \ DOMAIN payouts : PayOut(p)
        \/ \E p \in DOMAIN payouts, status \in {"PAID", "FAILED"} : End(p, status)

Spec == Init /\ [][Next]_account

===============================================================================
