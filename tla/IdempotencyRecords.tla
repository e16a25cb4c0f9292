-------------------------- MODULE IdempotencyRecords --------------------------
(***************************************************************************)
(* The idempotency store of persistence/idempotency.py, one record per     *)
(* (scope, key).  The routes and the workers move a record through         *)
(* operators of this module, each the effect of one database transaction.  *)
(*                                                                         *)
(* Request hashes are left out: a key is always sent with the same request *)
(* here, so the "conflict" answer never arises.  Expiry is left out too:   *)
(* reserve_idempotency deletes a record of any status after 24 hours, and  *)
(* a key that was completed is new again.  What the models show of a key   *)
(* holds within the retention of its record.                               *)
(***************************************************************************)

KeyStatus == {"absent", "executing", "completed", "failed"}

\* reserve_idempotency lets the caller execute for a new or a failed record;
\* a completed one replays its stored result, an executing one answers 409.
Reservable(s) == s \in {"absent", "failed"}

\* The record after reserve_idempotency.
Reserved(s) == IF Reservable(s) THEN "executing" ELSE s

\* complete_idempotency and fail_idempotency: UPDATE ... WHERE status =
\* 'executing'.  Neither is fenced by the attempt that reserved the record.
Completed(s) == IF s = "executing" THEN "completed" ELSE s
Failed(s)    == IF s = "executing" THEN "failed" ELSE s

===============================================================================
