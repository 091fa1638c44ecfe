---------------------------- MODULE LimitRequest ----------------------------
(***************************************************************************)
(* One rate-limited request slot, core::limit::Request of the framework.   *)
(* Its source is outside the repository; what is written here is what      *)
(* gateway/request.hpp, drop_copy_5.cpp and order_entry_rest_5.cpp rely    *)
(* on.  A consumer asks (request), a producer with a connection picks the  *)
(* question up (check_pending, when the handler of the slot is ready and   *)
(* the rate limiter agrees), sends it, and acknowledges the answer         *)
(* (commit).  Asking again while an earlier question is still in flight    *)
(* is legal: the earlier answer is then no answer to the new question.     *)
(***************************************************************************)

RequestSlot == [pending : BOOLEAN, in_flight : BOOLEAN, responded : BOOLEAN]

Idle == [pending |-> FALSE, in_flight |-> FALSE, responded |-> FALSE]

\* request(): there is a question nobody has sent yet.
Requested(r) == [r EXCEPT !.pending = TRUE]

\* check_pending() ran its callback: the question is now on the wire.
Sent(r) == [pending |-> FALSE, in_flight |-> TRUE, responded |-> FALSE]

\* commit(): the answer to the question on the wire has been processed.
Committed(r) == [r EXCEPT !.in_flight = FALSE, !.responded = TRUE]

\* ready(): nothing on the wire.
SlotReady(r) == ~r.in_flight

\* has_response(): the last question asked has been answered.
HasResponse(r) == r.responded /\ ~r.pending
=============================================================================
