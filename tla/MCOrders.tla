------------------------------ MODULE MCOrders ------------------------------
(* Orders for TLC.  One order: orders share no row, job or lock. *)
EXTENDS Orders, TLC

\* Everything, with one HTTP request, one consumer and one cron tick in flight.
AllRequests == Op \ {"idle"}

\* What races up to the payment, with two HTTP requests in flight.
RacingRequests == {"reschedule", "unschedule", "accept", "decline", "cancel", "success"}

\* What liveness depends on: who may hold the order's row or its job, or change the
\* status cancelOrder looks at.
ProgressRequests == {"unschedule", "accept", "cancel", "success", "failure"}

Symmetry == Permutations(Handlers)

=============================================================================
