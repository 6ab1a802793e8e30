----------------------------- MODULE MCPayments -----------------------------
(* Payments for TLC.  One order: orders share no payment and no transaction. *)
EXTENDS Payments, TLC

Symmetry == Permutations(Txs) \cup Permutations(Consumers) \cup Permutations(Webhooks)

=============================================================================
