----------------------------- MODULE MCPayouts -----------------------------
\* Payouts on small instances.
EXTENDS Payouts, TLC

CONSTANTS c1, c2, r1, r2

\* Two children are owed to two restaurants, or to the same one.
Apart == (c1 :> r1) @@ (c2 :> r2)
Together == (c1 :> r1) @@ (c2 :> r1)

Symmetry == Permutations(Processors)

=============================================================================
