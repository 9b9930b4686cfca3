----------------------------- MODULE MCPayments -----------------------------
EXTENDS Payments, TLC
Symmetry == Permutations(Calls) \cup Permutations(Hooks)
=============================================================================
