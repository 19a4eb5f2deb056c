-------------------------- MODULE AccountLifecycleMC --------------------------
\* AccountLifecycle on small sets.
EXTENDS AccountLifecycle, TLC

Symmetry == Permutations(Ids) \cup Permutations(Readers)
=============================================================================
