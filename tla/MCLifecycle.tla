---------------------------- MODULE MCLifecycle ----------------------------
\* The ticker is the one task that saves.
EXTENDS Lifecycle, TLC

Symmetry == Permutations(Bodies)
=============================================================================
