----------------------------- MODULE MCDesktop -----------------------------
\* Desktop for TLC: processes and keys are interchangeable.
EXTENDS Desktop, TLC

Symmetry == Permutations(Proc) \cup Permutations(Key)
============================================================================
