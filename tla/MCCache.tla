------------------------------ MODULE MCCache ------------------------------
(* Instances of Cache for TLC. *)
EXTENDS Cache, TLC

CONSTANTS t1, t2, t3, b1, b2, b3, i1, i2, i3, none

MCThreads == {t1, t2, t3}
MCBuffers == {b1, b2, b3}
MCIndexes == {i1, i2, i3}

Symmetry == Permutations(MCThreads) \cup Permutations(MCBuffers)
                \cup Permutations(MCIndexes)
=============================================================================
