--------------------------- MODULE MCKernelCache ---------------------------
(* Instances of KernelCache for TLC. *)
EXTENDS KernelCache, TLC

CONSTANTS p1, p2, p3, b1, b2, b3, none

MCProcesses == {p1, p2, p3}
MCBlocks == {b1, b2, b3}
MCBad == {b1, b2}
=============================================================================
