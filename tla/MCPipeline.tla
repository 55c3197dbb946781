----------------------------- MODULE MCPipeline -----------------------------
(* Instances of Pipeline for TLC. *)
EXTENDS Pipeline, TLC

CONSTANTS d1, d2, f1, none

MCDeflators == {d1, d2}
MCFragThread == {f1}
=============================================================================
