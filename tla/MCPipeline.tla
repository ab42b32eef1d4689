----------------------------- MODULE MCPipeline -----------------------------
(***************************************************************************)
(* Pipeline for TLC.  Consumers are interchangeable, so states that differ *)
(* only by their names need not be told apart (safety runs only).          *)
(***************************************************************************)
EXTENDS Pipeline, TLC

ConsumerSymmetry == Permutations(Consumer)
=============================================================================
