----------------------------- MODULE MCRenderer -----------------------------
(* The two processes for TLC. *)
EXTENDS Renderer, TLC

\* Numbers of handles are compared, never ordered.
HandleSymmetry == Permutations(Handles)
=============================================================================
