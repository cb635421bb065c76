------------------------- MODULE MCVideoStreamSource --------------------------
(* A model checking instance of VideoRenderer with its VideoStreamSource. *)
EXTENDS VideoRenderer, TLC

Interchangeable == Permutations(Formats)
=============================================================================
