------------------------- MODULE MCMediaStreamSource --------------------------
(* A model checking instance of SchemeHandler with its MediaStreamSource. *)
EXTENDS SchemeHandler
=============================================================================
