----------------------------- MODULE MCStreamSink -----------------------------
(* A small instance of StreamSink for TLC, and the list it queues its items in. *)
EXTENDS StreamSink, LinkListCheck

\* Two frame rates of one format, and another format.
MCFrameFormat == [t \in {"slow", "fast", "other"} |->
                    IF t = "other" THEN "nv12-vga" ELSE "nv12-cif"]
=============================================================================
