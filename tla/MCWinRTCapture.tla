---------------------------- MODULE MCWinRTCapture ----------------------------
(* A small instance of WinRTCapture for TLC: one format. *)
EXTENDS WinRTCapture

MCFrameFormat == [t \in {"slow"} |-> "nv12-cif"]

\* What the next step and the invariants of the filter depend on: the events and
\* the calls made are recorded for the stream's own properties, and here no
\* guard or property reads more of them than how many calls there were.  The
\* first sample is set aside and not read again.
WithoutHistory ==
  <<state, isShutdown, currentType, waitingFirst, sampleQueue, workQueue,
    worker, eosTasks, requests, Len(calls), lastItem, delivered, faults,
    sinkVars, filterVars>>
=============================================================================
