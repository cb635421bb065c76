------------------------------ MODULE MediaSink -------------------------------
(***************************************************************************)
(* MSWinRTMediaSink: the custom sink given to MediaCapture.  It owns one   *)
(* MSWinRTStreamSink (StreamSink) and forwards the presentation clock's    *)
(* callbacks and the final shutdown to it, each inside its own critical    *)
(* section and, nested in it, the stream's.  The work queue thread calls   *)
(* it the other way round, for every frame, with the stream's critical     *)
(* section held and without taking the sink's.                             *)
(*                                                                         *)
(* The actions here are steps of one sink; WinRTCapture creates sinks and  *)
(* says who calls them.                                                    *)
(***************************************************************************)
EXTENDS StreamSink

CONSTANT
  Reloads   \* what a build may do with the second use of _capture in
            \* OnSampleAvailable: TRUE loads the field again, FALSE does not

ASSUME ReloadsAssumption == Reloads \subseteq BOOLEAN /\ Reloads # {}

VARIABLES
  sinkShutdown,  \* MSWinRTMediaSink::_IsShutdown; _stream is null from then on
  sinkCall,      \* the method inside the sink's critical section that waits
                 \* for the stream's, "none" if the section is free
  clockSink,     \* external: the presentation clock calls this sink back
  capture,       \* _capture # nullptr
  streamsEnded,  \* _cStreamsEnded
  crashed        \* a call through a null _capture ended the process

streamVars == vars
sinkVars == <<sinkShutdown, sinkCall, clockSink, capture, streamsEnded, crashed>>

-----------------------------------------------------------------------------
\* RuntimeClassInitialize on a new object: the stream exists, has the encoding
\* profile's type and is ready.  Items keep being numbered across sinks.
CreateSink(t) ==
  /\ state' = "Ready"
  /\ currentType' = t
  /\ isShutdown' = FALSE
  /\ waitingFirst' = FALSE
  /\ firstSample' = 0
  /\ sampleQueue' = <<>>
  /\ workQueue' = <<>>
  /\ worker' = IdleWorker
  /\ eosTasks' = 0
  /\ requests' = 0
  /\ events' = <<>>
  /\ calls' = <<>>
  /\ delivered' = <<>>
  /\ faults' = 0
  /\ sinkShutdown' = FALSE
  /\ sinkCall' = "none"
  /\ clockSink' = FALSE
  /\ streamsEnded' = 0
  /\ UNCHANGED <<lastItem, crashed>>

SinkLockFree == sinkCall = "none"

\* Mutant: the method does not check for shutdown.
EnterUnchecked(method) ==
  /\ SinkLockFree
  /\ sinkCall' = method
  /\ UNCHANGED <<streamVars, sinkShutdown, clockSink, capture, streamsEnded, crashed>>

\* A method takes the sink's critical section, checks for shutdown, and goes on
\* to the stream; one that finds the sink shut down returns at once.
Enter(method) ==
  /\ SinkLockFree
  /\ ~sinkShutdown
  /\ sinkCall' = method
  /\ UNCHANGED <<streamVars, sinkShutdown, clockSink, capture, streamsEnded, crashed>>

SetPresentationClock(present) ==
  /\ SinkLockFree
  /\ ~sinkShutdown
  /\ clockSink' = present
  /\ UNCHANGED <<streamVars, sinkShutdown, sinkCall, capture, streamsEnded, crashed>>

\* The clock is not told of a shutdown: it goes on calling.
EnterClockCall(method) ==
  /\ clockSink
  /\ Len(calls) < MaxClockCalls
  /\ Enter(method)

LeaveClockCall ==
  /\ \/ sinkCall = "OnClockStart" /\ Start
     \/ sinkCall = "OnClockStop" /\ Stop
  /\ sinkCall' = "none"
  /\ UNCHANGED <<sinkShutdown, clockSink, capture, streamsEnded, crashed>>

LeaveShutdown ==
  /\ sinkCall = "Shutdown"
  /\ Shutdown
  /\ sinkShutdown' = TRUE
  /\ sinkCall' = "none"
  /\ UNCHANGED <<clockSink, capture, streamsEnded, crashed>>

\* The task that ProcessSamplesFromQueue spawned, on a thread without locks.
ReportEndOfStream ==
  /\ SinkLockFree
  /\ RunEOSTask
  /\ streamsEnded' = streamsEnded + 1
  /\ UNCHANGED <<sinkShutdown, sinkCall, clockSink, capture, crashed>>

-----------------------------------------------------------------------------
(* OnSampleAvailable, called by PrepareSample for a locked buffer.  _capture is *)
(* read without the sink's critical section, and SetCaptureFilter writes it     *)
(* without: the test and the use are two steps.                                 *)

NoCapture ==
  /\ worker.pc = "prepare"
  /\ ~capture
  /\ FrameDone
  /\ UNCHANGED <<state, isShutdown, currentType, waitingFirst, firstSample,
                 sampleQueue, workQueue, calls, lastItem, delivered, sinkVars>>

TestCapture ==
  /\ worker.pc = "prepare"
  /\ capture
  /\ worker' = [worker EXCEPT !.pc = "call"]
  /\ UNCHANGED <<state, isShutdown, currentType, waitingFirst, firstSample,
                 sampleQueue, workQueue, eosTasks, requests, events, calls,
                 lastItem, delivered, faults, sinkVars>>

CallCapture ==
  /\ worker.pc = "call"
  /\ capture \/ FALSE \in Reloads
  /\ delivered' = Append(delivered, worker.item.id)
  /\ FrameDone
  /\ UNCHANGED <<state, isShutdown, currentType, waitingFirst, firstSample,
                 sampleQueue, workQueue, calls, lastItem, sinkVars>>

CallNullCapture ==
  /\ worker.pc = "call"
  /\ ~capture
  /\ TRUE \in Reloads
  /\ crashed' = TRUE
  /\ UNCHANGED <<streamVars, sinkShutdown, sinkCall, clockSink, capture, streamsEnded>>

\* The stream's own steps, which leave the sink alone.
StreamPipelineCall ==
  /\ \/ \E t \in MediaTypes : ReplaceMediaType(t) \/ ProcessFormatChange(t)
     \/ KeepFirstSample
     \/ \E kind \in SampleKinds : ProcessSample(kind)
     \/ \E kind \in MarkerKinds : PlaceMarker(kind)
     \/ Flush
  /\ UNCHANGED sinkVars

StreamDispatch == (Dispatch \/ DispatchAfterShutdown) /\ UNCHANGED sinkVars

\* Mutant: ReportEndOfStream is called, and takes the sink's critical section,
\* inside the stream's.
StreamDrainReportingEOS ==
  \/ DrainItem /\ UNCHANGED sinkVars
  \/ (worker.eos => SinkLockFree) /\ QueueDrained /\ UNCHANGED sinkVars
  \/ LockFails /\ UNCHANGED sinkVars
  \/ NoCapture
  \/ TestCapture

StreamDrain ==
  \/ (DrainItem \/ QueueDrained \/ LockFails) /\ UNCHANGED sinkVars
  \/ NoCapture
  \/ TestCapture
=============================================================================
