-------------------------- MODULE VideoStreamSource ---------------------------
(***************************************************************************)
(* VideoStreamSource: the Windows Phone 8 display's queue of a few frames  *)
(* between the decoder and the media element, which asks for samples and   *)
(* is told of each with ReportGetSampleCompleted.                          *)
(*                                                                         *)
(* The decoder's thread, the media element's and the UI thread meet in it. *)
(* GetSampleAsync and OnSampleReceived run under lockObj.  The UI thread   *)
(* opens the source when the first frame comes, without the lock, and      *)
(* shuts it down in two steps: the event first, then what needs the lock.  *)
(***************************************************************************)
EXTENDS Naturals, Sequences

CONSTANTS
  maxSampleQueueSize,
  MaxFrames,           \* bound: frames received
  MaxRequests          \* bound: samples the media element asks for

ASSUME QueueSizeAssumption == maxSampleQueueSize \in Nat \ {0}
ASSUME BoundsAssumption == MaxFrames \in Nat /\ MaxRequests \in Nat

VARIABLES
  openAsyncPending,
  opened,                   \* the media element was told of the stream
  sampleQueue,              \* numbers of the frames
  outstandingSamplesCount,
  shutdownEvent,            \* set
  ui,                       \* the UI thread: "running", inside Shutdown
                            \* ("shutdown"), after it ("down"), and after
                            \* the streamer was disposed of ("disposed")
  fed,                      \* history: frames received
  requests,                 \* history: calls of GetSampleAsync
  completions,              \* history: calls of ReportGetSampleCompleted
  frames,                   \* history: those with a frame
  shown                     \* history: the last frame reported

vars == <<openAsyncPending, opened, sampleQueue, outstandingSamplesCount,
          shutdownEvent, ui, fed, requests, completions, frames, shown>>

-----------------------------------------------------------------------------
Init ==
  /\ openAsyncPending = FALSE
  /\ opened = FALSE
  /\ sampleQueue = <<>>
  /\ outstandingSamplesCount = 0
  /\ shutdownEvent = FALSE
  /\ ui = "running"
  /\ fed = 0 /\ requests = 0 /\ completions = 0
  /\ frames = 0 /\ shown = 0

\* As many queued frames as there are requests for, oldest first.
Served(queue, count) == IF Len(queue) < count THEN Len(queue) ELSE count

FeedSamples(queue, count) ==
  LET n == IF shutdownEvent THEN 0 ELSE Served(queue, count)
  IN /\ sampleQueue' = SubSeq(queue, n + 1, Len(queue))
     /\ outstandingSamplesCount' = count - n
     /\ completions' = completions + n
     /\ frames' = frames + n
     /\ shown' = IF n = 0 THEN shown ELSE queue[n]

-----------------------------------------------------------------------------
(* The media element's thread. *)

OpenMediaAsync ==
  /\ ui = "running" /\ ~openAsyncPending /\ ~opened
  /\ openAsyncPending' = TRUE
  /\ UNCHANGED <<opened, sampleQueue, outstandingSamplesCount, shutdownEvent,
                 ui, fed, requests, completions, frames, shown>>

\* The media element asks from the time it knows the stream until the streamer
\* is disposed of.
CanAsk == opened /\ ui # "disposed" /\ requests < MaxRequests

\* Mutant: a request does not look at the queue.
CountRequest ==
  /\ CanAsk
  /\ requests' = requests + 1
  /\ outstandingSamplesCount' = outstandingSamplesCount + 1
  /\ UNCHANGED <<openAsyncPending, opened, sampleQueue, shutdownEvent, ui, fed,
                 completions, frames, shown>>

GetSampleAsync ==
  /\ CanAsk
  /\ requests' = requests + 1
  /\ FeedSamples(sampleQueue, outstandingSamplesCount + 1)
  /\ UNCHANGED <<openAsyncPending, opened, shutdownEvent, ui, fed>>

-----------------------------------------------------------------------------
(* The decoder's thread. *)

\* Mutant: a full queue is noticed one frame late.
KeepOneMore(queue) == IF Len(queue) > maxSampleQueueSize THEN Tail(queue) ELSE queue

\* The oldest frame makes room for the new one.
Room(queue) == IF Len(queue) >= maxSampleQueueSize THEN Tail(queue) ELSE queue

OnSampleReceived ==
  /\ fed < MaxFrames
  /\ fed' = fed + 1
  /\ FeedSamples(Append(Room(sampleQueue), fed + 1), outstandingSamplesCount)
  /\ UNCHANGED <<openAsyncPending, opened, shutdownEvent, ui, requests>>

-----------------------------------------------------------------------------
(* The UI thread. *)

FirstFrameReceived ==
  /\ ui = "running" /\ openAsyncPending
  /\ openAsyncPending' = FALSE
  /\ opened' = TRUE
  /\ UNCHANGED <<sampleQueue, outstandingSamplesCount, shutdownEvent, ui, fed,
                 requests, completions, frames, shown>>

\* Mutant: the event is left for the end of Shutdown.
SetNoEvent ==
  /\ ui = "running"
  /\ ui' = "shutdown"
  /\ UNCHANGED <<openAsyncPending, opened, sampleQueue, outstandingSamplesCount,
                 shutdownEvent, fed, requests, completions, frames, shown>>

SetShutdownEvent ==
  /\ ui = "running"
  /\ ui' = "shutdown"
  /\ shutdownEvent' = TRUE
  /\ UNCHANGED <<openAsyncPending, opened, sampleQueue, outstandingSamplesCount,
                 fed, requests, completions, frames, shown>>

\* Mutant: an empty sample is reported whether or not one was asked for.
EmptySampleAlways ==
  /\ ui = "shutdown"
  /\ ui' = "down"
  /\ outstandingSamplesCount' = 0
  /\ completions' = completions + 1
  /\ UNCHANGED <<openAsyncPending, opened, sampleQueue, shutdownEvent, fed,
                 requests, frames, shown>>

\* One empty sample, however many requests are outstanding.
Shutdown ==
  /\ ui = "shutdown"
  /\ ui' = "down"
  /\ outstandingSamplesCount' = 0
  /\ completions' = completions + (IF outstandingSamplesCount > 0 THEN 1 ELSE 0)
  /\ UNCHANGED <<openAsyncPending, opened, sampleQueue, shutdownEvent, fed,
                 requests, frames, shown>>

\* Dispose does nothing to the source; the media streamer goes.
Dispose ==
  /\ ui = "down"
  /\ ui' = "disposed"
  /\ UNCHANGED <<openAsyncPending, opened, sampleQueue, outstandingSamplesCount,
                 shutdownEvent, fed, requests, completions, frames, shown>>

-----------------------------------------------------------------------------
Next ==
  \/ OpenMediaAsync \/ GetSampleAsync
  \/ OnSampleReceived
  \/ FirstFrameReceived \/ SetShutdownEvent \/ Shutdown \/ Dispose

Spec == Init /\ [][Next]_vars

-----------------------------------------------------------------------------
(* Properties *)

\* The type invariant of the queue, the counts and the histories; the queue is
\* never longer than its size.
SourceTypeOK ==
  /\ openAsyncPending \in BOOLEAN /\ opened \in BOOLEAN
  /\ shutdownEvent \in BOOLEAN
  /\ ui \in {"running", "shutdown", "down", "disposed"}
  /\ sampleQueue \in Seq(Nat) /\ Len(sampleQueue) <= maxSampleQueueSize
  /\ outstandingSamplesCount \in Nat
  /\ fed \in Nat /\ requests \in Nat /\ completions \in Nat
  /\ frames \in Nat /\ shown \in Nat

\* No request is left outstanding beside a frame until the source is shut down:
\* each of the two threads serves what the other has left.
NoIdleRequest ==
  ~shutdownEvent => sampleQueue = <<>> \/ outstandingSamplesCount = 0

\* After Shutdown no sample is reported, although frames still arrive and the
\* media element still asks.
SilentAfterShutdown ==
  [][(ui \in {"down", "disposed"}) => completions' = completions]_vars

Channel == INSTANCE FrameChannel
  WITH MaxLag <- maxSampleQueueSize - 1, fed <- fed, shown <- shown,
       frames <- frames, open <- requests - completions

\* The source is a frame channel that lags by less than its queue's size: a
\* request is answered once, with a frame not shown before and among the last
\* maxSampleQueueSize.
RecentFrameOnce == Channel!Spec

\* After Shutdown every request is answered.  VideoStreamSource.cs says that
\* ReportGetSampleCompleted must be called after GetSampleAsync.
EveryRequestCompleted ==
  ui \in {"down", "disposed"} => completions = requests

=============================================================================
