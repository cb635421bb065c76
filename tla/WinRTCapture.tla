----------------------------- MODULE WinRTCapture -----------------------------
(***************************************************************************)
(* MSWinRTCap, the mediastreamer capture filter, with MSWinRTCapHelper and *)
(* the sinks it creates, one per capture session.                          *)
(*                                                                         *)
(* The filter's thread calls preprocess, process and postprocess in that   *)
(* order; starting and stopping are WinRT asynchronous actions whose       *)
(* completion handlers run on another thread while the filter's thread     *)
(* waits for an event.  Meanwhile the pipeline, its clock, the work queue  *)
(* thread and the end-of-stream task use the sink.                         *)
(***************************************************************************)
EXTENDS MediaSink

CONSTANT MaxSessions   \* bound: capture sessions

ASSUME SessionsAssumption == MaxSessions \in Nat

VARIABLES
  filter,          \* where the filter's thread is
  isStarted,       \* MSWinRTCap::mIsStarted
  mediaSink,       \* MSWinRTCapHelper::mMediaSink # nullptr
  startResult,     \* isStarted, the local the start handler captures by reference
  startCompleted,  \* the auto-reset event mStartCompleted
  stopCompleted,   \* the auto-reset event mStopCompleted
  recording,       \* external: the MediaCapture's asynchronous action and pipeline
  samplesQueue,    \* mSamplesQueue: the numbers of the frames
  output,          \* history: frames fed to the filter's output
  sessions,        \* history: capture sessions begun
  firstItem        \* history: lastItem when the session began

filterVars == <<filter, isStarted, mediaSink, startResult, startCompleted,
                stopCompleted, recording, samplesQueue, output, sessions, firstItem>>

allVars == <<streamVars, sinkVars, filterVars>>

-----------------------------------------------------------------------------
\* "off": no action, no pipeline; "starting": StartRecordToCustomSinkAsync is
\* under way; "on"; "stopping": StopRecordAsync is under way; "stopHandler":
\* inside its completion handler.
Recording == {"off", "starting", "on", "stopping", "stopHandler"}

\* No sink exists yet; the stream's variables are those of an unused one.
CapInit ==
  /\ Init
  /\ sinkShutdown = TRUE
  /\ sinkCall = "none"
  /\ clockSink = FALSE
  /\ capture = FALSE
  /\ streamsEnded = 0
  /\ crashed = FALSE
  /\ filter = "detached"
  /\ isStarted = FALSE
  /\ mediaSink = FALSE
  /\ startResult = FALSE
  /\ startCompleted = FALSE
  /\ stopCompleted = FALSE
  /\ recording = "off"
  /\ samplesQueue = <<>>
  /\ output = <<>>
  /\ sessions = 0
  /\ firstItem = 0

-----------------------------------------------------------------------------
(* The filter's thread. *)

\* preprocess: activate() and start(), into StartCapture's wait.
Preprocess(t) ==
  /\ filter = "detached"
  /\ sessions < MaxSessions
  /\ ~isStarted
  /\ CreateSink(t)
  /\ mediaSink' = TRUE
  /\ capture' = TRUE
  /\ startResult' = FALSE
  /\ recording' = "starting"
  /\ filter' = "starting"
  /\ sessions' = sessions + 1
  /\ firstItem' = lastItem
  /\ UNCHANGED <<isStarted, startCompleted, stopCompleted, samplesQueue, output>>

StartReturns ==
  /\ filter = "starting"
  /\ startCompleted
  /\ startCompleted' = FALSE
  /\ isStarted' = startResult
  /\ filter' = "running"
  /\ UNCHANGED <<streamVars, sinkVars, mediaSink, startResult, stopCompleted,
                 recording, samplesQueue, output, sessions, firstItem>>

\* Mutant: feed() sends what GetSample returns, null from an empty queue too.
FeedUnchecked ==
  /\ filter = "running"
  /\ output' = Append(output, IF samplesQueue = <<>> THEN 0 ELSE Head(samplesQueue))
  /\ samplesQueue' = IF samplesQueue = <<>> THEN <<>> ELSE Tail(samplesQueue)
  /\ UNCHANGED <<streamVars, sinkVars, filter, isStarted, mediaSink, startResult,
                 startCompleted, stopCompleted, recording, sessions, firstItem>>

\* process: feed() sends what GetSample returns, one frame at a time, until it
\* returns null.
Feed ==
  /\ filter = "running"
  /\ samplesQueue # <<>>
  /\ output' = Append(output, Head(samplesQueue))
  /\ samplesQueue' = Tail(samplesQueue)
  /\ UNCHANGED <<streamVars, sinkVars, filter, isStarted, mediaSink, startResult,
                 startCompleted, stopCompleted, recording, sessions, firstItem>>

\* postprocess: stop(), into StopCapture's wait.
Postprocess ==
  /\ filter = "running"
  /\ isStarted
  /\ capture' = FALSE
  /\ recording' = "stopping"
  /\ filter' = "stopping"
  /\ UNCHANGED <<streamVars, sinkShutdown, sinkCall, clockSink, streamsEnded,
                 crashed, isStarted, mediaSink, startResult, startCompleted,
                 stopCompleted, samplesQueue, output, sessions, firstItem>>

\* stop() returns at once when the capture never started.
PostprocessNotStarted ==
  /\ filter = "running"
  /\ ~isStarted
  /\ filter' = "detached"
  /\ UNCHANGED <<streamVars, sinkVars, isStarted, mediaSink, startResult,
                 startCompleted, stopCompleted, recording, samplesQueue, output,
                 sessions, firstItem>>

StopReturns ==
  /\ filter = "stopping"
  /\ stopCompleted
  /\ stopCompleted' = FALSE
  /\ filter' = "draining"
  /\ UNCHANGED <<streamVars, sinkVars, isStarted, mediaSink, startResult,
                 startCompleted, recording, samplesQueue, output, sessions, firstItem>>

\* stop() frees the samples that have not been sent.
FreeSample ==
  /\ filter = "draining"
  /\ samplesQueue # <<>>
  /\ samplesQueue' = Tail(samplesQueue)
  /\ UNCHANGED <<streamVars, sinkVars, filter, isStarted, mediaSink, startResult,
                 startCompleted, stopCompleted, recording, output, sessions, firstItem>>

Stopped ==
  /\ filter = "draining"
  /\ samplesQueue = <<>>
  /\ isStarted' = FALSE
  /\ filter' = "detached"
  /\ UNCHANGED <<streamVars, sinkVars, mediaSink, startResult, startCompleted,
                 stopCompleted, recording, samplesQueue, output, sessions, firstItem>>

-----------------------------------------------------------------------------
(* MediaCapture and the completion handlers. *)

StartHandler(ok) ==
  /\ recording = "starting"
  /\ startResult' = ok
  /\ startCompleted' = TRUE
  /\ recording' = IF ok THEN "on" ELSE "off"
  /\ UNCHANGED <<streamVars, sinkVars, filter, isStarted, mediaSink,
                 stopCompleted, samplesQueue, output, sessions, firstItem>>

StartSucceeds == StartHandler(TRUE)

\* External: a recording that cannot start never ran its clock.
StartFails ==
  /\ calls = <<>>
  /\ SinkLockFree
  /\ StartHandler(FALSE)

\* Mutant: the handler does not shut the sink down.
StopHandlerLeavesSink ==
  /\ recording = "stopping"
  /\ recording' = "stopHandler"
  /\ UNCHANGED <<streamVars, sinkVars, filter, isStarted, mediaSink, startResult,
                 startCompleted, stopCompleted, samplesQueue, output, sessions,
                 firstItem>>

\* StopRecordAsync ended, well or not: the handler shuts the sink down, unless
\* the pipeline has already done so.
StopHandlerBegins ==
  /\ recording = "stopping"
  /\ IF sinkShutdown
       THEN SinkLockFree /\ UNCHANGED <<streamVars, sinkVars>>
       ELSE Enter("Shutdown")
  /\ recording' = "stopHandler"
  /\ UNCHANGED <<filter, isStarted, mediaSink, startResult, startCompleted,
                 stopCompleted, samplesQueue, output, sessions, firstItem>>

StopHandlerEnds ==
  /\ recording = "stopHandler"
  /\ sinkCall # "Shutdown"
  /\ mediaSink' = FALSE
  /\ stopCompleted' = TRUE
  /\ recording' = "off"
  /\ UNCHANGED <<streamVars, sinkVars, filter, isStarted, startResult,
                 startCompleted, samplesQueue, output, sessions, firstItem>>

\* The pipeline uses the sink from the moment it is given it.  It may call late,
\* after the end of the recording, but not after a start that failed.
PipelineUp == recording # "off" \/ (sessions > 0 /\ ~mediaSink)

PipelineCall ==
  /\ PipelineUp
  /\ \/ StreamPipelineCall
     \/ \E present \in BOOLEAN : SetPresentationClock(present)
     \/ \E method \in {"OnClockStart", "OnClockStop"} : EnterClockCall(method)
     \/ recording = "on" /\ Enter("Shutdown")
  /\ UNCHANGED filterVars

-----------------------------------------------------------------------------
(* The sink's threads: the clock's, the work queue's, the end-of-stream task. *)

\* Mutant: the newest frame is put in front.
OnSampleAvailableInFront ==
  /\ CallCapture
  /\ samplesQueue' = <<worker.item.id>> \o samplesQueue
  /\ UNCHANGED <<filter, isStarted, mediaSink, startResult, startCompleted,
                 stopCompleted, recording, output, sessions, firstItem>>

\* Mutant: the newest frame replaces those that wait.
OnSampleAvailableNewest ==
  /\ CallCapture
  /\ samplesQueue' = <<worker.item.id>>
  /\ UNCHANGED <<filter, isStarted, mediaSink, startResult, startCompleted,
                 stopCompleted, recording, output, sessions, firstItem>>

\* The frame goes into mSamplesQueue under mMutex.
OnSampleAvailable ==
  /\ CallCapture
  /\ samplesQueue' = Append(samplesQueue, worker.item.id)
  /\ UNCHANGED <<filter, isStarted, mediaSink, startResult, startCompleted,
                 stopCompleted, recording, output, sessions, firstItem>>

SinkDispatch == StreamDispatch /\ UNCHANGED filterVars
SinkDrain ==
  \/ (StreamDrain \/ CallNullCapture) /\ UNCHANGED filterVars
  \/ OnSampleAvailable
SinkLeave == (LeaveClockCall \/ LeaveShutdown) /\ UNCHANGED filterVars
SinkEOS == ReportEndOfStream /\ UNCHANGED filterVars

-----------------------------------------------------------------------------
FilterThread ==
  \/ StartReturns
  \/ StopReturns
  \/ FreeSample
  \/ Stopped

\* The filter is detached for good and the last sink is quiet, or the process is gone.
AllDone ==
  /\ \/ crashed
     \/ /\ filter = "detached"
        /\ sessions = MaxSessions
        /\ SinkLockFree
        /\ workQueue = <<>>
        /\ eosTasks = 0
  /\ UNCHANGED allVars

Running ==
  /\ ~crashed
  /\ \/ \E t \in MediaTypes : Preprocess(t)
     \/ Feed
     \/ Postprocess
     \/ PostprocessNotStarted
     \/ FilterThread
     \/ StartSucceeds
     \/ StartFails
     \/ StopHandlerBegins
     \/ StopHandlerEnds
     \/ PipelineCall
     \/ SinkDispatch
     \/ SinkDrain
     \/ SinkLeave
     \/ SinkEOS

CapNext == Running \/ AllDone

CapSpec == CapInit /\ [][CapNext]_allVars

\* The threads run; WinRT completes each asynchronous action; a thread that
\* waits for a critical section gets it in the end although other calls of the
\* pipeline keep taking it.  Nothing makes the pipeline call, nor the owner of
\* the filter feed or stop it.
CapFairness ==
  /\ WF_allVars(FilterThread /\ ~crashed)
  /\ WF_allVars((StartSucceeds \/ StartFails) /\ ~crashed)
  /\ SF_allVars(StopHandlerBegins /\ ~crashed)
  /\ WF_allVars(StopHandlerEnds /\ ~crashed)
  /\ SF_allVars(SinkDispatch /\ ~crashed)
  /\ WF_allVars(SinkDrain /\ ~crashed)
  /\ SF_allVars(SinkLeave /\ ~crashed)
  /\ SF_allVars(SinkEOS /\ ~crashed)

CapFairSpec == CapSpec /\ CapFairness

-----------------------------------------------------------------------------
(* Properties. *)

\* A frame of the helper or the filter is the number of an item, 0 for null.
Frame == Nat \ {0}

\* The variables of the sink, the helper and the filter have their types; what is
\* kept and fed are frames, never null.
CapTypeOK ==
  /\ sinkShutdown \in BOOLEAN
  /\ sinkCall \in {"none", "OnClockStart", "OnClockStop", "Shutdown"}
  /\ clockSink \in BOOLEAN
  /\ capture \in BOOLEAN
  /\ streamsEnded \in Nat
  /\ crashed \in BOOLEAN
  /\ filter \in {"detached", "starting", "running", "stopping", "draining"}
  /\ isStarted \in BOOLEAN
  /\ mediaSink \in BOOLEAN
  /\ startResult \in BOOLEAN
  /\ startCompleted \in BOOLEAN
  /\ stopCompleted \in BOOLEAN
  /\ recording \in Recording
  /\ samplesQueue \in Seq(Frame)
  /\ output \in Seq(Frame)
  /\ sessions \in Nat
  /\ firstItem \in Nat

\* When StopCapture returns no frame is on its way any more: the detached
\* SetCaptureFilter(nullptr) does not wait for a frame being handed over, but
\* the sink's Shutdown, which needs the stream's critical section, does.  So the
\* queue that stop() has emptied stays empty, and no frame of one session is fed
\* in the next.
StopIsBarrier ==
  /\ filter = "draining" => isShutdown /\ worker.pc = "idle" /\ sampleQueue = <<>>
  /\ filter = "detached" => samplesQueue = <<>>
  /\ \A i \in DOMAIN samplesQueue : samplesQueue[i] > firstItem

\* The filter feeds frames in the order of capture and none twice, over all
\* sessions.
OutputInOrder ==
  LET frames == output \o samplesQueue
  IN  \A i, j \in DOMAIN frames : i < j => frames[i] < frames[j]

\* Until the filter is stopped, each frame that the sink handed over waits in
\* the helper's queue or has been fed.
NoFrameLost ==
  filter \in {"starting", "running"} =>
    \A d \in DOMAIN delivered :
      \/ \E i \in DOMAIN samplesQueue : samplesQueue[i] = delivered[d]
      \/ \E i \in DOMAIN output : output[i] = delivered[d]

\* A method that passed CheckShutdown under the sink's critical section finds
\* the stream alive, however long it waits for the stream's.
SinkCallMeetsLiveStream ==
  sinkCall # "none" => ~isShutdown /\ ~sinkShutdown

\* StartCapture and StopCapture, which wait without a time limit, return.
WaitsEnd ==
  /\ filter = "starting" ~> filter = "running"
  /\ filter = "stopping" ~> filter = "detached"

\* "critical section for thread safety": the filter is detached from the sink
\* without a frame being handed to a null capture helper.
NoCallThroughNull == ~crashed
=============================================================================
