-------------------------- MODULE WinRTCaptureProofs --------------------------
(***************************************************************************)
(* Theorems about WinRTCapture for every number of sessions, items, clock  *)
(* calls and faults.  Between two sessions the stream does what StreamSink *)
(* says, so what StreamSinkProofs shows of a step of the stream is used    *)
(* again; the steps of its own are the hand-over of a frame, which here    *)
(* takes two, and the creation of a new sink.                              *)
(***************************************************************************)
EXTENDS WinRTCapture, StreamSinkProofs

-----------------------------------------------------------------------------
(* The inductive invariant. *)

\* A sink and its stream are shut down together, and nobody is inside the
\* sink's critical section at that time.
LiveInv ==
  /\ isShutdown => sinkShutdown
  /\ sessions > 0 /\ sinkShutdown => isShutdown
  /\ SinkCallMeetsLiveStream

\* The recording could not start: its sink is alive, but nobody calls it.
Failed ==
  /\ recording = "off"
  /\ mediaSink
  /\ calls = <<>>
  /\ sinkCall = "none"

\* What the recording, the two events and the sink look like for each place
\* where the filter's thread can be.
DetachedInv ==
  /\ recording = "off"
  /\ ~isStarted
  /\ ~startCompleted
  /\ ~stopCompleted
  /\ \/ isShutdown
     \/ sessions = 0 /\ calls = <<>> /\ sinkCall = "none"
     \/ Failed

StartingInv ==
  /\ mediaSink
  /\ ~isStarted
  /\ ~stopCompleted
  /\ \/ ~startCompleted /\ recording = "starting"
     \/ startCompleted /\ startResult /\ recording = "on"
     \/ startCompleted /\ ~startResult /\ Failed

RunningInv ==
  /\ ~startCompleted
  /\ ~stopCompleted
  /\ IF isStarted THEN recording = "on" ELSE Failed

StoppingInv ==
  /\ isStarted
  /\ ~startCompleted
  /\ \/ ~stopCompleted /\ recording = "stopping"
     \/ /\ ~stopCompleted
        /\ recording = "stopHandler"
        /\ sinkShutdown \/ sinkCall = "Shutdown"
     \/ stopCompleted /\ recording = "off" /\ isShutdown

DrainingInv ==
  /\ recording = "off"
  /\ isShutdown
  /\ ~startCompleted
  /\ ~stopCompleted

SessionInv ==
  /\ filter # "detached" => sessions > 0
  /\ filter = "detached" => DetachedInv
  /\ filter = "starting" => StartingInv
  /\ filter = "running" => RunningInv
  /\ filter = "stopping" => StoppingInv
  /\ filter = "draining" => DrainingInv

\* Before the first call of the clock the stream takes no sample.
NoSampleInv ==
  calls = <<>> =>
    /\ state \in {"TypeNotSet", "Ready"}
    /\ ~InHand
    /\ \A i \in DOMAIN sampleQueue : sampleQueue[i].kind \notin SampleKinds

\* The numbers before anything that the stream holds or will be given.
Past == {n \in Nat :
           /\ n <= lastItem
           /\ \A i \in DOMAIN sampleQueue : n < sampleQueue[i].id
           /\ InHand => n < worker.item.id}

\* Numbers grow from the frames fed, over those that wait in the helper's queue,
\* to what the stream holds; and all that has not been fed belongs to this session.
FrameInv ==
  /\ filter = "detached" \/ calls = <<>> => samplesQueue = <<>>
  /\ firstItem \in Past
  /\ \A s \in DOMAIN samplesQueue :
       firstItem < samplesQueue[s] /\ samplesQueue[s] \in Past
  /\ \A p \in DOMAIN output :
       /\ output[p] \in Past
       /\ \A s \in DOMAIN samplesQueue : output[p] < samplesQueue[s]
  /\ \A r, s \in DOMAIN samplesQueue : r < s => samplesQueue[r] < samplesQueue[s]
  /\ \A p, q \in DOMAIN output : p < q => output[p] < output[q]

\* The types of the stream and of what uses it.
CapTypes == TypeOK /\ CapTypeOK

CapInv ==
  /\ CapTypes
  /\ ShutdownInv
  /\ OrderInv
  /\ LiveInv
  /\ SessionInv
  /\ NoSampleInv
  /\ FrameInv
  /\ NoFrameLost

-----------------------------------------------------------------------------
(* The steps. *)

\* The steps of the hand-over of a frame.
HandOver == NoCapture \/ TestCapture \/ CallCapture

\* A step of the filter, of the sink or of both is one of the stream, the
\* creation of a sink or a step of a hand-over.
LEMMA StreamSteps ==
  ASSUME SinkCallMeetsLiveStream, [CapNext]_allVars
  PROVE  \/ [Next]_vars
         \/ \E t \in MediaTypes : CreateSink(t)
         \/ HandOver
<1>1. ASSUME UNCHANGED streamVars PROVE [Next]_vars
  BY <1>1 DEF streamVars
<1>2. ASSUME LeaveClockCall PROVE Next
  BY <1>2 DEF LeaveClockCall, SinkCallMeetsLiveStream, Next, Pipeline, OnClockStart,
              OnClockStop
<1>3. ASSUME LeaveShutdown PROVE Next
  BY <1>3 DEF LeaveShutdown, Next, Pipeline
<1>4. ASSUME StreamPipelineCall PROVE Next
  BY <1>4 DEF StreamPipelineCall, Next, Pipeline
<1>5. ASSUME StreamDispatch PROVE Next
  BY <1>5 DEF StreamDispatch, Next, WorkQueueThread
<1>6. ASSUME StreamDrain PROVE Next \/ HandOver
  BY <1>6 DEF StreamDrain, HandOver, Next, WorkQueueThread, Drain
<1>7. ASSUME ReportEndOfStream PROVE Next
  BY <1>7 DEF ReportEndOfStream, Next
<1>8. ASSUME NEW t \in MediaTypes, Preprocess(t) PROVE CreateSink(t)
  BY <1>8 DEF Preprocess
<1>9. ASSUME StopHandlerBegins PROVE UNCHANGED streamVars
  BY <1>9 DEF StopHandlerBegins, Enter
<1>10. ASSUME PipelineCall PROVE StreamPipelineCall \/ UNCHANGED streamVars
  BY <1>10 DEF PipelineCall, SetPresentationClock, EnterClockCall, Enter
<1>11. ASSUME SinkDrain PROVE Next \/ HandOver \/ UNCHANGED streamVars
  BY <1>6, <1>11 DEF SinkDrain, CallNullCapture, OnSampleAvailable, HandOver
<1>12. ASSUME FilterThread \/ Feed \/ Postprocess \/ PostprocessNotStarted
       PROVE  UNCHANGED streamVars
  BY <1>12 DEF FilterThread, StartReturns, StopReturns, FreeSample, Stopped, Feed,
               Postprocess, PostprocessNotStarted
<1>13. ASSUME StartSucceeds \/ StartFails \/ StopHandlerEnds
       PROVE  UNCHANGED streamVars
  BY <1>13 DEF StartSucceeds, StartFails, StartHandler, StopHandlerEnds
<1>14. ASSUME AllDone \/ UNCHANGED allVars PROVE UNCHANGED streamVars
  BY <1>14 DEF AllDone, allVars
<1> QED
  BY <1>1, <1>2, <1>3, <1>4, <1>5, <1>7, <1>8, <1>9, <1>10, <1>11, <1>12, <1>13,
     <1>14 DEF CapNext, Running, SinkDispatch, SinkLeave, SinkEOS

\* What each step of a hand-over does to the stream's variables.
LEMMA HandOverFacts ==
  ASSUME TypeOK, HandOver
  PROVE  /\ InHand
         /\ UNCHANGED <<state, isShutdown, currentType, waitingFirst, firstSample,
                        sampleQueue, workQueue, calls, lastItem, sinkShutdown,
                        sinkCall>>
         /\ \/ /\ worker'.pc \in {"idle", "drain"}
               /\ CallCapture \/ delivered' = delivered
            \/ /\ TestCapture
               /\ worker'.pc = "call" /\ worker'.item = worker.item
               /\ delivered' = delivered
<1>1. CASE TestCapture
  BY <1>1 DEF TestCapture, TypeOK, Worker, InHand, sinkVars
<1>2. CASE NoCapture \/ CallCapture
  <2>1. worker'.pc \in {"idle", "drain"}
    BY <1>2, FrameFacts, DrainEnded DEF NoCapture, CallCapture
  <2> QED BY <1>2, <2>1 DEF NoCapture, CallCapture, InHand, sinkVars
<1> QED BY <1>1, <1>2 DEF HandOver

\* What the steps of the sink's threads leave alone.
LEMMA StreamOnly ==
  ASSUME StreamPipelineCall \/ StreamDispatch \/ StreamDrain \/ CallCapture
           \/ CallNullCapture \/ ReportEndOfStream
  PROVE  UNCHANGED <<isShutdown, calls, sinkShutdown, sinkCall, clockSink, capture>>
<1>1. CASE StreamPipelineCall
  BY <1>1 DEF StreamPipelineCall, ReplaceMediaType, ProcessFormatChange,
              KeepFirstSample, ProcessSample, PlaceMarker, Flush, sinkVars
<1>2. CASE StreamDispatch
  BY <1>2 DEF StreamDispatch, Dispatch, DispatchAfterShutdown, sinkVars
<1>3. CASE StreamDrain
  BY <1>3 DEF StreamDrain, DrainItem, QueueDrained, LockFails, NoCapture,
              TestCapture, sinkVars
<1>4. CASE CallCapture \/ CallNullCapture
  BY <1>4 DEF CallCapture, CallNullCapture, sinkVars, streamVars, vars
<1>5. CASE ReportEndOfStream
  BY <1>5 DEF ReportEndOfStream, RunEOSTask
<1> QED BY <1>1, <1>2, <1>3, <1>4, <1>5

-----------------------------------------------------------------------------
(* Types. *)

\* Frames are numbers.
LEMMA FramesAreNumbers ==
  ASSUME CapTypeOK PROVE samplesQueue \in Seq(Nat) /\ output \in Seq(Nat)
<1>1. samplesQueue \in Seq(Frame) /\ output \in Seq(Frame)
  BY DEF CapTypeOK
<1>2. ASSUME NEW s \in Seq(Frame) PROVE s \in Seq(Nat)
  BY DEF Frame
<1> QED BY <1>1, <1>2

LEMMA CapInitTypeOK == CapInit => CapTypes
<1> SUFFICES ASSUME CapInit PROVE CapTypes
  OBVIOUS
<1>1. TypeOK
  BY InitTypeOK DEF CapInit
<1>2. samplesQueue \in Seq(Frame) /\ output \in Seq(Frame)
  BY DEF CapInit
<1> QED BY <1>1, <1>2 DEF CapInit, CapTypes, CapTypeOK, Recording

\* The stream's variables keep their types.
LEMMA CapStreamTypeOK ==
  ASSUME TypeOK, SinkCallMeetsLiveStream, [CapNext]_allVars PROVE TypeOK'
<1>1. ASSUME NEW t \in MediaTypes, CreateSink(t) PROVE TypeOK'
  <2>1. worker' \in Worker /\ worker'.pc = "idle"
    BY <1>1, IdleWorkerType DEF CreateSink
  <2>2. /\ sampleQueue' \in Seq(Item) /\ workQueue' \in Seq(Work)
        /\ events' \in Seq(Event) /\ calls' \in Seq({"Started", "Stopped"})
        /\ delivered' \in Seq(Nat)
    BY <1>1 DEF CreateSink
  <2> QED BY <1>1, <2>1, <2>2 DEF CreateSink, TypeOK, States
<1>2. ASSUME HandOver PROVE TypeOK'
  <2>1. CASE TestCapture
    BY <2>1 DEF TestCapture, TypeOK, Worker
  <2>2. CASE NoCapture \/ CallCapture
    <3>1. delivered' \in Seq(Nat)
      <4> DEFINE n == worker.item.id
      <4>1. n \in Nat /\ delivered \in Seq(Nat)
        BY DEF TypeOK, Worker, Item
      <4>2. delivered' = delivered \/ delivered' = Append(delivered, n)
        BY <2>2 DEF NoCapture, CallCapture
      <4> HIDE DEF n
      <4> QED BY <4>1, <4>2
    <3>2. /\ worker' \in Worker /\ worker'.pc \in {"idle", "drain"}
          /\ eosTasks' \in Nat /\ requests' \in Nat
          /\ events' \in Seq(Event) /\ faults' \in Nat
      <4>1. CASE EndDrain(FALSE) /\ faults' = faults + 1
        <5>1. worker.work.id \in Nat
          BY DEF TypeOK, Worker, Work
        <5> QED BY <4>1, <5>1, IdleWorkerType, EventType DEF EndDrain, TypeOK
      <4>2. CASE /\ worker' = [worker EXCEPT !.pc = "drain", !.item = NoItem]
                 /\ UNCHANGED <<eosTasks, requests, events, faults>>
        BY <4>2 DEF TypeOK, Worker, NoItem, Item
      <4> QED BY <2>2, <4>1, <4>2 DEF NoCapture, CallCapture, FrameDone, BufferFails
    <3> QED BY <2>2, <3>1, <3>2 DEF NoCapture, CallCapture, TypeOK
  <2> QED BY <1>2, <2>1, <2>2 DEF HandOver
<1> QED BY <1>1, <1>2, StreamSteps, StepTypeOK

\* Every step keeps the types.
LEMMA CapStepTypeOK ==
  ASSUME CapTypes, OrderInv, SinkCallMeetsLiveStream, [CapNext]_allVars
  PROVE  CapTypes'
<1> USE DEF CapTypes, CapTypeOK, Recording
<1>0. TypeOK'
  BY CapStreamTypeOK
<1>1. ASSUME NEW t \in MediaTypes, Preprocess(t) PROVE CapTypes'
  <2>1. sessions' \in Nat /\ firstItem' \in Nat
    BY <1>1 DEF Preprocess, TypeOK
  <2> QED BY <1>0, <1>1, <2>1 DEF Preprocess, CreateSink
<1>2. ASSUME FilterThread PROVE CapTypes'
  <2>1. ASSUME UNCHANGED <<sinkVars, mediaSink, startResult, recording, output,
                           sessions, firstItem>>,
               filter' \in {"running", "draining", "detached"},
               isStarted' \in BOOLEAN, startCompleted' \in BOOLEAN,
               stopCompleted' \in BOOLEAN, samplesQueue' \in Seq(Frame)
        PROVE  CapTypes'
    <3>1. UNCHANGED <<sinkShutdown, sinkCall, clockSink, capture, streamsEnded, crashed>>
      BY <2>1 DEF sinkVars
    <3> QED BY <1>0, <2>1, <3>1
  <2>2. CASE StartReturns
    BY <2>1, <2>2 DEF StartReturns
  <2>3. CASE StopReturns
    BY <2>1, <2>3 DEF StopReturns
  <2>4. CASE FreeSample
    BY <1>0, <2>4 DEF FreeSample, sinkVars
  <2>5. CASE Stopped
    BY <2>1, <2>5 DEF Stopped
  <2> QED BY <1>2, <2>2, <2>3, <2>4, <2>5 DEF FilterThread
<1>3. ASSUME Feed PROVE CapTypes'
  BY <1>0, <1>3 DEF Feed, sinkVars
<1>f. ASSUME UNCHANGED <<sinkShutdown, sinkCall, clockSink, streamsEnded, crashed,
                        samplesQueue, output, sessions, firstItem>>,
             capture' \in BOOLEAN,
             filter' \in {"detached", "starting", "running", "stopping", "draining"},
             isStarted' \in BOOLEAN, mediaSink' \in BOOLEAN, startResult' \in BOOLEAN,
             startCompleted' \in BOOLEAN, stopCompleted' \in BOOLEAN,
             recording' \in Recording
      PROVE  CapTypes'
  BY <1>0, <1>f
<1>4. ASSUME Postprocess \/ PostprocessNotStarted PROVE CapTypes'
  BY <1>f, <1>4 DEF Postprocess, PostprocessNotStarted, sinkVars
<1>5. ASSUME StartSucceeds \/ StartFails PROVE CapTypes'
  BY <1>f, <1>5 DEF StartSucceeds, StartFails, StartHandler, sinkVars
<1>6. ASSUME StopHandlerBegins PROVE CapTypes'
  BY <1>0, <1>6 DEF StopHandlerBegins, Enter, sinkVars
<1>7. ASSUME StopHandlerEnds PROVE CapTypes'
  BY <1>f, <1>7 DEF StopHandlerEnds, sinkVars
<1>8. ASSUME UNCHANGED filterVars, sinkShutdown' \in BOOLEAN,
             sinkCall' \in {"none", "OnClockStart", "OnClockStop", "Shutdown"},
             clockSink' \in BOOLEAN, capture' = capture, streamsEnded' \in Nat,
             crashed' \in BOOLEAN
      PROVE  CapTypes'
  BY <1>0, <1>8 DEF filterVars
<1>9. ASSUME PipelineCall PROVE CapTypes'
  BY <1>8, <1>9 DEF PipelineCall, StreamPipelineCall, SetPresentationClock,
                    EnterClockCall, Enter, sinkVars
<1>10. ASSUME SinkDispatch \/ SinkLeave \/ SinkEOS PROVE CapTypes'
  <2>1. CASE SinkDispatch
    BY <1>8, <2>1 DEF SinkDispatch, StreamDispatch, sinkVars
  <2>2. CASE SinkLeave
    BY <1>8, <2>2 DEF SinkLeave, LeaveClockCall, LeaveShutdown
  <2>3. CASE SinkEOS
    <3>1. streamsEnded' \in Nat
      BY <2>3 DEF SinkEOS, ReportEndOfStream
    <3> QED BY <1>8, <2>3, <3>1 DEF SinkEOS, ReportEndOfStream
  <2> QED BY <1>10, <2>1, <2>2, <2>3
<1>11. ASSUME OnSampleAvailable PROVE CapTypes'
  <2>1. worker.item.id \in Frame
    <3>1. worker.item.id \in 1..lastItem /\ lastItem \in Nat
      BY <1>11 DEF OnSampleAvailable, CallCapture, OrderInv, InHand, TypeOK
    <3> QED BY <3>1 DEF Frame
  <2> QED BY <1>0, <1>11, <2>1 DEF OnSampleAvailable, CallCapture, sinkVars
<1>12. ASSUME StreamDrain \/ CallNullCapture, UNCHANGED filterVars PROVE CapTypes'
  BY <1>8, <1>12 DEF StreamDrain, NoCapture, TestCapture, CallNullCapture, sinkVars
<1>13. ASSUME UNCHANGED allVars PROVE CapTypes'
  BY <1>0, <1>13 DEF allVars, sinkVars, filterVars
<1> QED
  BY <1>1, <1>2, <1>3, <1>4, <1>5, <1>6, <1>7, <1>9, <1>10, <1>11, <1>12, <1>13
     DEF CapNext, Running, SinkDrain, AllDone

-----------------------------------------------------------------------------
(* The stream's own invariants. *)

LEMMA CapShutdownStep ==
  ASSUME TypeOK, ShutdownInv, SinkCallMeetsLiveStream, [CapNext]_allVars
  PROVE  ShutdownInv'
<1>1. ASSUME NEW t \in MediaTypes, CreateSink(t) PROVE ShutdownInv'
  BY <1>1, IdleFacts DEF CreateSink, ShutdownInv
<1>2. ASSUME HandOver PROVE ShutdownInv'
  BY <1>2, HandOverFacts DEF InHand, ShutdownInv
<1> QED BY <1>1, <1>2, StreamSteps, ShutdownStep

LEMMA CapOrderStep ==
  ASSUME TypeOK, OrderInv, SinkCallMeetsLiveStream, [CapNext]_allVars
  PROVE  OrderInv'
<1>1. ASSUME NEW t \in MediaTypes, CreateSink(t) PROVE OrderInv'
  BY <1>1, IdleFacts DEF CreateSink, OrderInv, InHand
<1>2. ASSUME HandOver PROVE OrderInv'
  BY <1>2, HandOverFacts DEF OrderInv, InHand
<1> QED BY <1>1, <1>2, StreamSteps, OrderStep

-----------------------------------------------------------------------------
(* Sessions. *)

\* The threads of the sink do not touch what LiveInv and SessionInv read.
LEMMA SinkThreadFacts ==
  ASSUME SinkDispatch \/ SinkDrain \/ SinkEOS
  PROVE  UNCHANGED <<isShutdown, calls, sinkShutdown, sinkCall, filter, isStarted,
                     mediaSink, startResult, startCompleted, stopCompleted,
                     recording, sessions>>
<1>1. CASE OnSampleAvailable
  BY <1>1, StreamOnly DEF OnSampleAvailable
<1>2. CASE UNCHANGED filterVars
  BY <1>2, StreamOnly DEF SinkDispatch, SinkDrain, OnSampleAvailable, SinkEOS,
                          filterVars
<1> QED BY <1>1, <1>2 DEF SinkDispatch, SinkDrain, SinkEOS

\* The filter's steps and the handlers of a start do not touch the sink.
LEMMA FilterThreadFacts ==
  ASSUME FilterThread \/ Feed \/ Postprocess \/ PostprocessNotStarted
           \/ StartSucceeds \/ StartFails \/ StopHandlerEnds
  PROVE  /\ UNCHANGED streamVars
         /\ UNCHANGED <<sinkShutdown, sinkCall, sessions>>
<1>1. CASE FilterThread
  BY <1>1 DEF FilterThread, StartReturns, StopReturns, FreeSample, Stopped, sinkVars
<1>2. CASE Feed \/ Postprocess \/ PostprocessNotStarted
  BY <1>2 DEF Feed, Postprocess, PostprocessNotStarted, sinkVars
<1>3. CASE StartSucceeds \/ StartFails \/ StopHandlerEnds
  BY <1>3 DEF StartSucceeds, StartFails, StartHandler, StopHandlerEnds, sinkVars
<1> QED BY <1>1, <1>2, <1>3

\* A call of the pipeline changes the stream, or enters the sink; a shutdown it
\* makes only while recording.
LEMMA PipelineFacts ==
  ASSUME PipelineCall
  PROVE  /\ PipelineUp
         /\ UNCHANGED filterVars
         /\ UNCHANGED <<isShutdown, calls, sinkShutdown>>
         /\ \/ StreamPipelineCall /\ sinkCall' = sinkCall
            \/ UNCHANGED streamVars /\ sinkCall' = sinkCall
            \/ /\ UNCHANGED streamVars
               /\ sinkCall = "none" /\ ~sinkShutdown
               /\ sinkCall' \in {"OnClockStart", "OnClockStop", "Shutdown"}
               /\ sinkCall' = "Shutdown" => recording = "on"
<1>1. CASE StreamPipelineCall
  BY <1>1, StreamOnly DEF PipelineCall
<1>2. CASE \E present \in BOOLEAN : SetPresentationClock(present)
  BY <1>2 DEF PipelineCall, SetPresentationClock, streamVars, vars
<1>3. CASE \E method \in {"OnClockStart", "OnClockStop"} : EnterClockCall(method)
  BY <1>3 DEF PipelineCall, EnterClockCall, Enter, SinkLockFree, streamVars, vars
<1>4. CASE recording = "on" /\ Enter("Shutdown")
  BY <1>4 DEF PipelineCall, Enter, SinkLockFree, streamVars, vars
<1> QED BY <1>1, <1>2, <1>3, <1>4 DEF PipelineCall

\* The handler of a stop shuts the sink down, or finds it shut down.
LEMMA StopHandlerFacts ==
  ASSUME StopHandlerBegins
  PROVE  /\ UNCHANGED streamVars
         /\ sinkShutdown' = sinkShutdown
         /\ IF sinkShutdown THEN sinkCall' = sinkCall
                            ELSE sinkCall' = "Shutdown"
         /\ recording = "stopping" /\ recording' = "stopHandler"
         /\ UNCHANGED <<filter, isStarted, mediaSink, startResult, startCompleted,
                        stopCompleted, samplesQueue, output, sessions, firstItem>>
  BY DEF StopHandlerBegins, Enter, sinkVars

LEMMA LiveStep ==
  ASSUME LiveInv, [CapNext]_allVars PROVE LiveInv'
<1> USE DEF LiveInv, SinkCallMeetsLiveStream
<1>1. ASSUME UNCHANGED <<isShutdown, sinkShutdown, sinkCall, sessions>> PROVE LiveInv'
  BY <1>1
<1>2. ASSUME NEW t \in MediaTypes, Preprocess(t) PROVE LiveInv'
  BY <1>2 DEF Preprocess, CreateSink
<1>3. ASSUME StopHandlerBegins PROVE LiveInv'
  BY <1>3, StopHandlerFacts DEF streamVars, vars
<1>4. ASSUME PipelineCall PROVE LiveInv'
  BY <1>4, PipelineFacts DEF filterVars
<1>5. ASSUME SinkLeave PROVE LiveInv'
  BY <1>5 DEF SinkLeave, LeaveClockCall, Start, Stop, LeaveShutdown, Shutdown,
              filterVars
<1>6. ASSUME SinkDispatch \/ SinkDrain \/ SinkEOS PROVE LiveInv'
  BY <1>1, <1>6, SinkThreadFacts
<1>7. ASSUME FilterThread \/ Feed \/ Postprocess \/ PostprocessNotStarted
               \/ StartSucceeds \/ StartFails \/ StopHandlerEnds
      PROVE  LiveInv'
  BY <1>1, <1>7, FilterThreadFacts DEF streamVars, vars
<1>8. ASSUME UNCHANGED allVars PROVE LiveInv'
  BY <1>1, <1>8 DEF allVars, streamVars, vars, sinkVars, filterVars
<1> QED
  BY <1>2, <1>3, <1>4, <1>5, <1>6, <1>7, <1>8 DEF CapNext, Running, AllDone

\* StartCapture and StopCapture return only when what they wait for has come to
\* its end.
LEMMA SessionStep ==
  ASSUME CapTypes, LiveInv, SessionInv, [CapNext]_allVars PROVE SessionInv'
<1> USE DEF SessionInv, DetachedInv, StartingInv, RunningInv, StoppingInv,
            DrainingInv, Failed
<1>t. filter \in {"detached", "starting", "running", "stopping", "draining"}
  BY DEF CapTypes, CapTypeOK
<1>1. ASSUME UNCHANGED <<isShutdown, calls, sinkShutdown, sinkCall, filter,
                         isStarted, mediaSink, startResult, startCompleted,
                         stopCompleted, recording, sessions>>
      PROVE  SessionInv'
  BY <1>1
<1>2. ASSUME NEW t \in MediaTypes, Preprocess(t) PROVE SessionInv'
  <2>1. sessions' > 0
    BY <1>2 DEF Preprocess, CapTypes, CapTypeOK
  <2> QED BY <1>2, <2>1 DEF Preprocess, CreateSink
<1>3. ASSUME StartReturns PROVE SessionInv'
  BY <1>3 DEF StartReturns, streamVars, vars, sinkVars
<1>4. ASSUME Feed \/ FreeSample PROVE SessionInv'
  BY <1>1, <1>4 DEF Feed, FreeSample, streamVars, vars, sinkVars
<1>5. ASSUME Postprocess PROVE SessionInv'
  BY <1>5 DEF Postprocess, streamVars, vars
<1>6. ASSUME PostprocessNotStarted PROVE SessionInv'
  BY <1>6 DEF PostprocessNotStarted, streamVars, vars, sinkVars
<1>7. ASSUME StopReturns PROVE SessionInv'
  BY <1>7 DEF StopReturns, streamVars, vars, sinkVars
<1>8. ASSUME Stopped PROVE SessionInv'
  BY <1>8 DEF Stopped, streamVars, vars, sinkVars
<1>9. ASSUME StartSucceeds PROVE SessionInv'
  BY <1>t, <1>9 DEF StartSucceeds, StartHandler, streamVars, vars, sinkVars
<1>10. ASSUME StartFails PROVE SessionInv'
  BY <1>t, <1>10 DEF StartFails, SinkLockFree, StartHandler, streamVars, vars, sinkVars
<1>11. ASSUME StopHandlerBegins PROVE SessionInv'
  BY <1>t, <1>11, StopHandlerFacts DEF streamVars, vars
<1>12. ASSUME StopHandlerEnds PROVE SessionInv'
  BY <1>t, <1>12 DEF StopHandlerEnds, LiveInv, streamVars, vars, sinkVars
<1>13. ASSUME PipelineCall PROVE SessionInv'
  BY <1>t, <1>13, PipelineFacts DEF PipelineUp, LiveInv, filterVars
<1>14. ASSUME SinkLeave PROVE SessionInv'
  BY <1>t, <1>14 DEF SinkLeave, LeaveClockCall, Start, Stop, LeaveShutdown, Shutdown,
                     LiveInv, SinkCallMeetsLiveStream, filterVars
<1>15. ASSUME SinkDispatch \/ SinkDrain \/ SinkEOS PROVE SessionInv'
  BY <1>1, <1>15, SinkThreadFacts
<1>16. ASSUME UNCHANGED allVars PROVE SessionInv'
  BY <1>1, <1>16 DEF allVars, streamVars, vars, sinkVars, filterVars
<1> QED
  BY <1>2, <1>3, <1>4, <1>5, <1>6, <1>7, <1>8, <1>9, <1>10, <1>11, <1>12, <1>13,
     <1>14, <1>15, <1>16 DEF CapNext, Running, FilterThread, AllDone

-----------------------------------------------------------------------------
(* Frames. *)

\* Only a stream that the clock has started takes samples.
LEMMA NoSampleStep ==
  ASSUME TypeOK, NoSampleInv, SinkCallMeetsLiveStream, [CapNext]_allVars
  PROVE  NoSampleInv'
<1> USE DEF NoSampleInv
<1>1. ASSUME NEW t \in MediaTypes, CreateSink(t) PROVE NoSampleInv'
  BY <1>1, IdleFacts DEF CreateSink, InHand
<1>2. ASSUME HandOver PROVE NoSampleInv'
  BY <1>2, HandOverFacts
<1>3. ASSUME UNCHANGED <<state, sampleQueue, worker, calls>> PROVE NoSampleInv'
  BY <1>3 DEF InHand
<1>4. ASSUME NEW t \in MediaTypes,
             SetFirstMediaType(t) \/ ReplaceMediaType(t) \/ ProcessFormatChange(t)
      PROVE  NoSampleInv'
  BY <1>4 DEF SetFirstMediaType, ReplaceMediaType, ProcessFormatChange, InHand
<1>5. ASSUME NEW kind \in MarkerKinds, PlaceMarker(kind) PROVE NoSampleInv'
  <2> DEFINE item == [kind |-> kind, id |-> lastItem + 1]
  <2>1. item \in Item /\ item.kind \notin SampleKinds
    BY DEF Item, SampleKinds, MarkerKinds, TypeOK
  <2>2. /\ sampleQueue \in Seq(Item) /\ sampleQueue' = Append(sampleQueue, item)
        /\ UNCHANGED <<state, worker, calls>>
    BY <1>5 DEF PlaceMarker, Enqueue, TypeOK
  <2> HIDE DEF item
  <2>3. \A i \in DOMAIN sampleQueue' :
          \/ i \in DOMAIN sampleQueue /\ sampleQueue'[i] = sampleQueue[i]
          \/ sampleQueue'[i] = item
    BY <2>1, <2>2, AppendFacts
  <2> QED BY <2>1, <2>2, <2>3 DEF InHand
<1>6. ASSUME KeepFirstSample \/ \E kind \in SampleKinds : ProcessSample(kind)
      PROVE  NoSampleInv'
  <2>1. calls' = calls /\ "ProcessSample" \in ValidStateMatrix[state]
    BY <1>6 DEF KeepFirstSample, ProcessSample, ValidateOperation
  <2>2. state \notin {"TypeNotSet", "Ready"}
    BY <2>1 DEF ValidStateMatrix, States, Operations
  <2> QED BY <2>1, <2>2
<1>7. ASSUME OnClockStart \/ OnClockStop PROVE NoSampleInv'
  <2>1. \/ calls' = Append(calls, "Started")
        \/ calls' = Append(calls, "Stopped")
    BY <1>7 DEF OnClockStart, Start, OnClockStop, Stop
  <2>2. calls' # <<>>
    BY <2>1 DEF TypeOK
  <2> QED BY <2>2
<1>8. ASSUME Shutdown PROVE NoSampleInv'
  BY <1>8 DEF Shutdown, InHand
<1>9. ASSUME Flush \/ Dispatch PROVE NoSampleInv'
  BY <1>9, IdleFacts DEF Flush, Dispatch, InHand
<1>10. ASSUME DispatchAfterShutdown \/ RunEOSTask PROVE NoSampleInv'
  BY <1>3, <1>10 DEF DispatchAfterShutdown, RunEOSTask
<1>11. ASSUME DrainItem PROVE NoSampleInv'
  <2> SUFFICES ASSUME calls = <<>>
               PROVE  /\ state' \in {"TypeNotSet", "Ready"}
                      /\ ~InHand'
                      /\ \A i \in DOMAIN sampleQueue' :
                           sampleQueue'[i].kind \notin SampleKinds
    BY <1>11, ItemTaken
  <2>1. Head(sampleQueue) = sampleQueue[1] /\ worker \in Worker
    BY <1>11 DEF DrainItem, TypeOK
  <2>2. sampleQueue[1].kind # "sample"
    BY <1>11, ItemTaken DEF SampleKinds
  <2>3. worker'.pc = "drain" /\ state' = state
    BY <1>11, <2>1, <2>2 DEF DrainItem, Worker
  <2> QED BY <1>11, <2>3, ItemTaken DEF InHand
<1>12. ASSUME QueueDrained \/ LockFails \/ PrepareSample PROVE NoSampleInv'
  <2>1. worker'.pc \in {"idle", "drain"}
    BY <1>12, DrainEnded, FrameFacts
       DEF QueueDrained, LockFails, BufferFails, PrepareSample
  <2> QED BY <1>12, <2>1 DEF QueueDrained, LockFails, PrepareSample, InHand
<1> QED
  BY <1>1, <1>2, <1>3, <1>4, <1>5, <1>6, <1>7, <1>8, <1>9, <1>10, <1>11, <1>12,
     StreamSteps DEF Next, Pipeline, WorkQueueThread, Drain, Finished, vars

\* What is older than the stream stays so, from one sink to the next.
LEMMA PastStep ==
  ASSUME TypeOK, OrderInv, SinkCallMeetsLiveStream, [CapNext]_allVars
  PROVE  Past \subseteq Past'
<1> SUFFICES ASSUME NEW n \in Past PROVE n \in Past'
  OBVIOUS
<1> n \in Nat
  BY DEF Past
<1> lastItem \in Nat
  BY DEF TypeOK
<1> USE DEF Past
<1>1. ASSUME NEW t \in MediaTypes, CreateSink(t) PROVE n \in Past'
  BY <1>1, IdleFacts DEF CreateSink, InHand
<1>2. ASSUME worker'.pc \in {"idle", "drain"}, UNCHANGED <<sampleQueue, lastItem>>
      PROVE  n \in Past'
  BY <1>2 DEF InHand
<1>3. ASSUME UNCHANGED <<sampleQueue, worker, lastItem>> PROVE n \in Past'
  BY <1>3 DEF InHand
<1>4. ASSUME HandOver PROVE n \in Past'
  BY <1>2, <1>4, HandOverFacts DEF InHand
<1>5. ASSUME KeepFirstSample PROVE n \in Past'
  BY <1>5 DEF KeepFirstSample, Accept, InHand
<1>6. ASSUME NEW kind \in SampleKinds \cup MarkerKinds \cup {"type"},
             NEW op \in DataOps, Accept, Enqueue(kind, op), worker' = worker
      PROVE  n \in Past'
  BY <1>6, ItemEnqueued DEF InHand
<1>7. ASSUME Shutdown PROVE n \in Past'
  BY <1>7 DEF Shutdown, InHand
<1>8. ASSUME Flush \/ Dispatch PROVE n \in Past'
  BY <1>2, <1>8, IdleFacts DEF Flush, Dispatch
<1>9. ASSUME DrainItem PROVE n \in Past'
  BY <1>9, ItemTaken DEF InHand
<1>10. ASSUME QueueDrained \/ LockFails \/ PrepareSample PROVE n \in Past'
  BY <1>2, <1>10, DrainEnded, FrameFacts
     DEF QueueDrained, LockFails, BufferFails, PrepareSample
<1> QED
  BY <1>1, <1>3, <1>4, <1>5, <1>6, <1>7, <1>8, <1>9, <1>10, StreamSteps
     DEF Next, Pipeline, WorkQueueThread, Drain, Finished, vars, SetFirstMediaType,
         ReplaceMediaType, ProcessFormatChange, ProcessSample, PlaceMarker,
         OnClockStart, Start, OnClockStop, Stop, DispatchAfterShutdown,
         RunEOSTask, DataOps

\* The filter changes the helper's queue and its output, nothing else does but
\* the hand-over of a frame.
LEMMA QueueSteps ==
  ASSUME [CapNext]_allVars
  PROVE  \/ UNCHANGED <<samplesQueue, output, firstItem>>
         \/ Feed \/ FreeSample \/ OnSampleAvailable
         \/ \E t \in MediaTypes : Preprocess(t)
<1>1. CASE UNCHANGED allVars
  BY <1>1 DEF allVars, filterVars
<1>2. CASE CapNext
  BY <1>2 DEF CapNext, Running, AllDone, FilterThread, StartReturns, StopReturns,
              Stopped, Postprocess, PostprocessNotStarted, StartSucceeds,
              StartFails, StartHandler, StopHandlerBegins, StopHandlerEnds,
              PipelineCall, SinkDispatch, SinkDrain, SinkLeave, SinkEOS,
              allVars, filterVars
<1> QED BY <1>1, <1>2

\* A filter is detached when its queue has been emptied, or was never filled; and
\* the queue stays empty.
LEMMA EmptyStep ==
  ASSUME CapInv, [CapNext]_allVars
  PROVE  filter' = "detached" \/ calls' = <<>> => samplesQueue' = <<>>
<1>t. CapTypes /\ ShutdownInv /\ LiveInv /\ SessionInv /\ NoSampleInv /\ FrameInv
  BY DEF CapInv
<1> USE DEF FrameInv
<1>1. ASSUME NEW t \in MediaTypes, Preprocess(t) PROVE samplesQueue' = <<>>
  BY <1>t, <1>1 DEF Preprocess
<1>2. ASSUME samplesQueue' = samplesQueue, calls' = <<>> => calls = <<>>,
             filter' = filter \/ filter' # "detached"
      PROVE  filter' = "detached" \/ calls' = <<>> => samplesQueue' = <<>>
  BY <1>t, <1>2
<1>3. ASSUME StartReturns \/ StopReturns \/ Postprocess \/ StopHandlerEnds
               \/ StartSucceeds \/ StartFails
      PROVE  filter' = "detached" \/ calls' = <<>> => samplesQueue' = <<>>
  BY <1>2, <1>3 DEF StartReturns, StopReturns, Postprocess, StopHandlerEnds,
                    StartSucceeds, StartFails, StartHandler, streamVars, vars
<1>4. ASSUME Feed \/ FreeSample
      PROVE  filter' # "detached" /\ calls' # <<>>
  BY <1>t, <1>4 DEF Feed, FreeSample, streamVars, vars
<1>5. ASSUME Stopped PROVE samplesQueue' = <<>>
  BY <1>5 DEF Stopped
<1>6. ASSUME PostprocessNotStarted PROVE samplesQueue' = <<>>
  BY <1>t, <1>6 DEF PostprocessNotStarted, SessionInv, RunningInv, Failed
<1>7. ASSUME StopHandlerBegins
      PROVE  filter' = "detached" \/ calls' = <<>> => samplesQueue' = <<>>
  BY <1>2, <1>7, StopHandlerFacts DEF streamVars, vars
<1>8. ASSUME PipelineCall
      PROVE  filter' = "detached" \/ calls' = <<>> => samplesQueue' = <<>>
  BY <1>2, <1>8, PipelineFacts DEF filterVars
<1>9. ASSUME SinkLeave
      PROVE  filter' = "detached" \/ calls' = <<>> => samplesQueue' = <<>>
  <2>1. \/ calls' = calls
        \/ calls' = Append(calls, "Started")
        \/ calls' = Append(calls, "Stopped")
    BY <1>9 DEF SinkLeave, LeaveClockCall, Start, Stop, LeaveShutdown, Shutdown
  <2>2. calls \in Seq({"Started", "Stopped"})
    BY <1>t DEF CapTypes, CapTypeOK, TypeOK
  <2>3. calls' = <<>> => calls = <<>>
    BY <2>1, <2>2
  <2> QED BY <1>2, <1>9, <2>3 DEF SinkLeave, filterVars
<1>10. ASSUME OnSampleAvailable PROVE filter' # "detached" /\ calls' # <<>>
  <2>1. InHand
    BY <1>10 DEF OnSampleAvailable, CallCapture, InHand
  <2>2. calls # <<>> /\ ~isShutdown
    BY <1>t, <2>1 DEF NoSampleInv, ShutdownInv, InHand
  <2>3. filter # "detached"
    BY <1>t, <2>2 DEF SessionInv, DetachedInv, Failed
  <2> QED BY <1>10, <2>2, <2>3 DEF OnSampleAvailable, CallCapture
<1>11. ASSUME SinkDispatch \/ SinkEOS \/ (SinkDrain /\ ~OnSampleAvailable)
       PROVE  filter' = "detached" \/ calls' = <<>> => samplesQueue' = <<>>
  <2>1. UNCHANGED filterVars
    BY <1>11 DEF SinkDispatch, SinkEOS, SinkDrain
  <2> QED BY <1>2, <1>11, <2>1, SinkThreadFacts DEF filterVars
<1>12. ASSUME UNCHANGED allVars
       PROVE  filter' = "detached" \/ calls' = <<>> => samplesQueue' = <<>>
  BY <1>2, <1>12 DEF allVars, streamVars, vars, filterVars
<1> QED
  BY <1>1, <1>3, <1>4, <1>5, <1>6, <1>7, <1>8, <1>9, <1>10, <1>11, <1>12
     DEF CapNext, Running, FilterThread, AllDone

\* Frames are numbered upwards, from the first one fed to the last one waiting.
LEMMA FrameStep ==
  ASSUME CapInv, [CapNext]_allVars PROVE FrameInv'
<1>t. /\ CapTypes /\ TypeOK /\ OrderInv /\ FrameInv /\ SinkCallMeetsLiveStream
      /\ samplesQueue \in Seq(Nat) /\ output \in Seq(Nat) /\ firstItem \in Nat
      /\ lastItem \in Nat
  BY FramesAreNumbers DEF CapInv, CapTypes, CapTypeOK, LiveInv, TypeOK
<1>p. Past \subseteq Past'
  BY <1>t, PastStep
<1>n. /\ \A s \in DOMAIN samplesQueue : samplesQueue[s] \in Nat
      /\ \A p \in DOMAIN output : output[p] \in Nat
  BY <1>t
<1>e. filter' = "detached" \/ calls' = <<>> => samplesQueue' = <<>>
  BY EmptyStep
<1>1. CASE UNCHANGED <<samplesQueue, output, firstItem>>
  BY <1>t, <1>p, <1>n, <1>e, <1>1 DEF FrameInv
<1>2. ASSUME NEW t \in MediaTypes, Preprocess(t) PROVE FrameInv'
  <2>1. samplesQueue' = <<>> /\ output' = output /\ firstItem' = lastItem
    BY <1>t, <1>2 DEF Preprocess, FrameInv
  <2>2. firstItem' \in Past'
    BY <1>t, <1>2, <2>1, IdleFacts DEF Preprocess, CreateSink, Past, InHand
  <2>3. \A p \in DOMAIN output' : output'[p] \in Past'
    BY <1>t, <1>p, <1>n, <2>1 DEF FrameInv
  <2> QED BY <1>t, <2>1, <2>2, <2>3 DEF FrameInv
<1>3. ASSUME samplesQueue # <<>>, samplesQueue' = Tail(samplesQueue),
             UNCHANGED firstItem
      PROVE  /\ \A s \in DOMAIN samplesQueue' :
                  /\ s + 1 \in DOMAIN samplesQueue
                  /\ samplesQueue'[s] = samplesQueue[s + 1]
                  /\ 1 < s + 1
             /\ 1 \in DOMAIN samplesQueue
             /\ samplesQueue[1] = Head(samplesQueue)
             /\ firstItem' \in Past'
             /\ \A s \in DOMAIN samplesQueue' :
                  firstItem < samplesQueue'[s] /\ samplesQueue'[s] \in Past'
             /\ \A r, s \in DOMAIN samplesQueue' :
                  r < s => samplesQueue'[r] < samplesQueue'[s]
  <2>1. /\ \A s \in DOMAIN samplesQueue' : /\ s + 1 \in DOMAIN samplesQueue
                                           /\ samplesQueue'[s] = samplesQueue[s + 1]
                                           /\ 1 < s + 1
        /\ \A r, s \in DOMAIN samplesQueue' : r < s => r + 1 < s + 1
        /\ 1 \in DOMAIN samplesQueue
        /\ samplesQueue[1] = Head(samplesQueue)
    BY <1>t, <1>3, TailFacts
  <2> QED BY <1>t, <1>p, <1>n, <1>3, <2>1 DEF FrameInv
<1>4. ASSUME FreeSample PROVE FrameInv'
  <2>1. /\ samplesQueue # <<>> /\ samplesQueue' = Tail(samplesQueue)
        /\ UNCHANGED <<output, firstItem>>
    BY <1>4 DEF FreeSample
  <2>2. \A p \in DOMAIN output' :
          /\ output'[p] \in Past'
          /\ \A s \in DOMAIN samplesQueue' : output'[p] < samplesQueue'[s]
    BY <1>t, <1>p, <1>n, <1>3, <2>1 DEF FrameInv
  <2> QED BY <1>t, <1>e, <1>3, <2>1, <2>2 DEF FrameInv
<1>5. ASSUME Feed PROVE FrameInv'
  <2>0. PICK n \in Nat : n = Head(samplesQueue)
    BY <1>t, <1>5 DEF Feed
  <2>1. /\ samplesQueue # <<>> /\ samplesQueue' = Tail(samplesQueue)
        /\ output' = Append(output, n) /\ UNCHANGED firstItem
    BY <1>5, <2>0 DEF Feed
  <2>2. n \in Nat /\ n \in Past' /\ \A s \in DOMAIN samplesQueue' : n < samplesQueue'[s]
    BY <1>t, <1>p, <1>n, <1>3, <2>0, <2>1 DEF FrameInv
  <2>3. \A p \in DOMAIN output : output[p] < n
    BY <1>t, <1>3, <2>0, <2>1 DEF FrameInv
  <2>4. /\ \A p \in DOMAIN output' :
             \/ p \in DOMAIN output /\ output'[p] = output[p]
             \/ p \notin DOMAIN output /\ output'[p] = n
        /\ \A p, q \in DOMAIN output' : p < q => p \in DOMAIN output
    <3>1. output \in Seq(Nat) /\ n \in Nat
      BY <1>t, <2>2
    <3>2. /\ \A p \in DOMAIN Append(output, n) :
               \/ p \in DOMAIN output /\ Append(output, n)[p] = output[p]
               \/ p \notin DOMAIN output /\ Append(output, n)[p] = n
          /\ \A p, q \in DOMAIN Append(output, n) : p < q => p \in DOMAIN output
      BY <3>1, AppendFacts
    <3> QED BY <2>1, <3>2, Zenon
  <2>5. \A p \in DOMAIN output' :
          /\ output'[p] \in Past'
          /\ \A s \in DOMAIN samplesQueue' : output'[p] < samplesQueue'[s]
    <3>1. \A p \in DOMAIN output :
            /\ output[p] \in Past'
            /\ \A s \in DOMAIN samplesQueue' : output[p] < samplesQueue'[s]
      BY <1>t, <1>p, <1>3, <2>1 DEF FrameInv
    <3> QED BY <2>2, <2>4, <3>1
  <2>6. \A p, q \in DOMAIN output' : p < q => output'[p] < output'[q]
    BY <1>t, <2>3, <2>4 DEF FrameInv
  <2> QED BY <1>t, <1>e, <1>3, <2>1, <2>5, <2>6 DEF FrameInv
<1>6. ASSUME OnSampleAvailable PROVE FrameInv'
  <2>0. PICK n : n = worker.item.id
    OBVIOUS
  <2>1. /\ samplesQueue' = Append(samplesQueue, n)
        /\ UNCHANGED <<output, firstItem, sampleQueue, lastItem>>
        /\ InHand
    BY <1>6, <2>0 DEF OnSampleAvailable, CallCapture, InHand
  <2>2. worker'.pc \in {"idle", "drain"}
    BY <1>t, <1>6, FrameFacts, DrainEnded DEF OnSampleAvailable, CallCapture
  <2>3. /\ n \in Nat /\ n <= lastItem
        /\ \A i \in DOMAIN sampleQueue : n < sampleQueue[i].id
        /\ firstItem < n
        /\ \A s \in DOMAIN samplesQueue : samplesQueue[s] < n
        /\ \A p \in DOMAIN output : output[p] < n
    BY <1>t, <2>0, <2>1 DEF OrderInv, FrameInv, Past
  <2>4. n \in Past'
    BY <2>1, <2>2, <2>3 DEF Past, InHand
  <2>5. /\ \A s \in DOMAIN samplesQueue' :
             \/ s \in DOMAIN samplesQueue /\ samplesQueue'[s] = samplesQueue[s]
             \/ s \notin DOMAIN samplesQueue /\ samplesQueue'[s] = n
        /\ \A r, s \in DOMAIN samplesQueue' : r < s => r \in DOMAIN samplesQueue
    <3>1. samplesQueue \in Seq(Nat) /\ n \in Nat
      BY <1>t, <2>3
    <3>2. /\ \A s \in DOMAIN Append(samplesQueue, n) :
               \/ s \in DOMAIN samplesQueue /\ Append(samplesQueue, n)[s] = samplesQueue[s]
               \/ s \notin DOMAIN samplesQueue /\ Append(samplesQueue, n)[s] = n
          /\ \A r, s \in DOMAIN Append(samplesQueue, n) : r < s => r \in DOMAIN samplesQueue
      BY <3>1, AppendFacts
    <3> QED BY <2>1, <3>2, Zenon
  <2>6. \A s \in DOMAIN samplesQueue' :
          firstItem < samplesQueue'[s] /\ samplesQueue'[s] \in Past'
    BY <1>t, <1>p, <1>n, <2>3, <2>4, <2>5 DEF FrameInv
  <2>7. \A r, s \in DOMAIN samplesQueue' : r < s => samplesQueue'[r] < samplesQueue'[s]
    BY <1>t, <2>3, <2>5 DEF FrameInv
  <2>8. \A p \in DOMAIN output' :
          /\ output'[p] \in Past'
          /\ \A s \in DOMAIN samplesQueue' : output'[p] < samplesQueue'[s]
    BY <1>t, <1>p, <1>n, <2>1, <2>3, <2>5 DEF FrameInv
  <2>9. firstItem' \in Past' /\ output' = output /\ firstItem' = firstItem
    BY <1>t, <1>p, <2>1 DEF FrameInv
  <2>10. \A p, q \in DOMAIN output' : p < q => output'[p] < output'[q]
    BY <1>t, <2>9 DEF FrameInv
  <2> QED BY <1>e, <2>6, <2>7, <2>8, <2>9, <2>10 DEF FrameInv
<1> QED BY <1>1, <1>2, <1>4, <1>5, <1>6, QueueSteps

\* Between the sink and the filter's output a frame is always in the queue.
LEMMA NoFrameLostStep ==
  ASSUME CapTypes, SinkCallMeetsLiveStream, NoFrameLost, [CapNext]_allVars
  PROVE  NoFrameLost'
<1>t. /\ TypeOK /\ samplesQueue \in Seq(Nat) /\ output \in Seq(Nat)
      /\ delivered \in Seq(Nat) /\ worker.item.id \in Nat
  BY FramesAreNumbers DEF CapTypes, TypeOK, Worker, Item
<1>1. ASSUME UNCHANGED <<samplesQueue, output, delivered>>,
             filter' \in {"starting", "running"} => filter \in {"starting", "running"}
      PROVE  NoFrameLost'
  BY <1>1 DEF NoFrameLost
<1>2. ASSUME NEW t \in MediaTypes, Preprocess(t) PROVE NoFrameLost'
  BY <1>2 DEF Preprocess, CreateSink, NoFrameLost
<1>3. ASSUME Feed PROVE NoFrameLost'
  <2>0. PICK n \in Nat : n = Head(samplesQueue)
    BY <1>t, <1>3 DEF Feed
  <2>1. /\ samplesQueue # <<>> /\ samplesQueue' = Tail(samplesQueue)
        /\ output' = Append(output, n) /\ delivered' = delivered
        /\ filter = "running"
    BY <1>3, <2>0 DEF Feed, streamVars, vars
  <2>2. \A i \in DOMAIN samplesQueue :
          \/ samplesQueue[i] = n
          \/ \E k \in DOMAIN samplesQueue' : samplesQueue'[k] = samplesQueue[i]
    BY <1>t, <2>0, <2>1, TailFacts
  <2>3. /\ \A i \in DOMAIN output : i \in DOMAIN output' /\ output'[i] = output[i]
        /\ \E i \in DOMAIN output' : output'[i] = n
    <3>1. /\ \A i \in DOMAIN output : /\ i \in DOMAIN Append(output, n)
                                      /\ Append(output, n)[i] = output[i]
          /\ \E i \in DOMAIN Append(output, n) : Append(output, n)[i] = n
      BY <1>t, AppendFacts
    <3> QED BY <2>1, <3>1, Zenon
  <2> SUFFICES ASSUME NEW d \in DOMAIN delivered
               PROVE  \/ \E i \in DOMAIN samplesQueue' : samplesQueue'[i] = delivered[d]
                      \/ \E i \in DOMAIN output' : output'[i] = delivered[d]
    BY <2>1 DEF NoFrameLost
  <2>4. CASE \E i \in DOMAIN samplesQueue : samplesQueue[i] = delivered[d]
    BY <2>2, <2>3, <2>4
  <2>5. CASE \E i \in DOMAIN output : output[i] = delivered[d]
    BY <2>3, <2>5
  <2> QED BY <2>1, <2>4, <2>5 DEF NoFrameLost
<1>4. ASSUME OnSampleAvailable PROVE NoFrameLost'
  <2>0. PICK n \in Nat : n = worker.item.id
    BY <1>t
  <2>1. /\ samplesQueue' = Append(samplesQueue, n)
        /\ delivered' = Append(delivered, n)
        /\ UNCHANGED <<filter, output>>
    BY <1>4, <2>0 DEF OnSampleAvailable, CallCapture
  <2>2. /\ \A i \in DOMAIN samplesQueue : /\ i \in DOMAIN samplesQueue'
                                          /\ samplesQueue'[i] = samplesQueue[i]
        /\ \E i \in DOMAIN samplesQueue' : samplesQueue'[i] = n
    <3>1. /\ \A i \in DOMAIN samplesQueue :
               /\ i \in DOMAIN Append(samplesQueue, n)
               /\ Append(samplesQueue, n)[i] = samplesQueue[i]
          /\ \E i \in DOMAIN Append(samplesQueue, n) : Append(samplesQueue, n)[i] = n
      BY <1>t, AppendFacts
    <3> QED BY <2>1, <3>1, Zenon
  <2>3. \A d \in DOMAIN delivered' :
          \/ d \in DOMAIN delivered /\ delivered'[d] = delivered[d]
          \/ delivered'[d] = n
    BY <1>t, <2>1, AppendFacts
  <2> QED BY <2>1, <2>2, <2>3 DEF NoFrameLost
<1>5. ASSUME StartReturns \/ StopReturns \/ Postprocess \/ PostprocessNotStarted
               \/ Stopped \/ StartSucceeds \/ StartFails \/ StopHandlerEnds
      PROVE  NoFrameLost'
  BY <1>1, <1>5 DEF StartReturns, StopReturns, Postprocess, PostprocessNotStarted,
                    Stopped, StartSucceeds, StartFails, StartHandler,
                    StopHandlerEnds, streamVars, vars
<1>6. ASSUME FreeSample PROVE NoFrameLost'
  BY <1>6 DEF FreeSample, NoFrameLost
<1>7. ASSUME StopHandlerBegins PROVE NoFrameLost'
  BY <1>1, <1>7, StopHandlerFacts DEF streamVars, vars
<1>8. ASSUME PipelineCall PROVE NoFrameLost'
  <2>1. delivered' = delivered
    BY <1>8, PipelineFacts
       DEF StreamPipelineCall, ReplaceMediaType, ProcessFormatChange,
           KeepFirstSample, ProcessSample, PlaceMarker, Flush, streamVars, vars
  <2> QED BY <1>1, <1>8, <2>1, PipelineFacts DEF filterVars
<1>9. ASSUME SinkLeave PROVE NoFrameLost'
  BY <1>1, <1>9 DEF SinkLeave, LeaveClockCall, Start, Stop, LeaveShutdown, Shutdown,
                    filterVars
<1>10. ASSUME SinkDispatch \/ SinkEOS PROVE NoFrameLost'
  BY <1>1, <1>10 DEF SinkDispatch, StreamDispatch, Dispatch, DispatchAfterShutdown,
                     SinkEOS, ReportEndOfStream, RunEOSTask, filterVars
<1>11. ASSUME StreamDrain \/ CallNullCapture, UNCHANGED filterVars PROVE NoFrameLost'
  BY <1>1, <1>11 DEF StreamDrain, DrainItem, QueueDrained, LockFails, NoCapture,
                     TestCapture, CallNullCapture, streamVars, vars, filterVars
<1>12. ASSUME UNCHANGED allVars PROVE NoFrameLost'
  BY <1>1, <1>12 DEF allVars, streamVars, vars, filterVars
<1> QED
  BY <1>2, <1>3, <1>4, <1>5, <1>6, <1>7, <1>8, <1>9, <1>10, <1>11, <1>12
     DEF CapNext, Running, FilterThread, SinkDrain, AllDone

-----------------------------------------------------------------------------
LEMMA InitCapInv == CapInit => CapInv
<1> SUFFICES ASSUME CapInit PROVE CapInv
  OBVIOUS
<1>1. CapTypes
  BY CapInitTypeOK
<1>2. /\ worker.pc = "idle" /\ sampleQueue = <<>> /\ state = "TypeNotSet"
      /\ isShutdown = FALSE /\ calls = <<>> /\ delivered = <<>> /\ lastItem = 0
  BY IdleFacts DEF CapInit, Init
<1>3. ShutdownInv /\ OrderInv /\ NoSampleInv
  BY <1>2 DEF ShutdownInv, OrderInv, NoSampleInv, InHand
<1>4. LiveInv /\ SessionInv
  BY <1>2 DEF CapInit, LiveInv, SinkCallMeetsLiveStream, SessionInv, DetachedInv
<1>5. FrameInv /\ NoFrameLost
  BY <1>2 DEF CapInit, FrameInv, Past, InHand, NoFrameLost
<1> QED BY <1>1, <1>3, <1>4, <1>5 DEF CapInv

(* The invariant of the filter, its helper and the sinks is inductive: it holds *)
(* over any number of capture sessions.                                         *)
THEOREM CaptureInvariance == CapSpec => []CapInv
<1>1. CapInv /\ [CapNext]_allVars => CapInv'
  <2> SUFFICES ASSUME CapInv, [CapNext]_allVars PROVE CapInv'
    OBVIOUS
  <2>1. /\ CapTypes /\ TypeOK /\ ShutdownInv /\ OrderInv /\ LiveInv
        /\ SinkCallMeetsLiveStream /\ SessionInv /\ NoSampleInv /\ NoFrameLost
    BY DEF CapInv, CapTypes, CapTypeOK, LiveInv
  <2>2. CapTypes' /\ ShutdownInv' /\ OrderInv'
    BY <2>1, CapStepTypeOK, CapShutdownStep, CapOrderStep
  <2>3. LiveInv' /\ SessionInv'
    BY <2>1, LiveStep, SessionStep
  <2>4. NoSampleInv' /\ FrameInv' /\ NoFrameLost'
    BY <2>1, NoSampleStep, FrameStep, NoFrameLostStep
  <2> QED BY <2>2, <2>3, <2>4 DEF CapInv
<1> QED BY <1>1, InitCapInv, PTL DEF CapSpec

(* Every variable of the filter, the helper and the sink has its type. *)
THEOREM CaptureTypes == CapSpec => []CapTypeOK
<1>1. CapInv => CapTypeOK
  BY DEF CapInv, CapTypes
<1> QED BY <1>1, CaptureInvariance, PTL

(* A method of the sink that has passed its check for shutdown finds the stream *)
(* alive when it gets the stream's critical section, however late.              *)
THEOREM SinkCallsReachLiveStream == CapSpec => []SinkCallMeetsLiveStream
<1>1. CapInv => SinkCallMeetsLiveStream
  BY DEF CapInv, LiveInv
<1> QED BY <1>1, CaptureInvariance, PTL

(* When StopCapture has returned no frame is on its way: the queue that stop()  *)
(* empties stays empty and no frame of a session is fed in the next one.        *)
THEOREM StoppingIsBarrier == CapSpec => []StopIsBarrier
<1>1. CapInv => StopIsBarrier
  <2> SUFFICES ASSUME CapInv PROVE StopIsBarrier
    OBVIOUS
  <2>1. filter = "draining" => isShutdown /\ worker.pc = "idle" /\ sampleQueue = <<>>
    BY DEF CapInv, SessionInv, DrainingInv, ShutdownInv
  <2>2. /\ filter = "detached" => samplesQueue = <<>>
        /\ \A i \in DOMAIN samplesQueue : firstItem < samplesQueue[i]
    BY DEF CapInv, FrameInv
  <2>3. firstItem \in Nat /\ \A i \in DOMAIN samplesQueue : samplesQueue[i] \in Nat
    BY FramesAreNumbers DEF CapInv, CapTypes, CapTypeOK
  <2> QED BY <2>1, <2>2, <2>3 DEF StopIsBarrier
<1> QED BY <1>1, CaptureInvariance, PTL

(* Positions of two sequences, one behind the other. *)
LEMMA ConcatFacts ==
  ASSUME NEW r \in Seq(Nat), NEW s \in Seq(Nat),
         \A i, j \in DOMAIN r : i < j => r[i] < r[j],
         \A i, j \in DOMAIN s : i < j => s[i] < s[j],
         \A i \in DOMAIN r, j \in DOMAIN s : r[i] < s[j],
         NEW i \in DOMAIN (r \o s), NEW j \in DOMAIN (r \o s), i < j
  PROVE  (r \o s)[i] < (r \o s)[j]
<1>1. i \in 1..(Len(r) + Len(s)) /\ j \in 1..(Len(r) + Len(s))
  OBVIOUS
<1>2. CASE j <= Len(r)
  BY <1>1, <1>2
<1>3. CASE i <= Len(r) /\ ~(j <= Len(r))
  BY <1>1, <1>3
<1>4. CASE ~(i <= Len(r)) /\ ~(j <= Len(r))
  <2>1. /\ i - Len(r) \in DOMAIN s /\ j - Len(r) \in DOMAIN s
        /\ i - Len(r) < j - Len(r)
    BY <1>1, <1>4
  <2>2. s[i - Len(r)] < s[j - Len(r)]
    BY <2>1
  <2> QED BY <1>1, <1>4, <2>2
<1> QED BY <1>1, <1>2, <1>3, <1>4

(* The filter feeds frames in the order of their capture and none twice, over   *)
(* all its sessions.                                                            *)
THEOREM FramesFedInOrder == CapSpec => []OutputInOrder
<1>1. CapInv => OutputInOrder
  <2> SUFFICES ASSUME CapInv,
                      NEW i \in DOMAIN (output \o samplesQueue),
                      NEW j \in DOMAIN (output \o samplesQueue), i < j
               PROVE  (output \o samplesQueue)[i] < (output \o samplesQueue)[j]
    BY DEF OutputInOrder
  <2>1. output \in Seq(Nat) /\ samplesQueue \in Seq(Nat)
    BY FramesAreNumbers DEF CapInv, CapTypes
  <2>2. /\ \A p, q \in DOMAIN output : p < q => output[p] < output[q]
        /\ \A r, s \in DOMAIN samplesQueue : r < s => samplesQueue[r] < samplesQueue[s]
        /\ \A p \in DOMAIN output, s \in DOMAIN samplesQueue : output[p] < samplesQueue[s]
    BY DEF CapInv, FrameInv
  <2> QED BY <2>1, <2>2, ConcatFacts
<1> QED BY <1>1, CaptureInvariance, PTL

(* While the filter runs, each frame that the sink has handed over waits in the *)
(* helper's queue or has been fed.                                              *)
THEOREM FramesKept == CapSpec => []NoFrameLost
<1>1. CapInv => NoFrameLost
  BY DEF CapInv
<1> QED BY <1>1, CaptureInvariance, PTL
=============================================================================
