------------------------------ MODULE StreamSink ------------------------------
(***************************************************************************)
(* MSWinRTStreamSink: the stream object through which the Media Foundation *)
(* pipeline hands captured frames to the plugin.                           *)
(*                                                                         *)
(* Pipeline threads call the IMFStreamSink methods; each runs entirely     *)
(* under the stream's critical section, so each is one action.  Samples,   *)
(* markers and format changes are put in _SampleQueue, and for each one an *)
(* operation is put on a serial Media Foundation work queue.  The work     *)
(* queue thread takes one operation at a time and, for a data operation,   *)
(* drains the WHOLE queue.  It holds the critical section throughout, but  *)
(* calls out of the object for every frame, so a drain is many actions and *)
(* the lock is held in between.                                            *)
(***************************************************************************)
EXTENDS Naturals, Sequences, FiniteSets

CONSTANTS
  MediaTypes,     \* the media types the pipeline may propose
  FrameFormat,    \* the (subtype, frame size) pair of each media type
  NoType,         \* _spCurrentType == nullptr
  MaxItems,       \* bound: samples, markers and format changes handed in
  MaxClockCalls,  \* bound: Start and Stop calls
  MaxFaults       \* bound: media buffers that fail to lock or unlock

ASSUME MediaTypesAssumption == NoType \notin MediaTypes
ASSUME BoundsAssumption ==
  MaxItems \in Nat /\ MaxClockCalls \in Nat /\ MaxFaults \in Nat

VARIABLES
  state,         \* _state
  isShutdown,    \* _IsShutdown; the event queue and _spSink go with it
  currentType,   \* _spCurrentType
  waitingFirst,  \* _fWaitingForFirstSample
  firstSample,   \* _spFirstVideoSample: the item's number, 0 for null
  sampleQueue,   \* _SampleQueue
  workQueue,     \* operations put with MFPutWorkItem2 and not yet begun
  worker,        \* the thread inside ProcessSamplesFromQueue: the work queue's
                 \* in OnDispatchWorkItem, or the pipeline's in Flush
  eosTasks,      \* ReportEndOfStream tasks spawned and not yet run
  requests,      \* external: RequestSample events the pipeline has not answered
  events,        \* history: the other events, in the order they were queued
  calls,         \* history: the accepted Start and Stop calls
  lastItem,      \* history: items accepted so far; numbers the next one
  delivered,     \* history: numbers of the frames handed to the media sink
  faults         \* history: buffers that failed

vars == <<state, isShutdown, currentType, waitingFirst, firstSample,
          sampleQueue, workQueue, worker, eosTasks, requests, events, calls,
          lastItem, delivered, faults>>

-----------------------------------------------------------------------------
States == {"TypeNotSet", "Ready", "Started", "Stopped", "Paused"}

Operations == {"SetMediaType", "Start", "Restart", "Pause", "Stop",
               "ProcessSample", "PlaceMarker"}

\* Rows are found by the value of the State enumeration, which declares
\* State_Stopped before State_Paused; the table's last two rows are written
\* (and commented) in the other order.
ValidStateMatrix ==
  [s \in States |->
     CASE s = "TypeNotSet" -> {"SetMediaType"}
       [] s = "Ready"   -> Operations \ {"Restart", "ProcessSample"}
       [] s = "Started" -> Operations \ {"Restart"}
       [] s = "Stopped" -> Operations
       [] s = "Paused"  -> Operations \ {"Restart", "Pause", "ProcessSample"}]

ValidateOperation(op) == op \in ValidStateMatrix[state]

\* What _SampleQueue holds.  An "early" sample has a negative time stamp; "eos"
\* is an end-of-segment marker.
SampleKinds == {"sample", "early"}
MarkerKinds == {"marker", "eos"}
Item == [kind : SampleKinds \cup MarkerKinds \cup {"type"}, id : Nat]

\* Operations put on the work queue, with a history tag: the number of the item,
\* or of the Start or Stop call, that an operation was queued for.
DataOps == {"ProcessSample", "PlaceMarker", "SetMediaType"}
ClockOps == {"Start", "Stop"}
Work == [op : DataOps \cup ClockOps \cup {"Flush"}, id : Nat]

Event == [type : {"Started", "Stopped", "Marker"}, id : Nat]

NoItem == [kind |-> "type", id |-> 0]
FlushWork == [op |-> "Flush", id |-> 0]

\* "drain": at the head of ProcessSamplesFromQueue's loop; "prepare": inside
\* PrepareSample; "call": about to call the capture helper (see MediaSink).
IdleWorker == [pc |-> "idle", work |-> FlushWork, item |-> NoItem, eos |-> FALSE]

Busy(work) == [IdleWorker EXCEPT !.pc = "drain", !.work = work]

\* Mutant: the methods do not take the critical section.
NoStreamLock == TRUE

\* The critical section is held only between the actions of a drain.
StreamLockFree == worker.pc = "idle"

Init ==
  /\ state = "TypeNotSet"
  /\ isShutdown = FALSE
  /\ currentType = NoType
  /\ waitingFirst = FALSE
  /\ firstSample = 0
  /\ sampleQueue = <<>>
  /\ workQueue = <<>>
  /\ worker = IdleWorker
  /\ eosTasks = 0
  /\ requests = 0
  /\ events = <<>>
  /\ calls = <<>>
  /\ lastItem = 0
  /\ delivered = <<>>
  /\ faults = 0

-----------------------------------------------------------------------------
(* The methods the pipeline calls. *)

QueueAsyncOperation(op, id) ==
  workQueue' = Append(workQueue, [op |-> op, id |-> id])

\* Mutant: InsertFront for InsertBack.
EnqueueAtFront(kind, op) ==
  /\ sampleQueue' = <<[kind |-> kind, id |-> lastItem + 1]>> \o sampleQueue
  /\ QueueAsyncOperation(op, lastItem + 1)

\* Mutant: no operation for an item that joins others, since a drain takes all.
EnqueueBehindOthers(kind, op) ==
  /\ sampleQueue' = Append(sampleQueue, [kind |-> kind, id |-> lastItem + 1])
  /\ IF sampleQueue = <<>> THEN QueueAsyncOperation(op, lastItem + 1)
                           ELSE UNCHANGED workQueue

Enqueue(kind, op) ==
  /\ sampleQueue' = Append(sampleQueue, [kind |-> kind, id |-> lastItem + 1])
  /\ QueueAsyncOperation(op, lastItem + 1)

Accept ==
  /\ StreamLockFree
  /\ ~isShutdown
  /\ lastItem < MaxItems
  /\ lastItem' = lastItem + 1

\* Two types are interchangeable when subtype and frame size agree.
IsMediaTypeSupported(t) ==
  currentType # NoType /\ FrameFormat[t] = FrameFormat[currentType]

\* The first type makes the stream ready.
SetFirstMediaType(t) ==
  /\ StreamLockFree
  /\ ~isShutdown
  /\ ValidateOperation("SetMediaType")
  /\ state = "TypeNotSet"
  /\ currentType' = t
  /\ state' = "Ready"
  /\ UNCHANGED <<isShutdown, waitingFirst, firstSample, sampleQueue, workQueue,
                 worker, eosTasks, requests, events, calls, lastItem,
                 delivered, faults>>

\* A later one must be supported; before streaming it only replaces the type.
ReplaceMediaType(t) ==
  /\ StreamLockFree
  /\ ~isShutdown
  /\ ValidateOperation("SetMediaType")
  /\ state = "Ready"
  /\ IsMediaTypeSupported(t)
  /\ currentType' = t
  /\ UNCHANGED <<state, isShutdown, waitingFirst, firstSample, sampleQueue,
                 workQueue, worker, eosTasks, requests, events, calls,
                 lastItem, delivered, faults>>

\* While streaming it is queued behind the samples (ProcessFormatChange).
ProcessFormatChange(t) ==
  /\ Accept
  /\ ValidateOperation("SetMediaType")
  /\ state \notin {"TypeNotSet", "Ready"}
  /\ IsMediaTypeSupported(t)
  /\ currentType' = t
  /\ Enqueue("type", "SetMediaType")
  /\ UNCHANGED <<state, isShutdown, waitingFirst, firstSample, worker,
                 eosTasks, requests, events, calls, delivered, faults>>

\* External: the pipeline delivers a sample only in answer to a request.
Requested == requests > 0

\* The first sample after a start is set aside in _spFirstVideoSample and another is requested.
KeepFirstSample ==
  /\ Accept
  /\ Requested
  /\ ValidateOperation("ProcessSample")
  /\ waitingFirst
  /\ firstSample' = lastItem + 1
  /\ waitingFirst' = FALSE
  /\ UNCHANGED <<state, isShutdown, currentType, sampleQueue, workQueue,
                 worker, eosTasks, requests, events, calls, delivered, faults>>

ProcessSample(kind) ==
  /\ Accept
  /\ Requested
  /\ ValidateOperation("ProcessSample")
  /\ ~waitingFirst
  /\ requests' = requests - 1
  /\ Enqueue(kind, "ProcessSample")
  /\ UNCHANGED <<state, isShutdown, currentType, waitingFirst, firstSample,
                 worker, eosTasks, events, calls, delivered, faults>>

PlaceMarker(kind) ==
  /\ Accept
  /\ ValidateOperation("PlaceMarker")
  /\ Enqueue(kind, "PlaceMarker")
  /\ UNCHANGED <<state, isShutdown, currentType, waitingFirst, firstSample,
                 worker, eosTasks, requests, events, calls, delivered, faults>>

\* Start and Stop do not look at _IsShutdown: their caller does.
Start ==
  /\ StreamLockFree
  /\ ValidateOperation("Start")
  /\ Len(calls) < MaxClockCalls
  /\ state' = "Started"
  /\ waitingFirst' = TRUE
  /\ QueueAsyncOperation("Start", Len(calls) + 1)
  /\ calls' = Append(calls, "Started")
  /\ UNCHANGED <<isShutdown, currentType, firstSample, sampleQueue, worker,
                 eosTasks, requests, events, lastItem, delivered, faults>>

\* Mutant: a stop is announced from the call itself.
StopAtOnce ==
  /\ StreamLockFree
  /\ ValidateOperation("Stop")
  /\ Len(calls) < MaxClockCalls
  /\ state' = "Stopped"
  /\ events' = Append(events, [type |-> "Stopped", id |-> Len(calls) + 1])
  /\ calls' = Append(calls, "Stopped")
  /\ UNCHANGED <<isShutdown, currentType, waitingFirst, firstSample,
                 sampleQueue, workQueue, worker, eosTasks, requests, lastItem,
                 delivered, faults>>

Stop ==
  /\ StreamLockFree
  /\ ValidateOperation("Stop")
  /\ Len(calls) < MaxClockCalls
  /\ state' = "Stopped"
  /\ QueueAsyncOperation("Stop", Len(calls) + 1)
  /\ calls' = Append(calls, "Stopped")
  /\ UNCHANGED <<isShutdown, currentType, waitingFirst, firstSample,
                 sampleQueue, worker, eosTasks, requests, events, lastItem,
                 delivered, faults>>

\* Operations still on the work queue stay there: MFUnlockWorkQueue only
\* refuses new ones.
Shutdown ==
  /\ StreamLockFree
  /\ ~isShutdown
  /\ isShutdown' = TRUE
  /\ sampleQueue' = <<>>
  /\ currentType' = NoType
  /\ UNCHANGED <<state, waitingFirst, firstSample, workQueue, worker, eosTasks,
                 requests, events, calls, lastItem, delivered, faults>>

\* The pipeline's thread empties the queue without handing samples on.
Flush ==
  /\ StreamLockFree
  /\ ~isShutdown
  /\ worker' = Busy(FlushWork)
  /\ UNCHANGED <<state, isShutdown, currentType, waitingFirst, firstSample,
                 sampleQueue, workQueue, eosTasks, requests, events, calls,
                 lastItem, delivered, faults>>

-----------------------------------------------------------------------------
(* The work queue thread: OnDispatchWorkItem, ProcessSamplesFromQueue.  A stop *)
(* and a flush drop the samples, the other operations hand them on.            *)

\* OpStart announces itself before it sends what is queued.
Dispatch ==
  /\ StreamLockFree
  /\ workQueue # <<>>
  /\ ~isShutdown
  /\ workQueue' = Tail(workQueue)
  /\ worker' = Busy(Head(workQueue))
  /\ events' = IF Head(workQueue).op = "Start"
                 THEN Append(events, [type |-> "Started", id |-> Head(workQueue).id])
                 ELSE events
  /\ UNCHANGED <<state, isShutdown, currentType, waitingFirst, firstSample,
                 sampleQueue, eosTasks, requests, calls, lastItem, delivered,
                 faults>>

\* The queue is empty and QueueEvent fails, and so does HandleError's.
DispatchAfterShutdown ==
  /\ StreamLockFree
  /\ workQueue # <<>>
  /\ isShutdown
  /\ workQueue' = Tail(workQueue)
  /\ UNCHANGED <<state, isShutdown, currentType, waitingFirst, firstSample,
                 sampleQueue, worker, eosTasks, requests, events, calls,
                 lastItem, delivered, faults>>

Flushing == worker.work.op \in {"Stop", "Flush"}

\* Mutant: a flush drops the markers with the samples.
DrainItemLosingMarkers ==
  /\ worker.pc = "drain"
  /\ sampleQueue # <<>>
  /\ LET item == Head(sampleQueue) IN
       /\ worker' = IF item.kind = "sample" /\ ~Flushing
                      THEN [worker EXCEPT !.pc = "prepare", !.item = item]
                      ELSE worker
       /\ events' = IF item.kind \in MarkerKinds /\ ~Flushing
                      THEN Append(events, [type |-> "Marker", id |-> item.id])
                      ELSE events
  /\ sampleQueue' = Tail(sampleQueue)
  /\ UNCHANGED <<state, isShutdown, currentType, waitingFirst, firstSample,
                 workQueue, eosTasks, requests, calls, lastItem, delivered,
                 faults>>

\* Mutant: the loop lets go of the item before it prepares it.
DrainItemReleased ==
  /\ worker.pc = "drain"
  /\ sampleQueue # <<>>
  /\ LET item == Head(sampleQueue) IN
       /\ worker' = IF item.kind = "sample" /\ ~Flushing
                      THEN [worker EXCEPT !.pc = "prepare"]
                      ELSE [worker EXCEPT !.eos = @ \/ item.kind = "eos"]
       /\ events' = IF item.kind \in MarkerKinds
                      THEN Append(events, [type |-> "Marker", id |-> item.id])
                      ELSE events
  /\ sampleQueue' = Tail(sampleQueue)
  /\ UNCHANGED <<state, isShutdown, currentType, waitingFirst, firstSample,
                 workQueue, eosTasks, requests, calls, lastItem, delivered,
                 faults>>

\* A sample to hand on goes through PrepareSample; one before time zero, one
\* being flushed and a media type are let go; a marker is announced.
DrainItem ==
  /\ worker.pc = "drain"
  /\ sampleQueue # <<>>
  /\ LET item == Head(sampleQueue) IN
       /\ worker' = IF item.kind = "sample" /\ ~Flushing
                      THEN [worker EXCEPT !.pc = "prepare", !.item = item]
                      ELSE [worker EXCEPT !.eos = @ \/ item.kind = "eos"]
       /\ events' = IF item.kind \in MarkerKinds
                      THEN Append(events, [type |-> "Marker", id |-> item.id])
                      ELSE events
  /\ sampleQueue' = Tail(sampleQueue)
  /\ UNCHANGED <<state, isShutdown, currentType, waitingFirst, firstSample,
                 workQueue, eosTasks, requests, calls, lastItem, delivered,
                 faults>>

AsksForMore(work) == work.op \in {"Start", "ProcessSample"}

\* Mutant: the start of the stream asks for no sample.
EndDrainSilently(needMore) ==
  /\ worker' = IdleWorker
  /\ eosTasks' = IF worker.eos THEN eosTasks + 1 ELSE eosTasks
  /\ requests' = IF needMore /\ worker.work.op = "ProcessSample"
                   THEN requests + 1
                   ELSE requests
  /\ events' = IF worker.work.op = "Stop"
                 THEN Append(events, [type |-> "Stopped", id |-> worker.work.id])
                 ELSE events

\* Mutant: every operation that leaves the queue empty asks for a sample.
EndDrainAsking(needMore) ==
  /\ worker' = IdleWorker
  /\ eosTasks' = IF worker.eos THEN eosTasks + 1 ELSE eosTasks
  /\ requests' = IF needMore THEN requests + 1 ELSE requests
  /\ events' = IF worker.work.op = "Stop"
                 THEN Append(events, [type |-> "Stopped", id |-> worker.work.id])
                 ELSE events

\* The end of the loop and of the operation.  However many end-of-segment
\* markers were met, one task reports them; another sample is asked for only
\* when the queue ran dry.
EndDrain(needMore) ==
  /\ worker' = IdleWorker
  /\ eosTasks' = IF worker.eos THEN eosTasks + 1 ELSE eosTasks
  /\ requests' = IF needMore /\ AsksForMore(worker.work)
                   THEN requests + 1
                   ELSE requests
  /\ events' = IF worker.work.op = "Stop"
                 THEN Append(events, [type |-> "Stopped", id |-> worker.work.id])
                 ELSE events

QueueDrained ==
  /\ worker.pc = "drain"
  /\ sampleQueue = <<>>
  /\ EndDrain(TRUE)
  /\ UNCHANGED <<state, isShutdown, currentType, waitingFirst, firstSample,
                 sampleQueue, workQueue, calls, lastItem, delivered, faults>>

\* A buffer that cannot be locked or unlocked fails PrepareSample, which ends
\* the drain with items left in the queue.
BufferFails ==
  /\ faults < MaxFaults
  /\ faults' = faults + 1
  /\ EndDrain(FALSE)

LockFails ==
  /\ worker.pc = "prepare"
  /\ BufferFails
  /\ UNCHANGED <<state, isShutdown, currentType, waitingFirst, firstSample,
                 sampleQueue, workQueue, calls, lastItem, delivered>>

\* After the frame was handed on: back to the loop, or out of it if Unlock fails.
FrameDone ==
  \/ /\ worker' = [worker EXCEPT !.pc = "drain", !.item = NoItem]
     /\ UNCHANGED <<eosTasks, requests, events, faults>>
  \/ BufferFails

PrepareSample ==
  /\ worker.pc = "prepare"
  /\ delivered' = Append(delivered, worker.item.id)
  /\ FrameDone
  /\ UNCHANGED <<state, isShutdown, currentType, waitingFirst, firstSample,
                 sampleQueue, workQueue, calls, lastItem>>

-----------------------------------------------------------------------------
(* The stream on its own, called as the media sink and the pipeline call it. *)

\* MSWinRTMediaSink::OnClockStart and OnClockStop check for shutdown first.
OnClockStart == ~isShutdown /\ Start
OnClockStop  == ~isShutdown /\ Stop

\* A task spawned with create_task: the media sink counts an ended stream.
RunEOSTask ==
  /\ eosTasks > 0
  /\ eosTasks' = eosTasks - 1
  /\ UNCHANGED <<state, isShutdown, currentType, waitingFirst, firstSample,
                 sampleQueue, workQueue, worker, requests, events, calls,
                 lastItem, delivered, faults>>

Pipeline ==
  \/ \E t \in MediaTypes :
       SetFirstMediaType(t) \/ ReplaceMediaType(t) \/ ProcessFormatChange(t)
  \/ KeepFirstSample
  \/ \E kind \in SampleKinds : ProcessSample(kind)
  \/ \E kind \in MarkerKinds : PlaceMarker(kind)
  \/ Flush
  \/ OnClockStart
  \/ OnClockStop
  \/ Shutdown

Drain == DrainItem \/ QueueDrained \/ LockFails \/ PrepareSample

WorkQueueThread == Dispatch \/ DispatchAfterShutdown \/ Drain

\* The stream is shut down and nothing is left to run.
Finished ==
  /\ isShutdown
  /\ workQueue = <<>>
  /\ eosTasks = 0
  /\ UNCHANGED vars

Next == Pipeline \/ WorkQueueThread \/ RunEOSTask \/ Finished

Spec == Init /\ [][Next]_vars

\* Media Foundation runs the operations of a work queue, a thread inside the
\* critical section goes on, one that waits for it gets it although others (a
\* flush, a clock call) keep taking it, and the concurrency runtime runs its
\* tasks.  Nobody promises that the pipeline calls anything.
Fairness ==
  /\ SF_vars(Dispatch)
  /\ WF_vars(DispatchAfterShutdown)
  /\ WF_vars(Drain)
  /\ WF_vars(RunEOSTask)

FairSpec == Spec /\ Fairness

-----------------------------------------------------------------------------
(* Properties. *)

Worker == [pc : {"idle", "drain", "prepare", "call"}, work : Work,
           item : Item, eos : BOOLEAN]

\* Every variable has its type, and what is prepared or handed on is a sample.
TypeOK ==
  /\ state \in States
  /\ isShutdown \in BOOLEAN
  /\ currentType \in MediaTypes \cup {NoType}
  /\ waitingFirst \in BOOLEAN
  /\ firstSample \in Nat
  /\ sampleQueue \in Seq(Item)
  /\ workQueue \in Seq(Work)
  /\ worker \in Worker
  /\ worker.pc \in {"prepare", "call"} => worker.item.kind = "sample"
  /\ eosTasks \in Nat
  /\ requests \in Nat
  /\ events \in Seq(Event)
  /\ calls \in Seq({"Started", "Stopped"})
  /\ lastItem \in Nat
  /\ delivered \in Seq(Nat)
  /\ faults \in Nat

\* Frames reach the media sink in the order the pipeline delivered them, and
\* none twice, whatever was flushed, failed or stopped in between.
DeliveredInOrder ==
  \A i, j \in DOMAIN delivered : i < j => delivered[i] < delivered[j]

\* PlaceMarker's contract for what was queued: the marker event comes only
\* after every sample queued before the marker has been processed.
MarkerAfterSamples ==
  \A e \in DOMAIN events : events[e].type = "Marker" =>
    /\ \A i \in DOMAIN sampleQueue : sampleQueue[i].id > events[e].id
    /\ worker.pc \in {"prepare", "call"} => worker.item.id > events[e].id

WorkFor(work, item) == work.op \in DataOps /\ work.id = item.id

\* No item is stranded: it has an operation of its own on the work queue, or
\* the thread is in the drain that this operation began.  One drain may take
\* many items or, when a buffer fails, leave some behind.
EveryItemHasWork ==
  \A i \in DOMAIN sampleQueue :
    \/ \E w \in DOMAIN workQueue : WorkFor(workQueue[w], sampleQueue[i])
    \/ worker.pc = "drain" /\ WorkFor(worker.work, sampleQueue[i])

\* The pull loop never runs dry while streaming: a request is outstanding, or
\* an operation that ends in a request is queued or running (provided that no
\* buffer failed, since BufferFails asks for nothing).
NoStarvation ==
  state = "Started" /\ ~isShutdown /\ faults = 0 =>
    \/ requests > 0
    \/ worker.pc # "idle" /\ AsksForMore(worker.work)
    \/ \E w \in DOMAIN workQueue : AsksForMore(workQueue[w])

\* How many positions of s hold a member of A.
Count(s, A) == Cardinality({i \in DOMAIN s : s[i] \in A})

Asking == {work \in Work : AsksForMore(work)}

Begun == IF worker.pc # "idle" /\ AsksForMore(worker.work) THEN 1 ELSE 0

Starts == Count(calls, {"Started"})

\* Nothing bounds _SampleQueue but the pull loop.  Each accepted start brings one
\* sample into flight, asked for or with an operation that will ask for the next
\* one; no marker, format change, flush, stop or failed buffer adds to them.  A
\* sample in the queue has its operation, so the queue holds no more samples.
OneSamplePerStart ==
  requests + Count(workQueue, Asking) + Begun <= Starts

Announced(n) ==
  /\ n \in DOMAIN calls
  /\ \E e \in DOMAIN events : events[e] = [type |-> calls[n], id |-> n]

ClockWork(work, n) == work.op \in ClockOps /\ work.id = n

\* Each Start and Stop is announced once, in the order of the calls, by its own
\* event, and until then its operation is waiting or running.
ClockEventsFollowCalls ==
  /\ ~isShutdown =>
       \A n \in DOMAIN calls :
         \/ Announced(n)
         \/ \E w \in DOMAIN workQueue : ClockWork(workQueue[w], n)
         \/ worker.pc # "idle" /\ ClockWork(worker.work, n)
  /\ \A d, e \in DOMAIN events :
       d < e /\ events[d].type # "Marker" /\ events[e].type # "Marker"
         => events[d].id < events[e].id

\* After Shutdown the stream neither sends events nor touches the media sink
\* (whose pointer it has reset), though operations were still on the queue.
QuietAfterShutdown ==
  [][isShutdown => UNCHANGED <<events, requests, delivered, sampleQueue>>]_vars

Queued(n) == \E i \in DOMAIN sampleQueue : sampleQueue[i].id = n
Processing(n) == worker.pc # "idle" /\ worker.item.id = n

\* Every item is taken off the queue, and its processing ends.
ItemsSettled ==
  \A n \in 1..MaxItems : Queued(n) ~> ~Queued(n) /\ ~Processing(n)

MarkerQueued(n) ==
  \E i \in DOMAIN sampleQueue :
    sampleQueue[i].id = n /\ sampleQueue[i].kind \in MarkerKinds

\* Unless the stream is shut down, a marker is answered with its event, since a
\* flush or a stop drops samples, never markers; and each accepted Start and Stop
\* is announced.
CallsAnswered ==
  /\ \A n \in 1..MaxItems :
       MarkerQueued(n) ~> \/ isShutdown
                          \/ \E e \in DOMAIN events : /\ events[e].type = "Marker"
                                                      /\ events[e].id = n
  /\ \A n \in 1..MaxClockCalls :
       Len(calls) >= n ~> isShutdown \/ Announced(n)

\* The row commented "Stop" of ValidStateMatrix: a stopped stream takes no
\* sample.  The code looks the row up at another index.
StoppedTakesNoSample ==
  [][state = "Stopped"
       => ~(KeepFirstSample \/ \E kind \in SampleKinds : ProcessSample(kind))]_vars
=============================================================================
