----------------------- MODULE VideoStreamSourceProofs ------------------------
(***************************************************************************)
(* Proofs about VideoStreamSource for every queue size, number of frames   *)
(* and number of requests, and about VideoRenderer, which has the source   *)
(* in its hands.                                                           *)
(***************************************************************************)
EXTENDS VideoRenderer, TLAPS, SequenceTheorems

\* The queue holds the last frames fed, without a gap, the newest at its end.
LastFrames(queue, last) ==
  /\ Len(queue) <= last
  /\ \A i \in 1 .. Len(queue) : queue[i] = (last - Len(queue)) + i

QueueInv == LastFrames(sampleQueue, fed) /\ shown <= fed - Len(sampleQueue)

CountInv == outstandingSamplesCount + completions <= requests

ShutdownInv == ui # "running" => shutdownEvent

IInv ==
  /\ SourceTypeOK
  /\ QueueInv
  /\ CountInv
  /\ ShutdownInv
  /\ NoIdleRequest

-----------------------------------------------------------------------------
\* Making room keeps the newest frames, and the new one then follows them.
LEMMA RoomKeepsNewest ==
  ASSUME NEW queue \in Seq(Nat), NEW last \in Nat, LastFrames(queue, last),
         Len(queue) <= maxSampleQueueSize
  PROVE  LET new == Append(Room(queue), last + 1)
         IN /\ new \in Seq(Nat)
            /\ Len(new) <= maxSampleQueueSize
            /\ Len(new) \in 1 .. Len(queue) + 1
            /\ LastFrames(new, last + 1)
<1> DEFINE old == Room(queue)
<1> DEFINE new == Append(old, last + 1)
<1>0. maxSampleQueueSize \in Nat /\ maxSampleQueueSize > 0 /\ Len(queue) \in Nat
  BY QueueSizeAssumption
<1>1. /\ old \in Seq(Nat)
      /\ Len(old) < maxSampleQueueSize /\ Len(old) <= Len(queue)
      /\ Len(old) <= last
      /\ \A i \in 1 .. Len(old) : old[i] = (last - Len(old)) + i
  <2>1. CASE Len(queue) >= maxSampleQueueSize
    <3>1. old = Tail(queue) /\ queue # <<>>
      BY <2>1, <1>0 DEF Room
    <3>2. /\ old \in Seq(Nat) /\ Len(old) = Len(queue) - 1
          /\ \A i \in 1 .. Len(old) : old[i] = queue[i + 1]
      BY <3>1
    <3>3. Len(old) < maxSampleQueueSize /\ Len(old) <= Len(queue) /\ Len(old) <= last
      BY <3>2, <1>0 DEF LastFrames
    <3>4. ASSUME NEW i \in 1 .. Len(old) PROVE old[i] = (last - Len(old)) + i
      <4>1. i + 1 \in 1 .. Len(queue)
        BY <3>2, <1>0
      <4>2. old[i] = (last - Len(queue)) + (i + 1)
        BY <4>1, <3>2 DEF LastFrames
      <4>3. i \in Nat /\ Len(queue) \in Nat /\ Len(old) = Len(queue) - 1
        BY <3>2, <1>0
      <4> HIDE DEF old
      <4> QED BY <4>2, <4>3
    <3> QED BY <3>2, <3>3, <3>4
  <2>2. CASE ~(Len(queue) >= maxSampleQueueSize)
    BY <2>2, <1>0 DEF Room, LastFrames
  <2> QED BY <2>1, <2>2
<1>2. /\ new \in Seq(Nat) /\ Len(new) = Len(old) + 1
      /\ \A i \in 1 .. Len(old) : new[i] = old[i]
      /\ new[Len(old) + 1] = last + 1
  BY <1>1
<1>3. ASSUME NEW i \in 1 .. Len(new) PROVE new[i] = ((last + 1) - Len(new)) + i
  <2>1. CASE i = Len(old) + 1
    BY <2>1, <1>1, <1>2
  <2>2. CASE i \in 1 .. Len(old)
    BY <2>2, <1>1, <1>2
  <2>3. i = Len(old) + 1 \/ i \in 1 .. Len(old)
    BY <1>1, <1>2
  <2> QED BY <2>1, <2>2, <2>3
<1>4. Len(old) \in Nat
  BY <1>1
<1>5. Len(new) <= maxSampleQueueSize /\ Len(new) \in 1 .. Len(queue) + 1
      /\ Len(new) <= last + 1
  BY <1>0, <1>1, <1>2, <1>4
<1> QED BY <1>2, <1>3, <1>5 DEF LastFrames

\* FeedSamples reports the n oldest frames of the queue and leaves the rest.
LEMMA FeedEffect ==
  ASSUME NEW queue \in Seq(Nat), NEW count \in Nat, NEW last \in Nat,
         LastFrames(queue, last), shutdownEvent \in BOOLEAN,
         FeedSamples(queue, count)
  PROVE  \E n \in 0 .. count :
           /\ n <= Len(queue)
           /\ shutdownEvent => n = 0
           /\ shutdownEvent \/ n = Len(queue) \/ n = count
           /\ sampleQueue' \in Seq(Nat)
           /\ Len(sampleQueue') = Len(queue) - n
           /\ LastFrames(sampleQueue', last)
           /\ outstandingSamplesCount' = count - n
           /\ completions' = completions + n
           /\ frames' = frames + n
           /\ shown' = IF n = 0 THEN shown ELSE last - Len(sampleQueue')
<1> DEFINE n == IF shutdownEvent THEN 0 ELSE Served(queue, count)
<1>0. Len(queue) \in Nat
  OBVIOUS
<1>1. n \in 0 .. count /\ n <= Len(queue) /\ (shutdownEvent \/ n = Len(queue) \/ n = count)
  BY <1>0 DEF Served
<1>2. /\ sampleQueue' = SubSeq(queue, n + 1, Len(queue))
      /\ outstandingSamplesCount' = count - n
      /\ completions' = completions + n
      /\ frames' = frames + n
      /\ shown' = IF n = 0 THEN shown ELSE queue[n]
  BY DEF FeedSamples
<1>3. shutdownEvent => n = 0
  OBVIOUS
<1> HIDE DEF n
<1>4. /\ sampleQueue' \in Seq(Nat) /\ Len(sampleQueue') = Len(queue) - n
      /\ \A i \in 1 .. Len(queue) - n : sampleQueue'[i] = queue[n + i]
  <2>1. \A i \in n + 1 .. Len(queue) : queue[i] \in Nat
    BY <1>1
  <2>2. n + 1 \in Int /\ Len(queue) \in Int /\ (n + 1 <= Len(queue) + 1)
    BY <1>0, <1>1
  <2>3. Len(sampleQueue') = Len(queue) - n
    BY <1>0, <1>1, <1>2, <2>2, SubSeqProperties
  <2>4. sampleQueue' \in Seq(Nat)
    BY <1>2, <2>1, <2>2, SubSeqProperties
  <2>5. ASSUME NEW i \in 1 .. Len(queue) - n PROVE sampleQueue'[i] = queue[n + i]
    BY <1>0, <1>1, <1>2, <2>2, <2>3, SubSeqProperties
  <2> QED BY <2>3, <2>4, <2>5
<1>5. LastFrames(sampleQueue', last)
  <2>1. Len(sampleQueue') <= last
    BY <1>0, <1>1, <1>4 DEF LastFrames
  <2>2. ASSUME NEW i \in 1 .. Len(sampleQueue')
        PROVE  sampleQueue'[i] = (last - Len(sampleQueue')) + i
    <3>1. n + i \in 1 .. Len(queue) /\ i \in 1 .. Len(queue) - n
      BY <1>0, <1>1, <1>4
    <3>2. sampleQueue'[i] = (last - Len(queue)) + (n + i)
      BY <3>1, <1>4 DEF LastFrames
    <3> QED BY <3>2, <1>0, <1>1, <1>4
  <2> QED BY <2>1, <2>2 DEF LastFrames
<1>6. n # 0 => queue[n] = last - Len(sampleQueue')
  <2> SUFFICES ASSUME n # 0 PROVE queue[n] = last - Len(sampleQueue')
    OBVIOUS
  <2>1. n \in 1 .. Len(queue)
    BY <1>0, <1>1
  <2>2. queue[n] = (last - Len(queue)) + n
    BY <2>1 DEF LastFrames
  <2> QED BY <2>2, <1>0, <1>1, <1>4
<1>7. shown' = IF n = 0 THEN shown ELSE last - Len(sampleQueue')
  BY <1>2, <1>6
<1> QED BY <1>1, <1>2, <1>3, <1>4, <1>5, <1>7

-----------------------------------------------------------------------------
\* The two calls of FeedSamples, with all that the invariant says of them: at
\* most one frame is reported.
LEMMA RequestEffect ==
  ASSUME IInv, GetSampleAsync
  PROVE  \E n \in 0 .. 1 :
           /\ n <= Len(sampleQueue)
           /\ shutdownEvent => n = 0
           /\ sampleQueue' \in Seq(Nat) /\ Len(sampleQueue') = Len(sampleQueue) - n
           /\ LastFrames(sampleQueue', fed)
           /\ outstandingSamplesCount' = (outstandingSamplesCount + 1) - n
           /\ completions' = completions + n
           /\ frames' = frames + n
           /\ shown' = IF n = 0 THEN shown ELSE fed - Len(sampleQueue')
           /\ shutdownEvent \/ Len(sampleQueue') = 0 \/ outstandingSamplesCount' = 0
<1> DEFINE count == outstandingSamplesCount + 1
<1>1. /\ sampleQueue \in Seq(Nat) /\ count \in Nat /\ fed \in Nat
      /\ shutdownEvent \in BOOLEAN /\ LastFrames(sampleQueue, fed)
      /\ outstandingSamplesCount \in Nat /\ Len(sampleQueue) \in Nat
  BY DEF IInv, SourceTypeOK, QueueInv
<1>2. FeedSamples(sampleQueue, count)
  BY DEF GetSampleAsync
<1>3. PICK n \in 0 .. count :
           /\ n <= Len(sampleQueue)
           /\ shutdownEvent => n = 0
           /\ shutdownEvent \/ n = Len(sampleQueue) \/ n = count
           /\ sampleQueue' \in Seq(Nat)
           /\ Len(sampleQueue') = Len(sampleQueue) - n
           /\ LastFrames(sampleQueue', fed)
           /\ outstandingSamplesCount' = count - n
           /\ completions' = completions + n
           /\ frames' = frames + n
           /\ shown' = IF n = 0 THEN shown ELSE fed - Len(sampleQueue')
  <2> HIDE DEF count
  <2> QED BY <1>1, <1>2, FeedEffect
<1>4. shutdownEvent \/ Len(sampleQueue) = 0 \/ outstandingSamplesCount = 0
  BY <1>1 DEF IInv, NoIdleRequest
<1>5. n \in 0 .. 1
  <2>1. CASE shutdownEvent
    BY <2>1, <1>3
  <2>2. CASE Len(sampleQueue) = 0
    BY <2>2, <1>1, <1>3
  <2>3. CASE outstandingSamplesCount = 0
    BY <2>3, <1>1, <1>3
  <2> QED BY <1>4, <2>1, <2>2, <2>3
<1>6. shutdownEvent \/ Len(sampleQueue') = 0 \/ outstandingSamplesCount' = 0
  <2>1. n = Len(sampleQueue) => Len(sampleQueue') = 0
    BY <1>1, <1>3
  <2>2. n = count => outstandingSamplesCount' = 0
    BY <1>1, <1>3
  <2> HIDE DEF count
  <2> QED BY <1>3, <2>1, <2>2
<1>7. outstandingSamplesCount' = (outstandingSamplesCount + 1) - n
  BY <1>3
<1> HIDE DEF count
<1> QED BY <1>3, <1>5, <1>6, <1>7, Zenon

\* The same for a frame: it is kept, or one frame is reported.
LEMMA FrameEffect ==
  ASSUME IInv, OnSampleReceived
  PROVE  \E n \in 0 .. 1 :
           /\ n <= outstandingSamplesCount
           /\ shutdownEvent => n = 0
           /\ sampleQueue' \in Seq(Nat) /\ Len(sampleQueue') <= maxSampleQueueSize
           /\ n = 1 => Len(sampleQueue') < maxSampleQueueSize
           /\ LastFrames(sampleQueue', fed')
           /\ outstandingSamplesCount' = outstandingSamplesCount - n
           /\ completions' = completions + n
           /\ frames' = frames + n
           /\ Len(sampleQueue') + n <= Len(sampleQueue) + 1
           /\ shown' = IF n = 0 THEN shown ELSE fed' - Len(sampleQueue')
           /\ shutdownEvent \/ Len(sampleQueue') = 0 \/ outstandingSamplesCount' = 0
<1> DEFINE queue == Append(Room(sampleQueue), fed + 1)
<1>1. /\ sampleQueue \in Seq(Nat) /\ outstandingSamplesCount \in Nat /\ fed \in Nat
      /\ shutdownEvent \in BOOLEAN /\ LastFrames(sampleQueue, fed)
      /\ Len(sampleQueue) \in Nat /\ Len(sampleQueue) <= maxSampleQueueSize
  BY DEF IInv, SourceTypeOK, QueueInv
<1>2. FeedSamples(queue, outstandingSamplesCount) /\ fed' = fed + 1 /\ fed' \in Nat
  BY <1>1 DEF OnSampleReceived
<1>3. /\ queue \in Seq(Nat) /\ Len(queue) <= maxSampleQueueSize
      /\ Len(queue) \in 1 .. Len(sampleQueue) + 1
      /\ LastFrames(queue, fed')
  BY <1>1, <1>2, RoomKeepsNewest
<1> HIDE DEF queue
<1>4. PICK n \in 0 .. outstandingSamplesCount :
           /\ n <= Len(queue)
           /\ shutdownEvent => n = 0
           /\ shutdownEvent \/ n = Len(queue) \/ n = outstandingSamplesCount
           /\ sampleQueue' \in Seq(Nat)
           /\ Len(sampleQueue') = Len(queue) - n
           /\ LastFrames(sampleQueue', fed')
           /\ outstandingSamplesCount' = outstandingSamplesCount - n
           /\ completions' = completions + n
           /\ frames' = frames + n
           /\ shown' = IF n = 0 THEN shown ELSE fed' - Len(sampleQueue')
  BY <1>1, <1>2, <1>3, FeedEffect
<1>5. shutdownEvent \/ Len(sampleQueue) = 0 \/ outstandingSamplesCount = 0
  BY <1>1 DEF IInv, NoIdleRequest
<1>6. n \in 0 .. 1
  BY <1>1, <1>3, <1>4, <1>5
<1>7. maxSampleQueueSize \in Nat
  BY QueueSizeAssumption
<1>8. /\ Len(sampleQueue') <= maxSampleQueueSize
      /\ n = 1 => Len(sampleQueue') < maxSampleQueueSize
      /\ Len(sampleQueue') + n <= Len(sampleQueue) + 1
  BY <1>1, <1>3, <1>4, <1>6, <1>7
<1>9. shutdownEvent \/ Len(sampleQueue') = 0 \/ outstandingSamplesCount' = 0
  BY <1>1, <1>3, <1>4
<1> QED BY <1>4, <1>6, <1>8, <1>9
-----------------------------------------------------------------------------
\* The invariant holds at the start.
LEMMA IInvInit == Init => IInv
<1> SUFFICES ASSUME Init PROVE IInv
  OBVIOUS
<1>1. maxSampleQueueSize \in Nat
  BY QueueSizeAssumption
<1>2. sampleQueue = <<>> /\ <<>> \in Seq(Nat) /\ Len(sampleQueue) = 0
  BY DEF Init
<1>3. SourceTypeOK
  <2>1. sampleQueue \in Seq(Nat) /\ Len(sampleQueue) <= maxSampleQueueSize
    BY <1>1, <1>2
  <2> QED BY <2>1 DEF Init, SourceTypeOK
<1>4. QueueInv
  BY <1>2 DEF Init, QueueInv, LastFrames
<1>5. CountInv /\ ShutdownInv /\ NoIdleRequest
  BY <1>2 DEF Init, CountInv, ShutdownInv, NoIdleRequest
<1> QED BY <1>3, <1>4, <1>5 DEF IInv

\* A queue without length is empty.
LEMMA NothingQueued ==
  ASSUME NEW queue \in Seq(Nat), Len(queue) = 0
  PROVE  queue = <<>>
OBVIOUS

\* Every step preserves the invariant.
LEMMA IInvStep == IInv /\ [Next]_vars => IInv'
<1> SUFFICES ASSUME IInv, [Next]_vars PROVE IInv'
  OBVIOUS
<1>1. /\ openAsyncPending \in BOOLEAN /\ opened \in BOOLEAN
      /\ shutdownEvent \in BOOLEAN
      /\ ui \in {"running", "shutdown", "down", "disposed"}
  BY DEF IInv, SourceTypeOK
<1>2. /\ sampleQueue \in Seq(Nat) /\ Len(sampleQueue) <= maxSampleQueueSize
      /\ Len(sampleQueue) \in Nat /\ maxSampleQueueSize \in Nat
      /\ outstandingSamplesCount \in Nat
      /\ fed \in Nat /\ requests \in Nat /\ completions \in Nat
      /\ frames \in Nat /\ shown \in Nat
  BY QueueSizeAssumption DEF IInv, SourceTypeOK
<1>3. /\ LastFrames(sampleQueue, fed) /\ shown <= fed - Len(sampleQueue)
      /\ Len(sampleQueue) <= fed
  BY DEF IInv, QueueInv, LastFrames
<1>4. outstandingSamplesCount + completions <= requests
  BY DEF IInv, CountInv
<1>5. CASE GetSampleAsync
  <2>1. PICK n \in 0 .. 1 :
           /\ n <= Len(sampleQueue)
           /\ shutdownEvent => n = 0
           /\ sampleQueue' \in Seq(Nat) /\ Len(sampleQueue') = Len(sampleQueue) - n
           /\ LastFrames(sampleQueue', fed)
           /\ outstandingSamplesCount' = (outstandingSamplesCount + 1) - n
           /\ completions' = completions + n
           /\ frames' = frames + n
           /\ shown' = IF n = 0 THEN shown ELSE fed - Len(sampleQueue')
           /\ shutdownEvent \/ Len(sampleQueue') = 0 \/ outstandingSamplesCount' = 0
    BY <1>5, RequestEffect
  <2>2. /\ UNCHANGED <<openAsyncPending, opened, shutdownEvent, ui, fed>>
        /\ requests' = requests + 1
    BY <1>5 DEF GetSampleAsync
  <2>3. shown' \in Nat /\ shown' <= fed - Len(sampleQueue')
    <3>1. CASE n = 0
      BY <3>1, <2>1, <1>2, <1>3
    <3>2. CASE n # 0
      <4>1. shown' = fed - Len(sampleQueue') /\ Len(sampleQueue') <= fed
            /\ Len(sampleQueue') \in Nat
        BY <3>2, <2>1, <1>2, <1>3
      <4> QED BY <4>1, <1>2
    <3> QED BY <3>1, <3>2
  <2>4. /\ Len(sampleQueue') <= maxSampleQueueSize
        /\ outstandingSamplesCount' \in Nat /\ completions' \in Nat /\ requests' \in Nat
        /\ frames' \in Nat
        /\ outstandingSamplesCount' + completions' <= requests'
    BY <1>2, <1>4, <2>1, <2>2
  <2>5. SourceTypeOK'
    BY <1>1, <1>2, <2>1, <2>2, <2>3, <2>4 DEF SourceTypeOK
  <2>6. QueueInv'
    BY <2>1, <2>2, <2>3 DEF QueueInv
  <2>7. NoIdleRequest'
    BY <2>1, <2>2, NothingQueued DEF NoIdleRequest
  <2>8. CountInv' /\ ShutdownInv'
    BY <2>2, <2>4 DEF CountInv, ShutdownInv, IInv
  <2> QED BY <2>5, <2>6, <2>7, <2>8 DEF IInv
<1>6. CASE OnSampleReceived
  <2>1. PICK n \in 0 .. 1 :
           /\ n <= outstandingSamplesCount
           /\ shutdownEvent => n = 0
           /\ sampleQueue' \in Seq(Nat) /\ Len(sampleQueue') <= maxSampleQueueSize
           /\ n = 1 => Len(sampleQueue') < maxSampleQueueSize
           /\ LastFrames(sampleQueue', fed')
           /\ outstandingSamplesCount' = outstandingSamplesCount - n
           /\ completions' = completions + n
           /\ frames' = frames + n
           /\ Len(sampleQueue') + n <= Len(sampleQueue) + 1
           /\ shown' = IF n = 0 THEN shown ELSE fed' - Len(sampleQueue')
           /\ shutdownEvent \/ Len(sampleQueue') = 0 \/ outstandingSamplesCount' = 0
    BY <1>6, FrameEffect
  <2>2. /\ UNCHANGED <<openAsyncPending, opened, shutdownEvent, ui, requests>>
        /\ fed' = fed + 1 /\ fed' \in Nat
    BY <1>6, <1>2 DEF OnSampleReceived
  <2>3. shown' \in Nat /\ shown' <= fed' - Len(sampleQueue')
    <3>1. Len(sampleQueue') <= fed' /\ Len(sampleQueue') \in Nat
      BY <2>1 DEF LastFrames
    <3>2. CASE n = 0
      BY <3>1, <3>2, <2>1, <2>2, <1>2, <1>3
    <3>3. CASE n # 0
      BY <3>1, <3>3, <2>1, <2>2
    <3> QED BY <3>2, <3>3
  <2>4. /\ outstandingSamplesCount' \in Nat /\ completions' \in Nat /\ frames' \in Nat
        /\ outstandingSamplesCount' + completions' <= requests'
    BY <1>2, <1>4, <2>1, <2>2
  <2>5. SourceTypeOK'
    BY <1>1, <1>2, <2>1, <2>2, <2>3, <2>4 DEF SourceTypeOK
  <2>6. QueueInv'
    BY <2>1, <2>3 DEF QueueInv
  <2>7. NoIdleRequest'
    BY <2>1, <2>2, NothingQueued DEF NoIdleRequest
  <2>8. CountInv' /\ ShutdownInv'
    BY <2>2, <2>4 DEF CountInv, ShutdownInv, IInv
  <2> QED BY <2>5, <2>6, <2>7, <2>8 DEF IInv
<1>7. CASE Shutdown
  <2>1. /\ UNCHANGED <<openAsyncPending, opened, sampleQueue, shutdownEvent, fed,
                       requests, frames, shown>>
        /\ ui = "shutdown" /\ ui' = "down" /\ outstandingSamplesCount' = 0
        /\ completions' = completions + (IF outstandingSamplesCount > 0 THEN 1 ELSE 0)
    BY <1>7 DEF Shutdown
  <2>2. completions' \in Nat /\ 0 + completions' <= requests
    BY <2>1, <1>2, <1>4
  <2>3. SourceTypeOK'
    BY <1>1, <1>2, <2>1, <2>2 DEF SourceTypeOK
  <2>4. QueueInv' /\ CountInv'
    BY <1>3, <2>1, <2>2 DEF QueueInv, CountInv
  <2>5. ShutdownInv' /\ NoIdleRequest'
    BY <2>1 DEF ShutdownInv, NoIdleRequest, IInv
  <2> QED BY <2>3, <2>4, <2>5 DEF IInv
<1>8. CASE SetShutdownEvent
  <2>1. /\ UNCHANGED <<openAsyncPending, opened, sampleQueue, outstandingSamplesCount,
                       fed, requests, completions, frames, shown>>
        /\ ui' = "shutdown" /\ shutdownEvent' = TRUE
    BY <1>8 DEF SetShutdownEvent
  <2>2. SourceTypeOK'
    BY <1>1, <1>2, <2>1 DEF SourceTypeOK
  <2>3. QueueInv' /\ CountInv' /\ ShutdownInv' /\ NoIdleRequest'
    BY <1>3, <1>4, <2>1 DEF QueueInv, CountInv, ShutdownInv, NoIdleRequest
  <2> QED BY <2>2, <2>3 DEF IInv
<1>9. CASE OpenMediaAsync \/ FirstFrameReceived \/ Dispose \/ UNCHANGED vars
  <2>1. /\ UNCHANGED <<sampleQueue, outstandingSamplesCount, shutdownEvent,
                       fed, requests, completions, frames, shown>>
        /\ openAsyncPending' \in BOOLEAN /\ opened' \in BOOLEAN
        /\ ui' \in {"running", "shutdown", "down", "disposed"}
        /\ ui' # "running" => ui # "running"
    BY <1>1, <1>9 DEF OpenMediaAsync, FirstFrameReceived, Dispose, vars
  <2>2. SourceTypeOK'
    BY <1>1, <1>2, <2>1 DEF SourceTypeOK
  <2>3. QueueInv' /\ CountInv' /\ NoIdleRequest'
    BY <2>1 DEF QueueInv, CountInv, NoIdleRequest, IInv
  <2>4. ShutdownInv'
    BY <2>1 DEF ShutdownInv, IInv
  <2> QED BY <2>2, <2>3, <2>4 DEF IInv
<1> QED BY <1>5, <1>6, <1>7, <1>8, <1>9 DEF Next

\* The strengthening is an invariant of the source.
THEOREM Invariance == Spec => []IInv
<1> QED BY IInvInit, IInvStep, PTL DEF Spec

\* The variables keep their types and the queue its bound.
THEOREM TypeCorrect == Spec => []SourceTypeOK
<1>1. IInv => SourceTypeOK
  BY DEF IInv
<1> QED BY <1>1, Invariance, PTL

\* A frame and a request never wait for each other.
THEOREM NoRequestIdle == Spec => []NoIdleRequest
<1>1. IInv => NoIdleRequest
  BY DEF IInv
<1> QED BY <1>1, Invariance, PTL

\* Nothing is reported after Shutdown: frames and requests that still come find
\* the event set.
THEOREM ShutdownSilences == Spec => SilentAfterShutdown
<1>1. IInv /\ [Next]_vars
        => [(ui \in {"down", "disposed"}) => completions' = completions]_vars
  <2> SUFFICES ASSUME IInv, Next, ui \in {"down", "disposed"}
               PROVE  completions' = completions
    BY DEF vars
  <2>1. shutdownEvent /\ completions \in Nat
    BY DEF IInv, ShutdownInv, SourceTypeOK
  <2>2. CASE GetSampleAsync
    BY <2>1, <2>2, RequestEffect
  <2>3. CASE OnSampleReceived
    BY <2>1, <2>3, FrameEffect
  <2>4. CASE OpenMediaAsync \/ FirstFrameReceived \/ SetShutdownEvent \/ Dispose
    BY <2>4 DEF OpenMediaAsync, FirstFrameReceived, SetShutdownEvent, Dispose
  <2>5. CASE Shutdown
    BY <2>5 DEF Shutdown
  <2> QED BY <2>2, <2>3, <2>4, <2>5 DEF Next
<1> QED BY <1>1, Invariance, PTL DEF Spec, SilentAfterShutdown

\* Every step of the source is a step of the channel or none.
LEMMA ChannelStep == IInv /\ [Next]_vars => [Channel!Next]_(Channel!vars)
<1> SUFFICES ASSUME IInv, [Next]_vars PROVE [Channel!Next]_(Channel!vars)
  OBVIOUS
<1> DEFINE open == requests - completions
<1>1. /\ maxSampleQueueSize \in Nat /\ maxSampleQueueSize > 0
      /\ sampleQueue \in Seq(Nat) /\ Len(sampleQueue) \in Nat
      /\ Len(sampleQueue) <= maxSampleQueueSize
      /\ outstandingSamplesCount \in Nat
      /\ fed \in Nat /\ requests \in Nat /\ completions \in Nat
      /\ frames \in Nat /\ shown \in Nat
  BY QueueSizeAssumption DEF IInv, SourceTypeOK
<1>2. /\ shown <= fed - Len(sampleQueue) /\ Len(sampleQueue) <= fed
      /\ outstandingSamplesCount + completions <= requests
  BY DEF IInv, QueueInv, LastFrames, CountInv
<1>3. CASE GetSampleAsync
  <2>1. PICK n \in 0 .. 1 :
           /\ n <= Len(sampleQueue)
           /\ sampleQueue' \in Seq(Nat) /\ Len(sampleQueue') = Len(sampleQueue) - n
           /\ completions' = completions + n
           /\ frames' = frames + n
           /\ shown' = IF n = 0 THEN shown ELSE fed - Len(sampleQueue')
    BY <1>3, RequestEffect
  <2>2. fed' = fed /\ requests' = requests + 1
    BY <1>3 DEF GetSampleAsync
  <2>3. CASE n = 0
    <3>1. requests' - completions' = open + 1 /\ shown' = shown /\ frames' = frames
      BY <2>1, <2>2, <2>3, <1>1
    <3> QED BY <3>1, <2>2 DEF Channel!ShowNone, Channel!Ask, Channel!Next
  <2>4. CASE n = 1
    <3>1. requests' - completions' = open /\ frames' = frames + 1
      BY <2>1, <2>2, <2>4, <1>1
    <3>2. shown' = fed' - Len(sampleQueue') /\ Len(sampleQueue') = Len(sampleQueue) - 1
      BY <2>1, <2>2, <2>4
    <3>3. shown' \in (shown + 1) .. fed'
      BY <3>2, <2>1, <2>2, <2>4, <1>1, <1>2
    <3>4. fed' - shown' <= maxSampleQueueSize - 1
      BY <3>2, <2>1, <2>2, <2>4, <1>1, <1>2
    <3> QED BY <3>1, <3>3, <3>4, <2>2 DEF Channel!Show, Channel!Ask, Channel!Next
  <2> QED BY <2>3, <2>4
<1>4. CASE OnSampleReceived
  <2>1. PICK n \in 0 .. 1 :
           /\ n <= outstandingSamplesCount
           /\ sampleQueue' \in Seq(Nat)
           /\ n = 1 => Len(sampleQueue') < maxSampleQueueSize
           /\ LastFrames(sampleQueue', fed')
           /\ completions' = completions + n
           /\ frames' = frames + n
           /\ Len(sampleQueue') + n <= Len(sampleQueue) + 1
           /\ shown' = IF n = 0 THEN shown ELSE fed' - Len(sampleQueue')
    BY <1>4, FrameEffect
  <2>2. fed' = fed + 1 /\ requests' = requests
    BY <1>4 DEF OnSampleReceived
  <2>3. CASE n = 0
    <3>1. requests' - completions' = open /\ shown' = shown /\ frames' = frames
      BY <2>1, <2>2, <2>3, <1>1
    <3> QED BY <3>1, <2>2 DEF Channel!ShowNone, Channel!Feed, Channel!Next
  <2>4. CASE n = 1
    <3>1. requests' - completions' = open - 1 /\ open > 0 /\ frames' = frames + 1
      BY <2>1, <2>2, <2>4, <1>1, <1>2
    <3>2. /\ shown' = fed' - Len(sampleQueue') /\ Len(sampleQueue') <= Len(sampleQueue)
          /\ Len(sampleQueue') \in Nat /\ Len(sampleQueue') < maxSampleQueueSize
      BY <2>1, <2>2, <2>4, <1>1
    <3>3. shown' \in (shown + 1) .. fed'
      BY <3>2, <2>2, <1>1, <1>2
    <3>4. fed' - shown' <= maxSampleQueueSize - 1
      BY <3>2, <2>2, <1>1
    <3> QED BY <3>1, <3>3, <3>4, <2>2 DEF Channel!Show, Channel!Feed, Channel!Next
  <2> QED BY <2>3, <2>4
<1>5. CASE Shutdown
  <2>1. /\ UNCHANGED <<fed, requests, frames, shown>>
        /\ completions' = completions + (IF outstandingSamplesCount > 0 THEN 1 ELSE 0)
    BY <1>5 DEF Shutdown
  <2>2. CASE outstandingSamplesCount > 0
    <3>1. requests' - completions' = open - 1 /\ open > 0
      BY <2>1, <2>2, <1>1, <1>2
    <3> QED BY <3>1, <2>1 DEF Channel!ShowNone, Channel!Answer, Channel!Next
  <2>3. CASE ~(outstandingSamplesCount > 0)
    <3>1. requests' - completions' = open
      BY <2>1, <2>3, <1>1
    <3> QED BY <3>1, <2>1 DEF Channel!vars
  <2> QED BY <2>2, <2>3
<1>6. CASE OpenMediaAsync \/ FirstFrameReceived \/ SetShutdownEvent \/ Dispose
           \/ UNCHANGED vars
  <2>1. UNCHANGED <<fed, requests, completions, frames, shown>>
    BY <1>6 DEF OpenMediaAsync, FirstFrameReceived, SetShutdownEvent, Dispose, vars
  <2> QED BY <2>1 DEF Channel!vars
<1> QED BY <1>3, <1>4, <1>5, <1>6 DEF Next

\* The source implements the frame channel that lags by less than its queue.
THEOREM ImplementsChannel == Spec => RecentFrameOnce
<1>1. Init => Channel!Init
  BY DEF Init, Channel!Init
<1>2. IInv /\ [Next]_vars => [Channel!Next]_(Channel!vars)
  BY ChannelStep
<1> QED BY <1>1, <1>2, Invariance, PTL DEF Spec, RecentFrameOnce, Channel!Spec

-----------------------------------------------------------------------------
(* The source in the renderer's hands.  The order in which calls are posted is what *)
(* makes the display play a source in the right format and dispose of it.           *)

\* A step of the renderer is one of the source or leaves it alone.
LEMMA SourceSteps == ASSUME [RendererNext]_allVars PROVE [Next]_vars
<1> USE DEF vars, allVars, rendererVars
<1>1. CASE SourceStep
  BY <1>1 DEF SourceStep, Next
<1>2. CASE StopBegins \/ StopShutsDown \/ StopEnds \/ DescribeStream
  BY <1>2 DEF StopBegins, StopShutsDown, StopEnds, DescribeStream, Next
<1>3. CASE CallStart \/ CallStop \/ CallChangeFormat \/ CallFirstFrameReceived
  BY <1>3 DEF CallStart, CallStop, CallChangeFormat, CallFirstFrameReceived,
              BeginInvoke
<1>4. CASE Start \/ StopOther \/ ChangeFormat
  BY <1>4 DEF Start, StopOther, ChangeFormat
<1>5. CASE \/ StartIgnored \/ StartFails \/ StopIgnored
           \/ ChangeFormatIgnored \/ FirstFrameIgnored
  BY <1>5 DEF StartIgnored, StartFails, StopIgnored, ChangeFormatIgnored,
              FirstFrameIgnored, Ignore
<1>6. CASE UNCHANGED allVars
  BY <1>6
<1>7. QED
  BY <1>1, <1>2, <1>3, <1>4, <1>5, <1>6 DEF RendererNext

\* The source in the renderer's hands (VideoRenderer.cs, Start and Stop) is a
\* VideoStreamSource, to which the theorems about it apply.
THEOREM ImplementsSource == RendererSpec => Spec
<1>1. RendererInit => Init
  BY DEF RendererInit
<1>2. [RendererNext]_allVars => [Next]_vars
  BY SourceSteps
<1>3. QED
  BY <1>1, <1>2, PTL DEF RendererSpec, Spec

\* In the renderer's hands, too, the source answers each request once and with a
\* recent frame.
THEOREM ChannelBehindRenderer == RendererSpec => RecentFrameOnce
  BY ImplementsSource, ImplementsChannel, PTL

-----------------------------------------------------------------------------
\* What a caller may post after an earlier call.
Follows(c, d) ==
  /\ d.op = "Start" => d.on /\ (c.on => d.format = c.format)
  /\ d.op = "Stop" => ~d.on
  /\ d.op \in {"ChangeFormat", "FirstFrameReceived"} => d.on = c.on
  /\ d.op = "FirstFrameReceived" => d.format = c.format

Before(first, queue, i) == IF i = 1 THEN first ELSE queue[i - 1]

CallsInv ==
  /\ handled \in Calls
  /\ posted \in Seq(Calls)
  /\ \A i \in 1 .. Len(posted) : Follows(Before(handled, posted, i), posted[i])

\* Which source is whose, and when.
HandsInv ==
  /\ followed = "unmade" => ui = "running" /\ streamSource # "followed"
  /\ followed = "played" /\ ui # "disposed" =>
       isRendering /\ streamSource = "followed"
  /\ isRendering /\ streamSource = "followed" => followed = "played"
  /\ ui = "disposed" => streamSource # "followed"
  /\ ui \in {"shutdown", "down"} =>
       /\ isRendering /\ streamSource = "followed"
       /\ posted # <<>> /\ Head(posted).op = "Stop"
  /\ openAsyncPending \/ opened => followed = "played"

\* The UI thread knows what its callers knew when they made the last call it took.
FormatInv ==
  /\ isRendering => handled.on
  /\ isRendering /\ streamSource = "followed" => format = handled.format
  /\ opened => described = asked

RInv == CallsInv /\ HandsInv /\ FormatInv

LEMMA RInvInit == RendererInit => RInv
<1> SUFFICES ASSUME RendererInit PROVE RInv
  OBVIOUS
<1>1. handled \in Calls
  BY DEF RendererInit, Calls
<1>2. posted \in Seq(Calls) /\ Len(posted) = 0
  BY DEF RendererInit
<1>3. CallsInv
  BY <1>1, <1>2 DEF CallsInv
<1>4. HandsInv /\ FormatInv
  BY DEF RendererInit, Init, HandsInv, FormatInv
<1>5. QED
  BY <1>3, <1>4 DEF RInv

\* The latest call is the one before the next.
LEMMA LatestFollows ==
  ASSUME CallsInv PROVE /\ Latest \in Calls
                        /\ Latest = Before(handled, posted, Len(posted) + 1)
  BY DEF CallsInv, Latest, Before

\* A call goes to the end of the queue.
LEMMA Posted ==
  ASSUME CallsInv, NEW c \in Calls, Follows(Latest, c),
         posted' = Append(posted, c), handled' = handled
  PROVE  /\ CallsInv'
         /\ posted # <<>> => posted' # <<>> /\ Head(posted') = Head(posted)
<1>1. /\ posted' \in Seq(Calls) /\ Len(posted') = Len(posted) + 1
      /\ posted'[Len(posted) + 1] = c
      /\ \A i \in 1 .. Len(posted) : posted'[i] = posted[i]
  BY DEF CallsInv
<1>2. ASSUME NEW i \in 1 .. Len(posted')
      PROVE  Follows(Before(handled', posted', i), posted'[i])
  <2>1. CASE i = Len(posted) + 1
    <3>1. Before(handled', posted', i) = Before(handled, posted, i)
      BY <1>1, <2>1 DEF Before, CallsInv
    <3>2. QED
      BY <1>1, <2>1, <3>1, LatestFollows
  <2>2. CASE i \in 1 .. Len(posted)
    <3>1. Before(handled', posted', i) = Before(handled, posted, i)
      BY <1>1, <2>2 DEF Before, CallsInv
    <3>2. QED
      BY <1>1, <2>2, <3>1 DEF CallsInv
  <2>3. QED
    BY <1>1, <2>1, <2>2 DEF CallsInv
<1>3. posted # <<>> => posted' # <<>> /\ Head(posted') = Head(posted)
  BY <1>1 DEF CallsInv
<1>4. QED
  BY <1>1, <1>2, <1>3 DEF CallsInv

\* A call is taken from its front.
LEMMA Taken ==
  ASSUME CallsInv, posted # <<>>,
         posted' = Tail(posted), handled' = Head(posted)
  PROVE  /\ CallsInv'
         /\ handled' \in Calls /\ Follows(handled, handled')
<1>1. /\ posted' \in Seq(Calls) /\ Len(posted') = Len(posted) - 1
      /\ \A i \in 1 .. Len(posted') : posted'[i] = posted[i + 1]
      /\ handled' = posted[1] /\ handled' \in Calls
  BY DEF CallsInv
<1>2. Follows(handled, handled')
  BY <1>1 DEF CallsInv, Before
<1>3. ASSUME NEW i \in 1 .. Len(posted')
      PROVE  Follows(Before(handled', posted', i), posted'[i])
  <2>1. i + 1 \in 1 .. Len(posted)
    BY <1>1 DEF CallsInv
  <2>2. Before(handled', posted', i) = Before(handled, posted, i + 1)
    BY <1>1, <2>1 DEF Before
  <2>3. QED
    BY <1>1, <2>1, <2>2 DEF CallsInv
<1>4. QED
  BY <1>1, <1>2, <1>3 DEF CallsInv

-----------------------------------------------------------------------------
LEMMA CallersStep ==
  ASSUME RInv, CallStart \/ CallStop \/ CallChangeFormat \/ CallFirstFrameReceived
  PROVE  RInv'
<1>1. PICK c \in Calls : Follows(Latest, c) /\ BeginInvoke(c.op, c.format, c.on)
                         /\ c = [op |-> c.op, format |-> c.format, on |-> c.on]
  <2>1. Latest \in Calls
    BY LatestFollows DEF RInv
  <2>2. CASE CallStart
    <3>1. PICK f \in Formats : /\ Latest.on => f = Latest.format
                               /\ BeginInvoke("Start", f, TRUE)
      BY <2>2 DEF CallStart
    <3>2. [op |-> "Start", format |-> f, on |-> TRUE] \in Calls
      BY DEF Calls
    <3>3. WITNESS [op |-> "Start", format |-> f, on |-> TRUE] \in Calls
    <3>4. QED
      BY <3>1 DEF Follows
  <2>3. CASE CallStop
    <3>1. [op |-> "Stop", format |-> Latest.format, on |-> FALSE] \in Calls
      BY <2>1 DEF Calls
    <3>2. WITNESS [op |-> "Stop", format |-> Latest.format, on |-> FALSE] \in Calls
    <3>3. QED
      BY <2>3 DEF CallStop, Follows
  <2>4. CASE CallChangeFormat
    <3>1. PICK f \in Formats : BeginInvoke("ChangeFormat", f, Latest.on)
      BY <2>4 DEF CallChangeFormat
    <3>2. [op |-> "ChangeFormat", format |-> f, on |-> Latest.on] \in Calls
      BY <2>1 DEF Calls
    <3>3. WITNESS [op |-> "ChangeFormat", format |-> f, on |-> Latest.on] \in Calls
    <3>4. QED
      BY <3>1 DEF Follows
  <2>5. CASE CallFirstFrameReceived
    <3>1. [op |-> "FirstFrameReceived", format |-> Latest.format, on |-> Latest.on]
            \in Calls
      BY <2>1 DEF Calls
    <3>2. WITNESS [op |-> "FirstFrameReceived", format |-> Latest.format,
                   on |-> Latest.on] \in Calls
    <3>3. QED
      BY <2>5 DEF CallFirstFrameReceived, Follows
  <2>6. QED
    BY <2>2, <2>3, <2>4, <2>5
<1>2. posted' = Append(posted, c) /\ handled' = handled
  BY <1>1 DEF BeginInvoke
<1>3. CallsInv' /\ (posted # <<>> => posted' # <<>> /\ Head(posted') = Head(posted))
  BY <1>1, <1>2, Posted DEF RInv
<1>4. UNCHANGED <<vars, handled, isRendering, mediastreamer, streamSource,
                  followed, format, described, asked>>
  BY <1>1 DEF BeginInvoke
<1>5. QED
  BY <1>3, <1>4 DEF RInv, HandsInv, FormatInv, vars

LEMMA TakeFacts ==
  ASSUME RInv, NEW op, Take(op)
  PROVE  /\ CallsInv' /\ Follows(handled, handled') /\ handled'.op = op
         /\ handled' = Head(posted)
         /\ handled \in Calls /\ handled' \in Calls
  BY Taken DEF RInv, Take, CallsInv

LEMMA IgnoredStep ==
  ASSUME RInv, \/ StartIgnored \/ StartFails \/ StopIgnored
               \/ ChangeFormatIgnored \/ FirstFrameIgnored
  PROVE  RInv'
<1>1. PICK op \in {"Start", "Stop", "ChangeFormat", "FirstFrameReceived"} :
        /\ Ignore(op)
        /\ op = "Stop" => ~isRendering
        /\ op = "ChangeFormat" => streamSource # "followed"
  BY DEF StartIgnored, StartFails, StopIgnored, ChangeFormatIgnored,
         FirstFrameIgnored
<1>2. Take(op)
  BY <1>1 DEF Ignore
<1>3. UNCHANGED <<vars, isRendering, mediastreamer, streamSource, followed,
                  format, described, asked>>
  BY <1>1 DEF Ignore
<1>4. HandsInv'
  BY <1>2, <1>3 DEF RInv, HandsInv, Take, vars
<1>5. FormatInv'
  BY <1>1, <1>2, <1>3, TakeFacts DEF RInv, FormatInv, Follows, vars
<1>6. QED
  BY <1>2, <1>4, <1>5, TakeFacts DEF RInv

LEMMA HandlersStep ==
  ASSUME RInv, Start \/ StopOther \/ ChangeFormat \/ DescribeStream
  PROVE  RInv'
<1>1. CASE Start
  <2>1. Take("Start") /\ UNCHANGED vars
    BY <1>1 DEF Start
  <2>2. HandsInv'
    BY <1>1, <2>1 DEF Start, RInv, HandsInv, Take, vars
  <2>3. FormatInv'
    BY <1>1, <2>1, TakeFacts DEF Start, RInv, FormatInv, HandsInv, Follows, vars
  <2>4. QED
    BY <2>1, <2>2, <2>3, TakeFacts DEF RInv
<1>2. CASE StopOther
  <2>1. Take("Stop") /\ UNCHANGED vars
    BY <1>2 DEF StopOther
  <2>2. HandsInv' /\ FormatInv'
    BY <1>2, <2>1 DEF StopOther, Forget, RInv, HandsInv, FormatInv, Take, vars
  <2>3. QED
    BY <2>1, <2>2, TakeFacts DEF RInv
<1>3. CASE ChangeFormat
  <2>1. Take("ChangeFormat") /\ UNCHANGED vars
    BY <1>3 DEF ChangeFormat
  <2>2. HandsInv'
    BY <1>3, <2>1 DEF ChangeFormat, RInv, HandsInv, Take, vars
  <2>3. FormatInv'
    BY <1>3, <2>1, TakeFacts DEF ChangeFormat, RInv, FormatInv, Follows, vars
  <2>4. QED
    BY <2>1, <2>2, <2>3, TakeFacts DEF RInv
<1>4. CASE DescribeStream
  <2>1. Take("FirstFrameReceived") /\ FirstFrameReceived
    BY <1>4 DEF DescribeStream
  <2>2. HandsInv'
    BY <1>4, <2>1 DEF DescribeStream, FirstFrameReceived, RInv, HandsInv, Take
  <2>3. isRendering /\ streamSource = "followed"
    BY <2>1 DEF FirstFrameReceived, RInv, HandsInv
  <2>4. FormatInv'
    BY <1>4, <2>1, <2>3, TakeFacts
    DEF DescribeStream, FirstFrameReceived, RInv, FormatInv, Follows
  <2>5. QED
    BY <2>1, <2>2, <2>4, TakeFacts DEF RInv
<1>5. QED
  BY <1>1, <1>2, <1>3, <1>4

LEMMA StopStep ==
  ASSUME RInv, StopBegins \/ StopShutsDown \/ StopEnds
  PROVE  RInv'
<1>1. CASE StopBegins
  BY <1>1 DEF StopBegins, SetShutdownEvent, rendererVars, RInv, CallsInv, HandsInv,
              FormatInv
<1>2. CASE StopShutsDown
  BY <1>2 DEF StopShutsDown, Shutdown, rendererVars, RInv, CallsInv, HandsInv,
              FormatInv
<1>3. CASE StopEnds
  <2>1. posted # <<>> /\ posted' = Tail(posted) /\ handled' = Head(posted)
    BY <1>3 DEF StopEnds, Dispose, RInv, HandsInv
  <2>2. CallsInv'
    BY <2>1, Taken DEF RInv
  <2>3. HandsInv' /\ FormatInv'
    BY <1>3 DEF StopEnds, Dispose, Forget, RInv, HandsInv, FormatInv
  <2>4. QED
    BY <2>2, <2>3 DEF RInv
<1>4. QED
  BY <1>1, <1>2, <1>3

LEMMA RInvStep == RInv /\ [RendererNext]_allVars => RInv'
<1> SUFFICES ASSUME RInv, [RendererNext]_allVars PROVE RInv'
  OBVIOUS
<1>1. CASE SourceStep
  BY <1>1 DEF SourceStep, OpenMediaAsync, GetSampleAsync, OnSampleReceived,
              FeedSamples, rendererVars, RInv, CallsInv, HandsInv, FormatInv
<1>2. CASE UNCHANGED allVars
  BY <1>2 DEF allVars, vars, rendererVars, RInv, CallsInv, HandsInv, FormatInv
<1>3. QED
  BY <1>1, <1>2, CallersStep, IgnoredStep, HandlersStep, StopStep DEF RendererNext

\* The source being played is the renderer's own and was described in the format
\* its caller had asked for, for every length of the queue and set of formats.
THEOREM PlayedSourceIsAsked == RendererSpec => []PlayedAsAsked
<1>1. RInv => PlayedAsAsked
  BY DEF RInv, HandsInv, FormatInv, PlayedAsAsked
<1>2. QED
  BY <1>1, RInvInit, RInvStep, PTL DEF RendererSpec
=============================================================================
