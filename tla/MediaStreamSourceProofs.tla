------------------------ MODULE MediaStreamSourceProofs ------------------------
(* Proofs about MediaStreamSource, alone and behind the scheme handler, for every *)
(* bound.                                                                         *)
EXTENDS SchemeHandler, TLAPS

-----------------------------------------------------------------------------
(* The invariant *)

\* The call that holds the mutex has found the slot as it still is, and no
\* request has been deferred while there was a frame.
SlotInv ==
  /\ handler = "defer" => sample = 0
  /\ handler = "answer" => sample # 0
  /\ failures = 0 => sample = 0 \/ deferred = 0

\* Once the engine is shut down, the calls that are left were under way then.
LateInv ==
  /\ filter # "running" /\ (arriving > 0 \/ handler # "none") => late
  /\ crashed => late /\ filter = "stopped"

\* The last sample's time is the time of the last time stamp taken, or of an
\* earlier one if an answer has failed since.
TimeInv ==
  /\ initialTimeStamp <= timeStamp /\ timeStamp <= now
  /\ initialTimeStamp = 0 <=> timeStamp = 0
  /\ samples # <<>> =>
       LET last == samples[Len(samples)].time
           latest == (timeStamp - initialTimeStamp + Ahead) * Millisecond
       IN timeStamp # 0 /\ last <= latest /\ (failures = 0 => last = latest)

\* The slot holds the newest frame, which has not been shown, or nothing; each
\* request that waits or is being handled is still open.
Handling == IF handler = "none" THEN 0 ELSE 1

ChannelInv ==
  /\ sample \in {0, fed}
  /\ sample # 0 => Shown < fed
  /\ Shown <= fed
  /\ requests >= closed + deferred + arriving + Handling

IInv == SourceTypeOK /\ SlotInv /\ LateInv /\ TimeInv /\ Timeline /\ ChannelInv

-----------------------------------------------------------------------------
(* The answer *)

\* What is kept of an answer, whichever way it goes: it takes the frame out of
\* the slot and hands it on, or counts a failure.
LEMMA AnswerFacts ==
  ASSUME SourceTypeOK, TimeInv, NEW outcome \in Outcomes, NEW f \in Nat \ {0},
         AnswerSampleRequest(outcome, f), UNCHANGED now
  PROVE  /\ sample' \in {0, f}
         /\ timeStamp' \in Nat /\ initialTimeStamp' \in Nat
         /\ initialTimeStamp' <= timeStamp' /\ timeStamp' <= now
         /\ initialTimeStamp' = 0 <=> timeStamp' = 0
         /\ timeStamp <= timeStamp'
         /\ timeStamp # 0 => initialTimeStamp' = initialTimeStamp
         /\ closed' = closed + 1
         /\ \/ /\ outcome # "sent"
               /\ failures' = failures + 1
               /\ samples' = samples
            \/ /\ outcome = "sent"
               /\ sample' = 0
               /\ failures' = failures
               /\ timeStamp' # 0
               /\ NewSample(f) \in Sample
               /\ samples' = Append(samples, NewSample(f))
  <1> USE DEF SourceTypeOK, TimeInv, AnswerSampleRequest, SlotAfter
  <1>1. CASE outcome = "noSample"
    BY <1>1
  <1>2. CASE outcome # "noSample"
    <2>1. Stamp
      BY <1>2
    <2>2. /\ timeStamp' = now /\ now \in Nat \ {0}
          /\ initialTimeStamp' = IF initialTimeStamp = 0 THEN now ELSE initialTimeStamp
      BY <2>1 DEF Stamp
    <2>3. NewSample(f) \in Sample
      BY <2>2 DEF NewSample, Sample, FirstDuration, Millisecond, Ahead
    <2> QED BY <1>2, <2>2, <2>3
  <1> QED BY <1>1, <1>2

\* The last element of a sequence of samples after one more.
LEMMA LastSample ==
  ASSUME NEW s \in Seq(Sample), NEW x \in Sample
  PROVE  /\ Append(s, x) \in Seq(Sample)
         /\ Append(s, x) # <<>>
         /\ Len(Append(s, x)) = Len(s) + 1
         /\ Append(s, x)[Len(s) + 1] = x
         /\ \A k \in 1 .. Len(s) : Append(s, x)[k] = s[k] /\ s[k] \in Sample
         /\ s = <<>> <=> Len(s) = 0
  OBVIOUS

\* A later reading of the clock gives a later time.
LEMMA LaterTimes ==
  ASSUME NEW first \in Nat, NEW before \in Nat, NEW after \in Nat, before <= after
  PROVE  /\ (before - first + Ahead) * Millisecond <= (after - first + Ahead) * Millisecond
         /\ (before - first + Ahead) * Millisecond \in Int
         /\ (after - first + Ahead) * Millisecond \in Int
  BY DEF Ahead, Millisecond

-----------------------------------------------------------------------------
(* The answers given in a step: AnswerFacts for the two actions that answer. *)

\* A frame that is fed to a request that waits.
LEMMA FeedDeferralType ==
  SourceTypeOK /\ TimeInv /\ FeedDeferral => SourceTypeOK'
  <1> SUFFICES ASSUME SourceTypeOK, TimeInv, FeedDeferral PROVE SourceTypeOK'
    OBVIOUS
  <1>1. PICK outcome \in Outcomes : AnswerSampleRequest(outcome, fed + 1)
    BY DEF FeedDeferral
  <1>2. fed + 1 \in Nat \ {0} /\ UNCHANGED now
    BY DEF FeedDeferral, SourceTypeOK
  <1>3. /\ sample' \in {0, fed + 1}
        /\ \/ failures' = failures + 1 /\ samples' = samples
           \/ /\ failures' = failures /\ NewSample(fed + 1) \in Sample
              /\ samples' = Append(samples, NewSample(fed + 1))
    BY <1>1, <1>2, AnswerFacts
  <1>4. samples' \in Seq(Sample)
    BY <1>3, LastSample DEF SourceTypeOK
  <1>5. timeStamp' \in Nat /\ initialTimeStamp' \in Nat /\ closed' = closed + 1
    BY <1>1, <1>2, AnswerFacts
  <1> QED BY <1>2, <1>3, <1>4, <1>5 DEF FeedDeferral, SourceTypeOK, Waits

\* A request that finds a frame in the slot.
LEMMA AnswerRequestType ==
  SourceTypeOK /\ SlotInv /\ TimeInv /\ AnswerRequest => SourceTypeOK'
  <1> SUFFICES ASSUME SourceTypeOK, SlotInv, TimeInv, AnswerRequest
               PROVE  SourceTypeOK'
    OBVIOUS
  <1>1. PICK outcome \in Outcomes : AnswerSampleRequest(outcome, sample)
    BY DEF AnswerRequest
  <1>2. sample \in Nat \ {0} /\ UNCHANGED now
    BY DEF AnswerRequest, SourceTypeOK, SlotInv
  <1>3. /\ sample' \in {0, sample}
        /\ \/ failures' = failures + 1 /\ samples' = samples
           \/ /\ failures' = failures /\ NewSample(sample) \in Sample
              /\ samples' = Append(samples, NewSample(sample))
    BY <1>1, <1>2, AnswerFacts
  <1>4. samples' \in Seq(Sample)
    BY <1>3, LastSample DEF SourceTypeOK
  <1>5. timeStamp' \in Nat /\ initialTimeStamp' \in Nat /\ closed' = closed + 1
    BY <1>1, <1>2, AnswerFacts
  <1> QED BY <1>2, <1>3, <1>4, <1>5 DEF AnswerRequest, SourceTypeOK

\* What an answer does to the times of the samples.
LEMMA AnswerTimes ==
  ASSUME SourceTypeOK, TimeInv, Timeline, NEW outcome \in Outcomes,
         NEW f \in Nat \ {0}, AnswerSampleRequest(outcome, f), UNCHANGED now
  PROVE  TimeInv' /\ Timeline'
  <1>1. CASE outcome # "sent"
    <2>1. failures' = failures + 1 /\ samples' = samples
      BY <1>1, AnswerFacts
    <2>2. failures' # 0 /\ (failures' = 0 => failures = 0)
      BY <2>1 DEF SourceTypeOK
    <2>3. Timeline'
      BY <2>1, <2>2 DEF Timeline
    <2>4. /\ timeStamp' \in Nat /\ initialTimeStamp' \in Nat
          /\ initialTimeStamp' <= timeStamp' /\ timeStamp' <= now'
          /\ initialTimeStamp' = 0 <=> timeStamp' = 0
          /\ timeStamp <= timeStamp'
          /\ timeStamp # 0 => initialTimeStamp' = initialTimeStamp
      BY AnswerFacts
    <2>5. samples # <<>> => samples[Len(samples)].time \in Nat
      <3>1. samples # <<>> => samples[Len(samples)] \in Sample
        BY DEF SourceTypeOK
      <3> QED BY <3>1 DEF Sample
    <2>6. ASSUME samples # <<>>
          PROVE  /\ timeStamp' # 0
                 /\ samples[Len(samples)].time
                      <= (timeStamp' - initialTimeStamp' + Ahead) * Millisecond
      <3>1. /\ timeStamp # 0 /\ timeStamp \in Nat /\ initialTimeStamp \in Nat
            /\ samples[Len(samples)].time
                 <= (timeStamp - initialTimeStamp + Ahead) * Millisecond
        BY <2>6 DEF TimeInv, SourceTypeOK
      <3>2. initialTimeStamp' = initialTimeStamp /\ timeStamp' # 0
        BY <2>4, <3>1
      <3>3. /\ (timeStamp - initialTimeStamp + Ahead) * Millisecond
               <= (timeStamp' - initialTimeStamp + Ahead) * Millisecond
            /\ (timeStamp - initialTimeStamp + Ahead) * Millisecond \in Int
            /\ (timeStamp' - initialTimeStamp + Ahead) * Millisecond \in Int
        BY <2>4, <3>1, LaterTimes
      <3>4. samples[Len(samples)].time
              <= (timeStamp' - initialTimeStamp + Ahead) * Millisecond
        BY <2>5, <2>6, <3>1, <3>3
      <3> QED BY <3>2, <3>4
    <2>7. TimeInv'
      BY <2>1, <2>2, <2>4, <2>6 DEF TimeInv
    <2> QED BY <2>3, <2>7
  <1>2. CASE outcome = "sent"
    <2> DEFINE x == NewSample(f)
               n == Len(samples)
    <2>1. /\ failures' = failures /\ samples' = Append(samples, x)
          /\ x \in Sample /\ timeStamp' # 0
      BY <1>2, AnswerFacts
    <2>2. /\ timeStamp' \in Nat /\ initialTimeStamp' \in Nat
          /\ initialTimeStamp' <= timeStamp' /\ timeStamp' <= now'
          /\ initialTimeStamp' = 0 <=> timeStamp' = 0
          /\ timeStamp <= timeStamp'
          /\ timeStamp # 0 => initialTimeStamp' = initialTimeStamp
      BY AnswerFacts
    <2>3. /\ x.time = (timeStamp' - initialTimeStamp' + Ahead) * Millisecond
          /\ timeStamp # 0 => x.duration = (timeStamp' - timeStamp) * Millisecond
      BY DEF NewSample
    <2>4. /\ n \in Nat /\ samples' # <<>> /\ Len(samples') = n + 1
          /\ samples'[n + 1] = x
          /\ \A k \in 1 .. n : samples'[k] = samples[k] /\ samples[k] \in Sample
          /\ samples = <<>> <=> n = 0
      BY <2>1, LastSample DEF SourceTypeOK
    <2> HIDE DEF x, n
    <2>5. TimeInv'
      <3>1. samples'[Len(samples')].time
              = (timeStamp' - initialTimeStamp' + Ahead) * Millisecond
        BY <2>3, <2>4
      <3>2. (timeStamp' - initialTimeStamp' + Ahead) * Millisecond \in Int
        BY <2>2 DEF Ahead, Millisecond
      <3> QED BY <2>1, <2>2, <3>1, <3>2 DEF TimeInv
    <2>6. ASSUME NEW k \in 2 .. n + 1
          PROVE  LET gap == samples'[k].time - samples'[k - 1].time
                 IN /\ samples'[k].duration \in 0 .. gap
                    /\ failures' = 0 => samples'[k].duration = gap
      <3>1. CASE k \in 2 .. n
        <4>1. k - 1 \in 1 .. n /\ k \in 1 .. n
          BY <2>4, <3>1
        <4> QED BY <2>1, <2>4, <3>1, <4>1 DEF Timeline, n
      <3>2. CASE k = n + 1
        <4>1. n \in 1 .. n /\ samples # <<>> /\ k - 1 = n
          BY <2>4, <2>6, <3>2
        <4>2. /\ samples'[k] = x /\ samples'[k - 1] = samples[n]
              /\ samples[n] \in Sample
          BY <2>4, <3>2, <4>1
        <4>3. /\ timeStamp # 0
              /\ samples[n].time <= (timeStamp - initialTimeStamp + Ahead) * Millisecond
              /\ failures = 0 =>
                   samples[n].time = (timeStamp - initialTimeStamp + Ahead) * Millisecond
          BY <4>1 DEF TimeInv, n
        <4>4. samples[n].time \in Nat /\ x.time \in Nat /\ x.duration \in Nat
          BY <2>1, <4>2 DEF Sample
        <4> DEFINE t == samples[n].time
                   d == x.duration
                   u == x.time
        <4>5. t \in Nat /\ d \in Nat /\ u \in Nat
          BY <4>4
        <4>6. initialTimeStamp \in Nat /\ timeStamp \in Nat /\ timeStamp' \in Nat
          BY <2>2 DEF SourceTypeOK
        <4>7. /\ t <= (timeStamp - initialTimeStamp + 40) * 10000
              /\ failures = 0 => t = (timeStamp - initialTimeStamp + 40) * 10000
          BY <4>3 DEF Ahead, Millisecond
        <4>8. initialTimeStamp' = initialTimeStamp /\ timeStamp <= timeStamp'
          BY <2>2, <4>3
        <4>9. d = (timeStamp' - timeStamp) * 10000
          BY <2>3, <4>3 DEF Millisecond
        <4>10. u = (timeStamp' - initialTimeStamp + 40) * 10000
          BY <2>3, <4>8 DEF Ahead, Millisecond
        <4> HIDE DEF t, d, u
        <4> DEFINE p == (timeStamp - initialTimeStamp + 40) * 10000
        <4>11. p \in Int /\ d = u - p
          BY <4>6, <4>8, <4>9, <4>10
        <4>12. t <= p /\ (failures = 0 => t = p)
          BY <4>7
        <4> HIDE DEF p
        <4>13. d \in 0 .. u - t /\ (failures = 0 => d = u - t)
          BY <4>5, <4>11, <4>12
        <4>14. failures' = failures
          BY <2>1
        <4> QED BY <4>2, <4>13, <4>14 DEF t, d, u
      <3> QED BY <2>4, <2>6, <3>1, <3>2
    <2>7. Timeline'
      BY <2>4, <2>6 DEF Timeline
    <2> QED BY <2>5, <2>7
  <1> QED BY <1>1, <1>2

-----------------------------------------------------------------------------
(* Every step keeps the invariant. *)

\* The fields keep their types.
LEMMA TypeStep ==
  SourceTypeOK /\ SlotInv /\ TimeInv /\ [Next]_vars => SourceTypeOK'
  <1> SUFFICES ASSUME SourceTypeOK, SlotInv, TimeInv, [Next]_vars
               PROVE  SourceTypeOK'
    OBVIOUS
  <1>1. CASE FeedDeferral
    BY <1>1, FeedDeferralType
  <1>2. CASE AnswerRequest
    BY <1>2, AnswerRequestType
  <1>3. CASE FeedSlot
    BY <1>3 DEF SourceTypeOK, FeedSlot
  <1>4. CASE RaiseRequest
    BY <1>4 DEF SourceTypeOK, RaiseRequest
  <1>5. CASE EnterRequest
    BY <1>5 DEF SourceTypeOK, EnterRequest
  <1>6. CASE DeferRequest
    BY <1>6 DEF SourceTypeOK, DeferRequest
  <1>7. CASE UseNull
    BY <1>7 DEF SourceTypeOK, UseNull
  <1>8. CASE ShutDownEngine
    BY <1>8 DEF SourceTypeOK, ShutDownEngine
  <1>9. CASE Stop
    BY <1>9 DEF SourceTypeOK, Stop
  <1>10. CASE Tick
    BY <1>10 DEF SourceTypeOK, Tick
  <1>11. CASE UNCHANGED vars
    BY <1>11 DEF SourceTypeOK, vars
  <1> QED
    BY <1>1, <1>2, <1>3, <1>4, <1>5, <1>6, <1>7, <1>8, <1>9, <1>10, <1>11 DEF Next

\* A frame enters or leaves the slot only under the mutex.
LEMMA SlotStep ==
  SourceTypeOK /\ SlotInv /\ TimeInv /\ [Next]_vars => SlotInv'
  <1> SUFFICES ASSUME SourceTypeOK, SlotInv, TimeInv, [Next]_vars
               PROVE  SlotInv'
    OBVIOUS
  <1>1. CASE FeedDeferral
    <2>1. PICK outcome \in Outcomes : AnswerSampleRequest(outcome, fed + 1)
      BY <1>1 DEF FeedDeferral
    <2>2. fed + 1 \in Nat \ {0} /\ UNCHANGED now
      BY <1>1 DEF FeedDeferral, SourceTypeOK
    <2>3. failures' = failures + 1 \/ sample' = 0
      BY <2>1, <2>2, AnswerFacts
    <2> QED BY <1>1, <2>3 DEF FeedDeferral, MutexFree, SlotInv, SourceTypeOK
  <1>2. CASE AnswerRequest
    <2>1. PICK outcome \in Outcomes : AnswerSampleRequest(outcome, sample)
      BY <1>2 DEF AnswerRequest
    <2>2. sample \in Nat \ {0} /\ UNCHANGED now
      BY <1>2 DEF AnswerRequest, SlotInv, SourceTypeOK
    <2>3. failures' = failures + 1 \/ sample' = 0
      BY <2>1, <2>2, AnswerFacts
    <2> QED BY <1>2, <2>3 DEF AnswerRequest, SlotInv, SourceTypeOK
  <1>3. CASE FeedSlot
    BY <1>3 DEF FeedSlot, MutexFree, Waits, SlotInv, SourceTypeOK
  <1>4. CASE RaiseRequest \/ EnterRequest \/ DeferRequest \/ UseNull
    BY <1>4 DEF SlotInv, RaiseRequest, EnterRequest, DeferRequest, UseNull
  <1>5. CASE Stop
    BY <1>5 DEF SlotInv, Stop
  <1>6. CASE ShutDownEngine \/ Tick \/ UNCHANGED vars
    <2>1. UNCHANGED <<handler, sample, deferred, failures>>
      BY <1>6 DEF ShutDownEngine, Tick, vars
    <2> QED BY <2>1 DEF SlotInv
  <1> QED BY <1>1, <1>2, <1>3, <1>4, <1>5, <1>6 DEF Next

\* No call begins after the engine is shut down.
LEMMA LateStep ==
  SourceTypeOK /\ LateInv /\ [Next]_vars => LateInv'
  <1> SUFFICES ASSUME SourceTypeOK, LateInv, [Next]_vars PROVE LateInv'
    OBVIOUS
  <1> USE DEF SourceTypeOK, LateInv
  <1>1. CASE FeedSlot \/ FeedDeferral
    BY <1>1 DEF FeedSlot, FeedDeferral
  <1>2. CASE RaiseRequest \/ EnterRequest \/ DeferRequest \/ AnswerRequest
    BY <1>2 DEF RaiseRequest, EnterRequest, DeferRequest, AnswerRequest
  <1>3. CASE UseNull
    BY <1>3 DEF UseNull
  <1>4. CASE ShutDownEngine
    <2>1. late' <=> arriving' > 0 \/ handler' # "none"
      BY <1>4 DEF ShutDownEngine
    <2>2. ~crashed'
      BY <1>4 DEF ShutDownEngine
    <2> QED BY <2>1, <2>2
  <1>5. CASE Stop
    BY <1>5 DEF Stop
  <1>6. CASE Tick \/ UNCHANGED vars
    BY <1>6 DEF Tick, vars
  <1> QED BY <1>1, <1>2, <1>3, <1>4, <1>5, <1>6 DEF Next

\* Only the clock and the answers touch the times.
LEMMA TimeStep ==
  SourceTypeOK /\ SlotInv /\ TimeInv /\ Timeline /\ [Next]_vars
    => TimeInv' /\ Timeline'
  <1> SUFFICES ASSUME SourceTypeOK, SlotInv, TimeInv, Timeline, [Next]_vars
               PROVE  TimeInv' /\ Timeline'
    OBVIOUS
  <1>1. CASE FeedDeferral
    <2>1. PICK outcome \in Outcomes : AnswerSampleRequest(outcome, fed + 1)
      BY <1>1 DEF FeedDeferral
    <2>2. fed + 1 \in Nat \ {0} /\ UNCHANGED now
      BY <1>1 DEF FeedDeferral, SourceTypeOK
    <2> QED BY <2>1, <2>2, AnswerTimes
  <1>2. CASE AnswerRequest
    <2>1. PICK outcome \in Outcomes : AnswerSampleRequest(outcome, sample)
      BY <1>2 DEF AnswerRequest
    <2>2. sample \in Nat \ {0} /\ UNCHANGED now
      BY <1>2 DEF AnswerRequest, SlotInv, SourceTypeOK
    <2> QED BY <2>1, <2>2, AnswerTimes
  <1>3. CASE Tick
    BY <1>3 DEF Tick, TimeInv, Timeline, SourceTypeOK
  <1>4. UNCHANGED <<timeStamp, initialTimeStamp, now, samples, failures>>
        => TimeInv' /\ Timeline'
    BY DEF TimeInv, Timeline
  <1>5. CASE FeedSlot \/ RaiseRequest \/ EnterRequest \/ DeferRequest \/ UseNull
    BY <1>4, <1>5 DEF FeedSlot, RaiseRequest, EnterRequest, DeferRequest, UseNull
  <1>6. CASE ShutDownEngine \/ Stop \/ UNCHANGED vars
    BY <1>4, <1>6 DEF ShutDownEngine, Stop, vars
  <1> QED BY <1>1, <1>2, <1>3, <1>5, <1>6 DEF Next

-----------------------------------------------------------------------------
(* The frame channel *)

\* What an answer does to the channel's variables.
LEMMA AnswerShown ==
  ASSUME SourceTypeOK, TimeInv, NEW outcome \in Outcomes, NEW f \in Nat \ {0},
         AnswerSampleRequest(outcome, f), UNCHANGED now
  PROVE  /\ sample' \in {0, f}
         /\ closed' = closed + 1
         /\ \/ Shown' = Shown /\ Len(samples') = Len(samples)
            \/ Shown' = f /\ sample' = 0 /\ Len(samples') = Len(samples) + 1
  <1>1. CASE outcome # "sent"
    BY <1>1, AnswerFacts DEF Shown
  <1>2. CASE outcome = "sent"
    <2>1. /\ NewSample(f) \in Sample
          /\ samples' = Append(samples, NewSample(f))
      BY <1>2, AnswerFacts
    <2>2. /\ samples' # <<>> /\ samples'[Len(samples')] = NewSample(f)
          /\ Len(samples') = Len(samples) + 1
      BY <2>1, LastSample DEF SourceTypeOK
    <2>3. Shown' = f
      BY <2>2 DEF Shown, NewSample
    <2> QED BY <1>2, <2>2, <2>3, AnswerFacts
  <1> QED BY <1>1, <1>2

\* The frame last shown has a number.
LEMMA ShownType == SourceTypeOK => Shown \in Nat
  <1>1. SourceTypeOK /\ samples # <<>> => samples[Len(samples)] \in Sample
    BY DEF SourceTypeOK
  <1> QED BY <1>1 DEF Shown, Sample

\* Each action is one of the channel's, or none of its business.
LEMMA ChannelStep ==
  SourceTypeOK /\ SlotInv /\ TimeInv /\ ChannelInv /\ [Next]_vars
    => ChannelInv' /\ [Channel!Next]_(Channel!vars)
  <1> SUFFICES ASSUME SourceTypeOK, SlotInv, TimeInv, ChannelInv, [Next]_vars
               PROVE  ChannelInv' /\ [Channel!Next]_(Channel!vars)
    OBVIOUS
  <1>1. Shown \in Nat
    BY ShownType
  <1>2. UNCHANGED samples => Shown' = Shown
    BY DEF Shown
  <1>3. CASE FeedSlot
    <2>1. Shown' = Shown /\ Open' = Open /\ UNCHANGED samples
      BY <1>2, <1>3 DEF FeedSlot, Open
    <2>2. ChannelInv'
      BY <1>1, <1>3, <2>1
      DEF FeedSlot, MutexFree, Waits, ChannelInv, Handling, SourceTypeOK
    <2>3. Channel!Feed
      BY <1>3, <2>1 DEF FeedSlot, Channel!Feed, Channel!ShowNone
    <2> QED BY <2>2, <2>3 DEF Channel!Next
  <1>4. CASE FeedDeferral
    <2>1. PICK outcome \in Outcomes : AnswerSampleRequest(outcome, fed + 1)
      BY <1>4 DEF FeedDeferral
    <2>2. /\ fed + 1 \in Nat \ {0} /\ UNCHANGED <<now, handler, arriving, requests>>
          /\ fed' = fed + 1 /\ deferred' = deferred - 1 /\ deferred > 0
          /\ handler = "none"
      BY <1>4 DEF FeedDeferral, MutexFree, Waits, SourceTypeOK
    <2>3. /\ sample' \in {0, fed + 1} /\ closed' = closed + 1
          /\ \/ Shown' = Shown /\ Len(samples') = Len(samples)
             \/ Shown' = fed + 1 /\ sample' = 0 /\ Len(samples') = Len(samples) + 1
      BY <2>1, <2>2, AnswerShown
    <2>4. ChannelInv'
      BY <1>1, <2>2, <2>3 DEF ChannelInv, Handling, SourceTypeOK
    <2>5. Open > 0 /\ Open' = Open - 1
      BY <2>2, <2>3 DEF Open, ChannelInv, Handling, SourceTypeOK
    <2>6. CASE Shown' = Shown /\ Len(samples') = Len(samples)
      BY <2>2, <2>4, <2>5, <2>6 DEF Channel!Next, Channel!FeedFails, Channel!ShowNone
    <2>7. CASE Shown' = fed + 1 /\ Len(samples') = Len(samples) + 1
      <3>1. Channel!Show
        BY <1>1, <2>2, <2>7 DEF Channel!Show, ChannelInv, SourceTypeOK
      <3> QED BY <2>2, <2>4, <2>5, <3>1 DEF Channel!Next, Channel!Feed
    <2> QED BY <2>3, <2>6, <2>7
  <1>5. CASE AnswerRequest
    <2>1. PICK outcome \in Outcomes : AnswerSampleRequest(outcome, sample)
      BY <1>5 DEF AnswerRequest
    <2>2. /\ sample \in Nat \ {0} /\ UNCHANGED <<now, deferred, arriving, requests, fed>>
          /\ handler = "answer" /\ handler' = "none"
      BY <1>5 DEF AnswerRequest, SlotInv, SourceTypeOK
    <2>3. /\ sample' \in {0, sample} /\ closed' = closed + 1
          /\ \/ Shown' = Shown /\ Len(samples') = Len(samples)
             \/ Shown' = sample /\ sample' = 0 /\ Len(samples') = Len(samples) + 1
      BY <2>1, <2>2, AnswerShown
    <2>4. ChannelInv'
      BY <1>1, <2>2, <2>3 DEF ChannelInv, Handling, SourceTypeOK
    <2>5. Open > 0 /\ Open' = Open - 1
      BY <2>2, <2>3 DEF Open, ChannelInv, Handling, SourceTypeOK
    <2>6. CASE Shown' = Shown /\ Len(samples') = Len(samples)
      BY <2>2, <2>4, <2>5, <2>6 DEF Channel!Next, Channel!Answer, Channel!ShowNone
    <2>7. CASE Shown' = sample /\ Len(samples') = Len(samples) + 1
      <3>1. Channel!Show
        BY <1>1, <2>2, <2>7 DEF Channel!Show, ChannelInv, SourceTypeOK
      <3> QED BY <2>2, <2>4, <2>5, <3>1 DEF Channel!Next, Channel!Answer
    <2> QED BY <2>3, <2>6, <2>7
  <1>6. CASE RaiseRequest
    <2>1. Shown' = Shown /\ Open' = Open + 1 /\ UNCHANGED <<fed, samples>>
      BY <1>2, <1>6 DEF RaiseRequest, Open, SourceTypeOK
    <2>2. ChannelInv'
      BY <1>6, <2>1 DEF RaiseRequest, ChannelInv, Handling, SourceTypeOK
    <2> QED BY <2>1, <2>2 DEF Channel!Next, Channel!Ask, Channel!ShowNone
  <1>7. CASE EnterRequest \/ DeferRequest \/ UseNull \/ ShutDownEngine \/ Stop
             \/ Tick \/ UNCHANGED vars
    <2>1. UNCHANGED <<samples, requests, closed, fed, sample>>
      BY <1>7 DEF EnterRequest, DeferRequest, UseNull, ShutDownEngine, Stop, Tick, vars
    <2>2. Shown' = Shown
      BY <1>2, <2>1
    <2>3. UNCHANGED Channel!vars
      BY <2>1, <2>2 DEF Channel!vars, Open
    <2>4. ChannelInv'
      <3> USE DEF SourceTypeOK, ChannelInv, Handling
      <3>1. CASE EnterRequest
        BY <1>1, <2>2, <3>1 DEF EnterRequest, MutexFree
      <3>2. CASE DeferRequest
        BY <1>1, <2>2, <3>2 DEF DeferRequest
      <3>3. CASE Stop
        BY <1>1, <2>2, <3>3 DEF Stop
      <3>4. CASE UseNull \/ ShutDownEngine \/ Tick \/ UNCHANGED vars
        BY <1>1, <2>2, <3>4 DEF UseNull, ShutDownEngine, Tick, vars
      <3> QED BY <1>7, <3>1, <3>2, <3>3, <3>4
    <2> QED BY <2>3, <2>4
  <1> QED BY <1>3, <1>4, <1>5, <1>6, <1>7 DEF Next

-----------------------------------------------------------------------------
(* The theorems *)

\* The source as it is constructed satisfies the invariant.
LEMMA InitIInv == Init => IInv
  <1> SUFFICES ASSUME Init PROVE IInv
    OBVIOUS
  <1>1. samples = <<>> /\ Len(samples) = 0
    BY DEF Init
  <1>2. SourceTypeOK
    <2>1. samples \in Seq(Sample)
      BY <1>1
    <2>2. crashed \in BOOLEAN /\ late \in BOOLEAN
      BY DEF Init
    <2>3. filter = "running" /\ handler = "none"
      BY DEF Init
    <2>4. /\ sample \in Nat /\ deferred \in Nat /\ arriving \in Nat
          /\ timeStamp \in Nat /\ initialTimeStamp \in Nat /\ now \in Nat \ {0}
      BY DEF Init
    <2>5. fed \in Nat /\ requests \in Nat /\ closed \in Nat /\ failures \in Nat
      BY DEF Init
    <2> QED BY <2>1, <2>2, <2>3, <2>4, <2>5 DEF SourceTypeOK
  <1>3. SlotInv /\ LateInv
    BY DEF Init, SlotInv, LateInv
  <1>4. TimeInv /\ Timeline
    BY <1>1 DEF Init, TimeInv, Timeline
  <1>5. ChannelInv
    BY DEF Init, ChannelInv, Handling, Shown
  <1> QED BY <1>2, <1>3, <1>4, <1>5 DEF IInv

\* In every state, of the slot, the mutex, the clock and the channel what the
\* five parts of the invariant say.
THEOREM Invariance == Spec => []IInv
  <1>1. Init => IInv
    BY InitIInv
  <1>2. IInv /\ [Next]_vars => IInv'
    BY TypeStep, SlotStep, LateStep, TimeStep, ChannelStep DEF IInv
  <1> QED BY <1>1, <1>2, PTL DEF Spec

\* Every variable of the source keeps its type.
THEOREM TypeCorrect == Spec => []SourceTypeOK
  <1>1. IInv => SourceTypeOK
    BY DEF IInv
  <1> QED BY <1>1, Invariance, PTL

\* While no answer has failed, no request is left waiting beside a frame,
\* whatever the order in which Feed and OnSampleRequested get the mutex.
THEOREM NoRequestIdle == Spec => []NoIdleRequest
  <1>1. IInv => NoIdleRequest
    BY DEF IInv, SlotInv, NoIdleRequest
  <1> QED BY <1>1, Invariance, PTL

\* AnswerSampleRequest gives the samples times that do not go back and
\* durations that fill the time between them.
THEOREM TimesGrow == Spec => []Timeline
  <1>1. IInv => Timeline
    BY DEF IInv
  <1> QED BY <1>1, Invariance, PTL

\* A field that Stop has cleared is used only by a request that was under way
\* when the engine was shut down.
THEOREM OnlyLateRequestsUseNull == Spec => []NullUseNeedsLateRequest
  <1>1. IInv => NullUseNeedsLateRequest
    BY DEF IInv, LateInv, NullUseNeedsLateRequest
  <1> QED BY <1>1, Invariance, PTL

\* The source implements the frame channel without lag.
THEOREM ImplementsChannel == Spec => NewestFrameOnce
  <1>1. Init => Channel!Init
    BY DEF Init, Channel!Init, Shown, Open
  <1>2. IInv /\ [Next]_vars => [Channel!Next]_(Channel!vars)
    BY ChannelStep DEF IInv
  <1> QED BY <1>1, <1>2, Invariance, PTL DEF Spec, NewestFrameOnce, Channel!Spec

-----------------------------------------------------------------------------
(* Behind the scheme handler and the extension manager. *)

\* Every step of the composition is a step of the source or leaves it alone.
LEMMA SourceSteps == ASSUME [SchemeNext]_allVars PROVE [Next]_vars
<1> USE DEF vars, schemeVars, allVars
<1>1. CASE SourceStep
  BY <1>1 DEF SourceStep, Next
<1>2. CASE SchemeNext /\ ~SourceStep
  BY <1>2 DEF SchemeNext, SetUp, RegisterUrl, StartFails, Load, UnregisterUrl,
              OtherRenderer, LookupFinds, LookupFails, GetSize
<1>3. CASE UNCHANGED allVars
  BY <1>3
<1>4. QED
  BY <1>1, <1>2, <1>3

\* The source behind the scheme handler is a MediaStreamSource (Renderer.cpp,
\* Start and Close), to which the theorems about it apply.
THEOREM ImplementsSource == SchemeSpec => Spec
<1>1. SchemeInit => Init
  BY DEF SchemeInit
<1>2. [SchemeNext]_allVars => [Next]_vars
  BY SourceSteps
<1>3. QED
  BY <1>1, <1>2, PTL DEF SchemeSpec, Spec

\* Behind the scheme handler, too, the source answers each request once and with
\* the newest frame.
THEOREM ChannelBehindHandler == SchemeSpec => NewestFrameOnce
  BY ImplementsSource, ImplementsChannel, PTL

\* A resolution that is under way finds its URL until the renderer closes.
Registered ==
  /\ start \in {"registered", "loaded"} /\ filter = "running" => "own" \in urls
  /\ start \notin {"loaded", "failed"} => filter = "running"
  /\ resolution # "none" => start = "loaded"
  /\ UnansweredNeedsClose

LEMMA RegisteredStep ==
  ASSUME Registered, [SchemeNext]_allVars PROVE Registered'
<1> USE DEF Registered, UnansweredNeedsClose, vars, schemeVars, allVars
<1>1. CASE SourceStep
  <2>1. filter' = filter \/ (Returned /\ filter' # "running")
    BY <1>1 DEF SourceStep, FeedSlot, FeedDeferral, RaiseRequest, EnterRequest,
                DeferRequest, AnswerRequest, UseNull, ShutDownEngine, Stop, Tick
  <2>2. UNCHANGED schemeVars
    BY <1>1 DEF SourceStep
  <2>3. QED
    BY <2>1, <2>2 DEF Returned
<1>2. CASE SetUp \/ RegisterUrl \/ StartFails
  BY <1>2 DEF SetUp, RegisterUrl, StartFails
<1>3. CASE Load
  BY <1>3 DEF Load
<1>4. CASE UnregisterUrl \/ OtherRenderer
  BY <1>4 DEF UnregisterUrl, OtherRenderer
<1>5. CASE LookupFinds \/ LookupFails \/ GetSize
  BY <1>5 DEF LookupFinds, LookupFails, GetSize
<1>6. CASE UNCHANGED allVars
  BY <1>6
<1>7. QED
  BY <1>1, <1>2, <1>3, <1>4, <1>5, <1>6 DEF SchemeNext

\* BeginCreateObject leaves the engine without an answer only for a renderer that
\* closes.
THEOREM UnansweredOnlyInClose == SchemeSpec => []UnansweredNeedsClose
<1>1. SchemeInit => Registered
  BY DEF SchemeInit, Init, Registered, UnansweredNeedsClose
<1>2. Registered /\ [SchemeNext]_allVars => Registered'
  BY RegisteredStep
<1>3. Registered => UnansweredNeedsClose
  BY DEF Registered
<1>4. QED
  BY <1>1, <1>2, <1>3, PTL DEF SchemeSpec
=============================================================================
