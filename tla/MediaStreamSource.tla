-------------------------- MODULE MediaStreamSource ---------------------------
(***************************************************************************)
(* MediaStreamSource: one slot for the newest frame between the display    *)
(* filter, which feeds frames as they are decoded, and the media engine,   *)
(* which asks for one when it wants one.  A request that finds the slot    *)
(* empty is deferred and answered by the next frame.                       *)
(*                                                                         *)
(* The filter's thread calls Feed, and to close first shuts the engine     *)
(* down and then calls Stop.  Engine threads run OnSampleRequested.  A     *)
(* mutex is held in Feed and in OnSampleRequested, but not in Stop.        *)
(***************************************************************************)
EXTENDS Integers, Sequences

CONSTANTS
  MaxFrames,    \* bound: frames fed
  MaxRequests,  \* bound: requests of the media engine
  MaxTicks,     \* bound: readings of the clock, in milliseconds
  MaxFailures   \* bound: answers that fail

ASSUME BoundsAssumption ==
  MaxFrames \in Nat /\ MaxRequests \in Nat /\ MaxTicks \in Nat /\ MaxFailures \in Nat

VARIABLES
  filter,            \* the filter's thread: "running", "closing", "stopped"
  sample,            \* mSample: the frame's number, 0 for null
  deferred,          \* mDeferralQueue->Size
  arriving,          \* calls of OnSampleRequested that have not taken the mutex
  handler,           \* the call that holds it: "none", or what it is about to do
  timeStamp,         \* mTimeStamp
  initialTimeStamp,  \* mInitialTimeStamp
  now,               \* external: GetTickCount64
  crashed,           \* a field was used that Stop had set to null
  fed,               \* history: frames fed
  requests,          \* history: requests raised
  closed,            \* history: requests answered, with a frame or with none
  samples,           \* history: the samples handed to the engine
  failures,          \* history: answers that failed
  late               \* history: the engine was shut down during a request

vars == <<filter, sample, deferred, arriving, handler, timeStamp,
          initialTimeStamp, now, crashed, fed, requests, closed, samples,
          failures, late>>

-----------------------------------------------------------------------------
\* Times and durations are in units of 100 nanoseconds.
Millisecond == 10000
FirstDuration == 333333  \* a thirtieth of a second
Ahead == 40              \* milliseconds from the clock to the sample's time

Sample == [frame : Nat, time : Nat, duration : Nat]

\* std::mutex: free between the calls of OnSampleRequested (Feed is one action).
MutexFree == handler = "none"

Init ==
  /\ filter = "running"
  /\ sample = 0
  /\ deferred = 0
  /\ arriving = 0
  /\ handler = "none"
  /\ timeStamp = 0
  /\ initialTimeStamp = 0
  /\ now = 1
  /\ crashed = FALSE
  /\ fed = 0
  /\ requests = 0
  /\ closed = 0
  /\ samples = <<>>
  /\ failures = 0
  /\ late = FALSE

-----------------------------------------------------------------------------
(* AnswerSampleRequest *)

\* "sent" also when RenderFrame could not copy the picture: the sample goes out
\* with what its buffer holds.
Outcomes == {"sent", "noSample", "noBuffer", "notSet"}

\* Mutant: the time line starts afresh with every sample.
StampAfresh ==
  /\ initialTimeStamp' = now
  /\ timeStamp' = now

Stamp ==
  /\ initialTimeStamp' = IF initialTimeStamp = 0 THEN now ELSE initialTimeStamp
  /\ timeStamp' = now

NewSample(f) ==
  [frame    |-> f,
   time     |-> (timeStamp' - initialTimeStamp' + Ahead) * Millisecond,
   duration |-> IF timeStamp = 0 THEN FirstDuration
                                 ELSE (timeStamp' - timeStamp) * Millisecond]

\* Mutant: the slot keeps the frame that has been sent.
SlotKept(outcome, f) == sample' = f

\* The early returns leave the frame in the slot.
SlotAfter(outcome, f) ==
  sample' = IF outcome \in {"noSample", "noBuffer"} THEN f ELSE 0

AnswerSampleRequest(outcome, f) ==
  /\ IF outcome = "noSample" THEN UNCHANGED <<timeStamp, initialTimeStamp>> ELSE Stamp
  /\ SlotAfter(outcome, f)
  /\ IF outcome = "sent"
     THEN samples' = Append(samples, NewSample(f)) /\ UNCHANGED failures
     ELSE /\ failures < MaxFailures
          /\ failures' = failures + 1
          /\ UNCHANGED samples
  /\ closed' = closed + 1

-----------------------------------------------------------------------------
(* Feed *)

\* Mutant: the deferral queue is not looked at.
AnyoneWaits == deferred >= 0

Waits == deferred > 0

\* Mutant: a frame goes to the slot whether or not a request waits.
FeedSlotOnly ==
  /\ filter = "running" /\ MutexFree /\ fed < MaxFrames
  /\ fed' = fed + 1
  /\ sample' = fed + 1
  /\ UNCHANGED <<filter, deferred, arriving, handler, timeStamp,
                 initialTimeStamp, now, crashed, requests, closed, samples,
                 failures, late>>

\* No request waits: the frame replaces the one in the slot.
FeedSlot ==
  /\ filter = "running" /\ MutexFree /\ fed < MaxFrames
  /\ ~Waits
  /\ fed' = fed + 1
  /\ sample' = fed + 1
  /\ UNCHANGED <<filter, deferred, arriving, handler, timeStamp,
                 initialTimeStamp, now, crashed, requests, closed, samples,
                 failures, late>>

\* The request that waits longest is answered, and its deferral completed even
\* if the answer failed.
FeedDeferral ==
  /\ filter = "running" /\ MutexFree /\ fed < MaxFrames
  /\ Waits
  /\ fed' = fed + 1
  /\ deferred' = deferred - 1
  /\ \E outcome \in Outcomes : AnswerSampleRequest(outcome, fed + 1)
  /\ UNCHANGED <<filter, arriving, handler, now, crashed, requests, late>>

-----------------------------------------------------------------------------
(* OnSampleRequested, on a thread of the media engine. *)

\* The engine raises no request once it is shut down.
RaiseRequest ==
  /\ filter = "running" /\ requests < MaxRequests
  /\ requests' = requests + 1
  /\ arriving' = arriving + 1
  /\ UNCHANGED <<filter, sample, deferred, handler, timeStamp,
                 initialTimeStamp, now, crashed, fed, closed, samples,
                 failures, late>>

\* The mutex is taken and the slot looked at.
EnterRequest ==
  /\ arriving > 0 /\ MutexFree
  /\ arriving' = arriving - 1
  /\ handler' = IF sample = 0 THEN "defer" ELSE "answer"
  /\ UNCHANGED <<filter, sample, deferred, timeStamp, initialTimeStamp, now,
                 crashed, fed, requests, closed, samples, failures, late>>

DeferRequest ==
  /\ handler = "defer" /\ filter # "stopped"
  /\ handler' = "none"
  /\ deferred' = deferred + 1
  /\ UNCHANGED <<filter, sample, arriving, timeStamp, initialTimeStamp, now,
                 crashed, fed, requests, closed, samples, failures, late>>

\* After Stop, only an answer that fails before it looks at mVideoDesc returns.
AnswerRequest ==
  /\ handler = "answer"
  /\ handler' = "none"
  /\ \E outcome \in Outcomes :
       /\ filter = "stopped" => outcome = "noSample"
       /\ AnswerSampleRequest(outcome, sample)
  /\ UNCHANGED <<filter, deferred, arriving, now, crashed, fed, requests, late>>

\* mDeferralQueue or mVideoDesc is null: the call does not return, and the
\* mutex is never unlocked.
UseNull ==
  /\ handler # "none" /\ filter = "stopped" /\ ~crashed
  /\ crashed' = TRUE
  /\ UNCHANGED <<filter, sample, deferred, arriving, handler, timeStamp,
                 initialTimeStamp, now, fed, requests, closed, samples,
                 failures, late>>

-----------------------------------------------------------------------------
(* MSWinRTRenderer::Close, on the filter's thread; no mutex is taken. *)

ShutDownEngine ==
  /\ filter = "running"
  /\ filter' = "closing"
  /\ late' = (arriving > 0 \/ handler # "none")
  /\ UNCHANGED <<sample, deferred, arriving, handler, timeStamp,
                 initialTimeStamp, now, crashed, fed, requests, closed,
                 samples, failures>>

\* Mutant: the source is stopped while the engine runs.
StopFirst ==
  /\ filter # "stopped"
  /\ filter' = "stopped"
  /\ deferred' = 0
  /\ UNCHANGED <<sample, arriving, handler, timeStamp, initialTimeStamp, now,
                 crashed, fed, requests, closed, samples, failures, late>>

Stop ==
  /\ filter = "closing"
  /\ filter' = "stopped"
  /\ deferred' = 0
  /\ UNCHANGED <<sample, arriving, handler, timeStamp, initialTimeStamp, now,
                 crashed, fed, requests, closed, samples, failures, late>>

Tick ==
  /\ now < MaxTicks
  /\ now' = now + 1
  /\ UNCHANGED <<filter, sample, deferred, arriving, handler, timeStamp,
                 initialTimeStamp, crashed, fed, requests, closed, samples,
                 failures, late>>

-----------------------------------------------------------------------------
Next ==
  \/ FeedSlot \/ FeedDeferral
  \/ RaiseRequest \/ EnterRequest \/ DeferRequest \/ AnswerRequest \/ UseNull
  \/ ShutDownEngine \/ Stop
  \/ Tick

Spec == Init /\ [][Next]_vars

-----------------------------------------------------------------------------
(* Properties *)

\* The type invariant of the slot, the deferral queue and the histories.
SourceTypeOK ==
  /\ filter \in {"running", "closing", "stopped"}
  /\ handler \in {"none", "defer", "answer"}
  /\ crashed \in BOOLEAN /\ late \in BOOLEAN
  /\ sample \in Nat /\ deferred \in Nat /\ arriving \in Nat
  /\ timeStamp \in Nat /\ initialTimeStamp \in Nat /\ now \in Nat \ {0}
  /\ fed \in Nat /\ requests \in Nat /\ closed \in Nat /\ failures \in Nat
  /\ samples \in Seq(Sample)

\* Whenever the mutex is free, no request waits while there is a frame for it:
\* only an answer that failed can leave both.
NoIdleRequest ==
  MutexFree /\ failures = 0 => sample = 0 \/ deferred = 0

\* The times of the samples never go back, and each sample's duration is the
\* time since the one before it; it is less only if an answer in between failed
\* after it had taken the time.
Timeline ==
  \A k \in 2 .. Len(samples) :
    LET gap == samples[k].time - samples[k - 1].time
    IN /\ samples[k].duration \in 0 .. gap
       /\ failures = 0 => samples[k].duration = gap

\* Stop sets fields to null without the mutex.  They are used afterwards only
\* by a request that was under way when the engine was shut down: closing shuts
\* the engine down first, and feeds and stops from one thread.
NullUseNeedsLateRequest == crashed => late

\* The last frame handed to the engine, and the requests without an answer.
Shown == IF samples = <<>> THEN 0 ELSE samples[Len(samples)].frame
Open == requests - closed

Channel == INSTANCE FrameChannel
  WITH MaxLag <- 0, fed <- fed, shown <- Shown,
       frames <- Len(samples), open <- Open

\* The source is a frame channel without lag: each request is answered once, and
\* what it is answered with is the newest frame, never one shown before.
NewestFrameOnce == Channel!Spec

=============================================================================
