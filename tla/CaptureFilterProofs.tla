-------------------------- MODULE CaptureFilterProofs --------------------------
(***************************************************************************)
(* Theorems about CaptureFilter, for every set of filters, cameras, sizes, *)
(* rates, orientations and offers of a camera: the instances and their     *)
(* events first, then the size that SelectBestVideoSize takes, the list    *)
(* that a detection makes, and what is kept of both.                       *)
(***************************************************************************)
EXTENDS CaptureFilter, FiniteSetTheorems, FoldProofs, TLAPS

-----------------------------------------------------------------------------
(* One instance. *)

Fields == {"pc", "front", "fps", "videoSize", "orientation", "profile", "mCapture",
           "action", "result", "mIsStarted", "used", "captured", "frame", "asked",
           "turned", "touched"}

\* A record with the fields of an instance, whatever most of them hold.
Instance(r) ==
  /\ r = [x \in Fields |-> r[x]]
  /\ r.profile = [x \in {"size", "rate"} |-> r.profile[x]]
  /\ r.pc \in {"none", "rejected", "detached", "running", "initializing", "starting",
               "stopping", "destroying"}
  /\ r.result \in BOOLEAN /\ r.mIsStarted \in BOOLEAN

\* The action that an instance waits for.
ActionInv(r) ==
  r.action # "none" => r.pc \in DOMAIN Waits /\ r.action = Waits[r.pc]

\* Its pipeline delivers only between a start that has succeeded and the end of the
\* stop.
SessionInv(r) ==
  /\ r.pc \in {"none", "rejected", "detached", "initializing"} => r.captured = NoFrame
  /\ r.pc = "starting" /\ r.action = "start" =>
       r.captured = NoFrame /\ r.used = r.profile.size /\ r.touched = {}
  /\ r.pc = "starting" /\ r.action = "none" /\ ~r.result => r.captured = NoFrame
  /\ r.pc = "running" /\ ~r.mIsStarted => r.captured = NoFrame
  /\ r.pc \in {"stopping", "destroying"} /\ r.action = "none" => r.captured = NoFrame

\* What the helper reads of a frame's size is the size in which it was captured,
\* unless that was set since.
FrameInv(r) ==
  /\ r.captured # NoFrame /\ "size" \notin r.touched => r.used = r.captured
  /\ r.frame # NoFrame => r.captured # NoFrame
  /\ r.frame # NoFrame /\ r.touched = {} => r.frame = Dimensions(r.captured, r.orientation)

\* The orientation kept lies on its side if and only if the one asked for does.
TurnInv(r) == r.orientation % 180 = 90 <=> r.turned % 180 = 90

InstanceInv(r) ==
  Instance(r) /\ ActionInv(r) /\ SessionInv(r) /\ FrameInv(r) /\ TurnInv(r)

-----------------------------------------------------------------------------
(* All instances. *)

Helper(r) == r.pc \notin {"none", "rejected"}

\* The named event that is set for an instance: its action has ended, and its owner
\* has not yet been woken.
Expected(r) ==
  IF r.pc \in DOMAIN Waits /\ r.action = "none" THEN {Waits[r.pc]} ELSE {}

\* There is one helper, and the events set are those that it waits for.
OneHelper ==
  /\ lost # "mixed"
  /\ \A f, g \in Filters : Helper(filter[f]) /\ Helper(filter[g]) => f = g
  /\ \A f \in Filters : Helper(filter[f]) => smInstantiated /\ signalled = Expected(filter[f])
  /\ (\A f \in Filters : ~Helper(filter[f])) => signalled = {}

\* What every instance satisfies.
Instances ==
  /\ filter = [f \in Filters |-> filter[f]]
  /\ \A f \in Filters : InstanceInv(filter[f])

\* The inductive invariant.
CInv ==
  /\ Instances
  /\ ~rejectedDestroyed => OneHelper

-----------------------------------------------------------------------------
(* A step of an instance. *)

\* What a step does to the instance that takes it, it does to no other.
LEMMA Becomes ==
  ASSUME filter = [g \in Filters |-> filter[g]],
         NEW f \in Filters, NEW r, Become(f, r)
  PROVE  /\ filter' = [g \in Filters |-> filter'[g]]
         /\ filter'[f] = r
         /\ \A g \in Filters : g # f => filter'[g] = filter[g]
  BY DEF Become

\* An angle and its mirror image lie on their side together.
LEMMA MirroredSide ==
  ASSUME NEW front, NEW d \in 0 .. 360
  PROVE  Mirrored(front, d) % 180 = 90 <=> d % 180 = 90
<1>1. (d % 360) % 180 = 90 <=> d % 180 = 90
  OBVIOUS
<1>2. ((360 - d) % 360) % 180 = 90 <=> d % 180 = 90
  OBVIOUS
<1> QED BY <1>1, <1>2 DEF Mirrored

LEMMA WaitsFor ==
  /\ DOMAIN Waits = {"initializing", "starting", "stopping", "destroying"}
  /\ Waits["initializing"] = "initialize" /\ Waits["starting"] = "start"
  /\ Waits["stopping"] = "stop" /\ Waits["destroying"] = "stop"
  BY DEF Waits

LEMMA FreshInstances ==
  /\ \A front : InstanceInv(Fresh(front))
  /\ InstanceInv(NoFilter) /\ InstanceInv(Rejected)
<1> USE DEF Fresh, NoFilter, Rejected, NoProfile, NoFrame, Idle, Waits
<1>1. \A front : Instance(Fresh(front))
  BY DEF Instance, Fields
<1>2. Instance(NoFilter) /\ Instance(Rejected)
  <2>1. Instance(NoFilter)
    BY DEF Instance, Fields
  <2>2. Instance(Rejected)
    BY DEF Instance, Fields
  <2> QED BY <2>1, <2>2
<1>3. \A front : /\ ActionInv(Fresh(front)) /\ SessionInv(Fresh(front))
                 /\ FrameInv(Fresh(front)) /\ TurnInv(Fresh(front))
  BY DEF ActionInv, SessionInv, FrameInv, TurnInv
<1>4. ActionInv(NoFilter) /\ SessionInv(NoFilter) /\ FrameInv(NoFilter) /\ TurnInv(NoFilter)
  BY DEF ActionInv, SessionInv, FrameInv, TurnInv
<1>5. ActionInv(Rejected) /\ SessionInv(Rejected) /\ FrameInv(Rejected) /\ TurnInv(Rejected)
  BY DEF ActionInv, SessionInv, FrameInv, TurnInv
<1> QED BY <1>1, <1>2, <1>3, <1>4, <1>5 DEF InstanceInv

LEMMA InstanceStep ==
  ASSUME Instances, [FilterNext]_vars
  PROVE  Instances'
<1>b. ASSUME NEW f \in Filters, NEW r, InstanceInv(r), Become(f, r) PROVE Instances'
  BY <1>b, Becomes DEF Instances
<1>u. ASSUME filter' = filter PROVE Instances'
  BY <1>u DEF Instances
<1>i. \A f \in Filters : InstanceInv(filter[f])
  BY DEF Instances
<1>1. ASSUME NEW f \in Filters, NEW i \in DOMAIN manager, New(f, manager[i])
      PROVE  Instances'
  BY <1>b, <1>1, FreshInstances DEF New
<1>2. ASSUME NEW f \in Filters, Destroy(f) \/ StoppedAndDestroyed(f)
      PROVE  Instances'
  BY <1>b, <1>2, FreshInstances DEF Destroy, StoppedAndDestroyed, Destroyed
<1>3. ASSUME NEW f \in Filters, Preprocess(f) PROVE Instances'
  <2> DEFINE r == filter[f]
             s == [r EXCEPT !.pc = "initializing", !.action = "initialize"]
  <2>1. InstanceInv(r) /\ r.pc = "detached" /\ Become(f, s)
    BY <1>i, <1>3 DEF Preprocess
  <2> HIDE DEF r
  <2>2. Instance(r) /\ ActionInv(r) /\ SessionInv(r) /\ FrameInv(r) /\ TurnInv(r)
    BY <2>1 DEF InstanceInv
  <2>3. Instance(s)
    BY <2>2 DEF Instance, Fields
  <2>4. ActionInv(s)
    BY <2>2, WaitsFor DEF Instance, Fields, ActionInv
  <2>5. SessionInv(s)
    BY <2>1, <2>2 DEF Instance, Fields, SessionInv
  <2>6. FrameInv(s)
    BY <2>2 DEF Instance, Fields, FrameInv
  <2>7. TurnInv(s)
    BY <2>2 DEF Instance, Fields, TurnInv
  <2>8. InstanceInv(s)
    BY <2>3, <2>4, <2>5, <2>6, <2>7 DEF InstanceInv
  <2> QED BY <1>b, <2>1, <2>8
<1>4. ASSUME NEW f \in Filters, NEW ok \in BOOLEAN, ActionCompleted(f, ok)
      PROVE  Instances'
  <2> DEFINE r == filter[f]
             i == [r EXCEPT !.action = "none", !.mCapture = IF ok THEN "ready" ELSE "failed"]
             b == [r EXCEPT !.action = "none", !.result = ok,
                            !.captured = IF ok THEN r.profile.size ELSE NoFrame]
             e == [r EXCEPT !.action = "none", !.captured = NoFrame]
  <2>1. InstanceInv(r) /\ \/ r.action = "initialize" /\ Become(f, i)
                          \/ r.action = "start" /\ Become(f, b)
                          \/ r.action = "stop" /\ r.frame = NoFrame /\ Become(f, e)
    BY <1>i, <1>4 DEF ActionCompleted
  <2> HIDE DEF r
  <2>2. Instance(r) /\ ActionInv(r) /\ SessionInv(r) /\ FrameInv(r) /\ TurnInv(r)
    BY <2>1 DEF InstanceInv
  <2>3. CASE r.action = "initialize" /\ Become(f, i)
    <3>1. r.pc \in DOMAIN Waits /\ r.action = Waits[r.pc]
      BY <2>2, <2>3 DEF ActionInv
    <3>2. Instance(i)
      BY <2>2, <2>3, <3>1, WaitsFor DEF Instance, Fields
    <3>3. ActionInv(i)
      BY <2>2, <2>3, <3>1, WaitsFor DEF Instance, Fields, ActionInv
    <3>4. SessionInv(i)
      BY <2>2, <2>3, <3>1, WaitsFor DEF Instance, Fields, SessionInv
    <3>5. FrameInv(i)
      BY <2>2, <2>3, <3>1, WaitsFor DEF Instance, Fields, FrameInv
    <3>6. TurnInv(i)
      BY <2>2, <2>3, <3>1, WaitsFor DEF Instance, Fields, TurnInv
    <3> QED BY <1>b, <2>3, <3>2, <3>3, <3>4, <3>5, <3>6 DEF InstanceInv
  <2>4. CASE r.action = "start" /\ Become(f, b)
    <3>1. r.pc \in DOMAIN Waits /\ r.action = Waits[r.pc]
      BY <2>2, <2>4 DEF ActionInv
    <3>2. Instance(b)
      BY <2>2, <2>4, <3>1, WaitsFor DEF Instance, Fields
    <3>3. ActionInv(b)
      BY <2>2, <2>4, <3>1, WaitsFor DEF Instance, Fields, ActionInv
    <3>4. SessionInv(b)
      BY <2>2, <2>4, <3>1, WaitsFor DEF Instance, Fields, SessionInv
    <3>5. FrameInv(b)
      BY <2>2, <2>4, <3>1, WaitsFor DEF Instance, Fields, FrameInv, SessionInv
    <3>6. TurnInv(b)
      BY <2>2, <2>4, <3>1, WaitsFor DEF Instance, Fields, TurnInv
    <3> QED BY <1>b, <2>4, <3>2, <3>3, <3>4, <3>5, <3>6 DEF InstanceInv
  <2>5. CASE r.action = "stop" /\ r.frame = NoFrame /\ Become(f, e)
    <3>1. r.pc \in DOMAIN Waits /\ r.action = Waits[r.pc]
      BY <2>2, <2>5 DEF ActionInv
    <3>2. Instance(e)
      BY <2>2, <2>5, <3>1, WaitsFor DEF Instance, Fields
    <3>3. ActionInv(e)
      BY <2>2, <2>5, <3>1, WaitsFor DEF Instance, Fields, ActionInv
    <3>4. SessionInv(e)
      BY <2>2, <2>5, <3>1, WaitsFor DEF Instance, Fields, SessionInv
    <3>5. FrameInv(e)
      BY <2>2, <2>5, <3>1, WaitsFor DEF Instance, Fields, FrameInv
    <3>6. TurnInv(e)
      BY <2>2, <2>5, <3>1, WaitsFor DEF Instance, Fields, TurnInv
    <3> QED BY <1>b, <2>5, <3>2, <3>3, <3>4, <3>5, <3>6 DEF InstanceInv
  <2> QED BY <2>1, <2>3, <2>4, <2>5
<1>5. ASSUME NEW f \in Filters, Initialized(f) PROVE Instances'
  <2> DEFINE r == filter[f]
             profile == [size |-> r.videoSize, rate |-> WholeRate(r.fps)]
             s == [r EXCEPT !.pc = "starting", !.action = "start", !.profile = profile,
                            !.used = profile.size, !.touched = {}]
  <2>1. InstanceInv(r) /\ r.pc = "initializing" /\ Become(f, s)
          /\ profile = [x \in {"size", "rate"} |-> profile[x]]
    BY <1>i, <1>5 DEF Initialized, StartWithProfile
  <2> HIDE DEF r
  <2>2. Instance(r) /\ ActionInv(r) /\ SessionInv(r) /\ FrameInv(r) /\ TurnInv(r)
    BY <2>1 DEF InstanceInv
  <2>3. Instance(s)
    BY <2>1, <2>2 DEF Instance, Fields
  <2>4. ActionInv(s)
    BY <2>1, <2>2, WaitsFor DEF Instance, Fields, ActionInv
  <2>5. SessionInv(s)
    BY <2>1, <2>2 DEF Instance, Fields, SessionInv
  <2>6. FrameInv(s)
    BY <2>1, <2>2 DEF Instance, Fields, FrameInv, SessionInv
  <2>7. TurnInv(s)
    BY <2>1, <2>2 DEF Instance, Fields, TurnInv
  <2>8. InstanceInv(s)
    BY <2>3, <2>4, <2>5, <2>6, <2>7 DEF InstanceInv
  <2> QED BY <1>b, <2>1, <2>8
<1>6. ASSUME NEW f \in Filters, Started(f) PROVE Instances'
  <2> DEFINE r == filter[f]
             s == [r EXCEPT !.pc = "running", !.mIsStarted = r.result, !.result = FALSE]
  <2>1. InstanceInv(r) /\ r.pc = "starting" /\ r.action = "none" /\ Become(f, s)
    BY <1>i, <1>6 DEF Started, Woken
  <2> HIDE DEF r
  <2>2. Instance(r) /\ ActionInv(r) /\ SessionInv(r) /\ FrameInv(r) /\ TurnInv(r)
    BY <2>1 DEF InstanceInv
  <2>3. Instance(s)
    BY <2>1, <2>2 DEF Instance, Fields
  <2>4. ActionInv(s)
    BY <2>1, <2>2 DEF Instance, Fields, ActionInv
  <2>5. SessionInv(s)
    BY <2>1, <2>2 DEF Instance, Fields, SessionInv
  <2>6. FrameInv(s)
    BY <2>1, <2>2 DEF Instance, Fields, FrameInv
  <2>7. TurnInv(s)
    BY <2>1, <2>2 DEF Instance, Fields, TurnInv
  <2>8. InstanceInv(s)
    BY <2>3, <2>4, <2>5, <2>6, <2>7 DEF InstanceInv
  <2> QED BY <1>b, <2>1, <2>8
<1>7. ASSUME NEW f \in Filters, NEW next \in {"stopping", "destroying"}, Stop(f, next)
      PROVE  Instances'
  <2> DEFINE r == filter[f]
             s == [r EXCEPT !.pc = next, !.action = "stop"]
  <2>1. InstanceInv(r) /\ r.pc = "running" /\ Become(f, s)
    BY <1>i, <1>7 DEF Stop
  <2> HIDE DEF r
  <2>2. Instance(r) /\ ActionInv(r) /\ SessionInv(r) /\ FrameInv(r) /\ TurnInv(r)
    BY <2>1 DEF InstanceInv
  <2>3. Instance(s)
    BY <2>1, <2>2 DEF Instance, Fields
  <2>4. ActionInv(s)
    BY <2>1, <2>2, WaitsFor DEF Instance, Fields, ActionInv
  <2>5. SessionInv(s)
    BY <2>1, <2>2 DEF Instance, Fields, SessionInv
  <2>6. FrameInv(s)
    BY <2>1, <2>2 DEF Instance, Fields, FrameInv
  <2>7. TurnInv(s)
    BY <2>1, <2>2 DEF Instance, Fields, TurnInv
  <2>8. InstanceInv(s)
    BY <2>3, <2>4, <2>5, <2>6, <2>7 DEF InstanceInv
  <2> QED BY <1>b, <2>1, <2>8
<1>8. ASSUME NEW f \in Filters, PostprocessNotStarted(f) PROVE Instances'
  <2> DEFINE r == filter[f]
             s == [r EXCEPT !.pc = "detached"]
  <2>1. InstanceInv(r) /\ r.pc = "running" /\ ~r.mIsStarted /\ Become(f, s)
    BY <1>i, <1>8 DEF PostprocessNotStarted
  <2> HIDE DEF r
  <2>2. Instance(r) /\ ActionInv(r) /\ SessionInv(r) /\ FrameInv(r) /\ TurnInv(r)
    BY <2>1 DEF InstanceInv
  <2>3. Instance(s)
    BY <2>1, <2>2 DEF Instance, Fields
  <2>4. ActionInv(s)
    BY <2>1, <2>2, WaitsFor DEF Instance, Fields, ActionInv
  <2>5. SessionInv(s)
    BY <2>1, <2>2 DEF Instance, Fields, SessionInv
  <2>6. FrameInv(s)
    BY <2>1, <2>2 DEF Instance, Fields, FrameInv
  <2>7. TurnInv(s)
    BY <2>1, <2>2 DEF Instance, Fields, TurnInv
  <2>8. InstanceInv(s)
    BY <2>3, <2>4, <2>5, <2>6, <2>7 DEF InstanceInv
  <2> QED BY <1>b, <2>1, <2>8
<1>9. ASSUME NEW f \in Filters, Stopped(f) PROVE Instances'
  <2> DEFINE r == filter[f]
             s == [r EXCEPT !.pc = "detached", !.mIsStarted = FALSE]
  <2>1. InstanceInv(r) /\ r.pc = "stopping" /\ r.action = "none" /\ Become(f, s)
    BY <1>i, <1>9 DEF Stopped, Woken
  <2> HIDE DEF r
  <2>2. Instance(r) /\ ActionInv(r) /\ SessionInv(r) /\ FrameInv(r) /\ TurnInv(r)
    BY <2>1 DEF InstanceInv
  <2>3. Instance(s)
    BY <2>1, <2>2 DEF Instance, Fields
  <2>4. ActionInv(s)
    BY <2>1, <2>2, WaitsFor DEF Instance, Fields, ActionInv
  <2>5. SessionInv(s)
    BY <2>1, <2>2 DEF Instance, Fields, SessionInv
  <2>6. FrameInv(s)
    BY <2>1, <2>2 DEF Instance, Fields, FrameInv
  <2>7. TurnInv(s)
    BY <2>1, <2>2 DEF Instance, Fields, TurnInv
  <2>8. InstanceInv(s)
    BY <2>3, <2>4, <2>5, <2>6, <2>7 DEF InstanceInv
  <2> QED BY <1>b, <2>1, <2>8
<1>10. ASSUME NEW f \in Filters, NEW fps \in Rates, SetFps(f, fps)
       PROVE  Instances'
  <2> DEFINE r == filter[f]
             s == [r EXCEPT !.fps = fps,
                            !.profile.rate = IF r.profile = NoProfile THEN 0 ELSE WholeRate(fps)]
  <2>1. InstanceInv(r) /\ r.pc \in Idle /\ Become(f, s)
    BY <1>i, <1>10 DEF SetFps, Set
  <2> HIDE DEF r
  <2>2. Instance(r) /\ ActionInv(r) /\ SessionInv(r) /\ FrameInv(r) /\ TurnInv(r)
    BY <2>1 DEF InstanceInv
  <2>3. Instance(s)
    BY <2>1, <2>2 DEF Instance, Fields
  <2>4. ActionInv(s)
    BY <2>1, <2>2 DEF Instance, Fields, ActionInv
  <2>5. SessionInv(s)
    BY <2>1, <2>2 DEF Instance, Fields, SessionInv, Idle
  <2>6. FrameInv(s)
    BY <2>1, <2>2 DEF Instance, Fields, FrameInv
  <2>7. TurnInv(s)
    BY <2>1, <2>2 DEF Instance, Fields, TurnInv
  <2>8. InstanceInv(s)
    BY <2>3, <2>4, <2>5, <2>6, <2>7 DEF InstanceInv
  <2> QED BY <1>b, <2>1, <2>8
<1>11. ASSUME NEW f \in Filters, NEW vs \in Requests, SetVideoSize(f, vs)
       PROVE  Instances'
  <2> DEFINE r == filter[f]
             known == r.mCapture = "ready"
             size == IF known THEN SelectBestVideoSize(vs) ELSE vs
             touched == Touch(f, "size")
             s == [r EXCEPT !.videoSize = size,
                            !.asked = [size |-> vs, known |-> known],
                            !.profile.size = IF r.profile = NoProfile THEN <<0, 0>> ELSE size,
                            !.used = IF r.profile = NoProfile THEN r.used ELSE size,
                            !.touched = touched]
  <2>1. InstanceInv(r) /\ r.pc \in Idle /\ Become(f, s)
          /\ touched = IF r.captured # NoFrame THEN r.touched \union {"size"} ELSE {}
    BY <1>i, <1>11 DEF SetVideoSize, Set, Touch, Attached
  <2> HIDE DEF r, known, size, touched
  <2>2. Instance(r) /\ ActionInv(r) /\ SessionInv(r) /\ FrameInv(r) /\ TurnInv(r)
    BY <2>1 DEF InstanceInv
  <2>3. Instance(s)
    <3>1. /\ s = [x \in Fields |-> s[x]]
          /\ s.pc = r.pc /\ s.result = r.result /\ s.mIsStarted = r.mIsStarted
      BY <2>2 DEF Instance, Fields
    <3>2. s.profile = [r.profile EXCEPT !.size = IF r.profile = NoProfile THEN <<0, 0>>
                                                 ELSE size]
      BY <2>2 DEF Instance, Fields
    <3>3. s.profile = [x \in {"size", "rate"} |-> s.profile[x]]
      BY <2>2, <3>2 DEF Instance
    <3> QED BY <2>2, <3>1, <3>3 DEF Instance
  <2>4. ActionInv(s)
    BY <2>1, <2>2 DEF Instance, Fields, ActionInv
  <2>5. SessionInv(s)
    BY <2>1, <2>2 DEF Instance, Fields, SessionInv, Idle
  <2>6. FrameInv(s)
    BY <2>1, <2>2 DEF Instance, Fields, FrameInv
  <2>7. TurnInv(s)
    BY <2>1, <2>2 DEF Instance, Fields, TurnInv
  <2>8. InstanceInv(s)
    BY <2>3, <2>4, <2>5, <2>6, <2>7 DEF InstanceInv
  <2> QED BY <1>b, <2>1, <2>8
<1>12. ASSUME NEW f \in Filters, NEW degrees \in Degrees, SetDeviceOrientation(f, degrees)
       PROVE  Instances'
  <2> DEFINE r == filter[f]
             orientation == IF r.orientation = degrees THEN degrees
                            ELSE Mirrored(r.front, degrees)
             touched == Touch(f, "orientation")
             s == [r EXCEPT !.orientation = orientation, !.turned = degrees, !.touched = touched]
  <2>1. orientation % 180 = 90 <=> degrees % 180 = 90
    <3>1. Mirrored(r.front, degrees) % 180 = 90 <=> degrees % 180 = 90
      <4>1. degrees \in 0 .. 360
        BY FilterAssumption
      <4> QED BY <4>1, MirroredSide
    <3>2. CASE r.orientation = degrees
      BY <3>2
    <3>3. CASE r.orientation # degrees
      BY <3>1, <3>3
    <3> QED BY <3>2, <3>3
  <2>2. InstanceInv(r) /\ r.pc \in Idle /\ Become(f, s)
          /\ touched = IF r.captured # NoFrame THEN r.touched \union {"orientation"} ELSE {}
    BY <1>i, <1>12 DEF SetDeviceOrientation, Set, Touch, Attached
  <2> HIDE DEF r, orientation, touched
  <2>3. Instance(r) /\ ActionInv(r) /\ SessionInv(r) /\ FrameInv(r) /\ TurnInv(r)
    BY <2>2 DEF InstanceInv
  <2>4. Instance(s)
    BY <2>2, <2>3 DEF Instance, Fields
  <2>5. ActionInv(s)
    BY <2>2, <2>3 DEF Instance, Fields, ActionInv
  <2>6. SessionInv(s)
    BY <2>2, <2>3 DEF Instance, Fields, SessionInv, Idle
  <2>7. FrameInv(s)
    BY <2>2, <2>3 DEF Instance, Fields, FrameInv
  <2>8. TurnInv(s)
    <3>1. s.orientation = orientation /\ s.turned = degrees
      BY <2>3 DEF Instance, Fields
    <3> QED BY <2>1, <3>1 DEF TurnInv
  <2>9. InstanceInv(s)
    BY <2>4, <2>5, <2>6, <2>7, <2>8 DEF InstanceInv
  <2> QED BY <1>b, <2>2, <2>9
<1>13. ASSUME NEW f \in Filters, ReadDimensions(f) PROVE Instances'
  <2> DEFINE r == filter[f]
             s == [r EXCEPT !.frame = Dimensions(r.used, r.orientation),
                            !.touched = r.touched \ {"orientation"}]
  <2>1. InstanceInv(r) /\ r.captured # NoFrame /\ Become(f, s)
    BY <1>i, <1>13 DEF ReadDimensions, Attached
  <2> HIDE DEF r
  <2>2. Instance(r) /\ ActionInv(r) /\ SessionInv(r) /\ FrameInv(r) /\ TurnInv(r)
    BY <2>1 DEF InstanceInv
  <2>3. Instance(s)
    BY <2>1, <2>2 DEF Instance, Fields
  <2>4. ActionInv(s)
    BY <2>1, <2>2 DEF Instance, Fields, ActionInv
  <2>5. SessionInv(s)
    BY <2>1, <2>2 DEF Instance, Fields, SessionInv
  <2>6. FrameInv(s)
    BY <2>1, <2>2 DEF Instance, Fields, FrameInv
  <2>7. TurnInv(s)
    BY <2>1, <2>2 DEF Instance, Fields, TurnInv
  <2>8. InstanceInv(s)
    BY <2>3, <2>4, <2>5, <2>6, <2>7 DEF InstanceInv
  <2> QED BY <1>b, <2>1, <2>8
<1>14. ASSUME NEW f \in Filters, CopyFrame(f) PROVE Instances'
  <2> DEFINE r == filter[f]
             s == [r EXCEPT !.frame = NoFrame]
  <2>1. InstanceInv(r) /\ Become(f, s)
    BY <1>i, <1>14 DEF CopyFrame
  <2> HIDE DEF r
  <2>2. Instance(r) /\ ActionInv(r) /\ SessionInv(r) /\ FrameInv(r) /\ TurnInv(r)
    BY <2>1 DEF InstanceInv
  <2>3. Instance(s)
    BY <2>1, <2>2 DEF Instance, Fields
  <2>4. ActionInv(s)
    BY <2>1, <2>2 DEF Instance, Fields, ActionInv
  <2>5. SessionInv(s)
    BY <2>1, <2>2 DEF Instance, Fields, SessionInv
  <2>6. FrameInv(s)
    BY <2>1, <2>2 DEF Instance, Fields, FrameInv
  <2>7. TurnInv(s)
    BY <2>1, <2>2 DEF Instance, Fields, TurnInv
  <2>8. InstanceInv(s)
    BY <2>3, <2>4, <2>5, <2>6, <2>7 DEF InstanceInv
  <2> QED BY <1>b, <2>1, <2>8
<1>15. ASSUME \/ DetectFirst \/ WokenByAnother \/ CallWithoutDevice \/ UNCHANGED vars
       PROVE  Instances'
  BY <1>u, <1>15 DEF DetectFirst, WokenByAnother, CallWithoutDevice, Lose, vars
<1> QED
  BY <1>1, <1>2, <1>3, <1>4, <1>5, <1>6, <1>7, <1>8, <1>9, <1>10, <1>11, <1>12, <1>13,
     <1>14, <1>15 DEF FilterNext, OwnerCalls, OwnerReturns

-----------------------------------------------------------------------------
(* A step of the events. *)

\* A step of the only helper.
LEMMA HelperStep ==
  ASSUME Instances, OneHelper, lost' # "mixed",
         NEW f \in Filters, Helper(filter[f]),
         NEW r, Become(f, r), Helper(r) => smInstantiated',
         signalled' = IF Helper(r) THEN Expected(r) ELSE {}
  PROVE  OneHelper'
<1>1. /\ filter'[f] = r
      /\ \A g \in Filters : g # f => ~Helper(filter'[g])
  BY Becomes DEF Instances, OneHelper
<1>2. \A g \in Filters : Helper(filter'[g]) => g = f /\ smInstantiated'
  BY <1>1
<1>3. \A g \in Filters : Helper(filter'[g]) => signalled' = Expected(filter'[g])
  BY <1>1
<1>4. (\A g \in Filters : ~Helper(filter'[g])) => signalled' = {}
  BY <1>1
<1> QED BY <1>2, <1>3, <1>4 DEF OneHelper, Helper, Expected

\* A step of an instance that is refused.
LEMMA RefusedStep ==
  ASSUME Instances, OneHelper, lost' # "mixed",
         NEW f \in Filters, ~Helper(filter[f]),
         NEW r, Become(f, r), ~Helper(r),
         smInstantiated => smInstantiated', signalled' = signalled
  PROVE  OneHelper'
<1>1. \A g \in Filters : Helper(filter'[g]) => g # f /\ filter'[g] = filter[g]
  BY Becomes DEF Instances
<1>2. \A g \in Filters : Helper(filter[g]) => filter'[g] = filter[g]
  BY Becomes DEF Instances
<1>3. \A g, h \in Filters : Helper(filter'[g]) /\ Helper(filter'[h]) => g = h
  BY <1>1 DEF OneHelper
<1>4. \A g \in Filters : Helper(filter'[g]) => smInstantiated' /\ signalled' = Expected(filter'[g])
  BY <1>1 DEF OneHelper
<1>5. (\A g \in Filters : ~Helper(filter'[g])) => signalled' = {}
  BY <1>2 DEF OneHelper
<1> QED BY <1>3, <1>4, <1>5 DEF OneHelper, Helper, Expected

\* What decides about the events is where the owner is and what is under way.
LEMMA SameExpected ==
  ASSUME NEW r, NEW s, s.pc = r.pc, s.action = r.action
  PROVE  Helper(s) = Helper(r) /\ Expected(s) = Expected(r)
  BY DEF Helper, Expected

LEMMA OneHelperStep ==
  ASSUME Instances, ~rejectedDestroyed => OneHelper, [FilterNext]_vars,
         ~rejectedDestroyed'
  PROVE  OneHelper'
<1> USE DEF Instances
<1>i. \A f \in Filters : Instance(filter[f]) /\ ActionInv(filter[f])
  BY DEF InstanceInv
<1>u. ASSUME filter' = filter, signalled' = signalled, smInstantiated' = smInstantiated,
             OneHelper, lost' # "mixed"
      PROVE  OneHelper'
  BY <1>u DEF OneHelper, Helper, Expected
<1>f. \A front : Fresh(front).pc = "detached"
  BY DEF Fresh
<1>n. ~Helper(NoFilter) /\ ~Helper(Rejected)
  BY DEF NoFilter, Rejected, Fresh, Helper
<1>1. CASE UNCHANGED vars
  BY <1>1, <1>u DEF vars, OneHelper
<1> SUFFICES ASSUME FilterNext PROVE OneHelper'
  BY <1>1
<1>l. lost = "no"
  BY DEF FilterNext
<1>2. ASSUME NEW f \in Filters, NEW i \in DOMAIN manager, New(f, manager[i])
      PROVE  OneHelper'
  <2>1. OneHelper /\ signalled' = signalled /\ lost' # "mixed" /\ smInstantiated' = TRUE
    BY <1>2, <1>l DEF New
  <2>2. ~Helper(filter[f])
    BY <1>2 DEF New, Helper
  <2>3. CASE smInstantiated
    BY <1>2, <1>n, <2>1, <2>2, <2>3, RefusedStep DEF New
  <2>4. CASE ~smInstantiated
    <3> DEFINE r == Fresh(IsFront(manager[i]))
    <3>1. \A g \in Filters : ~Helper(filter[g])
      BY <2>1, <2>4 DEF OneHelper
    <3>2. signalled' = {} /\ signalled' = Expected(r)
      BY <1>f, <2>1, <3>1, WaitsFor DEF OneHelper, Expected
    <3>3. Become(f, r)
      BY <1>2, <2>4 DEF New
    <3> HIDE DEF r
    <3>4. filter'[f] = r /\ \A g \in Filters : g # f => ~Helper(filter'[g])
      BY <3>1, <3>3, Becomes
    <3>5. \A g \in Filters : Helper(filter'[g]) => g = f /\ signalled' = Expected(filter'[g])
      BY <3>2, <3>4
    <3> QED BY <2>1, <3>2, <3>5 DEF OneHelper, Helper, Expected
  <2> QED BY <2>3, <2>4
<1>3. ASSUME NEW f \in Filters, Destroy(f) PROVE OneHelper'
  <2>1. OneHelper /\ filter[f].pc # "rejected" /\ lost' # "mixed" /\ signalled' = signalled
    BY <1>3, <1>l DEF Destroy, Destroyed
  <2>2. Helper(filter[f]) /\ Expected(filter[f]) = {} /\ Become(f, NoFilter)
    BY <1>3, <2>1, WaitsFor DEF Destroy, Destroyed, Idle, Helper, Expected
  <2>3. signalled' = {}
    BY <2>1, <2>2 DEF OneHelper
  <2> QED BY <1>n, <2>1, <2>2, <2>3, HelperStep
<1>4. ASSUME NEW f \in Filters, StoppedAndDestroyed(f) PROVE OneHelper'
  <2>1. /\ OneHelper /\ lost' # "mixed" /\ Become(f, NoFilter)
        /\ signalled' = signalled \ {Waits[filter[f].pc]}
    BY <1>4, <1>l DEF StoppedAndDestroyed, Destroyed, Woken
  <2>2. Helper(filter[f]) /\ Expected(filter[f]) = {Waits[filter[f].pc]}
    BY <1>4, WaitsFor DEF StoppedAndDestroyed, Woken, Helper, Expected
  <2>3. signalled' = {}
    BY <2>1, <2>2 DEF OneHelper
  <2> QED BY <1>n, <2>1, <2>2, <2>3, HelperStep
<1>5. ASSUME NEW f \in Filters, Preprocess(f) PROVE OneHelper'
  <2> DEFINE r == filter[f]
             s == [r EXCEPT !.pc = "initializing", !.action = "initialize"]
  <2>1. /\ OneHelper /\ smInstantiated' = smInstantiated /\ lost' # "mixed"
        /\ signalled' = signalled /\ Become(f, s)
    BY <1>5, <1>l DEF Preprocess
  <2>2. Helper(r) /\ Expected(r) = {}
    BY <1>5, WaitsFor DEF Preprocess, Helper, Expected
  <2>3. smInstantiated /\ signalled = {}
    BY <2>1, <2>2 DEF OneHelper
  <2> HIDE DEF r
  <2>4. s.pc = "initializing" /\ s.action = "initialize"
    BY <1>i DEF Instance, Fields, r
  <2>5. Helper(s) /\ Expected(s) = {}
    BY <2>4 DEF Helper, Expected
  <2> QED BY <2>1, <2>2, <2>3, <2>5, HelperStep DEF r
<1>6. ASSUME NEW f \in Filters, NEW ok \in BOOLEAN, ActionCompleted(f, ok)
      PROVE  OneHelper'
  <2> DEFINE r == filter[f]
  <2>1. OneHelper /\ smInstantiated' = smInstantiated /\ lost' # "mixed"
        /\ signalled' = signalled \union {Waits[r.pc]} /\ r.action # "none"
    BY <1>6, <1>l DEF ActionCompleted
  <2>2. PICK s : Become(f, s) /\ s.pc = r.pc /\ s.action = "none"
    <3>1. PICK s \in {[r EXCEPT !.action = "none",
                       !.mCapture = IF ok THEN "ready" ELSE "failed"],
                      [r EXCEPT !.action = "none", !.result = ok,
                       !.captured = IF ok THEN r.profile.size ELSE NoFrame],
                      [r EXCEPT !.action = "none", !.captured = NoFrame]} : Become(f, s)
      BY <1>6 DEF ActionCompleted
    <3>2. s.pc = r.pc /\ s.action = "none"
      BY <1>i DEF Instance, Fields
    <3> QED BY <3>1, <3>2
  <2>3. r.pc \in DOMAIN Waits
    BY <1>i, <2>1 DEF ActionInv
  <2>4. Helper(r) /\ Expected(r) = {} /\ Helper(s) /\ Expected(s) = {Waits[r.pc]}
    BY <2>1, <2>2, <2>3, WaitsFor DEF Helper, Expected
  <2>5. smInstantiated /\ signalled = {}
    BY <2>1, <2>4 DEF OneHelper
  <2> QED BY <2>1, <2>2, <2>4, <2>5, HelperStep
<1>7. ASSUME NEW f \in Filters, Initialized(f) \/ Started(f) \/ Stopped(f)
      PROVE  OneHelper'
  <2> DEFINE r == filter[f]
  <2>1. OneHelper /\ smInstantiated' = smInstantiated /\ lost' # "mixed"
        /\ signalled' = signalled \ {Waits[r.pc]}
    BY <1>7, <1>l DEF Initialized, Started, Stopped, Woken
  <2>2. PICK s : /\ Become(f, s)
                 /\ \/ s.pc = "starting" /\ s.action = "start"
                    \/ s.pc \in {"running", "detached"}
    <3>1. CASE Initialized(f)
      <4>1. /\ StartWithProfile(f).pc = "starting" /\ StartWithProfile(f).action = "start"
            /\ Become(f, StartWithProfile(f))
        BY <1>i, <3>1 DEF Initialized, StartWithProfile, Instance, Fields
      <4> QED BY <4>1
    <3>2. CASE Started(f)
      <4> DEFINE s == [r EXCEPT !.pc = "running", !.mIsStarted = r.result, !.result = FALSE]
      <4>1. s.pc = "running" /\ Become(f, s)
        BY <1>i, <3>2 DEF Started, Instance, Fields
      <4> QED BY <4>1
    <3>3. CASE Stopped(f)
      <4> DEFINE s == [r EXCEPT !.pc = "detached", !.mIsStarted = FALSE]
      <4>1. s.pc = "detached" /\ Become(f, s)
        BY <1>i, <3>3 DEF Stopped, Instance, Fields
      <4> QED BY <4>1
    <3> QED BY <1>7, <3>1, <3>2, <3>3
  <2>3. Helper(r) /\ Expected(r) = {Waits[r.pc]}
    BY <1>7, WaitsFor DEF Initialized, Started, Stopped, Woken, Helper, Expected
  <2>4. smInstantiated /\ signalled' = {}
    BY <2>1, <2>3 DEF OneHelper
  <2>5. Helper(s) /\ Expected(s) = {}
    BY <2>2, WaitsFor DEF Helper, Expected
  <2> QED BY <2>1, <2>2, <2>3, <2>4, <2>5, HelperStep
<1>8. ASSUME NEW f \in Filters, NEW next \in {"stopping", "destroying"},
             Stop(f, next) \/ PostprocessNotStarted(f)
      PROVE  OneHelper'
  <2> DEFINE r == filter[f]
  <2>1. OneHelper /\ smInstantiated' = smInstantiated /\ lost' # "mixed"
        /\ signalled' = signalled
    BY <1>8, <1>l DEF Stop, PostprocessNotStarted
  <2>2. PICK s : /\ Become(f, s)
                 /\ \/ s.pc = next /\ s.action = "stop"
                    \/ s.pc = "detached"
    <3>1. CASE Stop(f, next)
      <4> DEFINE s == [r EXCEPT !.pc = next, !.action = "stop"]
      <4>1. s.pc = next /\ s.action = "stop" /\ Become(f, s)
        BY <1>i, <3>1 DEF Stop, Instance, Fields
      <4> QED BY <4>1
    <3>2. CASE PostprocessNotStarted(f)
      <4> DEFINE s == [r EXCEPT !.pc = "detached"]
      <4>1. s.pc = "detached" /\ Become(f, s)
        BY <1>i, <3>2 DEF PostprocessNotStarted, Instance, Fields
      <4> QED BY <4>1
    <3> QED BY <1>8, <3>1, <3>2
  <2>3. Helper(r) /\ Expected(r) = {}
    BY <1>8, WaitsFor DEF Stop, PostprocessNotStarted, Helper, Expected
  <2>4. smInstantiated /\ signalled' = {}
    BY <2>1, <2>3 DEF OneHelper
  <2>5. Helper(s) /\ Expected(s) = {}
    BY <2>2, WaitsFor DEF Helper, Expected
  <2> QED BY <2>1, <2>2, <2>3, <2>4, <2>5, HelperStep
<1>9. ASSUME NEW f \in Filters,
             \/ \E fps \in Rates : SetFps(f, fps)
             \/ \E vs \in Requests : SetVideoSize(f, vs)
             \/ \E degrees \in Degrees : SetDeviceOrientation(f, degrees)
             \/ ReadDimensions(f)
             \/ CopyFrame(f)
      PROVE  OneHelper'
  <2> DEFINE r == filter[f]
  <2>1. OneHelper /\ smInstantiated' = smInstantiated /\ lost' # "mixed"
        /\ signalled' = signalled
    BY <1>9, <1>l DEF SetFps, SetVideoSize, SetDeviceOrientation, Set, ReadDimensions, CopyFrame
  <2>2. PICK s : Become(f, s) /\ s.pc = r.pc /\ s.action = r.action
    <3>1. ASSUME NEW fps \in Rates, SetFps(f, fps)
          PROVE  \E s : Become(f, s) /\ s.pc = r.pc /\ s.action = r.action
      <4> DEFINE s == [r EXCEPT !.fps = fps,
                       !.profile.rate = IF r.profile = NoProfile THEN 0 ELSE WholeRate(fps)]
      <4>1. s.pc = r.pc /\ s.action = r.action /\ Become(f, s)
        BY <1>i, <3>1 DEF SetFps, Set, Instance, Fields
      <4> QED BY <4>1
    <3>2. ASSUME NEW vs \in Requests, SetVideoSize(f, vs)
          PROVE  \E s : Become(f, s) /\ s.pc = r.pc /\ s.action = r.action
      <4> DEFINE known == r.mCapture = "ready"
                 size == IF known THEN SelectBestVideoSize(vs) ELSE vs
                 touched == Touch(f, "size")
                 s == [r EXCEPT !.videoSize = size,
                       !.asked = [size |-> vs, known |-> known],
                       !.profile.size = IF r.profile = NoProfile THEN <<0, 0>> ELSE size,
                       !.used = IF r.profile = NoProfile THEN r.used ELSE size,
                       !.touched = touched]
      <4>1. s.pc = r.pc /\ s.action = r.action /\ Become(f, s)
        BY <1>i, <3>2 DEF SetVideoSize, Set, Instance, Fields
      <4> QED BY <4>1
    <3>3. ASSUME NEW degrees \in Degrees, SetDeviceOrientation(f, degrees)
          PROVE  \E s : Become(f, s) /\ s.pc = r.pc /\ s.action = r.action
      <4> DEFINE s == [r EXCEPT
                       !.orientation = IF r.orientation = degrees THEN degrees
                                       ELSE Mirrored(r.front, degrees),
                       !.turned = degrees, !.touched = Touch(f, "orientation")]
      <4>1. s.pc = r.pc /\ s.action = r.action /\ Become(f, s)
        BY <1>i, <3>3 DEF SetDeviceOrientation, Set, Instance, Fields
      <4> QED BY <4>1
    <3>4. CASE ReadDimensions(f)
      <4> DEFINE s == [r EXCEPT !.frame = Dimensions(r.used, r.orientation),
                                !.touched = r.touched \ {"orientation"}]
      <4>1. s.pc = r.pc /\ s.action = r.action /\ Become(f, s)
        BY <1>i, <3>4 DEF ReadDimensions, Instance, Fields
      <4> QED BY <4>1
    <3>5. CASE CopyFrame(f)
      <4> DEFINE s == [r EXCEPT !.frame = NoFrame]
      <4>1. s.pc = r.pc /\ s.action = r.action /\ Become(f, s)
        BY <1>i, <3>5 DEF CopyFrame, Instance, Fields
      <4> QED BY <4>1
    <3> QED BY <1>9, <3>1, <3>2, <3>3, <3>4, <3>5
  <2>3. Helper(s) = Helper(r) /\ Expected(s) = Expected(r)
    BY <2>2, SameExpected
  <2>4. CASE Helper(r)
    <3>1. smInstantiated /\ signalled = Expected(r)
      BY <2>1, <2>4 DEF OneHelper
    <3> QED BY <2>1, <2>2, <2>3, <2>4, <3>1, HelperStep
  <2>5. CASE ~Helper(r)
    BY <2>1, <2>2, <2>3, <2>5, RefusedStep
  <2> QED BY <2>4, <2>5
<1>10. ASSUME WokenByAnother PROVE FALSE
  <2>1. PICK f \in Filters : Signalled(f) /\ filter[f].action # "none"
    BY <1>10 DEF WokenByAnother
  <2>2. OneHelper
    BY <1>10 DEF WokenByAnother, Lose
  <2>3. Helper(filter[f]) /\ Expected(filter[f]) = {} /\ signalled # {}
    BY <2>1, WaitsFor DEF Signalled, Waiting, Helper, Expected
  <2> QED BY <2>2, <2>3 DEF OneHelper
<1>11. CASE DetectFirst \/ CallWithoutDevice
  BY <1>11, <1>l, <1>u DEF DetectFirst, CallWithoutDevice, Lose
<1> QED
  BY <1>2, <1>3, <1>4, <1>5, <1>6, <1>7, <1>8, <1>9, <1>10, <1>11
  DEF FilterNext, OwnerCalls, OwnerReturns

-----------------------------------------------------------------------------
(* The size that SelectBestVideoSize takes. *)

Better(vs, o, best) ==
  o.usable /\ GreaterThan(vs, o.size) /\ GreaterThan(o.size, best)

\* The size taken is found offer by offer.
LEMMA SelectSteps ==
  ASSUME NEW vs, offers \in Offers
  PROVE  \E best :
           /\ best[0] = <<0, 0>>
           /\ \A k \in Nat : k < Len(offers) =>
                best[k + 1] = IF Better(vs, offers[k + 1], best[k])
                                THEN offers[k + 1].size ELSE best[k]
           /\ SelectBestVideoSize(vs) =
                IF best[Len(offers)] = <<0, 0>> THEN vs ELSE best[Len(offers)]
<1> DEFINE N == Len(offers)
           V == {<<0, 0>>} \union {offers[i].size : i \in 1 .. N}
           F == [p \in (1 .. N) \X V |->
                   IF Better(vs, offers[p[1]], p[2]) THEN offers[p[1]].size ELSE p[2]]
           Step(g, s) == IF s = {} THEN <<0, 0>>
                         ELSE LET x == Max(s)
                              IN  IF Better(vs, offers[x], g[s \ {x}])
                                    THEN offers[x].size ELSE g[s \ {x}]
           Eq(g) == g = [s \in SUBSET DOMAIN offers |-> Step(g, s)]
           found == CHOOSE g : Eq(g)
<1>1. N \in Nat /\ DOMAIN offers = 1 .. N
  BY FilterAssumption
<1>2. SelectBestVideoSize(vs) =
        IF found[DOMAIN offers] = <<0, 0>> THEN vs ELSE found[DOMAIN offers]
  BY DEF SelectBestVideoSize, FoldLeft, MapThenFoldSet, Better
<1>3. PICK g \in [SUBSET (1 .. N) -> V] : FoldsBy(g, N, <<0, 0>>, F)
  <2>1. F \in [(1 .. N) \X V -> V] /\ <<0, 0>> \in V
    OBVIOUS
  <2> HIDE DEF F, N, V
  <2> QED BY <1>1, <2>1, FoldExists
<1>4. Eq(g)
  <2>1. ASSUME NEW s \in SUBSET (1 .. N) PROVE g[s] = Step(g, s)
    <3>1. CASE s = {}
      BY <1>3, <3>1 DEF FoldsBy
    <3>2. CASE s # {}
      <4>1. Max(s) \in 1 .. N
        BY <1>1, <3>2, MaxFacts
      <4>2. g[s \ {Max(s)}] \in V
        OBVIOUS
      <4>3. g[s] = F[<<Max(s), g[s \ {Max(s)}]>>]
        <5> HIDE DEF F, N
        <5> QED BY <1>3, <3>2 DEF FoldsBy
      <4> QED BY <3>2, <4>1, <4>2, <4>3
    <3> QED BY <3>1, <3>2
  <2> HIDE DEF Step
  <2> QED BY <1>1, <1>3, <2>1
<1>5. Eq(found)
  <2> HIDE DEF Eq
  <2> QED BY <1>4, Zenon
<1> HIDE DEF found
<1> DEFINE best == [k \in 0 .. N |-> found[1 .. k]]
<1>6. best[0] = <<0, 0>>
  <2>1. found[{}] = <<0, 0>>
    BY <1>1, <1>5
  <2> QED BY <1>1, <2>1
<1>7. ASSUME NEW k \in Nat, k < N
      PROVE  best[k + 1] = IF Better(vs, offers[k + 1], best[k])
                             THEN offers[k + 1].size ELSE best[k]
  <2>1. k \in 0 .. N /\ k + 1 \in 0 .. N /\ 1 .. (k + 1) \in SUBSET DOMAIN offers
    BY <1>1, <1>7
  <2>2. found[1 .. (k + 1)] = Step(found, 1 .. (k + 1))
    <3> HIDE DEF Step
    <3> QED BY <1>5, <2>1
  <2>3. Step(found, 1 .. (k + 1)) = IF Better(vs, offers[k + 1], found[1 .. k])
                                      THEN offers[k + 1].size ELSE found[1 .. k]
    BY UpToNext
  <2> QED BY <2>1, <2>2, <2>3
<1>8. best[N] = found[DOMAIN offers]
  BY <1>1
<1> HIDE DEF best
<1> QED BY <1>2, <1>6, <1>7, <1>8

\* No offer that fits is better than the size taken, whatever a camera offers.
Best(size, request, list) ==
  LET fitting == {o \in ToSet(list) : o.usable /\ GreaterThan(request.size, o.size)}
  IN  IF request.known /\ fitting # {}
        THEN /\ \E o \in fitting : o.size = size
             /\ \A o \in fitting : GreaterThan(o.size, size) => o.size = size
        ELSE size = request.size

\* Sizes are ordered, though not all of them.
LEMMA SizesOrdered ==
  ASSUME NEW a \in Nat \X Nat, NEW b \in Nat \X Nat, NEW c \in Nat \X Nat
  PROVE  /\ GreaterThan(a, <<0, 0>>) /\ GreaterThan(a, a)
         /\ GreaterThan(a, b) /\ GreaterThan(b, c) => GreaterThan(a, c)
         /\ GreaterThan(a, b) /\ GreaterThan(b, a) => a = b
<1>1. /\ a[1] \in Nat /\ a[2] \in Nat /\ b[1] \in Nat /\ b[2] \in Nat
      /\ c[1] \in Nat /\ c[2] \in Nat
  OBVIOUS
<1>2. a = <<a[1], a[2]>> /\ b = <<b[1], b[2]>>
  OBVIOUS
<1>3. GreaterThan(a, <<0, 0>>) /\ GreaterThan(a, a)
  BY <1>1 DEF GreaterThan
<1>4. GreaterThan(a, b) /\ GreaterThan(b, c) => GreaterThan(a, c)
  BY <1>1 DEF GreaterThan
<1>5. GreaterThan(a, b) /\ GreaterThan(b, a) => a[1] = b[1] /\ a[2] = b[2]
  BY <1>1 DEF GreaterThan
<1> QED BY <1>2, <1>3, <1>4, <1>5

LEMMA SelectsBest ==
  ASSUME NEW vs, offers \in Offers
  PROVE  Best(SelectBestVideoSize(vs), [size |-> vs, known |-> TRUE], offers)
<1> DEFINE N == Len(offers)
           Fits(o) == o.usable /\ GreaterThan(vs, o.size)
<1>1. /\ N \in Nat /\ DOMAIN offers = 1 .. N
      /\ \A i \in 1 .. N : offers[i].size \in (Nat \X Nat) \ {<<0, 0>>}
  <2> DEFINE O == [size : (Nat \X Nat) \ {<<0, 0>>}, usable : BOOLEAN]
  <2>1. \A o \in O : o.size \in (Nat \X Nat) \ {<<0, 0>>}
    OBVIOUS
  <2> HIDE DEF O
  <2>2. offers \in Seq(O)
    BY FilterAssumption DEF O
  <2> QED BY <2>1, <2>2
<1>2. PICK best :
        /\ best[0] = <<0, 0>>
        /\ \A k \in Nat : k < N =>
             best[k + 1] = IF Better(vs, offers[k + 1], best[k])
                             THEN offers[k + 1].size ELSE best[k]
        /\ SelectBestVideoSize(vs) = IF best[N] = <<0, 0>> THEN vs ELSE best[N]
  BY SelectSteps
<1> DEFINE None(k) == best[k] = <<0, 0>> /\ \A i \in 1 .. k : ~Fits(offers[i])
           Some(k) == /\ \E i \in 1 .. k : Fits(offers[i]) /\ offers[i].size = best[k]
                      /\ \A i \in 1 .. k :
                           Fits(offers[i]) /\ GreaterThan(offers[i].size, best[k])
                             => offers[i].size = best[k]
           S == {k \in Nat : k <= N => None(k) \/ Some(k)}
<1>3. 0 \in S
  BY <1>2
<1>4. ASSUME NEW k \in Nat, k + 1 <= N, None(k) \/ Some(k) PROVE None(k + 1) \/ Some(k + 1)
  <2> DEFINE o == offers[k + 1]
  <2>1. /\ k < N /\ k + 1 \in 1 .. N /\ k + 1 \in 1 .. (k + 1)
        /\ \A i \in 1 .. (k + 1) : i \in 1 .. N /\ (i \in 1 .. k \/ i = k + 1)
        /\ \A i \in 1 .. k : i \in 1 .. N /\ i \in 1 .. (k + 1)
    BY <1>1, <1>4
  <2>2. o.size \in Nat \X Nat /\ best[k] \in Nat \X Nat
    <3>1. \A i \in 1 .. N : offers[i].size \in Nat \X Nat
      BY <1>1
    <3>2. best[k] = <<0, 0>> \/ \E i \in 1 .. k : offers[i].size = best[k]
      BY <1>4
    <3> HIDE DEF N
    <3> QED BY <2>1, <3>1, <3>2
  <2>3. best[k + 1] = IF Better(vs, o, best[k]) THEN o.size ELSE best[k]
    BY <1>2, <2>1
  <2> HIDE DEF N
  <2>4. CASE Fits(o) /\ GreaterThan(o.size, best[k])
    <3>1. best[k + 1] = o.size
      BY <2>3, <2>4 DEF Better
    <3>2. \A i \in 1 .. k : Fits(offers[i]) /\ GreaterThan(offers[i].size, o.size)
                              => offers[i].size = o.size
      <4> SUFFICES ASSUME NEW i \in 1 .. k, Fits(offers[i]), GreaterThan(offers[i].size, o.size)
                   PROVE  offers[i].size = o.size
        OBVIOUS
      <4>1. offers[i].size \in Nat \X Nat
        BY <1>1, <2>1
      <4>2. GreaterThan(offers[i].size, best[k])
        BY <2>2, <2>4, <4>1, SizesOrdered
      <4>3. offers[i].size = best[k]
        BY <1>4, <4>2
      <4> QED BY <2>2, <2>4, <4>1, <4>3, SizesOrdered
    <3>3. Some(k + 1)
      BY <2>1, <2>4, <3>1, <3>2
    <3> QED BY <3>3
  <2>5. CASE ~Fits(o)
    <3>1. best[k + 1] = best[k]
      BY <2>3, <2>5 DEF Better
    <3> QED BY <1>4, <2>1, <2>5, <3>1
  <2>6. CASE Fits(o) /\ ~GreaterThan(o.size, best[k])
    <3>1. best[k + 1] = best[k]
      BY <2>3, <2>6 DEF Better
    <3>2. Some(k)
      BY <1>4, <2>2, <2>6, SizesOrdered
    <3>3. Some(k + 1)
      BY <2>1, <2>6, <3>1, <3>2
    <3> QED BY <3>3
  <2> QED BY <2>4, <2>5, <2>6
<1>5. None(N) \/ Some(N)
  <2> HIDE DEF None, Some
  <2>1. \A k \in Nat : k \in S => k + 1 \in S
    BY <1>1, <1>4
  <2> HIDE DEF S
  <2>2. N \in S
    BY <1>1, <1>3, <2>1, SetInduction
  <2> USE DEF S
  <2> QED BY <1>1, <2>2
<1>6. \A o : o \in ToSet(offers) <=> \E i \in 1 .. N : o = offers[i]
  BY <1>1 DEF ToSet
<1>7. CASE None(N)
  BY <1>2, <1>6, <1>7 DEF Best
<1>8. CASE Some(N)
  <2>1. PICK i \in 1 .. N : Fits(offers[i]) /\ offers[i].size = best[N]
    BY <1>8
  <2>2. SelectBestVideoSize(vs) = best[N]
    BY <1>1, <1>2, <2>1
  <2>3. offers[i] \in ToSet(offers)
    BY <1>6
  <2>4. \A o \in ToSet(offers) : Fits(o) /\ GreaterThan(o.size, best[N]) => o.size = best[N]
    BY <1>6, <1>8
  <2> QED BY <2>1, <2>2, <2>3, <2>4 DEF Best
<1> QED BY <1>5, <1>7, <1>8

-----------------------------------------------------------------------------
(* The list that a detection makes. *)

\* list[k] is the list after the first k devices.
Adds(list, cameras, found, unnamed) ==
  /\ list[0] = cameras
  /\ \A k \in Nat : k < Len(found) =>
       list[k + 1] = IF found[k + 1] \in unnamed THEN list[k]
                       ELSE AddCamera(list[k], found[k + 1])
  /\ AddCameras(cameras, found, unnamed) = list[Len(found)]

\* The list is made device by device.
LEMMA AddSteps ==
  ASSUME NEW cameras \in Seq(Devices), NEW found \in Seq(Devices), NEW unnamed
  PROVE  \E list : Adds(list, cameras, found, unnamed)
<1> DEFINE N == Len(found)
           V == Seq(Devices)
           F == [p \in (1 .. N) \X V |->
                   IF found[p[1]] \in unnamed THEN p[2] ELSE AddCamera(p[2], found[p[1]])]
           Step(g, s) == IF s = {} THEN cameras
                         ELSE LET x == Max(s)
                              IN  IF found[x] \in unnamed THEN g[s \ {x}]
                                    ELSE AddCamera(g[s \ {x}], found[x])
           Eq(g) == g = [s \in SUBSET DOMAIN found |-> Step(g, s)]
           added == CHOOSE g : Eq(g)
<1>1. N \in Nat /\ DOMAIN found = 1 .. N /\ \A i \in 1 .. N : found[i] \in Devices
  OBVIOUS
<1>2. AddCameras(cameras, found, unnamed) = added[DOMAIN found]
  BY DEF AddCameras, FoldLeft, MapThenFoldSet
<1>3. PICK g \in [SUBSET (1 .. N) -> V] : FoldsBy(g, N, cameras, F)
  <2>1. ASSUME NEW list \in V, NEW d \in Devices PROVE AddCamera(list, d) \in V
    BY DEF AddCamera
  <2>2. F \in [(1 .. N) \X V -> V] /\ cameras \in V
    BY <1>1, <2>1
  <2> HIDE DEF F, N, V
  <2> QED BY <1>1, <2>2, FoldExists
<1>4. Eq(g)
  <2>1. ASSUME NEW s \in SUBSET (1 .. N) PROVE g[s] = Step(g, s)
    <3>1. CASE s = {}
      BY <1>3, <3>1 DEF FoldsBy
    <3>2. CASE s # {}
      <4>1. Max(s) \in 1 .. N
        BY <1>1, <3>2, MaxFacts
      <4>2. g[s \ {Max(s)}] \in V
        OBVIOUS
      <4>3. g[s] = F[<<Max(s), g[s \ {Max(s)}]>>]
        <5> HIDE DEF F, N, V
        <5> QED BY <1>3, <3>2 DEF FoldsBy
      <4> HIDE DEF V
      <4> QED BY <3>2, <4>1, <4>2, <4>3
    <3> QED BY <3>1, <3>2
  <2> HIDE DEF Step
  <2> QED BY <1>1, <1>3, <2>1
<1>5. Eq(added)
  <2> HIDE DEF Eq
  <2> QED BY <1>4, Zenon
<1> HIDE DEF added
<1> DEFINE list == [k \in 0 .. N |-> added[1 .. k]]
<1>6. list[0] = cameras
  <2>1. added[{}] = cameras
    BY <1>1, <1>5
  <2> QED BY <1>1, <2>1
<1>7. ASSUME NEW k \in Nat, k < N
      PROVE  list[k + 1] = IF found[k + 1] \in unnamed THEN list[k]
                             ELSE AddCamera(list[k], found[k + 1])
  <2>1. k \in 0 .. N /\ k + 1 \in 0 .. N /\ 1 .. (k + 1) \in SUBSET DOMAIN found
    BY <1>1, <1>7
  <2>2. added[1 .. (k + 1)] = Step(added, 1 .. (k + 1))
    <3> HIDE DEF Step
    <3> QED BY <1>5, <2>1
  <2>3. Step(added, 1 .. (k + 1)) = IF found[k + 1] \in unnamed THEN added[1 .. k]
                                      ELSE AddCamera(added[1 .. k], found[k + 1])
    BY UpToNext
  <2> QED BY <2>1, <2>2, <2>3
<1>8. list[N] = added[DOMAIN found]
  BY <1>1
<1> HIDE DEF list
<1>9. Adds(list, cameras, found, unnamed)
  BY <1>2, <1>6, <1>7, <1>8 DEF Adds
<1> QED BY <1>9

\* What is added are devices.
LEMMA AddedAreDevices ==
  ASSUME NEW cameras \in Seq(Devices), NEW found \in Seq(Devices), NEW unnamed
  PROVE  AddCameras(cameras, found, unnamed) \in Seq(Devices)
<1> DEFINE N == Len(found)
<1>1. N \in Nat /\ \A i \in 1 .. N : found[i] \in Devices
  OBVIOUS
<1>0. PICK list : Adds(list, cameras, found, unnamed)
  BY AddSteps
<1>2. /\ list[0] = cameras
      /\ \A k \in Nat : k < N =>
           list[k + 1] = IF found[k + 1] \in unnamed THEN list[k]
                           ELSE AddCamera(list[k], found[k + 1])
      /\ AddCameras(cameras, found, unnamed) = list[N]
  BY <1>0 DEF Adds
<1> DEFINE S == {k \in Nat : k <= N => list[k] \in Seq(Devices)}
<1>3. 0 \in S
  BY <1>2
<1>4. ASSUME NEW k \in Nat, k + 1 <= N, list[k] \in Seq(Devices)
      PROVE  list[k + 1] \in Seq(Devices)
  <2>1. k < N /\ found[k + 1] \in Devices
    BY <1>1, <1>4
  <2>2. AddCamera(list[k], found[k + 1]) \in Seq(Devices)
    BY <1>4, <2>1 DEF AddCamera
  <2> QED BY <1>2, <1>4, <2>1, <2>2
<1>5. \A k \in Nat : k \in S => k + 1 \in S
  BY <1>1, <1>4
<1>6. N \in S
  <2> HIDE DEF S
  <2> QED BY <1>1, <1>3, <1>5, SetInduction
<1> QED BY <1>1, <1>2, <1>6

\* Each camera once, and those on the front panel behind all others.
Sorted(list) ==
  /\ IsInjective(list)
  /\ \A i, j \in DOMAIN list :
       Panel[list[i]] = "front" /\ Panel[list[j]] # "front" => j < i

LEMMA AddedSorted ==
  ASSUME NEW list \in Seq(Devices), Sorted(list),
         NEW d \in Devices, \A i \in DOMAIN list : list[i] # d
  PROVE  /\ Sorted(AddCamera(list, d))
         /\ \A i \in DOMAIN AddCamera(list, d) :
              AddCamera(list, d)[i] = d \/ \E j \in DOMAIN list : AddCamera(list, d)[i] = list[j]
<1> DEFINE n == Len(list)
<1>1. n \in Nat /\ DOMAIN list = 1 .. n
  OBVIOUS
<1>2. CASE Panel[d] = "front"
  <2> DEFINE new == Append(list, d)
  <2>1. /\ DOMAIN new = 1 .. (n + 1) /\ new[n + 1] = d
        /\ \A i \in 1 .. n : new[i] = list[i]
    OBVIOUS
  <2>2. \A i \in 1 .. (n + 1) : i \in 1 .. n \/ i = n + 1
    BY <1>1
  <2>3. AddCamera(list, d) = new
    BY <1>2 DEF AddCamera
  <2> HIDE DEF new, n
  <2>4. IsInjective(new)
    BY <1>1, <2>1, <2>2 DEF Sorted, IsInjective
  <2>5. ASSUME NEW i \in DOMAIN new, NEW j \in DOMAIN new,
               Panel[new[i]] = "front", Panel[new[j]] # "front"
        PROVE  j < i
    <3>1. j \in 1 .. n /\ new[j] = list[j]
      BY <1>2, <2>1, <2>2, <2>5
    <3>2. CASE i \in 1 .. n
      BY <1>1, <2>1, <2>5, <3>1, <3>2 DEF Sorted
    <3>3. CASE i = n + 1
      BY <1>1, <3>1, <3>3
    <3> QED BY <2>1, <2>2, <3>2, <3>3
  <2>6. Sorted(new)
    BY <2>4, <2>5 DEF Sorted
  <2>7. \A i \in DOMAIN new : new[i] = d \/ \E j \in DOMAIN list : new[i] = list[j]
    BY <1>1, <2>1, <2>2
  <2> QED BY <2>3, <2>6, <2>7
<1>3. CASE Panel[d] # "front"
  <2> DEFINE new == <<d>> \o list
  <2>1. /\ DOMAIN new = 1 .. (n + 1) /\ new[1] = d
        /\ \A i \in 2 .. (n + 1) : new[i] = list[i - 1]
    OBVIOUS
  <2>3. AddCamera(list, d) = new
    BY <1>3 DEF AddCamera
  <2> HIDE DEF new, n
  <2>2. \A i \in 1 .. (n + 1) : i = 1 \/ (i \in 2 .. (n + 1) /\ i - 1 \in 1 .. n)
    BY <1>1
  <2>4. IsInjective(new)
    <3> SUFFICES ASSUME NEW i \in 1 .. (n + 1), NEW j \in 1 .. (n + 1), new[i] = new[j]
                 PROVE  i = j
      BY <2>1 DEF IsInjective
    <3>1. CASE i = 1 \/ j = 1
      BY <1>1, <2>1, <2>2, <3>1
    <3>2. CASE i # 1 /\ j # 1
      <4>1. /\ i - 1 \in DOMAIN list /\ j - 1 \in DOMAIN list
            /\ list[i - 1] = list[j - 1]
        BY <1>1, <2>1, <2>2, <3>2
      <4>2. i - 1 = j - 1
        BY <4>1 DEF Sorted, IsInjective
      <4> QED BY <1>1, <4>2
    <3> QED BY <3>1, <3>2
  <2>5. ASSUME NEW i \in DOMAIN new, NEW j \in DOMAIN new,
               Panel[new[i]] = "front", Panel[new[j]] # "front"
        PROVE  j < i
    <3>1. i \in 2 .. (n + 1) /\ i - 1 \in 1 .. n /\ new[i] = list[i - 1]
      BY <1>3, <2>1, <2>2, <2>5
    <3>2. CASE j = 1
      BY <1>1, <3>1, <3>2
    <3>3. CASE j \in 2 .. (n + 1) /\ j - 1 \in 1 .. n
      <4>1. j - 1 < i - 1
        BY <1>1, <2>1, <2>5, <3>1, <3>3 DEF Sorted
      <4> QED BY <1>1, <3>1, <3>3, <4>1
    <3> QED BY <2>1, <2>2, <3>2, <3>3
  <2>6. Sorted(new)
    BY <2>4, <2>5 DEF Sorted
  <2>7. \A i \in DOMAIN new : new[i] = d \/ \E j \in DOMAIN list : new[i] = list[j]
    BY <1>1, <2>1, <2>2
  <2> QED BY <2>3, <2>6, <2>7
<1> QED BY <1>2, <1>3

\* A detection that begins with an empty list makes a sorted one.
LEMMA DetectionSorted ==
  ASSUME NEW found \in Seq(Devices), IsInjective(found), NEW unnamed
  PROVE  Sorted(AddCameras(<<>>, found, unnamed))
<1> DEFINE empty == <<>>
<1>e. empty \in Seq(Devices) /\ DOMAIN empty = {}
  OBVIOUS
<1> HIDE DEF empty
<1> DEFINE N == Len(found)
<1>1. N \in Nat /\ DOMAIN found = 1 .. N /\ \A i \in 1 .. N : found[i] \in Devices
  OBVIOUS
<1>0. PICK list : Adds(list, empty, found, unnamed)
  BY <1>e, AddSteps
<1>2. /\ list[0] = empty
      /\ \A k \in Nat : k < N =>
           list[k + 1] = IF found[k + 1] \in unnamed THEN list[k]
                           ELSE AddCamera(list[k], found[k + 1])
      /\ AddCameras(empty, found, unnamed) = list[N]
  BY <1>0 DEF Adds
<1> DEFINE From(k) == /\ list[k] \in Seq(Devices) /\ Sorted(list[k])
                      /\ \A i \in DOMAIN list[k] : \E j \in 1 .. k : list[k][i] = found[j]
           S == {k \in Nat : k <= N => From(k)}
<1>3. From(0)
  BY <1>2, <1>e DEF Sorted, IsInjective
<1>4. ASSUME NEW k \in Nat, k + 1 <= N, From(k) PROVE From(k + 1)
  <2> DEFINE d == found[k + 1]
  <2>1. k < N /\ d \in Devices /\ k + 1 \in 1 .. N /\ k + 1 \in 1 .. (k + 1)
    BY <1>1, <1>4
  <2>2. list[k + 1] = IF d \in unnamed THEN list[k] ELSE AddCamera(list[k], d)
    BY <1>2, <2>1
  <2>3. \A j \in 1 .. k : j \in 1 .. N /\ j # k + 1 /\ j \in 1 .. (k + 1)
    BY <1>1, <1>4
  <2>4. \A i \in DOMAIN list[k] : list[k][i] # d
    BY <1>1, <1>4, <2>1, <2>3 DEF IsInjective
  <2>5. CASE d \in unnamed
    BY <1>4, <2>2, <2>3, <2>5
  <2>6. CASE d \notin unnamed
    <3>1. list[k + 1] = AddCamera(list[k], d)
      BY <2>2, <2>6
    <3>2. AddCamera(list[k], d) \in Seq(Devices)
      BY <1>4, <2>1 DEF AddCamera
    <3> HIDE DEF d
    <3>3. /\ Sorted(list[k + 1])
          /\ \A i \in DOMAIN list[k + 1] :
               list[k + 1][i] = d \/ \E j \in DOMAIN list[k] : list[k + 1][i] = list[k][j]
      BY <1>4, <2>1, <2>4, <3>1, AddedSorted
    <3>4. ASSUME NEW i \in DOMAIN list[k + 1]
          PROVE  \E j \in 1 .. (k + 1) : list[k + 1][i] = found[j]
      <4>1. CASE list[k + 1][i] = d
        BY <2>1, <4>1 DEF d
      <4>2. CASE \E m \in DOMAIN list[k] : list[k + 1][i] = list[k][m]
        <5>1. \E j \in 1 .. k : list[k + 1][i] = found[j]
          BY <1>4, <4>2
        <5> QED BY <2>3, <5>1
      <4> QED BY <3>3, <4>1, <4>2
    <3> QED BY <3>1, <3>2, <3>3, <3>4
  <2> QED BY <2>5, <2>6
<1>5. N \in S
  <2> HIDE DEF From
  <2>1. 0 \in S /\ \A k \in Nat : k \in S => k + 1 \in S
    BY <1>1, <1>3, <1>4
  <2> HIDE DEF S
  <2> QED BY <1>1, <2>1, SetInduction
<1> QED BY <1>1, <1>2, <1>5 DEF empty

\* The list is handed over from its end.
LEMMA RegisteredInOrder ==
  ASSUME NEW list \in Seq(Devices)
  PROVE  /\ Reverse(list) \o <<>> \in Seq(Devices)
         /\ Sorted(list) =>
              /\ IsInjective(Reverse(list) \o <<>>)
              /\ \A i, j \in DOMAIN (Reverse(list) \o <<>>) :
                   /\ Panel[(Reverse(list) \o <<>>)[i]] # "front"
                   /\ Panel[(Reverse(list) \o <<>>)[j]] = "front"
                   => j < i
<1> DEFINE n == Len(list)
           r == Reverse(list)
<1>1. n \in Nat /\ DOMAIN list = 1 .. n /\ \A i \in 1 .. n : (n - i) + 1 \in 1 .. n
  OBVIOUS
<1>2. r = [i \in 1 .. n |-> list[(n - i) + 1]]
  BY DEF Reverse
<1>3. r \in Seq(Devices) /\ DOMAIN r = 1 .. n /\ \A i \in 1 .. n : r[i] = list[(n - i) + 1]
  <2>1. \A i \in 1 .. n : list[(n - i) + 1] \in Devices
    BY <1>1
  <2> QED BY <1>1, <1>2, <2>1
<1>4. r \o <<>> = r
  BY <1>3
<1> HIDE DEF r, n
<1>5. ASSUME Sorted(list) PROVE IsInjective(r)
  <2> SUFFICES ASSUME NEW i \in 1 .. n, NEW j \in 1 .. n, r[i] = r[j] PROVE i = j
    BY <1>3 DEF IsInjective
  <2>1. (n - i) + 1 = (n - j) + 1
    BY <1>1, <1>3, <1>5 DEF Sorted, IsInjective
  <2> QED BY <1>1, <2>1
<1>6. ASSUME Sorted(list), NEW i \in 1 .. n, NEW j \in 1 .. n,
             Panel[r[i]] # "front", Panel[r[j]] = "front"
      PROVE  j < i
  <2>1. (n - i) + 1 < (n - j) + 1
    BY <1>1, <1>3, <1>6 DEF Sorted
  <2> QED BY <1>1, <2>1
<1> QED BY <1>3, <1>4, <1>5, <1>6 DEF r

-----------------------------------------------------------------------------
(* Sizes, rates and cameras. *)

\* What is asked for, and what is kept of it.
RequestInv(r) ==
  /\ r.front \in BOOLEAN
  /\ r.fps \in Rates \union {30}
  /\ r.videoSize \in Sizes
  /\ r.orientation \in 0 .. 360
  /\ r.asked \in [size : Sizes, known : BOOLEAN]
  /\ r.turned \in Degrees \union {0}
  /\ Best(r.videoSize, r.asked, offers)

\* The profile is made of what is kept, and remade whenever that changes.
ProfileInv(r) ==
  r.profile = NoProfile \/ r.profile = [size |-> r.videoSize, rate |-> WholeRate(r.fps)]

\* The sizes that a recording uses, from its start on.
RecordingInv(r) ==
  /\ r.mCapture \in {"none", "ready", "failed"}
  /\ r.used \in Sizes \union {NoFrame}
  /\ r.captured # NoFrame \/ r.action = "start" => r.used \in Sizes
  /\ r.captured \in Sizes \union {NoFrame}
  /\ r.frame \in Shapes \union {NoFrame}
  /\ r.touched \in SUBSET {"size", "orientation"}

SizesInv(r) == RequestInv(r) /\ ProfileInv(r) /\ RecordingInv(r)

\* The cameras are in order, and the list between two detections is empty, unless
\* an exception has ended one.
CameraInv ==
  /\ smCameras \in Seq(Devices) /\ manager \in Seq(Devices)
  /\ ~interrupted => smCameras = <<>> /\ CamerasInOrder

\* The inductive invariant of the sizes and the cameras, beside CInv.
SInv ==
  /\ \A f \in Filters : SizesInv(filter[f])
  /\ CameraInv
  /\ smInstantiated \in BOOLEAN
  /\ signalled \subseteq {"initialize", "start", "stop"}
  /\ lost \in {"no", "null", "mixed"}
  /\ offers \in Offers

\* What is taken is a size.
LEMMA SelectedIsSize ==
  ASSUME NEW vs \in Requests, offers \in Offers
  PROVE  SelectBestVideoSize(vs) \in Sizes
<1> DEFINE size == SelectBestVideoSize(vs)
           request == [size |-> vs, known |-> TRUE]
<1>1. Best(size, request, offers)
  BY SelectsBest
<1> HIDE DEF size
<1>2. size = vs \/ \E o \in ToSet(offers) : o.size = size
  BY <1>1 DEF Best
<1>3. CASE size = vs
  BY <1>3 DEF Sizes, size
<1>4. CASE \E o \in ToSet(offers) : o.size = size
  <2>1. PICK i \in DOMAIN offers : offers[i].size = size
    BY <1>4 DEF ToSet
  <2>2. size \in {offers[j].size : j \in DOMAIN offers}
    BY <2>1
  <2> QED BY <2>2 DEF Sizes, size
<1> QED BY <1>2, <1>3, <1>4

\* An image of one of the sizes, turned by any angle, has one of the shapes.
LEMMA TurnedIsShape ==
  ASSUME NEW size \in Sizes, NEW degrees
  PROVE  Dimensions(size, degrees) \in Shapes
<1>1. Dimensions(size, degrees) = Dimensions(size, 90) \/ Dimensions(size, degrees) = Dimensions(size, 0)
  <2>1. 90 % 180 = 90 /\ 0 % 180 # 90
    OBVIOUS
  <2> QED BY <2>1 DEF Dimensions
<1> QED BY <1>1 DEF Shapes

LEMMA FreshSizes ==
  ASSUME NEW front \in BOOLEAN
  PROVE  /\ SizesInv(Fresh(front)) /\ SizesInv(NoFilter) /\ SizesInv(Rejected)
<1> DEFINE Same(r) ==
      /\ r.front \in BOOLEAN /\ r.fps = 30 /\ r.videoSize = DefaultSize /\ r.orientation = 0
      /\ r.asked = [size |-> DefaultSize, known |-> FALSE] /\ r.turned = 0
      /\ r.profile = NoProfile /\ r.mCapture = "none" /\ r.used = NoFrame
      /\ r.captured = NoFrame /\ r.action = "none" /\ r.frame = NoFrame /\ r.touched = {}
<1>1. Same(Fresh(front)) /\ Same(NoFilter) /\ Same(Rejected)
  BY DEF Fresh, NoFilter, Rejected
<1>2. ASSUME NEW r, Same(r) PROVE SizesInv(r)
  <2>1. DefaultSize \in Sizes
    BY DEF Sizes
  <2>2. Best(r.videoSize, r.asked, offers)
    BY <1>2 DEF Best
  <2>3. r.asked \in [size : Sizes, known : BOOLEAN]
    BY <1>2, <2>1
  <2>4. RequestInv(r)
    BY <1>2, <2>1, <2>2, <2>3 DEF RequestInv
  <2> QED BY <1>2, <2>4 DEF SizesInv, ProfileInv, RecordingInv
<1> QED BY <1>1, <1>2

\* Steps that leave alone what is asked for.
LEMMA SameRequests ==
  ASSUME NEW r, NEW s, RequestInv(r),
         s.front = r.front, s.fps = r.fps, s.videoSize = r.videoSize,
         s.orientation = r.orientation, s.asked = r.asked, s.turned = r.turned
  PROVE  RequestInv(s)
  BY DEF RequestInv

\* Steps that leave alone what a recording uses.
LEMMA SameRecording ==
  ASSUME NEW r, NEW s, RecordingInv(r),
         s.mCapture = r.mCapture, s.used = r.used, s.captured = r.captured,
         s.frame = r.frame, s.touched = r.touched,
         s.action = "start" => r.action = "start"
  PROVE  RecordingInv(s)
  BY DEF RecordingInv

\* What a step may do to the variables beside the instances.
Beside ==
  /\ offers' = offers
  /\ smInstantiated' \in {smInstantiated, TRUE, FALSE}
  /\ lost' \in {lost, "null", "mixed"}
  /\ signalled' \subseteq signalled \/ \E f \in Filters, ok \in BOOLEAN : ActionCompleted(f, ok)
  /\ DetectFirst \/ UNCHANGED cameraVars

LEMMA BesideStep == ASSUME [FilterNext]_vars PROVE Beside
<1>1. ASSUME NEW f \in Filters, OwnerCalls(f) PROVE Beside
  <2>1. ASSUME NEW r, Set(f, r) PROVE Beside
    BY <2>1 DEF Set, Beside
  <2>2. ASSUME NEW i \in DOMAIN manager, New(f, manager[i]) PROVE Beside
    BY <2>2 DEF New, Beside
  <2>3. CASE Destroy(f)
    BY <2>3 DEF Destroy, Destroyed, Beside
  <2>4. CASE Preprocess(f) \/ PostprocessNotStarted(f)
    BY <2>4 DEF Preprocess, PostprocessNotStarted, Beside
  <2>5. ASSUME NEW next \in {"stopping", "destroying"}, Stop(f, next) PROVE Beside
    BY <2>5 DEF Stop, Beside
  <2>6. ASSUME NEW fps \in Rates, SetFps(f, fps) PROVE Beside
    BY <2>1, <2>6 DEF SetFps
  <2>7. ASSUME NEW vs \in Requests, SetVideoSize(f, vs) PROVE Beside
    BY <2>1, <2>7 DEF SetVideoSize
  <2>8. ASSUME NEW degrees \in Degrees, SetDeviceOrientation(f, degrees) PROVE Beside
    BY <2>1, <2>8 DEF SetDeviceOrientation
  <2> QED BY <1>1, <2>2, <2>3, <2>4, <2>5, <2>6, <2>7, <2>8 DEF OwnerCalls
<1>2. ASSUME NEW f \in Filters, OwnerReturns(f) PROVE Beside
  <2>1. CASE Initialized(f) \/ Started(f) \/ Stopped(f)
    BY <2>1 DEF Initialized, Started, Stopped, Woken, Beside
  <2>2. CASE StoppedAndDestroyed(f)
    BY <2>2 DEF StoppedAndDestroyed, Destroyed, Woken, Beside
  <2> QED BY <1>2, <2>1, <2>2 DEF OwnerReturns
<1>3. ASSUME NEW f \in Filters, NEW ok \in BOOLEAN, ActionCompleted(f, ok) PROVE Beside
  <2>1. /\ offers' = offers /\ smInstantiated' = smInstantiated /\ lost' = lost
        /\ UNCHANGED cameraVars
    BY <1>3 DEF ActionCompleted
  <2> QED BY <1>3, <2>1 DEF Beside
<1>4. ASSUME NEW f \in Filters, ReadDimensions(f) \/ CopyFrame(f) PROVE Beside
  BY <1>4 DEF ReadDimensions, CopyFrame, Beside
<1>5. CASE DetectFirst
  <2>1. /\ offers' = offers /\ smInstantiated' = smInstantiated /\ lost' = lost
        /\ signalled' = signalled
    BY <1>5 DEF DetectFirst
  <2> QED BY <1>5, <2>1 DEF Beside
<1>6. CASE WokenByAnother \/ CallWithoutDevice
  BY <1>6 DEF WokenByAnother, CallWithoutDevice, Lose, Beside
<1>7. CASE UNCHANGED vars
  BY <1>7 DEF vars, Beside
<1> QED BY <1>1, <1>2, <1>3, <1>4, <1>5, <1>6, <1>7 DEF FilterNext

LEMMA SizesStep ==
  ASSUME Instances, \A f \in Filters : SizesInv(filter[f]), offers \in Offers,
         [FilterNext]_vars
  PROVE  \A f \in Filters : SizesInv(filter[f])'
<1>o. offers' = offers
  BY BesideStep DEF Beside
<1>p. ASSUME NEW f \in Filters, SizesInv(filter'[f]) PROVE SizesInv(filter[f])'
  BY <1>o, <1>p DEF SizesInv, RequestInv, ProfileInv, RecordingInv
<1> SUFFICES \A f \in Filters : SizesInv(filter'[f])
  BY <1>p
<1>i. \A f \in Filters : /\ SizesInv(filter[f]) /\ Instance(filter[f])
                         /\ ActionInv(filter[f]) /\ SessionInv(filter[f])
  BY DEF Instances, InstanceInv
<1>b. ASSUME NEW f \in Filters, NEW s, SizesInv(s), Become(f, s)
      PROVE  \A g \in Filters : SizesInv(filter'[g])
  BY <1>b, Becomes DEF Instances
<1>u. CASE filter' = filter
  BY <1>u
<1>1. ASSUME NEW f \in Filters, NEW i \in DOMAIN manager, New(f, manager[i])
      PROVE  \A g \in Filters : SizesInv(filter'[g])
  <2>1. IsFront(manager[i]) \in BOOLEAN
    BY DEF IsFront
  <2>2. SizesInv(Rejected) /\ SizesInv(Fresh(IsFront(manager[i])))
    BY <2>1, FreshSizes
  <2> QED BY <1>b, <1>1, <2>2 DEF New
<1>2. ASSUME NEW f \in Filters, Destroy(f) \/ StoppedAndDestroyed(f)
      PROVE  \A g \in Filters : SizesInv(filter'[g])
  BY <1>b, <1>2, FreshSizes DEF Destroy, StoppedAndDestroyed, Destroyed
<1>3. ASSUME NEW f \in Filters,
             \/ Preprocess(f) \/ Started(f) \/ Stopped(f) \/ PostprocessNotStarted(f)
             \/ \E next \in {"stopping", "destroying"} : Stop(f, next)
      PROVE  \A g \in Filters : SizesInv(filter'[g])
  <2> DEFINE r == filter[f]
  <2>1. PICK s \in {[r EXCEPT !.pc = "initializing", !.action = "initialize"],
                    [r EXCEPT !.pc = "running", !.mIsStarted = r.result, !.result = FALSE],
                    [r EXCEPT !.pc = "detached", !.mIsStarted = FALSE],
                    [r EXCEPT !.pc = "detached"],
                    [r EXCEPT !.pc = "stopping", !.action = "stop"],
                    [r EXCEPT !.pc = "destroying", !.action = "stop"]} : Become(f, s)
    BY <1>3 DEF Preprocess, Started, Stopped, PostprocessNotStarted, Stop
  <2>2. SizesInv(r) /\ Instance(r)
    BY <1>i
  <2> HIDE DEF r
  <2> DEFINE Keeps(x) ==
        /\ x.front = r.front /\ x.fps = r.fps /\ x.videoSize = r.videoSize
        /\ x.orientation = r.orientation /\ x.asked = r.asked /\ x.turned = r.turned
        /\ x.profile = r.profile
        /\ x.mCapture = r.mCapture /\ x.used = r.used /\ x.captured = r.captured
        /\ x.frame = r.frame /\ x.touched = r.touched
        /\ x.action \in {r.action, "initialize", "stop"}
  <2>3. Keeps(s)
    <3>1. /\ Keeps([r EXCEPT !.pc = "initializing", !.action = "initialize"])
          /\ Keeps([r EXCEPT !.pc = "stopping", !.action = "stop"])
          /\ Keeps([r EXCEPT !.pc = "destroying", !.action = "stop"])
      BY <2>2 DEF Instance, Fields
    <3>2. /\ Keeps([r EXCEPT !.pc = "detached", !.mIsStarted = FALSE])
          /\ Keeps([r EXCEPT !.pc = "detached"])
      BY <2>2 DEF Instance, Fields
    <3>3. Keeps([r EXCEPT !.pc = "running", !.mIsStarted = r.result, !.result = FALSE])
      BY <2>2 DEF Instance, Fields
    <3> HIDE DEF Keeps
    <3> QED BY <3>1, <3>2, <3>3
  <2>4. RequestInv(s) /\ RecordingInv(s)
    BY <2>2, <2>3, SameRequests, SameRecording DEF SizesInv
  <2>5. ProfileInv(s)
    BY <2>2, <2>3 DEF SizesInv, ProfileInv
  <2> QED BY <1>b, <2>1, <2>4, <2>5 DEF SizesInv
<1>4. ASSUME NEW f \in Filters, NEW ok \in BOOLEAN, ActionCompleted(f, ok)
      PROVE  \A g \in Filters : SizesInv(filter'[g])
  <2> DEFINE r == filter[f]
  <2>1. PICK s : /\ Become(f, s)
                 /\ \/ s = [r EXCEPT !.action = "none",
                                     !.mCapture = IF ok THEN "ready" ELSE "failed"]
                    \/ /\ r.action = "start"
                       /\ s = [r EXCEPT !.action = "none", !.result = ok,
                               !.captured = IF ok THEN r.profile.size ELSE NoFrame]
                    \/ s = [r EXCEPT !.action = "none", !.captured = NoFrame]
    BY <1>4 DEF ActionCompleted
  <2>2. SizesInv(r) /\ Instance(r) /\ ActionInv(r) /\ SessionInv(r)
    BY <1>i
  <2>3. r.action = "start" => r.profile.size = r.used
    BY <2>2, WaitsFor DEF ActionInv, SessionInv
  <2> HIDE DEF r
  <2> DEFINE SameRequest(x) ==
        /\ x.front = r.front /\ x.fps = r.fps /\ x.videoSize = r.videoSize
        /\ x.orientation = r.orientation /\ x.asked = r.asked /\ x.turned = r.turned
        /\ x.profile = r.profile
             Ended(x) ==
        /\ x.action = "none" /\ x.used = r.used /\ x.frame = r.frame /\ x.touched = r.touched
        /\ x.mCapture \in {r.mCapture, "ready", "failed"}
        /\ \/ x.captured \in {NoFrame, r.captured}
           \/ r.action = "start" /\ x.captured = r.used
  <2>4. SameRequest(s) /\ Ended(s)
    <3>1. CASE s = [r EXCEPT !.action = "none",
                             !.mCapture = IF ok THEN "ready" ELSE "failed"]
      BY <2>2, <3>1 DEF Instance, Fields
    <3>2. CASE /\ r.action = "start"
               /\ s = [r EXCEPT !.action = "none", !.result = ok,
                                !.captured = IF ok THEN r.profile.size ELSE NoFrame]
      <4> DEFINE captured == IF ok THEN r.profile.size ELSE NoFrame
      <4>1. captured \in {NoFrame, r.used} /\ s = [r EXCEPT !.action = "none", !.result = ok,
                                                            !.captured = captured]
        BY <2>3, <3>2
      <4> HIDE DEF captured
      <4> QED BY <2>2, <3>2, <4>1 DEF Instance, Fields
    <3>3. CASE s = [r EXCEPT !.action = "none", !.captured = NoFrame]
      BY <2>2, <3>3 DEF Instance, Fields
    <3> HIDE DEF SameRequest, Ended
    <3> QED BY <2>1, <3>1, <3>2, <3>3
  <2>6. RecordingInv(s)
    BY <2>2, <2>4 DEF SizesInv, RecordingInv
  <2>7. RequestInv(s)
    BY <2>2, <2>4, SameRequests DEF SizesInv
  <2>8. ProfileInv(s)
    BY <2>2, <2>4 DEF SizesInv, ProfileInv
  <2> QED BY <1>b, <2>1, <2>6, <2>7, <2>8 DEF SizesInv
<1>5. ASSUME NEW f \in Filters, Initialized(f)
      PROVE  \A g \in Filters : SizesInv(filter'[g])
  <2> DEFINE r == filter[f]
             profile == [size |-> r.videoSize, rate |-> WholeRate(r.fps)]
             s == [r EXCEPT !.pc = "starting", !.action = "start", !.profile = profile,
                            !.used = profile.size, !.touched = {}]
  <2>1. Become(f, s) /\ profile.size = r.videoSize
    BY <1>5 DEF Initialized, StartWithProfile
  <2>2. SizesInv(r) /\ Instance(r)
    BY <1>i
  <2> HIDE DEF r
  <2>3. /\ s.front = r.front /\ s.fps = r.fps /\ s.videoSize = r.videoSize
        /\ s.orientation = r.orientation /\ s.asked = r.asked /\ s.turned = r.turned
        /\ s.profile = profile /\ s.used = r.videoSize /\ s.touched = {}
        /\ s.mCapture = r.mCapture /\ s.captured = r.captured /\ s.frame = r.frame
    BY <2>1, <2>2 DEF Instance, Fields
  <2>4. RequestInv(s)
    BY <2>2, <2>3, SameRequests DEF SizesInv
  <2>5. ProfileInv(s)
    BY <2>3 DEF ProfileInv
  <2>6. RecordingInv(s)
    BY <2>2, <2>3 DEF SizesInv, RequestInv, RecordingInv
  <2> QED BY <1>b, <2>1, <2>4, <2>5, <2>6 DEF SizesInv
<1>6. ASSUME NEW f \in Filters, NEW fps \in Rates, SetFps(f, fps)
      PROVE  \A g \in Filters : SizesInv(filter'[g])
  <2> DEFINE r == filter[f]
             rate == IF r.profile = NoProfile THEN 0 ELSE WholeRate(fps)
             s == [r EXCEPT !.fps = fps, !.profile.rate = rate]
  <2>1. Become(f, s)
    BY <1>6 DEF SetFps, Set
  <2>2. SizesInv(r) /\ Instance(r)
    BY <1>i
  <2> HIDE DEF r, rate
  <2>3. /\ s.front = r.front /\ s.fps = fps /\ s.videoSize = r.videoSize
        /\ s.orientation = r.orientation /\ s.asked = r.asked /\ s.turned = r.turned
        /\ s.profile = [r.profile EXCEPT !.rate = rate]
        /\ s.mCapture = r.mCapture /\ s.used = r.used /\ s.captured = r.captured
        /\ s.frame = r.frame /\ s.touched = r.touched /\ s.action = r.action
    BY <2>2 DEF Instance, Fields
  <2> HIDE DEF s
  <2>4. RequestInv(s)
    BY <2>2, <2>3 DEF SizesInv, RequestInv
  <2>5. ProfileInv(s)
    BY <2>2, <2>3 DEF SizesInv, ProfileInv, NoProfile, rate
  <2>6. RecordingInv(s)
    BY <2>2, <2>3, SameRecording DEF SizesInv
  <2> QED BY <1>b, <2>1, <2>4, <2>5, <2>6 DEF SizesInv
<1>7. ASSUME NEW f \in Filters, NEW vs \in Requests, SetVideoSize(f, vs)
      PROVE  \A g \in Filters : SizesInv(filter'[g])
  <2> DEFINE r == filter[f]
             known == r.mCapture = "ready"
             size == IF known THEN SelectBestVideoSize(vs) ELSE vs
             touched == Touch(f, "size")
             kept == IF r.profile = NoProfile THEN <<0, 0>> ELSE size
             used == IF r.profile = NoProfile THEN r.used ELSE size
             request == [size |-> vs, known |-> known]
             s == [r EXCEPT !.videoSize = size, !.asked = request,
                            !.profile.size = kept, !.used = used, !.touched = touched]
  <2>1. Become(f, s)
    BY <1>7 DEF SetVideoSize, Set
  <2>2. SizesInv(r) /\ Instance(r)
    BY <1>i
  <2>3. touched \in SUBSET {"size", "orientation"}
    BY <1>i DEF SizesInv, RecordingInv, Touch, Attached
  <2>4. size \in Sizes /\ vs \in Sizes
    BY SelectedIsSize DEF Sizes
  <2>5. Best(size, request, offers)
    <3>1. CASE known
      BY <3>1, SelectsBest
    <3>2. CASE ~known
      BY <3>2 DEF Best
    <3> QED BY <3>1, <3>2
  <2>6. request \in [size : Sizes, known : BOOLEAN]
    BY <2>4
  <2> HIDE DEF r, size, touched, kept, used, request
  <2>7. /\ s.front = r.front /\ s.fps = r.fps /\ s.videoSize = size
        /\ s.orientation = r.orientation /\ s.asked = request /\ s.turned = r.turned
        /\ s.profile = [r.profile EXCEPT !.size = kept]
        /\ s.mCapture = r.mCapture /\ s.used = used /\ s.captured = r.captured
        /\ s.frame = r.frame /\ s.touched = touched /\ s.action = r.action
    BY <2>2 DEF Instance, Fields
  <2> HIDE DEF s
  <2>8. RequestInv(s)
    BY <2>2, <2>4, <2>5, <2>6, <2>7 DEF SizesInv, RequestInv
  <2>9. ProfileInv(s)
    BY <2>2, <2>7 DEF SizesInv, ProfileInv, NoProfile, kept
  <2>10. RecordingInv(s)
    BY <2>2, <2>3, <2>4, <2>7 DEF SizesInv, RecordingInv, used
  <2> QED BY <1>b, <2>1, <2>8, <2>9, <2>10 DEF SizesInv
<1>8. ASSUME NEW f \in Filters, NEW degrees \in Degrees, SetDeviceOrientation(f, degrees)
      PROVE  \A g \in Filters : SizesInv(filter'[g])
  <2> DEFINE r == filter[f]
             orientation == IF r.orientation = degrees THEN degrees
                            ELSE Mirrored(r.front, degrees)
             touched == Touch(f, "orientation")
             s == [r EXCEPT !.orientation = orientation, !.turned = degrees, !.touched = touched]
  <2>1. Become(f, s)
    BY <1>8 DEF SetDeviceOrientation, Set
  <2>2. SizesInv(r) /\ Instance(r)
    BY <1>i
  <2>3. touched \in SUBSET {"size", "orientation"}
    BY <1>i DEF SizesInv, RecordingInv, Touch, Attached
  <2>4. orientation \in 0 .. 360
    <3>1. degrees \in 0 .. 360
      BY FilterAssumption
    <3>2. degrees % 360 \in 0 .. 360 /\ (360 - degrees) % 360 \in 0 .. 360
      BY <3>1
    <3> QED BY <3>1, <3>2 DEF Mirrored
  <2> HIDE DEF r, orientation, touched
  <2>5. /\ s.front = r.front /\ s.fps = r.fps /\ s.videoSize = r.videoSize
        /\ s.orientation = orientation /\ s.asked = r.asked /\ s.turned = degrees
        /\ s.profile = r.profile
        /\ s.mCapture = r.mCapture /\ s.used = r.used /\ s.captured = r.captured
        /\ s.frame = r.frame /\ s.touched = touched /\ s.action = r.action
    BY <2>2 DEF Instance, Fields
  <2> HIDE DEF s
  <2>6. RequestInv(s)
    BY <2>2, <2>4, <2>5 DEF SizesInv, RequestInv
  <2>7. ProfileInv(s)
    BY <2>2, <2>5 DEF SizesInv, ProfileInv
  <2>8. RecordingInv(s)
    BY <2>2, <2>3, <2>5 DEF SizesInv, RecordingInv
  <2> QED BY <1>b, <2>1, <2>6, <2>7, <2>8 DEF SizesInv
<1>9. ASSUME NEW f \in Filters, ReadDimensions(f) \/ CopyFrame(f)
      PROVE  \A g \in Filters : SizesInv(filter'[g])
  <2> DEFINE r == filter[f]
             dimensions == Dimensions(r.used, r.orientation)
  <2>1. PICK s : /\ Become(f, s)
                 /\ \/ /\ r.captured # NoFrame
                       /\ s = [r EXCEPT !.frame = dimensions,
                                        !.touched = r.touched \ {"orientation"}]
                    \/ s = [r EXCEPT !.frame = NoFrame]
    BY <1>9 DEF ReadDimensions, CopyFrame, Attached
  <2>2. SizesInv(r) /\ Instance(r)
    BY <1>i
  <2>3. r.captured # NoFrame => dimensions \in Shapes
    BY <2>2, TurnedIsShape DEF SizesInv, RecordingInv
  <2> HIDE DEF r, dimensions
  <2>4. /\ s.front = r.front /\ s.fps = r.fps /\ s.videoSize = r.videoSize
        /\ s.orientation = r.orientation /\ s.asked = r.asked /\ s.turned = r.turned
        /\ s.profile = r.profile
        /\ s.mCapture = r.mCapture /\ s.used = r.used /\ s.captured = r.captured
        /\ s.action = r.action
        /\ s.touched \in {r.touched, r.touched \ {"orientation"}}
        /\ s.frame = NoFrame \/ (r.captured # NoFrame /\ s.frame = dimensions)
    BY <2>1, <2>2 DEF Instance, Fields
  <2>5. RecordingInv(s)
    BY <2>2, <2>3, <2>4 DEF SizesInv, RecordingInv
  <2>6. RequestInv(s)
    BY <2>2, <2>4, SameRequests DEF SizesInv
  <2>7. ProfileInv(s)
    BY <2>2, <2>4 DEF SizesInv, ProfileInv
  <2> QED BY <1>b, <2>1, <2>5, <2>6, <2>7 DEF SizesInv
<1>10. CASE UNCHANGED vars
  BY <1>10, <1>u DEF vars
<1>11. CASE DetectFirst \/ WokenByAnother \/ CallWithoutDevice
  BY <1>11, <1>u DEF DetectFirst, WokenByAnother, CallWithoutDevice, Lose
<1> QED
  BY <1>1, <1>2, <1>3, <1>4, <1>5, <1>6, <1>7, <1>8, <1>9, <1>10, <1>11
  DEF FilterNext, OwnerCalls, OwnerReturns

\* The order in which a detection finds its devices.
LEMMA FoundOnce ==
  ASSUME NEW present \in SUBSET Devices, NEW found \in SetToSeqs(present)
  PROVE  found \in Seq(Devices) /\ IsInjective(found)
<1>1. IsFiniteSet(present)
  BY CamerasAssumption, FS_Subset DEF Devices
<1>2. Cardinality(present) \in Nat
  BY <1>1, FS_CardinalityType
<1>3. found \in [1 .. Cardinality(present) -> present] /\ IsInjective(found)
  BY DEF SetToSeqs, IsInjective
<1> QED BY <1>2, <1>3

LEMMA CameraStep ==
  ASSUME CameraInv, [FilterNext]_vars
  PROVE  CameraInv'
<1>u. ASSUME UNCHANGED cameraVars PROVE CameraInv'
  BY <1>u DEF cameraVars, CameraInv, CamerasInOrder
<1>e. ASSUME manager' = <<>> PROVE manager' \in Seq(Devices) /\ CamerasInOrder'
  <2>1. DOMAIN manager' = {} /\ manager' \in Seq(Devices)
    BY <1>e
  <2> QED BY <2>1 DEF CamerasInOrder, IsInjective
<1>1. ASSUME NEW present \in SUBSET Devices, NEW found \in SetToSeqs(present),
             NEW unnamed \in SUBSET present, DetectCameras(found, unnamed)
      PROVE  CameraInv'
  <2> DEFINE list == AddCameras(smCameras, found, unnamed)
  <2>1. found \in Seq(Devices) /\ IsInjective(found)
    BY FoundOnce
  <2>2. CASE RegisterCameras(list, <<>>) /\ UNCHANGED interrupted
    <3>1. list \in Seq(Devices)
      BY <2>1, AddedAreDevices DEF CameraInv
    <3>2. ~interrupted => Sorted(list)
      BY <2>1, DetectionSorted DEF CameraInv
    <3>3. smCameras' = <<>> /\ manager' = Reverse(list) \o <<>> /\ interrupted' = interrupted
      BY <2>2 DEF RegisterCameras
    <3> HIDE DEF list
    <3>4. manager' \in Seq(Devices)
      BY <3>1, <3>3, RegisteredInOrder
    <3>5. ~interrupted => CamerasInOrder'
      BY <3>1, <3>2, <3>3, RegisteredInOrder DEF CamerasInOrder
    <3> QED BY <3>3, <3>4, <3>5 DEF CameraInv
  <2>3. CASE \E n \in DOMAIN found :
               /\ smCameras' = AddCameras(smCameras, SubSeq(found, 1, n - 1), unnamed)
               /\ manager' = <<>>
               /\ interrupted' = TRUE
    <3>1. PICK n \in DOMAIN found :
               /\ smCameras' = AddCameras(smCameras, SubSeq(found, 1, n - 1), unnamed)
               /\ manager' = <<>>
               /\ interrupted' = TRUE
      BY <2>3
    <3>2. SubSeq(found, 1, n - 1) \in Seq(Devices)
      BY <2>1
    <3>3. smCameras' \in Seq(Devices)
      BY <3>1, <3>2, AddedAreDevices DEF CameraInv
    <3> QED BY <1>e, <3>1, <3>3 DEF CameraInv
  <2> QED BY <1>1, <2>2, <2>3 DEF DetectCameras
<1>2. CASE DetectNothing
  BY <1>e, <1>2 DEF DetectNothing, CameraInv
<1>3. CASE DetectFirst
  BY <1>1, <1>2, <1>3 DEF DetectFirst, Detect
<1> QED BY <1>u, <1>3, BesideStep DEF Beside

\* The events are of the three names, and a set of them stays one.
LEMMA FlagsStep ==
  ASSUME Instances, SInv, [FilterNext]_vars
  PROVE  /\ smInstantiated' \in BOOLEAN
         /\ signalled' \subseteq {"initialize", "start", "stop"}
         /\ lost' \in {"no", "null", "mixed"}
         /\ offers' \in Offers
<1>1. \A f \in Filters : filter[f].action # "none" => filter[f].pc \in DOMAIN Waits
  BY DEF Instances, InstanceInv, ActionInv
<1>2. \A x \in DOMAIN Waits : Waits[x] \in {"initialize", "start", "stop"}
  BY WaitsFor
<1>3. ASSUME NEW f \in Filters, NEW ok \in BOOLEAN, ActionCompleted(f, ok)
      PROVE  signalled' \subseteq {"initialize", "start", "stop"}
  <2>1. filter[f].action # "none" /\ signalled' = signalled \union {Waits[filter[f].pc]}
    BY <1>3 DEF ActionCompleted
  <2> QED BY <1>1, <1>2, <2>1 DEF SInv
<1>4. signalled' \subseteq {"initialize", "start", "stop"}
  <2>1. \/ signalled' \subseteq signalled
        \/ \E f \in Filters, ok \in BOOLEAN : ActionCompleted(f, ok)
    BY BesideStep DEF Beside
  <2> QED BY <1>3, <2>1 DEF SInv
<1>5. /\ smInstantiated' \in {smInstantiated, TRUE, FALSE}
      /\ lost' \in {lost, "null", "mixed"}
      /\ offers' = offers
  BY BesideStep DEF Beside
<1> QED BY <1>4, <1>5 DEF SInv

-----------------------------------------------------------------------------
(* The theorems. *)

\* What holds of every instance, and of the events as long as no refused instance has
\* been destroyed, holds in every state.
THEOREM FilterInvariance == FilterSpec => []CInv
<1>1. FilterInit => CInv
  <2> SUFFICES ASSUME FilterInit PROVE CInv
    OBVIOUS
  <2>1. filter = [f \in Filters |-> filter[f]] /\ \A f \in Filters : filter[f] = NoFilter
    BY DEF FilterInit
  <2>2. \A f \in Filters : ~Helper(filter[f])
    BY <2>1 DEF NoFilter, Fresh, Helper
  <2>3. lost # "mixed" /\ signalled = {}
    BY DEF FilterInit
  <2> QED BY <2>1, <2>2, <2>3, FreshInstances DEF CInv, Instances, OneHelper
<1>2. CInv /\ [FilterNext]_vars => CInv'
  <2> SUFFICES ASSUME CInv, [FilterNext]_vars PROVE CInv'
    OBVIOUS
  <2>1. Instances'
    BY InstanceStep DEF CInv
  <2>2. ~rejectedDestroyed' => OneHelper'
    BY OneHelperStep DEF CInv
  <2> QED BY <2>1, <2>2 DEF CInv
<1> QED BY <1>1, <1>2, PTL DEF FilterSpec

\* EachWaitsForItsOwn: as long as no refused instance has been destroyed, the owner's
\* waits on the named events end by its own actions, for every number of filters.
THEOREM WaitsAreOwn == FilterSpec => []EachWaitsForItsOwn
<1>1. CInv => EachWaitsForItsOwn
  <2> SUFFICES ASSUME CInv, ~rejectedDestroyed
               PROVE  /\ lost # "mixed"
                      /\ Cardinality({f \in Filters : Helper(filter[f])}) <= 1
                      /\ \A f \in Filters : Waiting(f) /\ filter[f].action = "none" => Signalled(f)
    BY DEF EachWaitsForItsOwn, Helper
  <2>1. OneHelper
    BY DEF CInv
  <2> DEFINE H == {f \in Filters : Helper(filter[f])}
  <2>2. Cardinality(H) <= 1
    <3> HIDE DEF H
    <3>1. CASE H = {}
      BY <3>1, FS_EmptySet
    <3>2. CASE H # {}
      <4>1. PICK f : f \in H
        BY <3>2
      <4>2. \A g \in H : g = f
        BY <2>1, <4>1 DEF OneHelper, H
      <4>3. H = {f}
        BY <4>1, <4>2
      <4>4. Cardinality({f}) = 1
        BY FS_Singleton
      <4> QED BY <4>3, <4>4
    <3> QED BY <3>1, <3>2
  <2>3. ASSUME NEW f \in Filters, Waiting(f), filter[f].action = "none" PROVE Signalled(f)
    <3>1. Helper(filter[f]) /\ Expected(filter[f]) = {Waits[filter[f].pc]}
      BY <2>3, WaitsFor DEF Waiting, Helper, Expected
    <3> QED BY <2>1, <2>3, <3>1 DEF OneHelper, Signalled
  <2> QED BY <2>1, <2>2, <2>3 DEF OneHelper
<1> QED BY <1>1, FilterInvariance, PTL

\* DimensionsFollowRequest: a request for an orientation that is ignored never leaves
\* the image on its side, for every set of angles up to a full turn.
THEOREM ImageNotOnItsSide == FilterSpec => []DimensionsFollowRequest
<1>1. CInv => DimensionsFollowRequest
  BY DEF CInv, Instances, InstanceInv, TurnInv, DimensionsFollowRequest, Dimensions
<1> QED BY <1>1, FilterInvariance, PTL

\* FrameReadInItsSize: a frame is taken apart with the dimensions it was captured in
\* unless they are set meanwhile, for every camera and whatever sizes are asked for.
THEOREM FramesReadInTheirSize == FilterSpec => []FrameReadInItsSize
<1>1. CInv => FrameReadInItsSize
  BY DEF CInv, Instances, InstanceInv, FrameInv, FrameReadInItsSize
<1> QED BY <1>1, FilterInvariance, PTL

\* What is kept of the requests, the sizes of a recording and the lists of cameras
\* keep their types and agree with each other.
THEOREM SizesInvariance == FilterSpec => []SInv
<1>1. FilterInit => SInv
  <2> SUFFICES ASSUME FilterInit PROVE SInv
    OBVIOUS
  <2>1. \A f \in Filters : filter[f] = NoFilter
    BY DEF FilterInit
  <2>2. \A f \in Filters : SizesInv(filter[f])
    BY <2>1, FreshSizes
  <2>3. smCameras \in Seq(Devices) /\ manager \in Seq(Devices) /\ smCameras = <<>>
          /\ DOMAIN manager = {}
    BY DEF FilterInit, CamerasInit
  <2>4. CameraInv
    BY <2>3 DEF CameraInv, CamerasInOrder, IsInjective
  <2> QED BY <2>2, <2>4 DEF FilterInit, SInv
<1>2. CInv /\ SInv /\ [FilterNext]_vars => SInv'
  <2> SUFFICES ASSUME CInv, SInv, [FilterNext]_vars PROVE SInv'
    OBVIOUS
  <2>1. (\A f \in Filters : SizesInv(filter[f]))'
    BY SizesStep DEF CInv, SInv
  <2>2. CameraInv'
    BY CameraStep DEF SInv
  <2> QED BY <2>1, <2>2, FlagsStep DEF CInv, SInv
<1> QED BY <1>1, <1>2, FilterInvariance, PTL DEF FilterSpec

\* FilterTypeOK: every size, rate and shape that an instance keeps is one that was
\* asked for, or that its camera offers, for every camera and all requests.
THEOREM FilterTypes == FilterSpec => []FilterTypeOK
<1>1. CInv /\ SInv => FilterTypeOK
  <2> SUFFICES ASSUME CInv, SInv PROVE FilterTypeOK
    OBVIOUS
  <2> DEFINE Types == [pc : Idle \union DOMAIN Waits \union {"none"}, front : BOOLEAN,
        fps : Rates \union {30}, videoSize : Sizes,
        orientation : 0 .. 360,
        profile : {NoProfile} \union
                  [size : Sizes, rate : {WholeRate(fps) : fps \in Rates \union {30}}],
        mCapture : {"none", "ready", "failed"},
        action : {"none", "initialize", "start", "stop"},
        result : BOOLEAN, mIsStarted : BOOLEAN,
        used : Sizes \union {NoFrame}, captured : Sizes \union {NoFrame},
        frame : Shapes \union {NoFrame},
        asked : [size : Sizes, known : BOOLEAN], turned : Degrees \union {0},
        touched : SUBSET {"size", "orientation"}]
  <2>1. ASSUME NEW f \in Filters PROVE filter[f] \in Types
    <3> DEFINE r == filter[f]
    <3>1. /\ Instance(r) /\ ActionInv(r)
          /\ RequestInv(r) /\ ProfileInv(r) /\ RecordingInv(r)
      BY DEF CInv, Instances, InstanceInv, SInv, SizesInv
    <3> HIDE DEF r
    <3>2. r.pc \in Idle \union DOMAIN Waits \union {"none"}
      BY <3>1, WaitsFor DEF Instance, Idle
    <3>3. r.action \in {"none", "initialize", "start", "stop"}
      BY <3>1, WaitsFor DEF ActionInv
    <3>4. r.profile \in {NoProfile} \union
                  [size : Sizes, rate : {WholeRate(fps) : fps \in Rates \union {30}}]
      BY <3>1 DEF ProfileInv, RequestInv
    <3>5. r = [x \in Fields |-> r[x]] /\ r.result \in BOOLEAN /\ r.mIsStarted \in BOOLEAN
      BY <3>1 DEF Instance
    <3>6. /\ r.front \in BOOLEAN /\ r.fps \in Rates \union {30} /\ r.videoSize \in Sizes
          /\ r.orientation \in 0 .. 360 /\ r.mCapture \in {"none", "ready", "failed"}
          /\ r.used \in Sizes \union {NoFrame} /\ r.captured \in Sizes \union {NoFrame}
          /\ r.frame \in Shapes \union {NoFrame}
          /\ r.asked \in [size : Sizes, known : BOOLEAN] /\ r.turned \in Degrees \union {0}
          /\ r.touched \in SUBSET {"size", "orientation"}
      BY <3>1 DEF RequestInv, RecordingInv
    <3>7. r \in Types
      BY <3>2, <3>3, <3>4, <3>5, <3>6 DEF Fields
    <3> QED BY <3>7 DEF r
  <2>2. filter \in [Filters -> Types]
    <3> HIDE DEF Types
    <3> QED BY <2>1 DEF CInv, Instances
  <2>3. /\ \A i \in DOMAIN smCameras : smCameras[i] \in Devices
        /\ \A i \in DOMAIN manager : manager[i] \in Devices
    BY DEF SInv, CameraInv
  <2> QED BY <2>2, <2>3 DEF FilterTypeOK, SInv
<1> QED BY <1>1, FilterInvariance, SizesInvariance, PTL

\* ProfileFollowsRequests: whenever sizes and rates are set, the profile says the last
\* rate and the best size for the last request, for every list of sizes that a camera
\* may offer, in any order, comparable or not.
THEOREM ProfileAsRequested == FilterSpec => []ProfileFollowsRequests
<1>1. SInv => ProfileFollowsRequests
  <2> SUFFICES ASSUME SInv, NEW f \in Filters, filter[f].profile # NoProfile
               PROVE  /\ IsBest(filter[f].profile.size, filter[f].asked)
                      /\ filter[f].profile.rate = WholeRate(filter[f].fps)
    BY DEF ProfileFollowsRequests
  <2> DEFINE r == filter[f]
  <2>1. RequestInv(r) /\ ProfileInv(r)
    BY DEF SInv, SizesInv
  <2>2. r.profile.size = r.videoSize /\ r.profile.rate = WholeRate(r.fps)
    BY <2>1 DEF ProfileInv
  <2>3. Best(r.videoSize, r.asked, offers)
    BY <2>1 DEF RequestInv
  <2>4. IsBest(r.videoSize, r.asked)
    BY <2>3 DEF IsBest, Best
  <2> QED BY <2>2, <2>4
<1> QED BY <1>1, SizesInvariance, PTL

\* CamerasInOrder: the manager offers each camera once and those on the front panel
\* first, for every number of cameras, in whatever order they are found.
THEOREM CamerasSorted == FilterSpec => []CamerasInOrder
<1>1. SInv => CamerasInOrder
  BY DEF SInv, CameraInv, CamerasInOrder
<1> QED BY <1>1, SizesInvariance, PTL
=============================================================================
