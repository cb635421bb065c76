----------------------------- MODULE CaptureFilter -----------------------------
(***************************************************************************)
(* MSWinRTCap as its owner sees it: instances come and go, are attached,   *)
(* detached and configured, and read each frame in the size and the        *)
(* orientation that are set.  What happens to a frame is in WinRTCapture.  *)
(*                                                                         *)
(* One thread at a time calls a filter; two filters have two threads.      *)
(* WinRT's completion handlers and the sink's work queue thread run beside *)
(* them.                                                                   *)
(***************************************************************************)
EXTENDS Cameras

CONSTANTS
  Filters,      \* filters that may exist at a time
  DefaultSize,  \* CIF; a size is <<width, height>>
  Requests,     \* sizes that mediastreamer asks for
  Rates,        \* rates that it asks for, in half frames per second
  Degrees,      \* orientations that it asks for
  Offers,       \* what a camera may offer: sequences of [size, usable]
  MaxSessions,  \* bound: how often a filter is attached, all together
  MaxSettings   \* bound: settings made, all together

ASSUME FilterAssumption ==
  /\ MaxSessions \in Nat /\ MaxSettings \in Nat
  /\ Degrees \subseteq 0 .. 360
  /\ Offers \subseteq Seq([size : (Nat \X Nat) \ {<<0, 0>>}, usable : BOOLEAN])

VARIABLES
  filter,            \* the instances: their fields and their helpers'
  smInstantiated,    \* the static flag
  signalled,         \* which of the three named events are set
  lost,              \* "null": a helper or a device that is not there has been
                     \* used; "mixed": a local variable that is gone
  offers,            \* external: what the camera offers
  sessions,          \* history: attachments so far
  settings,          \* history: settings made so far
  rejectedDestroyed  \* history: an instance that was refused has been destroyed

vars == <<cameraVars, filter, smInstantiated, signalled, lost, offers, sessions,
          settings, rejectedDestroyed>>

-----------------------------------------------------------------------------
(* Sizes. *)

\* External: ms_video_size_greater_than.
GreaterThan(a, b) == a[1] >= b[1] /\ a[2] >= b[2]

\* Mutant: the request is not taken when nothing fits.
SelectFittingVideoSize(vs) ==
  LET better(o, best) ==
        o.usable /\ GreaterThan(vs, o.size) /\ GreaterThan(o.size, best)
  IN  FoldLeft(LAMBDA best, o : IF better(o, best) THEN o.size ELSE best,
               <<0, 0>>, offers)

\* Mutant: the last size that fits is taken.
SelectLastVideoSize(vs) ==
  LET fits(o) == o.usable /\ GreaterThan(vs, o.size)
      last == FoldLeft(LAMBDA best, o : IF fits(o) THEN o.size ELSE best,
                       <<0, 0>>, offers)
  IN  IF last = <<0, 0>> THEN vs ELSE last

\* A size that fits and is not below the best so far is better.
SelectBestVideoSize(vs) ==
  LET better(o, best) ==
        o.usable /\ GreaterThan(vs, o.size) /\ GreaterThan(o.size, best)
      found == FoldLeft(LAMBDA best, o : IF better(o, best) THEN o.size ELSE best,
                        <<0, 0>>, offers)
  IN  IF found = <<0, 0>> THEN vs ELSE found

\* Mutant: the camera's image is taken to be on its side.
MirroredOnItsSide(front, degrees) ==
  IF front THEN degrees % 360 ELSE (450 - degrees) % 360

\* The orientation kept for a request: a back camera's is mirrored.
Mirrored(front, degrees) ==
  IF front THEN degrees % 360 ELSE (360 - degrees) % 360

\* Width and height of an image, exchanged when it lies on its side.
Dimensions(size, degrees) ==
  IF degrees % 180 = 90 THEN <<size[2], size[1]>> ELSE size

\* The rate in the profile is a whole number.
WholeRate(fps) == fps \div 2

-----------------------------------------------------------------------------
(* Instances. *)

NoProfile == [size |-> <<0, 0>>, rate |-> 0]
NoFrame == <<0, 0>>

\* pc is where the owner's thread is, or "none" or "rejected"; profile is the
\* filter's encoding profile; mCapture the helper's capture device; action
\* the asynchronous action that is under way and result its outcome; used the
\* size in the profile that the helper reads, the same object while a session
\* lasts.  captured (external) is what the pipeline delivers, frame what the
\* work queue's thread has read of a frame's dimensions.  asked, turned and touched
\* are histories: the last requests, and what was set since the session, or
\* the frame in hand, began.
Fresh(front) ==
  [pc |-> "detached", front |-> front, fps |-> 30, videoSize |-> DefaultSize,
   orientation |-> 0, profile |-> NoProfile, mCapture |-> "none",
   action |-> "none", result |-> FALSE, mIsStarted |-> FALSE,
   used |-> NoFrame, captured |-> NoFrame, frame |-> NoFrame,
   asked |-> [size |-> DefaultSize, known |-> FALSE], turned |-> 0, touched |-> {}]

NoFilter == [Fresh(FALSE) EXCEPT !.pc = "none"]
Rejected == [Fresh(FALSE) EXCEPT !.pc = "rejected"]

FilterInit ==
  /\ CamerasInit
  /\ filter = [f \in Filters |-> NoFilter]
  /\ smInstantiated = FALSE
  /\ signalled = {}
  /\ lost = "no"
  /\ offers \in Offers
  /\ sessions = 0
  /\ settings = 0
  /\ rejectedDestroyed = FALSE

Idle == {"rejected", "detached", "running"}  \* the owner may call

Attached(f) == filter[f].captured # NoFrame  \* its pipeline delivers frames

\* Bound: settings are made and frames read while there is one helper.  Two
\* helpers share their events and nothing that a setting or a frame touches.
Alone(f) ==
  \A g \in Filters \ {f} : filter[g].pc \in {"none", "rejected"}

Become(f, r) == filter' = [filter EXCEPT ![f] = r]

\* The process ends; what it was about to write is left out.
Lose(how) ==
  /\ lost' = how
  /\ UNCHANGED <<cameraVars, filter, smInstantiated, signalled, offers, sessions,
                 settings, rejectedDestroyed>>

\* Mutant: the constructor does not look whether there is an instance.
NewUnchecked(f, camera) ==
  /\ filter[f].pc = "none"
  /\ Become(f, Fresh(IsFront(camera)))
  /\ smInstantiated' = TRUE
  /\ UNCHANGED <<cameraVars, signalled, lost, offers, sessions, settings,
                 rejectedDestroyed>>

\* create_reader: a second instance is refused, and gets no helper.
New(f, camera) ==
  /\ filter[f].pc = "none"
  /\ Become(f, IF smInstantiated THEN Rejected ELSE Fresh(IsFront(camera)))
  /\ smInstantiated' = TRUE
  /\ UNCHANGED <<cameraVars, signalled, lost, offers, sessions, settings,
                 rejectedDestroyed>>

\* The destructor clears smInstantiated for a refused instance too.
Destroyed(f) ==
  /\ Become(f, NoFilter)
  /\ smInstantiated' = FALSE
  /\ rejectedDestroyed' = (rejectedDestroyed \/ filter[f].pc = "rejected")
  /\ UNCHANGED <<cameraVars, lost, offers, sessions, settings>>

\* uninit of a filter that records nothing.
Destroy(f) ==
  /\ filter[f].pc \in Idle
  /\ ~filter[f].mIsStarted
  /\ Destroyed(f)
  /\ UNCHANGED signalled

-----------------------------------------------------------------------------
(* Asynchronous actions and the events their handlers set. *)

Waits == [initializing |-> "initialize", starting |-> "start",
          stopping |-> "stop", destroying |-> "stop"]

Waiting(f) == filter[f].pc \in DOMAIN Waits

Signalled(f) == Waiting(f) /\ Waits[filter[f].pc] \in signalled

\* The wait of f's owner ends, and resets the event.
Woken(f) ==
  /\ Signalled(f)
  /\ filter[f].action = "none"
  /\ signalled' = signalled \ {Waits[filter[f].pc]}

\* Another filter's handler has set the event: this one's will write its
\* outcome to a variable of a function that has returned.
WokenByAnother ==
  /\ \E f \in Filters : Signalled(f) /\ filter[f].action # "none"
  /\ Lose("mixed")

\* preprocess: activate() begins by initialize(), with a new capture device.  A
\* refused instance has no helper to call.
Preprocess(f) ==
  /\ filter[f].pc = "detached"
  /\ sessions < MaxSessions
  /\ sessions' = sessions + 1
  /\ Become(f, [filter[f] EXCEPT !.pc = "initializing", !.action = "initialize"])
  /\ UNCHANGED <<cameraVars, smInstantiated, signalled, lost, offers, settings,
                 rejectedDestroyed>>

\* Mutant: a recording ends beside a frame that is being read.
ActionCompletedEarly(f, ok) ==
  LET r == filter[f] IN
  /\ \/ /\ r.action = "initialize"
        /\ Become(f, [r EXCEPT !.action = "none",
                      !.mCapture = IF ok THEN "ready" ELSE "failed"])
     \/ /\ r.action = "start"
        /\ ok => r.mCapture = "ready"
        /\ Become(f, [r EXCEPT !.action = "none", !.result = ok,
                      !.captured = IF ok THEN r.profile.size ELSE NoFrame])
     \/ /\ r.action = "stop"
        /\ Become(f, [r EXCEPT !.action = "none", !.captured = NoFrame])
  /\ signalled' = signalled \union {Waits[r.pc]}
  /\ UNCHANGED <<cameraVars, smInstantiated, lost, offers, sessions, settings,
                 rejectedDestroyed>>

\* The handler of InitializeAsync, StartRecordToCustomSinkAsync or
\* StopRecordAsync.  A recording does not end before its frames are done with.
ActionCompleted(f, ok) ==
  LET r == filter[f] IN
  /\ \/ /\ r.action = "initialize"
        /\ Become(f, [r EXCEPT !.action = "none",
                      !.mCapture = IF ok THEN "ready" ELSE "failed"])
     \/ /\ r.action = "start"
        /\ ok => r.mCapture = "ready"
        /\ Become(f, [r EXCEPT !.action = "none", !.result = ok,
                      !.captured = IF ok THEN r.profile.size ELSE NoFrame])
     \/ /\ r.action = "stop"
        /\ r.frame = NoFrame
        /\ Become(f, [r EXCEPT !.action = "none", !.captured = NoFrame])
  /\ signalled' = signalled \union {Waits[r.pc]}
  /\ UNCHANGED <<cameraVars, smInstantiated, lost, offers, sessions, settings,
                 rejectedDestroyed>>

\* activate() makes a new profile and applies size and rate; StartCapture gives
\* it to the helper and to the pipeline.
StartWithProfile(f) ==
  LET r == filter[f]
      profile == [size |-> r.videoSize, rate |-> WholeRate(r.fps)]
  IN  [r EXCEPT !.pc = "starting", !.action = "start", !.profile = profile,
                !.used = profile.size, !.touched = {}]

\* activate() does not look at mIsInitialized again, and start() goes on.
Initialized(f) ==
  /\ filter[f].pc = "initializing"
  /\ Woken(f)
  /\ Become(f, StartWithProfile(f))
  /\ UNCHANGED <<cameraVars, smInstantiated, lost, offers, sessions, settings,
                 rejectedDestroyed>>

Started(f) ==
  /\ filter[f].pc = "starting"
  /\ Woken(f)
  /\ Become(f, [filter[f] EXCEPT !.pc = "running", !.mIsStarted = filter[f].result,
                !.result = FALSE])
  /\ UNCHANGED <<cameraVars, smInstantiated, lost, offers, sessions, settings,
                 rejectedDestroyed>>

\* postprocess, and uninit of a filter that records: stop() waits for the end
\* of the recording, unless none was started.
Stop(f, next) ==
  /\ filter[f].pc = "running"
  /\ filter[f].mIsStarted
  /\ Become(f, [filter[f] EXCEPT !.pc = next, !.action = "stop"])
  /\ UNCHANGED <<cameraVars, smInstantiated, signalled, lost, offers, sessions,
                 settings, rejectedDestroyed>>

PostprocessNotStarted(f) ==
  /\ filter[f].pc = "running"
  /\ ~filter[f].mIsStarted
  /\ Become(f, [filter[f] EXCEPT !.pc = "detached"])
  /\ UNCHANGED <<cameraVars, smInstantiated, signalled, lost, offers, sessions,
                 settings, rejectedDestroyed>>

Stopped(f) ==
  /\ filter[f].pc = "stopping"
  /\ Woken(f)
  /\ Become(f, [filter[f] EXCEPT !.pc = "detached", !.mIsStarted = FALSE])
  /\ UNCHANGED <<cameraVars, smInstantiated, lost, offers, sessions, settings,
                 rejectedDestroyed>>

StoppedAndDestroyed(f) ==
  /\ filter[f].pc = "destroying"
  /\ Woken(f)
  /\ Destroyed(f)

\* A refused instance has no helper to call.  External: a device that could not
\* be initialised may refuse to record, or to tell its sizes, by an exception.
CallWithoutDevice ==
  /\ \E f \in Filters :
       \/ filter[f].pc = "rejected"
       \/ /\ filter[f].mCapture = "failed"
          /\ filter[f].action = "none"
          /\ filter[f].pc = "initializing" => Signalled(f)
  /\ Lose("null")

-----------------------------------------------------------------------------
(* Settings, which the owner makes at any time between its other calls. *)

Set(f, r) ==
  /\ settings < MaxSettings
  /\ Alone(f)
  /\ settings' = settings + 1
  /\ Become(f, r)
  /\ UNCHANGED <<cameraVars, smInstantiated, signalled, lost, offers, sessions,
                 rejectedDestroyed>>

\* What matters to a recording that goes on is remembered.
Touch(f, what) == IF Attached(f) THEN filter[f].touched \union {what} ELSE {}

\* The profile is changed in place, also the one that a recording uses.
SetFps(f, fps) ==
  /\ filter[f].pc \in Idle
  /\ Set(f, [filter[f] EXCEPT !.fps = fps,
             !.profile.rate = IF filter[f].profile = NoProfile THEN 0 ELSE WholeRate(fps)])

SetVideoSize(f, vs) ==
  LET r == filter[f]
      known == r.mCapture = "ready"
      size == IF known THEN SelectBestVideoSize(vs) ELSE vs
  IN  /\ r.pc \in Idle \ {"rejected"}
      /\ Set(f, [r EXCEPT !.videoSize = size,
                 !.asked = [size |-> vs, known |-> known],
                 !.profile.size = IF r.profile = NoProfile THEN <<0, 0>> ELSE size,
                 !.used = IF r.profile = NoProfile THEN r.used ELSE size,
                 !.touched = Touch(f, "size")])

\* A request that equals what is kept, not what was asked for, is ignored.
SetDeviceOrientation(f, degrees) ==
  LET r == filter[f] IN
  /\ r.pc \in Idle \ {"rejected"}
  /\ Set(f, [r EXCEPT
             !.orientation = IF r.orientation = degrees THEN degrees
                             ELSE Mirrored(r.front, degrees),
             !.turned = degrees,
             !.touched = Touch(f, "orientation")])

-----------------------------------------------------------------------------
(* OnSampleAvailable, in the work queue's thread. *)

\* The dimensions are read ...
ReadDimensions(f) ==
  /\ Attached(f)
  /\ Alone(f)
  /\ filter[f].frame = NoFrame
  /\ Become(f, [filter[f] EXCEPT
                !.frame = Dimensions(filter[f].used, filter[f].orientation),
                !.touched = filter[f].touched \ {"orientation"}])
  /\ UNCHANGED <<cameraVars, smInstantiated, signalled, lost, offers, sessions,
                 settings, rejectedDestroyed>>

\* ... and then, for the copy, the orientation and the width.
CopyFrame(f) ==
  /\ filter[f].frame # NoFrame
  /\ Become(f, [filter[f] EXCEPT !.frame = NoFrame])
  /\ UNCHANGED <<cameraVars, smInstantiated, signalled, lost, offers, sessions,
                 settings, rejectedDestroyed>>

-----------------------------------------------------------------------------
\* Cameras are detected before filters are made of them: a filter keeps what
\* it needs of its camera, so that later detections do not matter to it.
DetectFirst ==
  /\ \A f \in Filters : filter[f].pc = "none"
  /\ sessions = 0
  /\ ~rejectedDestroyed
  /\ Detect
  /\ UNCHANGED <<filter, smInstantiated, signalled, lost, offers, sessions,
                 settings, rejectedDestroyed>>

OwnerCalls(f) ==
  \/ \E i \in DOMAIN manager : New(f, manager[i])
  \/ Destroy(f)
  \/ Preprocess(f)
  \/ \E next \in {"stopping", "destroying"} : Stop(f, next)
  \/ PostprocessNotStarted(f)
  \/ \E fps \in Rates : SetFps(f, fps)
  \/ \E vs \in Requests : SetVideoSize(f, vs)
  \/ \E degrees \in Degrees : SetDeviceOrientation(f, degrees)

OwnerReturns(f) ==
  \/ Initialized(f)
  \/ Started(f)
  \/ Stopped(f)
  \/ StoppedAndDestroyed(f)

FilterNext ==
  /\ lost = "no"
  /\ \/ DetectFirst
     \/ \E f \in Filters :
          \/ OwnerCalls(f)
          \/ OwnerReturns(f)
          \/ \E ok \in BOOLEAN : ActionCompleted(f, ok)
          \/ ReadDimensions(f)
          \/ CopyFrame(f)
     \/ WokenByAnother
     \/ CallWithoutDevice

FilterSpec == FilterInit /\ [][FilterNext]_vars

-----------------------------------------------------------------------------
(* Properties. *)

Sizes == {DefaultSize} \union Requests
           \union UNION {{o[i].size : i \in DOMAIN o} : o \in Offers}
Shapes == {Dimensions(size, degrees) : size \in Sizes, degrees \in {0, 90}}

\* Every variable has its type.
FilterTypeOK ==
  /\ \A i \in DOMAIN smCameras : smCameras[i] \in Devices
  /\ \A i \in DOMAIN manager : manager[i] \in Devices
  /\ filter \in [Filters ->
       [pc : Idle \union DOMAIN Waits \union {"none"}, front : BOOLEAN,
        fps : Rates \union {30}, videoSize : Sizes,
        orientation : 0 .. 360,
        profile : {NoProfile} \union
                  [size : Sizes, rate : {WholeRate(fps) : fps \in Rates \union {30}}],
        mCapture : {"none", "ready", "failed"},
        action : {"none", "initialize", "start", "stop"},
        result : BOOLEAN, mIsStarted : BOOLEAN,
        used : Sizes \union {NoFrame}, captured : Sizes \union {NoFrame},
        frame : Shapes \union {NoFrame},
        asked : [size : Sizes, known : BOOLEAN], turned : Degrees \union {0},
        touched : SUBSET {"size", "orientation"}]]
  /\ smInstantiated \in BOOLEAN
  /\ signalled \subseteq {"initialize", "start", "stop"}
  /\ lost \in {"no", "null", "mixed"}
  /\ offers \in Offers

\* No size that fits the request is better than the one taken; the request
\* itself is taken when nothing fits, or when it was made before the camera
\* could be asked.
IsBest(size, request) ==
  LET fitting == {o \in ToSet(offers) : o.usable /\ GreaterThan(request.size, o.size)}
  IN  IF request.known /\ fitting # {}
        THEN /\ \E o \in fitting : o.size = size
             /\ \A o \in fitting : GreaterThan(o.size, size) => o.size = size
        ELSE size = request.size

\* The profile, whenever it was made, says the best size for the last request
\* and the last rate asked for, also when they are set while a recording uses
\* it or between two recordings.
ProfileFollowsRequests ==
  \A f \in Filters :
    LET r == filter[f] IN
    r.profile # NoProfile =>
      IsBest(r.profile.size, r.asked) /\ r.profile.rate = WholeRate(r.fps)

\* set_device_orientation may ignore a request to a back camera, whose kept
\* orientation is the mirrored one; but the image then is upside down, never on
\* its side: the dimensions told and read are those of the last request.
DimensionsFollowRequest ==
  \A f \in Filters :
    Dimensions(<<1, 2>>, filter[f].orientation) = Dimensions(<<1, 2>>, filter[f].turned)

\* "A second one can not be created": as long as no refused instance has been
\* destroyed there is one helper, so that each wait on the named events ends by
\* its own action, and ends.
EachWaitsForItsOwn ==
  ~rejectedDestroyed =>
    /\ lost # "mixed"
    /\ Cardinality({f \in Filters : filter[f].pc \notin {"none", "rejected"}}) <= 1
    /\ \A f \in Filters : Waiting(f) /\ filter[f].action = "none" => Signalled(f)

\* A frame is taken apart with the dimensions it was captured in, unless the
\* size is set while recording, or the orientation while the frame is read.
FrameReadInItsSize ==
  \A f \in Filters :
    LET r == filter[f] IN
    r.frame # NoFrame /\ r.touched = {} =>
      r.used = r.captured /\ r.frame = Dimensions(r.captured, r.orientation)
=============================================================================
