-------------------------------- MODULE Cameras --------------------------------
(***************************************************************************)
(* The cameras that mediastreamer knows: MSWinRTCap::detectCameras and the *)
(* list it keeps between its two passes over the devices.                  *)
(*                                                                         *)
(* detectCameras waits for its handler, so that a detection is one action. *)
(***************************************************************************)
EXTENDS Naturals, Sequences, FiniteSets, SequencesExt, Functions

CONSTANTS
  Panel,         \* [device -> its enclosure's panel, "none" if it has no enclosure]
  MaxDetections  \* bound: how often the devices are enumerated

ASSUME CamerasAssumption == MaxDetections \in Nat /\ IsFiniteSet(DOMAIN Panel)

VARIABLES
  smCameras,   \* the static list, filled device by device, emptied when registered
  manager,     \* external: the cameras of mediastreamer's manager
  detections,  \* history: enumerations so far
  interrupted  \* history: an exception has ended one

cameraVars == <<smCameras, manager, detections, interrupted>>

Devices == DOMAIN Panel

CamerasInit ==
  /\ smCameras = <<>>
  /\ manager = <<>>
  /\ detections = 0
  /\ interrupted = FALSE

-----------------------------------------------------------------------------
\* What addCamera writes beside a camera's name and id.
IsFront(d) == Panel[d] \in {"front", "unknown", "none"}

\* Only the cameras that are on the front panel go to the end.
AddCamera(cameras, d) ==
  IF Panel[d] = "front" THEN Append(cameras, d) ELSE <<d>> \o cameras

\* A name or an id that cannot be converted leaves its camera out.
AddCameras(cameras, found, unnamed) ==
  FoldLeft(LAMBDA list, d : IF d \in unnamed THEN list ELSE AddCamera(list, d),
           cameras, found)

\* Mutant: the list is kept for the next detection.
RegisterAndKeep(cameras, known) ==
  /\ manager' = Reverse(cameras) \o known
  /\ smCameras' = cameras

\* Each camera is prepended to the manager's, from the first to the last.
RegisterCameras(cameras, known) ==
  /\ manager' = Reverse(cameras) \o known
  /\ smCameras' = <<>>

\* The manager forgets the cameras it has and enumerates again.  An exception
\* in addCamera leaves those added before it in the list.
DetectCameras(found, unnamed) ==
  /\ detections < MaxDetections
  /\ detections' = detections + 1
  /\ \/ /\ RegisterCameras(AddCameras(smCameras, found, unnamed), <<>>)
        /\ UNCHANGED interrupted
     \/ \E n \in DOMAIN found :
          /\ smCameras' = AddCameras(smCameras, SubSeq(found, 1, n - 1), unnamed)
          /\ manager' = <<>>
          /\ interrupted' = TRUE

\* No event, no devices, or no enumeration: nothing is registered.
DetectNothing ==
  /\ detections < MaxDetections
  /\ detections' = detections + 1
  /\ manager' = <<>>
  /\ UNCHANGED <<smCameras, interrupted>>

Detect ==
  \/ \E present \in SUBSET Devices \ {{}} :
       \E found \in SetToSeqs(present), unnamed \in SUBSET present :
         DetectCameras(found, unnamed)
  \/ DetectNothing

-----------------------------------------------------------------------------
(* Properties. *)

\* The manager offers each camera once, and the cameras on the front panel
\* before all others, however often the devices are enumerated; an exception
\* in the middle of an enumeration is what may bring one twice.
CamerasInOrder ==
  ~interrupted =>
    /\ IsInjective(manager)
    /\ \A i, j \in DOMAIN manager :
         Panel[manager[i]] # "front" /\ Panel[manager[j]] = "front" => j < i
=============================================================================
