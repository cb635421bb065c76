----------------------------- MODULE FrameChannel -----------------------------
(***************************************************************************)
(* What a source of video frames promises to the player that draws them,   *)
(* whatever it keeps in between.  Frames are numbered as they are fed.     *)
(* Each request is answered at most once, with a frame or with none.  The  *)
(* frames shown are ones that were fed, each is newer than the one before, *)
(* and none is more than MaxLag frames behind the newest.                  *)
(***************************************************************************)
EXTENDS Naturals

CONSTANT MaxLag  \* a natural number

VARIABLES
  fed,    \* the number of the last frame fed
  shown,  \* the number of the last frame shown, 0 before the first
  frames, \* how many frames have been shown
  open    \* requests that have no answer

vars == <<fed, shown, frames, open>>

Init == fed = 0 /\ shown = 0 /\ frames = 0 /\ open = 0

\* A frame is shown that is newer than the last and recent enough.
Show ==
  /\ frames' = frames + 1
  /\ shown' \in (shown + 1) .. fed'
  /\ fed' - shown' <= MaxLag

ShowNone == UNCHANGED <<shown, frames>>

\* A request: it waits, or is answered at once.
Ask ==
  /\ UNCHANGED fed
  /\ \/ open' = open + 1 /\ ShowNone
     \/ UNCHANGED open /\ Show

\* A frame: it is kept, or answers a request that waits.
Feed ==
  /\ fed' = fed + 1
  /\ \/ UNCHANGED open /\ ShowNone
     \/ open > 0 /\ open' = open - 1 /\ Show

\* An answer without a new frame fed: a waiting request gets a frame or none.
Answer ==
  /\ UNCHANGED fed
  /\ open > 0 /\ open' = open - 1
  /\ Show \/ ShowNone

\* A frame whose delivery fails: the request that waited is answered with none.
FeedFails ==
  /\ fed' = fed + 1
  /\ open > 0 /\ open' = open - 1
  /\ ShowNone

Next == Ask \/ Feed \/ Answer \/ FeedFails

Spec == Init /\ [][Next]_vars

=============================================================================
