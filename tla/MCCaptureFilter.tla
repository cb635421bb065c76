---------------------------- MODULE MCCaptureFilter ----------------------------
(* A small instance of CaptureFilter for TLC. *)
EXTENDS CaptureFilter, TLC

MCPanel == "f" :> "front" @@ "b" :> "back"
MCDefaultSize == <<2, 2>>
MCRequests == {<<1, 1>>, <<3, 3>>}

\* One size that compares with no other comes before, between or after three that
\* do; before them one of another format.
Offer(w, h, usable) == [size |-> <<w, h>>, usable |-> usable]
MCOffers ==
  {<<Offer(3, 3, FALSE)>> \o
     InsertAt(<<Offer(2, 1, TRUE), Offer(3, 2, TRUE), Offer(2, 2, TRUE)>>, i,
              Offer(1, 3, TRUE)) : i \in {1, 2, 4}}

Symmetry == Permutations(Filters)

\* Once there is a filter, only what may be made of the cameras matters.
WithoutCameras ==
  <<IF ENABLED DetectFirst THEN cameraVars ELSE <<>>,
    {IsFront(manager[i]) : i \in DOMAIN manager},
    filter, smInstantiated, signalled, lost, offers, sessions, settings,
    rejectedDestroyed>>
=============================================================================
