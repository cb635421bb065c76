----------------------------- MODULE VideoRenderer -----------------------------
(***************************************************************************)
(* VideoRenderer: the Windows Phone 8 display.  Its methods are called on  *)
(* mediastreamer's threads and only post work to the UI thread, which makes *)
(* a VideoStreamSource for each session, describes it and shuts it down.   *)
(*                                                                         *)
(* Any number of sources is made one after the other; one of them,         *)
(* whichever it is, is followed and has its own state (VideoStreamSource). *)
(***************************************************************************)
EXTENDS VideoStreamSource

CONSTANTS
  Formats,     \* a format is a FourCC with a width and a height
  MaxPosted    \* bound: calls waiting for the UI thread

ASSUME RendererAssumption == MaxPosted \in Nat

VARIABLES
  posted,         \* the UI thread's queue of BeginInvoke
  handled,        \* history: the last of them that it has taken
  isRendering,
  mediastreamer,  \* # null
  streamSource,   \* "none", the followed source, or another
  followed,       \* "unmade", "made", or "played": the media element has it
  format,         \* the followed source's format, frameWidth, frameHeight
  described,      \* and the format in its streamDesc
  asked           \* history: the caller's format in the call that described it

rendererVars == <<posted, handled, isRendering, mediastreamer, streamSource,
                  followed, format, described, asked>>
allVars == <<vars, rendererVars>>

-----------------------------------------------------------------------------
\* A call as it is posted, with what its caller has asked for by then: the format
\* of the display and whether it is on.
Calls == [op : {"Start", "Stop", "ChangeFormat", "FirstFrameReceived"},
          format : Formats, on : BOOLEAN]

RendererInit ==
  /\ Init
  /\ posted = <<>>
  /\ handled \in [op : {"Stop"}, format : Formats, on : {FALSE}]
  /\ isRendering = FALSE /\ mediastreamer = FALSE
  /\ streamSource = "none"
  /\ followed = "unmade"
  /\ format \in Formats
  /\ described = format /\ asked = format

-----------------------------------------------------------------------------
(* The caller. *)

Latest == IF posted = <<>> THEN handled ELSE posted[Len(posted)]

BeginInvoke(op, f, on) ==
  /\ Len(posted) < MaxPosted
  /\ posted' = Append(posted, [op |-> op, format |-> f, on |-> on])
  /\ UNCHANGED <<vars, handled, isRendering, mediastreamer, streamSource,
                 followed, format, described, asked>>

\* A display that is on is started again only with the format it has.
CallStart ==
  \E f \in Formats :
    /\ Latest.on => f = Latest.format
    /\ BeginInvoke("Start", f, TRUE)

CallStop == BeginInvoke("Stop", Latest.format, FALSE)

\* Mutant: the source is given the format on the caller's thread.
ChangeFormatAtOnce ==
  \E f \in Formats :
    /\ streamSource = "followed"
    /\ format' = f
    /\ UNCHANGED <<vars, posted, handled, isRendering, mediastreamer,
                   streamSource, followed, described, asked>>

CallChangeFormat == \E f \in Formats : BeginInvoke("ChangeFormat", f, Latest.on)

CallFirstFrameReceived ==
  BeginInvoke("FirstFrameReceived", Latest.format, Latest.on)

-----------------------------------------------------------------------------
(* The UI thread runs what was posted, one after the other. *)

Take(op) ==
  /\ posted # <<>> /\ Head(posted).op = op
  /\ ui \notin {"shutdown", "down"}
  /\ posted' = Tail(posted)
  /\ handled' = Head(posted)

\* The handler finds nothing to do.
Ignore(op) ==
  /\ Take(op)
  /\ UNCHANGED <<vars, isRendering, mediastreamer, streamSource, followed,
                 format, described, asked>>

StartIgnored == isRendering /\ Ignore("Start")

\* CreateMediaStreamer throws.
StartFails == ~isRendering /\ ~mediastreamer /\ Ignore("Start")

\* A new source: the followed one, if that is not made yet, or another.
Start ==
  /\ Take("Start")
  /\ ~isRendering
  /\ mediastreamer' = TRUE
  \* SetSource throws, or not
  /\ isRendering' \in BOOLEAN
  /\ \/ /\ followed = "unmade"
        /\ streamSource' = "followed"
        /\ followed' = IF isRendering' THEN "played" ELSE "made"
        /\ format' = Head(posted).format
     \/ /\ streamSource' = "other"
        /\ UNCHANGED <<followed, format>>
  /\ UNCHANGED <<vars, described, asked>>

StopIgnored == ~isRendering /\ Ignore("Stop")

Forget ==
  /\ streamSource' = "none"
  /\ mediastreamer' = FALSE
  /\ isRendering' = FALSE
  /\ UNCHANGED <<followed, format, described, asked>>

StopOther ==
  /\ isRendering /\ streamSource = "other"
  /\ Take("Stop")
  /\ Forget
  /\ UNCHANGED vars

\* Stop of the followed source: its Shutdown, in two steps, and Dispose.
StopBegins ==
  /\ posted # <<>> /\ Head(posted).op = "Stop"
  /\ isRendering /\ streamSource = "followed"
  /\ SetShutdownEvent
  /\ UNCHANGED rendererVars

StopShutsDown == Shutdown /\ UNCHANGED rendererVars

StopEnds ==
  /\ Dispose
  /\ posted' = Tail(posted)
  /\ handled' = Head(posted)
  /\ Forget

ChangeFormat ==
  /\ Take("ChangeFormat")
  /\ streamSource = "followed"
  /\ format' = Head(posted).format
  /\ UNCHANGED <<vars, isRendering, mediastreamer, streamSource, followed,
                 described, asked>>

ChangeFormatIgnored == streamSource # "followed" /\ Ignore("ChangeFormat")

\* The source tells the media element of its stream.
DescribeStream ==
  /\ Take("FirstFrameReceived")
  /\ streamSource = "followed"
  /\ FirstFrameReceived
  /\ described' = format
  /\ asked' = Head(posted).format
  /\ UNCHANGED <<isRendering, mediastreamer, streamSource, followed, format>>

FirstFrameIgnored ==
  /\ streamSource # "followed" \/ ~openAsyncPending
  /\ Ignore("FirstFrameReceived")

-----------------------------------------------------------------------------
\* The media element opens a source that it has been given; a decoder has got
\* the source from Dispatcher.
SourceStep ==
  /\ \/ followed = "played" /\ OpenMediaAsync
     \/ GetSampleAsync
     \/ followed # "unmade" /\ OnSampleReceived
  /\ UNCHANGED rendererVars

RendererNext ==
  \/ CallStart \/ CallStop \/ CallChangeFormat \/ CallFirstFrameReceived
  \/ StartIgnored \/ StartFails \/ Start
  \/ StopIgnored \/ StopOther \/ StopBegins \/ StopShutsDown \/ StopEnds
  \/ ChangeFormat \/ ChangeFormatIgnored
  \/ DescribeStream \/ FirstFrameIgnored
  \/ SourceStep

RendererSpec == RendererInit /\ [][RendererNext]_allVars

-----------------------------------------------------------------------------
(* Properties *)

\* The source that the media element plays is the one that the renderer has and
\* will dispose of, and it was described in the format that its caller had asked
\* for by then, however calls, failed starts and restarts follow one another.
PlayedAsAsked ==
  opened /\ ui # "disposed" =>
    isRendering /\ streamSource = "followed" /\ described = asked
=============================================================================
