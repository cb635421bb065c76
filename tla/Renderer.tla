------------------------------- MODULE Renderer -------------------------------
(***************************************************************************)
(* MSWinRTRenderer: the background process.  The filter's thread starts,   *)
(* feeds and stops the renderer; a thread of the media engine reports its  *)
(* events, and hands its swap chain to the foreground process through the  *)
(* section of SwapChainPanelSource.                                        *)
(*                                                                         *)
(* Close takes no lock.  An exception that nobody catches, or the use of a *)
(* null pointer, ends the process ("dead").                                *)
(***************************************************************************)
EXTENDS SwapChainPanelSource

CONSTANTS
  FrameSizes,     \* sizes of the frames fed, naturals above 0
  MaxSwapChains   \* bound: swap chains the media engine makes

ASSUME RendererAssumption ==
  /\ FrameSizes \subseteq Nat \ {0}
  /\ MaxSwapChains \in Nat

VARIABLES
  renderer,   \* the filter's thread in Start and Close, or what they left
  connected,  \* the session of mLock and mEventAvailableEvent
  restart,    \* what Close was called for: "none", "start" or "feed"
  engineOn,   \* mMediaEngine and mMediaEngineEx are not null
  engine,     \* the thread that reports the media engine's events
  chain,      \* external: the engine's swap chain, 0 if it has none
  chains,     \* external: how many swap chains have been made
  sending,    \* the swap chain that GetVideoSwapchainHandle has returned
  local,      \* mSwapChainHandle's local handle: its swap chain, 0 for none
  remote,     \* mSwapChainHandle's remote handle
  feed,       \* where the filter's thread is in Feed, or "none"
  frame,      \* mFrameWidth and mFrameHeight, a size
  panelSize,  \* mSwapChainPanelWidth and mSwapChainPanelHeight
  drawn,      \* external: frame and panel size of the last UpdateVideoStream
  seen,       \* history: "yes" if a Feed has run since the panel's size was written
  again,      \* history: the handle sent last had a number seen before
  causes      \* history: what has happened that can end the process

closeVars == <<renderer, connected, restart, engineOn, causes>>
filterVars == <<feed, frame, panelSize, drawn, seen>>
engineVars == <<engine, chain, chains, sending>>
handleVars == <<local, remote, again>>
vars == <<panelVars, closeVars, filterVars, engineVars, handleVars>>

-----------------------------------------------------------------------------
Init ==
  /\ PanelInit
  /\ renderer = "closed"
  /\ connected = 0
  /\ restart = "none"
  /\ engineOn = FALSE
  /\ engine = "idle"
  /\ chain = 0
  /\ chains = 0
  /\ sending = 0
  /\ local = 0
  /\ remote = NoHandle
  /\ feed = "none"
  /\ frame = 0
  /\ panelSize = <<0, 0>>
  /\ drawn = <<0, <<0, 0>>>>
  /\ seen = "no"
  /\ again = FALSE
  /\ causes = {}

\* The mutex may be that of a session that is over: nobody else uses that.
SameSession == connected = session
LockIsFree == SameSession => lock = "free"

\* ScopeLock's destructor.
Release == lock' = IF SameSession /\ lock = "engine" THEN "free" ELSE lock

\* Mutant: an event that nobody waits for is lost.
PulseAvailable ==
  /\ thread' = IF SameSession /\ thread = "waiting" THEN "woken" ELSE thread
  /\ UNCHANGED signalled

\* SetEvent(mEventAvailableEvent)
SignalAvailable ==
  /\ thread' = IF SameSession /\ thread = "waiting" THEN "woken" ELSE thread
  /\ signalled' = (signalled \/ (SameSession /\ thread # "waiting"))

\* The process ends: its mapping goes, and a mutex it held is abandoned.
Die ==
  /\ renderer' = "dead"
  /\ mapped' = FALSE
  /\ lock' = IF lock = "engine" THEN "free" ELSE lock

-----------------------------------------------------------------------------
(* Events of the media engine, on a thread of its own. *)

\* PLAYING, FIRSTFRAMEREADY or FORMATCHANGE: the engine has a swap chain, the one
\* it had or another.
EngineEvent ==
  /\ renderer = "running" /\ engineOn /\ engine = "idle"
  /\ engine' = "raised"
  /\ \/ chain > 0 /\ UNCHANGED <<chain, chains>>
     \/ chains < MaxSwapChains /\ chains' = chains + 1 /\ chain' = chains + 1
  /\ UNCHANGED <<panelVars, closeVars, filterVars, handleVars, sending>>

\* Mutant: the swap chain is not the one the engine has.
OtherSwapChain ==
  /\ renderer # "dead" /\ engine = "raised"
  /\ engine' = "sending"
  /\ sending' = chain + 1
  /\ UNCHANGED <<panelVars, closeVars, filterVars, handleVars, chain, chains>>

OnMediaEngineEvent ==
  /\ renderer # "dead" /\ engine = "raised"
  /\ engine' = "sending"
  /\ sending' = chain
  /\ UNCHANGED <<panelVars, closeVars, filterVars, handleVars, chain, chains>>

\* CANPLAY, and Play fails.
PlayFails ==
  /\ renderer = "running" /\ engineOn /\ engine = "idle"
  /\ Fails
  /\ engine' = "failing"
  /\ UNCHANGED <<table, section, mapped, lock, signalled, ui, session, thread,
                 last, posted, orphans, current, shown, sizes, closeVars,
                 filterVars, handleVars, chain, chains, sending>>

\* SendErrorEvent, from the engine's thread.  Once the renderer is closed it has
\* neither section nor event.
SendErrorEvent ==
  /\ renderer # "dead" /\ engine = "failing"
  /\ engine' = "idle"
  /\ IF mapped
     THEN /\ LockIsFree
          /\ section' = [section EXCEPT !.error = TRUE]
          /\ SignalAvailable
     ELSE UNCHANGED <<section, signalled, thread>>
  /\ UNCHANGED <<table, mapped, lock, ui, session, last, posted, orphans,
                 current, shown, sizes, failures, closeVars, filterVars,
                 handleVars, chain, chains, sending>>

\* Mutant: the handle closed is the new one.
AssignClosesNew ==
  IF sending = local THEN UNCHANGED <<table, local, remote>>
  ELSE \E h \in Free :
         /\ UNCHANGED table
         /\ local' = sending
         /\ remote' = h

\* AssignHandle: the new handle is made before the old ones are closed.
AssignHandle ==
  IF sending = local THEN UNCHANGED <<table, local, remote>>
  ELSE \E h \in Free :
         /\ table' = Closed(Opened(h, sending), remote)
         /\ local' = sending
         /\ remote' = h

\* SendSwapChainHandle, up to the destructor of its lock.  A number that the
\* section already has raises no event.
SendSwapChainHandle ==
  /\ renderer # "dead" /\ engine = "sending" /\ mapped
  /\ LockIsFree
  /\ lock' = IF SameSession THEN "engine" ELSE lock
  /\ engine' = "sent"
  /\ AssignHandle
  /\ IF remote' = section.swapChain
     THEN UNCHANGED <<section, signalled, thread>>
     ELSE /\ section' = [section EXCEPT !.swapChain = remote']
          /\ SignalAvailable
  /\ again' = IF remote' = remote THEN again
                                  ELSE remote' \in {section.swapChain, last}
  /\ UNCHANGED <<mapped, ui, session, last, posted, orphans, current, shown,
                 sizes, failures, closeVars, filterVars, chain, chains, sending>>

SendReturns ==
  /\ renderer # "dead" /\ engine = "sent"
  /\ engine' = "idle"
  /\ sending' = 0
  /\ Release
  /\ UNCHANGED <<table, section, mapped, signalled, ui, session, thread, last,
                 posted, orphans, current, shown, sizes, failures, closeVars,
                 filterVars, handleVars, chain, chains>>

\* mLock has been closed before the destructor used it: the mutex stays taken.
OrphanReturns ==
  /\ renderer # "dead" /\ engine = "orphan"
  /\ engine' = "idle"
  /\ sending' = 0
  /\ UNCHANGED <<panelVars, closeVars, filterVars, handleVars, chain, chains>>

\* An event that found the callback gone, or the section; or a duplicate that
\* cannot be made, which AssignHandle throws.
EngineDies ==
  /\ renderer # "dead"
  /\ \/ engine = "stray" /\ UNCHANGED <<failures, causes>>
     \/ engine = "sending" /\ ~mapped /\ UNCHANGED <<failures, causes>>
     \/ /\ engine = "sending" /\ mapped /\ sending # local
        /\ LockIsFree
        /\ Fails
        /\ causes' = causes \cup {"duplicate"}
  /\ engine' = "idle"
  /\ sending' = 0
  /\ Die
  /\ UNCHANGED <<table, section, signalled, ui, session, thread, last, posted,
                 orphans, current, shown, sizes, connected, restart, engineOn,
                 filterVars, handleVars, chain, chains>>

-----------------------------------------------------------------------------
(* Start, on the filter's thread.  It begins with Close. *)

StartRenderer ==
  /\ renderer \in {"closed", "failed"} /\ feed = "none"
  /\ renderer' = IF renderer = "failed" THEN "closing" ELSE "opening"
  /\ restart' = "start"
  /\ UNCHANGED <<panelVars, connected, engineOn, causes, filterVars, engineVars,
                 handleVars>>

\* Mutant: the sizes are left as they are.
SizesKept ==
  /\ renderer = "opening" /\ ui \notin {"stopped", "lost"}
  /\ renderer' = "starting"
  /\ mapped' = TRUE
  /\ connected' = session
  /\ UNCHANGED <<table, section, lock, signalled, ui, session, thread, last,
                 posted, orphans, current, shown, sizes, failures, restart,
                 engineOn, causes, filterVars, engineVars, handleVars>>

\* Mutant: a section that is not there, or not mapped, goes unnoticed.
SectionUnchecked ==
  /\ renderer = "opening"
  /\ renderer' = "starting"
  /\ mapped' = (ui \notin {"stopped", "lost"})
  /\ connected' = session
  /\ frame' = 0
  /\ panelSize' = <<0, 0>>
  /\ UNCHANGED <<table, section, lock, signalled, ui, session, thread, last,
                 posted, orphans, current, shown, sizes, failures, restart,
                 engineOn, causes, feed, drawn, seen, engineVars, handleVars>>

\* SetSwapChainPanel, and the sizes that Start clears.
SetSwapChainPanel ==
  /\ renderer = "opening" /\ ui \notin {"stopped", "lost"}
  /\ renderer' = "starting"
  /\ mapped' = TRUE
  /\ connected' = session
  /\ frame' = 0
  /\ panelSize' = <<0, 0>>
  /\ UNCHANGED <<table, section, lock, signalled, ui, session, thread, last,
                 posted, orphans, current, shown, sizes, failures, restart,
                 engineOn, causes, feed, drawn, seen, engineVars, handleVars>>

\* There is no section, or a call fails: the exception is not caught.
SetSwapChainPanelFails ==
  /\ renderer = "opening"
  /\ Fails
  /\ Die
  /\ causes' = causes \cup {"connect"}
  /\ UNCHANGED <<table, section, signalled, ui, session, thread, last, posted,
                 orphans, current, shown, sizes, connected, restart, engineOn,
                 filterVars, engineVars, handleVars>>

\* Back in Feed if that is where the device was found lost.
Resume ==
  /\ feed' = IF restart = "feed" THEN "compare" ELSE "none"
  /\ restart' = "none"

StartSucceeds ==
  /\ renderer = "starting"
  /\ renderer' = "running"
  /\ engineOn' = TRUE
  /\ Resume
  /\ UNCHANGED <<panelVars, connected, causes, frame, panelSize, drawn, seen,
                 engineVars, handleVars>>

\* A step of Start fails, before the engine and its source are made or after.
\* Feed does not look at what Start returns, and uses them.
StartFails ==
  /\ renderer = "starting" /\ LockIsFree
  /\ Fails
  /\ section' = [section EXCEPT !.error = TRUE]
  /\ SignalAvailable
  /\ Resume
  /\ \/ /\ engineOn' = TRUE
        /\ renderer' = IF restart = "feed" THEN "running" ELSE "failed"
        /\ UNCHANGED <<mapped, lock, causes>>
     \/ /\ engineOn' = FALSE
        /\ IF restart = "feed"
           THEN Die /\ causes' = causes \cup {"restart"}
           ELSE renderer' = "failed" /\ UNCHANGED <<mapped, lock, causes>>
  /\ UNCHANGED <<table, ui, session, last, posted, orphans, current, shown, sizes,
                 connected, frame, panelSize, drawn, seen, engineVars,
                 handleVars>>

-----------------------------------------------------------------------------
(* Close, on the filter's thread. *)

Stop ==
  /\ renderer = "running" /\ feed = "none"
  /\ renderer' = "closing"
  /\ restart' = "none"
  /\ UNCHANGED <<panelVars, connected, engineOn, causes, filterVars, engineVars,
                 handleVars>>

\* Where an event can be when the engine is shut down.
LateEvents == {"raised", "sending", "sent", "failing"}

\* The callback is cleared and the engine shut down.
CloseEngine ==
  /\ renderer = "closing"
  /\ renderer' = "closed_engine"
  /\ engineOn' = FALSE
  /\ causes' = causes \cup (LateEvents \cap {engine})
  /\ engine' = IF engine = "raised" THEN "stray" ELSE engine
  /\ chain' = 0
  /\ drawn' = <<0, <<0, 0>>>>
  /\ UNCHANGED <<panelVars, connected, restart, feed, frame, panelSize, seen,
                 chains, sending, handleVars>>

\* The section is unmapped, mLock closed and the handles of the swap chain, that
\* of the panel's process too.  The section still holds its number.
CloseSection ==
  /\ renderer = "closed_engine"
  /\ renderer' = IF restart = "none" THEN "closed" ELSE "opening"
  /\ mapped' = FALSE
  /\ connected' = 0
  /\ table' = Closed(table, remote)
  /\ local' = 0
  /\ remote' = NoHandle
  /\ engine' = IF engine = "sent" THEN "orphan" ELSE engine
  /\ seen' = "no"
  /\ UNCHANGED <<section, lock, signalled, ui, session, thread, last, posted,
                 orphans, current, shown, sizes, failures, restart, engineOn,
                 causes, feed, frame, panelSize, drawn, chain, chains, sending,
                 again>>

-----------------------------------------------------------------------------
(* Feed, on the filter's thread. *)

FeedBegins ==
  /\ renderer = "running" /\ engineOn /\ feed = "none"
  /\ feed' = "compare"
  /\ seen' = IF seen = "no" THEN "begun" ELSE seen
  /\ UNCHANGED <<panelVars, closeVars, frame, panelSize, drawn,
                 engineVars, handleVars>>

\* The device is lost: the renderer is stopped and started again.
DeviceLost ==
  /\ renderer = "running" /\ engineOn /\ feed = "none"
  /\ renderer' = "closing"
  /\ restart' = "feed"
  /\ UNCHANGED <<panelVars, connected, engineOn, causes, feed, frame, panelSize,
                 drawn, seen, engineVars, handleVars>>

FeedDone ==
  /\ feed' = "none"
  /\ seen' = IF seen = "begun" THEN "yes" ELSE seen

PanelChanged == <<section.width, section.height>> # panelSize

FeedCompares ==
  /\ renderer = "running" /\ feed = "compare"
  /\ frame' \in FrameSizes
  /\ IF PanelChanged THEN feed' = "width" /\ UNCHANGED seen
     ELSE IF frame' # frame THEN feed' = "update" /\ UNCHANGED seen
     ELSE FeedDone
  /\ UNCHANGED <<panelVars, closeVars, panelSize, drawn, engineVars,
                 handleVars>>

\* The section is read again, without the lock.
CopyWidth ==
  /\ renderer = "running" /\ feed = "width"
  /\ feed' = "height"
  /\ panelSize' = [panelSize EXCEPT ![1] = section.width]
  /\ UNCHANGED <<panelVars, closeVars, frame, drawn, seen, engineVars,
                 handleVars>>

CopyHeight ==
  /\ renderer = "running" /\ feed = "height"
  /\ feed' = "update"
  /\ panelSize' = [panelSize EXCEPT ![2] = section.height]
  /\ UNCHANGED <<panelVars, closeVars, frame, drawn, seen, engineVars,
                 handleVars>>

UpdateVideoStream ==
  /\ renderer = "running" /\ feed = "update"
  /\ drawn' = <<frame, panelSize>>
  /\ FeedDone
  /\ UNCHANGED <<panelVars, closeVars, frame, panelSize, engineVars,
                 handleVars>>

-----------------------------------------------------------------------------
FilterNext ==
  \/ StartRenderer \/ SetSwapChainPanel \/ SetSwapChainPanelFails
  \/ StartSucceeds \/ StartFails
  \/ Stop \/ CloseEngine \/ CloseSection
  \/ FeedBegins \/ DeviceLost \/ FeedCompares
  \/ CopyWidth \/ CopyHeight \/ UpdateVideoStream

EngineNext ==
  \/ EngineEvent \/ OnMediaEngineEvent \/ PlayFails \/ SendErrorEvent
  \/ SendSwapChainHandle \/ SendReturns \/ OrphanReturns \/ EngineDies

\* A step of the foreground process.
PanelStep ==
  /\ PanelNext
  /\ seen' = IF <<section'.width, section'.height>> = <<section.width, section.height>>
             THEN seen ELSE "no"
  /\ UNCHANGED <<closeVars, feed, frame, panelSize, drawn, engineVars,
                 handleVars>>

Next == PanelStep \/ FilterNext \/ EngineNext

Spec == Init /\ [][Next]_vars

-----------------------------------------------------------------------------
(* Properties *)

SwapChains == 1 .. MaxSwapChains
Handle == Handles \cup {NoHandle}
Sizes == 0 .. MaxSizes
Causes == LateEvents \cup {"connect", "restart", "duplicate"}

\* The type invariant of the two processes and what they share.
RendererTypeOK ==
  /\ table \in [Handles -> 0 .. MaxSwapChains]
  /\ section \in [session : 0 .. MaxSessions, swapChain : Handle,
                   error : BOOLEAN, width : Sizes, height : Sizes]
  /\ mapped \in BOOLEAN /\ signalled \in BOOLEAN
  /\ lock \in {"free", "thread", "ui", "engine"}
  /\ ui \in {"stopped", "idle", "resizing", "resized", "stopping", "lost"}
  /\ session \in 0 .. MaxSessions
  /\ thread \in {"starting", "waiting", "woken", "reading", "ended"}
  /\ last \in Handle /\ current \in Handle /\ remote \in Handle
  /\ posted \in Seq(Handles) /\ orphans \in SUBSET Handles
  /\ shown \in 0 .. chains /\ sizes \in Sizes /\ failures \in 0 .. MaxFailures
  /\ renderer \in {"closed", "opening", "starting", "running", "failed",
                   "closing", "closed_engine", "dead"}
  /\ connected \in 0 .. session
  /\ restart \in {"none", "start", "feed"}
  /\ engine \in {"idle", "raised", "stray", "sending", "sent", "failing", "orphan"}
  /\ chains \in 0 .. MaxSwapChains /\ chain \in 0 .. chains
  /\ sending \in 0 .. chains /\ local \in 0 .. chains
  /\ feed \in {"none", "compare", "width", "height", "update"}
  /\ frame \in FrameSizes \cup {0} /\ panelSize \in Sizes \X Sizes
  /\ drawn \in (FrameSizes \cup {0}) \X (Sizes \X Sizes)
  /\ seen \in {"no", "begun", "yes"} /\ again \in BOOLEAN
  /\ engineOn \in BOOLEAN /\ causes \in SUBSET Causes

Owned == [posted |-> {posted[k] : k \in DOMAIN posted},
          others |-> {current, remote} \ {NoHandle}]

\* A handle in the panel's process is open exactly if it has an owner (the handler
\* posted to show it, mCurrentSwapChainHandle or the renderer's mRemoteHandle) or is
\* an orphan, which a handler has left open because it found the source stopped.  It
\* has at most one owner, and none once it is an orphan: nothing else leaks, nothing
\* is closed twice.  Three threads of two processes open and close handles, under no
\* common lock.
HandleOwners ==
  /\ {h \in Handles : table[h] # 0} = Owned.posted \cup Owned.others \cup orphans
  /\ Cardinality(Owned.posted) = Len(posted)
  /\ Owned.posted \cap Owned.others = {}
  /\ current = remote => current = NoHandle
  /\ orphans \cap (Owned.posted \cup Owned.others) = {}

\* While the renderer is connected, the number in the section is that of the
\* handle it owns: GetEvents duplicates the swap chain that was sent last.
NumberNamesSwapChain ==
  thread = "reading" /\ remote # NoHandle /\ renderer # "dead" =>
    section.swapChain = remote /\ table[remote] = local

\* Nothing is under way between the two processes.
AtRest ==
  /\ ui = "idle" /\ thread = "waiting" /\ posted = <<>>
  /\ engine = "idle" /\ renderer = "running" /\ SameSession
  /\ ~section.error

\* Whatever was sent to the panel is on it when nothing is under way: signals that
\* run together, restarts and device losses lose no swap chain for good, unless
\* the number of a handle that was closed has been given again.
PanelShowsCurrent ==
  AtRest /\ local # 0 /\ ~again => shown = local

\* A swap chain is never replaced by an older one, though handlers posted in one
\* session may run in the next.
NeverBackwards ==
  [][shown' # shown => shown' = 0 \/ shown' > shown]_vars

\* After a Feed that began once the panel had its size, the engine draws in that
\* size, though the section is read twice and without the lock.
SizeFollowsPanel ==
  renderer = "running" /\ feed = "none" /\ seen = "yes" =>
    drawn = <<frame, <<section.width, section.height>>>>

\* All that harms one of the two processes.  The renderer's ends by an event that
\* was on its way when the engine was shut down, by a failure to open the section, to
\* start again on another device or to duplicate a handle; not by an event in any
\* other place, nor by a failure of Play, of another Start or of the panel's own
\* duplicate.  The mutex stays taken if that event held it, or was about to.  And the
\* panel's process is lost only if its thread had not begun, was woken or was reading:
\* a thread that waits always ends in time.
HarmHasCause ==
  /\ renderer = "dead"
       => causes \cap {"raised", "sending", "connect", "restart", "duplicate"} # {}
  /\ lock = "engine" /\ engine # "sent" => causes \cap {"sending", "sent"} # {}
  /\ ui = "lost" => thread \in {"starting", "woken", "reading"}

=============================================================================
