---------------------------- MODULE RendererProofs ----------------------------
(***************************************************************************)
(* Theorems about Renderer and SwapChainPanelSource, for every handle      *)
(* table, every set of frame sizes and every number of sessions, sizes,    *)
(* swap chains and failures.                                               *)
(***************************************************************************)
EXTENDS Renderer, FunctionTheorems, FiniteSetTheorems, SequenceTheorems, TLAPS

-----------------------------------------------------------------------------
(* The inductive invariant. *)

\* A swap chain that the engine has, or that an event brings, is the newest.
ChainInv ==
  /\ chain \in {0, chains}
  /\ engine = "raised" => chain # 0
  /\ engine = "sending" => sending = chains /\ chains # 0
  /\ \A h \in Handles : table[h] <= chains

\* A handle that has an owner is open and has no other.
OwnerInv ==
  /\ \A i \in DOMAIN posted : table[posted[i]] # 0
  /\ \A i, j \in DOMAIN posted : i < j => posted[i] # posted[j]
  /\ \A i \in DOMAIN posted : posted[i] # current /\ posted[i] # remote
  /\ current # NoHandle => table[current] # 0 /\ current # remote
  /\ remote # NoHandle => table[remote] = local /\ local # 0
  /\ remote = NoHandle => local = 0

\* An orphan is open and has no owner, and every other open handle has one.
LeakInv ==
  /\ \A h \in orphans : /\ table[h] # 0 /\ h # current /\ h # remote
                        /\ \A i \in DOMAIN posted : posted[i] # h
  /\ \A h \in Handles : table[h] # 0 =>
       h \in orphans \cup {current, remote} \/ \E i \in DOMAIN posted : posted[i] = h

\* The number in the section is that of the renderer's handle, or of one that has
\* been closed and not been opened again.
SectionInv ==
  /\ last # NoHandle => section.swapChain # NoHandle
  /\ section.swapChain # NoHandle /\ table[section.swapChain] # 0
       => section.swapChain = remote
  /\ remote # NoHandle /\ renderer # "dead" => mapped /\ section.swapChain = remote
  /\ renderer \in {"closed", "opening"} => ~mapped /\ remote = NoHandle

\* Swap chains grow from the one shown, over those posted, to the one sent last.
AgeInv ==
  /\ \A i, j \in DOMAIN posted : i < j => table[posted[i]] <= table[posted[j]]
  /\ \A i \in DOMAIN posted : shown <= table[posted[i]]
  /\ local # 0 => /\ shown <= local
                  /\ \A i \in DOMAIN posted : table[posted[i]] <= local

\* A source that is stopped has no thread, one that waits was not signalled, and
\* one that waits is ended when the source stops.
ThreadInv ==
  /\ ui = "stopped" => thread = "ended"
  /\ ui = "stopping" => thread # "waiting"
  /\ ui = "lost" => thread \notin {"waiting", "ended"}
  /\ thread = "waiting" => ~signalled

\* The renderer has sent a handle to the session that runs, under a new number.
Connected ==
  /\ local # 0 /\ ~again
  /\ SameSession /\ renderer # "dead"
  /\ thread # "ended" /\ ui # "lost"

\* What was sent is on its way: the thread has been told to read the section, or
\* it has posted the handler that shows the swap chain, or that one is shown.
SentInv ==
  Connected =>
    IF section.swapChain = last
    THEN IF posted = <<>> THEN shown = local
                          ELSE table[posted[Len(posted)]] = local
    ELSE signalled \/ thread \in {"woken", "reading"}

Size == <<section.width, section.height>>

\* What Feed has copied of the panel's size since that was last written.
SizeInv ==
  /\ renderer \in {"closed", "opening", "starting", "failed"} => seen = "no"
  /\ renderer \in {"closed_engine", "closed", "opening", "starting", "failed"}
       => drawn = <<0, <<0, 0>>>>
  /\ renderer = "starting" => frame = 0 /\ panelSize = <<0, 0>>
  /\ renderer = "running" /\ feed \in {"none", "compare"} => drawn = <<frame, panelSize>>
  /\ seen = "begun" /\ feed = "height" => panelSize[1] = section.width
  /\ seen = "begun" /\ feed = "update" => panelSize = Size
  /\ seen = "yes" => panelSize = Size

\* An event that the engine has raised is on its way between Start and the engine's
\* shutdown, or was when that came; so is the event that holds the mutex.
HarmInv ==
  /\ renderer = "dead"
       => causes \cap {"raised", "sending", "connect", "restart", "duplicate"} # {}
  /\ engine = "raised" => renderer \in {"running", "closing"}
  /\ engine = "stray" => "raised" \in causes
  /\ engine = "sending" => renderer \in {"running", "closing"} \/ "sending" \in causes
  /\ engine = "sent" => \/ renderer \in {"running", "closing"}
                        \/ causes \cap {"sending", "sent"} # {}
  /\ renderer \in {"starting", "running", "closing", "closed_engine", "failed"} => mapped
  /\ lock = "engine" => \/ engine = "sent" /\ SameSession
                        \/ causes \cap {"sending", "sent"} # {}

RInv ==
  /\ RendererTypeOK
  /\ ChainInv
  /\ OwnerInv
  /\ LeakInv
  /\ SectionInv
  /\ AgeInv
  /\ ThreadInv
  /\ SentInv
  /\ SizeInv
  /\ HarmInv

-----------------------------------------------------------------------------
(* Types. *)

Sections == [session : 0 .. MaxSessions, swapChain : Handle, error : BOOLEAN,
             width : Sizes, height : Sizes]

\* The types of the panel's variables, and of the renderer's.
PanelTypes ==
  /\ table \in [Handles -> 0 .. MaxSwapChains]
  /\ section \in Sections
  /\ mapped \in BOOLEAN /\ signalled \in BOOLEAN
  /\ lock \in {"free", "thread", "ui", "engine"}
  /\ ui \in {"stopped", "idle", "resizing", "resized", "stopping", "lost"}
  /\ session \in 0 .. MaxSessions
  /\ thread \in {"starting", "waiting", "woken", "reading", "ended"}
  /\ last \in Handle /\ current \in Handle
  /\ posted \in Seq(Handles) /\ orphans \in SUBSET Handles
  /\ shown \in 0 .. chains /\ sizes \in Sizes /\ failures \in 0 .. MaxFailures

RestTypes ==
  /\ remote \in Handle
  /\ renderer \in {"closed", "opening", "starting", "running", "failed",
                   "closing", "closed_engine", "dead"}
  /\ connected \in 0 .. session
  /\ restart \in {"none", "start", "feed"}
  /\ engine \in {"idle", "raised", "stray", "sending", "sent", "failing", "orphan"}
  /\ chains \in 0 .. MaxSwapChains /\ chain \in 0 .. chains
  /\ sending \in 0 .. chains /\ local \in 0 .. chains
  /\ feed \in {"none", "compare", "width", "height", "update"}
  /\ frame \in FrameSizes \cup {0} /\ panelSize \in Sizes \X Sizes
  /\ drawn \in (FrameSizes \cup {0}) \X (Sizes \X Sizes)
  /\ seen \in {"no", "begun", "yes"} /\ again \in BOOLEAN
  /\ engineOn \in BOOLEAN /\ causes \in SUBSET Causes

LEMMA Types == RendererTypeOK <=> PanelTypes /\ RestTypes
  BY DEF RendererTypeOK, PanelTypes, RestTypes, Sections

\* Start keeps what is in a section that the renderer has mapped, but for the
\* session and perhaps the size.
LEMMA StartWrites ==
  ASSUME PanelTypes, Start
  PROVE  /\ section' \in Sections
         /\ sizes' \in Sizes
         /\ section'.swapChain = IF mapped THEN section.swapChain ELSE NoHandle
<1> USE PanelAssumption DEF Handle, Sizes, Sections, PanelTypes
<1> DEFINE kept == IF mapped THEN section ELSE Empty
<1>1. /\ kept \in Sections
      /\ kept.swapChain = IF mapped THEN section.swapChain ELSE NoHandle
  BY DEF Empty
<1>2. session + 1 \in 0 .. MaxSessions
  <2>1. session \in 0 .. MaxSessions /\ session < MaxSessions
    BY DEF Start
  <2> HIDE DEF PanelTypes
  <2> QED BY <2>1
<1>3. CASE section' = [kept EXCEPT !.session = session + 1] /\ sizes' = sizes
  BY <1>1, <1>2, <1>3
<1>4. CASE /\ sizes < MaxSizes
           /\ sizes' = sizes + 1
           /\ section' = [kept EXCEPT !.session = session + 1,
                                      !.width = sizes + 1, !.height = sizes + 1]
  <2>1. sizes + 1 \in Sizes
    <3>1. sizes \in 0 .. MaxSizes
      OBVIOUS
    <3> HIDE DEF PanelTypes, kept
    <3> QED BY <1>4, <3>1
  <2> HIDE DEF kept
  <2> QED BY <1>1, <1>2, <1>4, <2>1
<1> QED BY <1>3, <1>4 DEF Start

\* A step of the panel's process keeps the types.
LEMMA PanelStepTypeOK ==
  ASSUME PanelTypes, RestTypes, ChainInv, SectionInv, PanelStep
  PROVE  PanelTypes' /\ RestTypes'
<1> USE PanelAssumption, RendererAssumption DEF Handle, Sizes, Sections
<1>s. /\ UNCHANGED <<closeVars, feed, frame, panelSize, drawn, engineVars, handleVars>>
      /\ seen' \in {"no", "begun", "yes"}
  BY DEF PanelStep, RestTypes
<1>r. ASSUME session' = session \/ session' = session + 1 PROVE RestTypes'
  <2>1. connected \in 0 .. session'
    BY <1>r DEF RestTypes, PanelTypes
  <2> QED BY <1>s, <2>1 DEF RestTypes, closeVars, engineVars, handleVars
<1>u. chains' = chains
  BY <1>s DEF engineVars
<1> USE <1>u
<1>1. CASE Start
  <2>1. section' \in Sections /\ sizes' \in Sizes
    BY <1>1, StartWrites
  <2> QED BY <1>r, <1>1, <2>1 DEF PanelTypes, Start
<1>2. CASE StopSignals
  BY <1>r, <1>2 DEF PanelTypes, StopSignals
<1>3. CASE StopFrees
  <2>1. table' \in [Handles -> 0 .. MaxSwapChains] /\ shown' \in 0 .. chains
    BY <1>3 DEF PanelTypes, RestTypes, StopFrees, Closed
  <2> QED BY <1>r, <1>3, <2>1 DEF PanelTypes, StopFrees
<1>4. CASE Resize
  BY <1>r, <1>4 DEF PanelTypes, Resize
<1>5. CASE ResizeWidth
  BY <1>r, <1>5 DEF PanelTypes, ResizeWidth
<1>6. CASE ResizeHeight
  BY <1>r, <1>6 DEF PanelTypes, ResizeHeight
<1>w. ASSUME Wait PROVE /\ thread' \in {"waiting", "woken", "ended"}
                        /\ signalled' \in BOOLEAN
  BY <1>w DEF Wait, PanelTypes
<1>7. CASE ThreadBegins
  BY <1>r, <1>w, <1>7 DEF PanelTypes, ThreadBegins
<1>8. CASE ThreadLocks
  BY <1>r, <1>8 DEF PanelTypes, ThreadLocks
<1>9. CASE ReadError
  BY <1>r, <1>9 DEF PanelTypes, ReadError
<1>10. CASE ReadKnown
  BY <1>r, <1>w, <1>10 DEF PanelTypes, ReadKnown
<1>11. CASE ReadNew
  <2>1. section.swapChain \in Handles
    BY <1>11 DEF PanelTypes, ReadNew, SectionInv
  <2>2. table' \in [Handles -> 0 .. MaxSwapChains]
    BY <1>11, <2>1 DEF PanelTypes, ReadNew, Opened
  <2>3. posted' \in Seq(Handles)
    BY <1>11 DEF PanelTypes, ReadNew, Post, Free
  <2> QED BY <1>r, <1>w, <1>11, <2>1, <2>2, <2>3 DEF PanelTypes, ReadNew
<1>12. CASE DuplicateFails
  <2>1. failures' \in 0 .. MaxFailures
    BY <1>12 DEF PanelTypes, DuplicateFails, Fails
  <2>2. /\ UNCHANGED <<table, section, mapped, signalled, ui, session, posted, orphans>>
        /\ UNCHANGED <<current, shown, sizes>>
        /\ last' = section.swapChain /\ thread' = "ended" /\ lock' = "free"
    BY <1>12 DEF DuplicateFails
  <2>3. section.swapChain \in Handle
    BY DEF PanelTypes
  <2> QED BY <1>r, <2>1, <2>2, <2>3 DEF PanelTypes
<1>13. CASE RunPosted
  <2>1. Head(posted) \in Handles /\ posted' \in Seq(Handles)
    BY <1>13 DEF PanelTypes, RunPosted
  <2>4. /\ UNCHANGED <<section, mapped, lock, signalled, ui, session, thread, last>>
        /\ UNCHANGED <<sizes, failures>>
        /\ orphans' \in SUBSET Handles
    BY <1>13, <2>1 DEF PanelTypes, RunPosted
  <2>2. CASE Show(Head(posted))
    <3>1. table' \in [Handles -> 0 .. MaxSwapChains]
      BY <2>2 DEF PanelTypes, RestTypes, Show, Closed
    <3>2. shown' \in 0 .. chains
      BY <2>1, <2>2 DEF PanelTypes, RestTypes, Show, ChainInv
    <3>3. current' \in Handle
      BY <2>1, <2>2 DEF Show
    <3> HIDE DEF Sections, Handle, Sizes
    <3>4. PanelTypes'
      BY <2>1, <2>4, <3>1, <3>2, <3>3 DEF PanelTypes
    <3> QED BY <1>r, <2>4, <3>4
  <2>3. CASE UNCHANGED <<table, current, shown>>
    BY <1>r, <2>1, <2>3, <2>4 DEF PanelTypes
  <2> QED BY <1>13, <2>2, <2>3 DEF RunPosted
<1> QED
  BY <1>1, <1>2, <1>3, <1>4, <1>5, <1>6, <1>7, <1>8, <1>9, <1>10, <1>11, <1>12,
     <1>13 DEF PanelStep, PanelNext

\* SetEvent keeps the types.
LEMMA SignalTypes ==
  ASSUME PanelTypes, SignalAvailable
  PROVE  /\ thread' \in {"starting", "waiting", "woken", "reading", "ended"}
         /\ signalled' \in BOOLEAN
<1>1. CASE SameSession /\ thread = "waiting"
  BY <1>1 DEF PanelTypes, SignalAvailable
<1>2. CASE ~(SameSession /\ thread = "waiting")
  BY <1>2 DEF PanelTypes, SignalAvailable
<1> QED BY <1>1, <1>2

LEMMA ReleaseTypes ==
  ASSUME PanelTypes, Release
  PROVE  lock' \in {"free", "thread", "ui", "engine"}
  BY DEF PanelTypes, Release

LEMMA FailsTypes ==
  ASSUME PanelTypes, Fails
  PROVE  failures' \in 0 .. MaxFailures
  BY PanelAssumption DEF PanelTypes, Fails

\* A step of the filter's thread keeps the types.
LEMMA FilterNextTypeOK ==
  ASSUME PanelTypes, RestTypes, FilterNext
  PROVE  PanelTypes' /\ RestTypes'
<1> USE PanelAssumption, RendererAssumption
        DEF Handle, Sizes, panelVars, closeVars, filterVars, engineVars, handleVars
<1>p. ASSUME UNCHANGED <<panelVars, chains>> PROVE PanelTypes'
  BY <1>p DEF PanelTypes, Sections
<1>1. CASE StartRenderer
  <2>1. RestTypes'
    BY <1>1 DEF RestTypes, StartRenderer
  <2> QED BY <1>p, <1>1, <2>1 DEF StartRenderer
<1>2. CASE SetSwapChainPanel
  <2>1. RestTypes'
    BY <1>2 DEF RestTypes, PanelTypes, SetSwapChainPanel
  <2> QED BY <1>2, <2>1 DEF PanelTypes, SetSwapChainPanel
<1>3. CASE SetSwapChainPanelFails
  <2>1. RestTypes'
    BY <1>3 DEF RestTypes, SetSwapChainPanelFails, Die, Causes
  <2>2. mapped' = FALSE /\ lock' \in {"free", lock}
    BY <1>3 DEF SetSwapChainPanelFails, Die
  <2>3. /\ UNCHANGED <<table, section, signalled, ui, session, thread, last, posted>>
        /\ UNCHANGED <<orphans, current, shown, sizes, chains>>
    BY <1>3 DEF SetSwapChainPanelFails
  <2>4. failures' \in 0 .. MaxFailures
    BY <1>3, FailsTypes DEF SetSwapChainPanelFails
  <2> HIDE DEF Handle, Sizes, panelVars, closeVars, filterVars, engineVars, handleVars
  <2>5. PanelTypes'
    BY <2>2, <2>3, <2>4 DEF PanelTypes, Sections
  <2> QED BY <2>1, <2>5
<1>4. CASE StartSucceeds
  <2>1. RestTypes'
    BY <1>4 DEF RestTypes, StartSucceeds, Resume
  <2> QED BY <1>p, <1>4, <2>1 DEF StartSucceeds
<1>5. CASE StartFails
  <2>1. feed' \in {"none", "compare"} /\ restart' = "none"
    BY <1>5 DEF StartFails, Resume
  <2>2. renderer' \in {"running", "failed", "dead"} /\ engineOn' \in BOOLEAN
    BY <1>5 DEF StartFails, Die
  <2>3. /\ mapped' \in BOOLEAN
        /\ lock' \in {"free", lock}
        /\ causes' \in SUBSET Causes
    BY <1>5 DEF StartFails, PanelTypes, RestTypes, Die, Causes
  <2>4. section' \in Sections
    BY <1>5 DEF StartFails, PanelTypes, Sections
  <2>5. RestTypes'
    BY <1>5, <2>1, <2>2, <2>3 DEF StartFails, RestTypes
  <2> QED BY <1>5, <2>3, <2>4, <2>5, SignalTypes, FailsTypes DEF PanelTypes, StartFails
<1>6. CASE Stop
  <2>1. RestTypes'
    BY <1>6 DEF RestTypes, Stop
  <2> QED BY <1>p, <1>6, <2>1 DEF Stop
<1>7. CASE CloseEngine
  <2>1. causes' \in SUBSET Causes
    BY <1>7 DEF RestTypes, CloseEngine, Causes
  <2>3. drawn' \in (FrameSizes \cup {0}) \X (Sizes \X Sizes)
    BY <1>7 DEF CloseEngine
  <2>4. chain' \in 0 .. chains
    BY <1>7 DEF RestTypes, CloseEngine
  <2>5. /\ engine' \in {"idle", "raised", "stray", "sending", "sent", "failing", "orphan"}
        /\ renderer' = "closed_engine" /\ engineOn' = FALSE
    BY <1>7 DEF RestTypes, CloseEngine
  <2>6. /\ UNCHANGED <<connected, restart, feed, frame, panelSize, seen, chains, sending>>
        /\ UNCHANGED <<session, local, remote, again>>
    BY <1>7 DEF CloseEngine
  <2>2. RestTypes'
    BY <2>1, <2>3, <2>4, <2>5, <2>6 DEF RestTypes
  <2> QED BY <1>p, <1>7, <2>2 DEF CloseEngine
<1>8. CASE CloseSection
  <2>1. RestTypes'
    BY <1>8 DEF RestTypes, PanelTypes, CloseSection
  <2>2. table' \in [Handles -> 0 .. MaxSwapChains]
    BY <1>8 DEF PanelTypes, CloseSection, Closed
  <2>3. /\ UNCHANGED <<section, lock, signalled, ui, session, thread, last, posted>>
        /\ UNCHANGED <<orphans, current, shown, sizes, failures, chains>> /\ mapped' = FALSE
    BY <1>8 DEF CloseSection
  <2>4. PanelTypes'
    BY <2>2, <2>3 DEF PanelTypes
  <2> QED BY <2>1, <2>4
<1>9. CASE FeedBegins
  <2>1. RestTypes'
    BY <1>9 DEF RestTypes, FeedBegins
  <2> QED BY <1>p, <1>9, <2>1 DEF FeedBegins
<1>10. CASE DeviceLost
  <2>1. RestTypes'
    BY <1>10 DEF RestTypes, DeviceLost
  <2> QED BY <1>p, <1>10, <2>1 DEF DeviceLost
<1>11. CASE FeedCompares
  <2>1. RestTypes'
    BY <1>11 DEF RestTypes, FeedCompares, FeedDone
  <2> QED BY <1>p, <1>11, <2>1 DEF FeedCompares
<1>12. CASE CopyWidth
  <2>1. panelSize' \in Sizes \X Sizes
    <3>1. section.width \in Sizes /\ panelSize \in Sizes \X Sizes
      BY DEF PanelTypes, Sections, RestTypes
    <3> QED BY <1>12, <3>1 DEF CopyWidth
  <2>2. RestTypes'
    BY <1>12, <2>1 DEF RestTypes, CopyWidth
  <2> QED BY <1>p, <1>12, <2>2 DEF CopyWidth
<1>13. CASE CopyHeight
  <2>1. panelSize' \in Sizes \X Sizes
    <3>1. section.height \in Sizes /\ panelSize \in Sizes \X Sizes
      BY DEF PanelTypes, Sections, RestTypes
    <3> QED BY <1>13, <3>1 DEF CopyHeight
  <2>2. RestTypes'
    BY <1>13, <2>1 DEF RestTypes, CopyHeight
  <2> QED BY <1>p, <1>13, <2>2 DEF CopyHeight
<1>14. CASE UpdateVideoStream
  <2>1. RestTypes'
    BY <1>14 DEF RestTypes, UpdateVideoStream, FeedDone
  <2> QED BY <1>p, <1>14, <2>1 DEF UpdateVideoStream
<1> QED
  BY <1>1, <1>2, <1>3, <1>4, <1>5, <1>6, <1>7, <1>8, <1>9, <1>10, <1>11, <1>12,
     <1>13, <1>14 DEF FilterNext

\* AssignHandle changes only the table and the handle.
LEMMA AssignTypes ==
  ASSUME PanelTypes, RestTypes, AssignHandle
  PROVE  /\ table' \in [Handles -> 0 .. MaxSwapChains]
         /\ local' \in 0 .. chains
         /\ remote' \in Handle
<1> USE PanelAssumption, RendererAssumption DEF PanelTypes, RestTypes, Handle
<1>1. CASE sending = local /\ UNCHANGED <<table, local, remote>>
  BY <1>1
<1>2. ASSUME NEW h \in Free, table' = Closed(Opened(h, sending), remote),
             local' = sending, remote' = h
      PROVE  /\ table' \in [Handles -> 0 .. MaxSwapChains]
             /\ local' \in 0 .. chains
             /\ remote' \in Handle
  BY <1>2 DEF Free, Closed, Opened
<1> QED BY <1>1, <1>2 DEF AssignHandle

\* A step of the engine's thread keeps the types.
LEMMA EngineNextTypeOK ==
  ASSUME PanelTypes, RestTypes, EngineNext
  PROVE  PanelTypes' /\ RestTypes'
<1> USE PanelAssumption, RendererAssumption
        DEF Handle, Sizes, panelVars, closeVars, filterVars, engineVars, handleVars
<1>1. CASE EngineEvent
  <2>1. /\ chains' \in 0 .. MaxSwapChains /\ chain' \in 0 .. chains'
        /\ 0 .. chains \subseteq 0 .. chains'
    BY <1>1 DEF RestTypes, EngineEvent
  <2>2. RestTypes'
    BY <1>1, <2>1 DEF RestTypes, EngineEvent
  <2> QED BY <1>1, <2>1, <2>2 DEF PanelTypes, EngineEvent
<1>2. CASE OnMediaEngineEvent
  <2>1. RestTypes'
    BY <1>2 DEF RestTypes, OnMediaEngineEvent
  <2>2. UNCHANGED <<panelVars, chains>>
    BY <1>2 DEF OnMediaEngineEvent
  <2> QED BY <2>1, <2>2 DEF PanelTypes, Sections
<1>3. CASE PlayFails
  <2>1. RestTypes'
    BY <1>3 DEF RestTypes, PlayFails
  <2> QED BY <1>3, <2>1, FailsTypes DEF PanelTypes, PlayFails
<1>4. CASE SendErrorEvent
  <2>1. RestTypes'
    BY <1>4 DEF RestTypes, SendErrorEvent
  <2>2. section' \in Sections
    BY <1>4 DEF PanelTypes, Sections, SendErrorEvent
  <2>3. /\ thread' \in {"starting", "waiting", "woken", "reading", "ended"}
        /\ signalled' \in BOOLEAN
    BY <1>4, SignalTypes DEF PanelTypes, SendErrorEvent
  <2> QED BY <1>4, <2>1, <2>2, <2>3 DEF PanelTypes, SendErrorEvent
<1>5. CASE SendSwapChainHandle
  <2>1. /\ table' \in [Handles -> 0 .. MaxSwapChains]
        /\ local' \in 0 .. chains
        /\ remote' \in Handle
    BY <1>5, AssignTypes DEF SendSwapChainHandle
  <2>2. again' \in BOOLEAN
    <3>1. CASE remote' = remote
      BY <1>5, <3>1 DEF RestTypes, SendSwapChainHandle
    <3>2. CASE remote' # remote
      BY <1>5, <3>2 DEF SendSwapChainHandle
    <3> QED BY <3>1, <3>2
  <2>3. RestTypes'
    BY <1>5, <2>1, <2>2 DEF RestTypes, SendSwapChainHandle
  <2>4. section' \in Sections
    BY <1>5, <2>1 DEF PanelTypes, Sections, SendSwapChainHandle
  <2>5. /\ thread' \in {"starting", "waiting", "woken", "reading", "ended"}
        /\ signalled' \in BOOLEAN
    BY <1>5, SignalTypes DEF PanelTypes, SendSwapChainHandle
  <2> QED BY <1>5, <2>1, <2>3, <2>4, <2>5 DEF PanelTypes, SendSwapChainHandle
<1>6. CASE SendReturns
  <2>1. RestTypes'
    BY <1>6 DEF RestTypes, SendReturns
  <2> QED BY <1>6, <2>1, ReleaseTypes DEF PanelTypes, SendReturns
<1>7. CASE OrphanReturns
  BY <1>7 DEF PanelTypes, RestTypes, OrphanReturns
<1>8. CASE EngineDies
  <2>1. RestTypes'
    BY <1>8 DEF RestTypes, EngineDies, Die, Causes
  <2>2. failures' \in 0 .. MaxFailures
    BY <1>8, FailsTypes DEF PanelTypes, EngineDies
  <2>3. lock' \in {"free", "thread", "ui", "engine"}
    BY <1>8 DEF PanelTypes, EngineDies, Die
  <2> QED BY <1>8, <2>1, <2>2, <2>3 DEF PanelTypes, EngineDies, Die
<1> QED
  BY <1>1, <1>2, <1>3, <1>4, <1>5, <1>6, <1>7, <1>8 DEF EngineNext

-----------------------------------------------------------------------------
(* The handle table. *)

\* The variables that the table's invariants are about.
tableVars == <<table, posted, orphans, current, remote, local>>

\* Five actions open, close or hand over handles.
LEMMA TableSteps ==
  ASSUME Next
  PROVE  \/ UNCHANGED tableVars
         \/ StopFrees /\ UNCHANGED handleVars
         \/ ReadNew /\ UNCHANGED handleVars
         \/ RunPosted /\ UNCHANGED handleVars
         \/ SendSwapChainHandle
         \/ CloseSection
<1> USE DEF tableVars, panelVars, handleVars
<1>1. CASE PanelStep
  <2>1. UNCHANGED handleVars
    BY <1>1 DEF PanelStep
  <2> QED
    BY <1>1, <2>1 DEF PanelStep, PanelNext, Start, StopSignals, Resize, ResizeWidth,
       ResizeHeight, ThreadBegins, ThreadLocks, ReadError, ReadKnown, DuplicateFails
<1>2. CASE FilterNext
  BY <1>2 DEF FilterNext, StartRenderer, SetSwapChainPanel, SetSwapChainPanelFails,
     StartSucceeds, StartFails, Stop, CloseEngine, FeedBegins, DeviceLost,
     FeedCompares, CopyWidth, CopyHeight, UpdateVideoStream
<1>3. CASE EngineNext
  BY <1>3 DEF EngineNext, EngineEvent, OnMediaEngineEvent, PlayFails,
     SendErrorEvent, SendReturns, OrphanReturns, EngineDies
<1> QED BY <1>1, <1>2, <1>3 DEF Next

\* Two actions change what is on the panel.
LEMMA ShownSteps ==
  ASSUME Next
  PROVE  \/ UNCHANGED shown
         \/ StopFrees /\ UNCHANGED handleVars
         \/ RunPosted /\ UNCHANGED handleVars
<1>1. CASE PanelStep
  BY <1>1 DEF PanelStep, PanelNext, Start, StopSignals, Resize, ResizeWidth,
     ResizeHeight, ThreadBegins, ThreadLocks, ReadError, ReadKnown, ReadNew,
     DuplicateFails
<1>2. CASE FilterNext
  BY <1>2 DEF FilterNext, panelVars, StartRenderer, SetSwapChainPanel,
     SetSwapChainPanelFails, StartSucceeds, StartFails, Stop, CloseEngine,
     CloseSection, FeedBegins, DeviceLost, FeedCompares, CopyWidth, CopyHeight,
     UpdateVideoStream
<1>3. CASE EngineNext
  BY <1>3 DEF EngineNext, panelVars, EngineEvent, OnMediaEngineEvent, PlayFails,
     SendErrorEvent, SendSwapChainHandle, SendReturns, OrphanReturns, EngineDies
<1> QED BY <1>1, <1>2, <1>3 DEF Next

\* A number that GetEvents can duplicate is that of the renderer's handle.
LEMMA ReadNewSource ==
  ASSUME RendererTypeOK, OwnerInv, SectionInv, ReadNew
  PROVE  /\ section.swapChain = remote /\ remote \in Handles
         /\ table[remote] = local /\ local # 0
         /\ \E h \in Free : /\ table' = [table EXCEPT ![h] = local]
                            /\ posted' = Append(posted, h)
<1>1. section.swapChain # NoHandle
  BY DEF ReadNew, SectionInv
<1>2. section.swapChain = remote
  BY <1>1 DEF ReadNew, SectionInv
<1> QED BY <1>1, <1>2 DEF RendererTypeOK, Handle, OwnerInv, ReadNew, Opened, Post

\* What AssignHandle does: it has a handle already, or it makes one under a number
\* that was free, and closes the other.
LEMMA Assigned ==
  ASSUME RendererTypeOK, ChainInv, OwnerInv, SendSwapChainHandle
  PROVE  \/ sending = local /\ remote \in Handles /\ UNCHANGED <<table, local, remote>>
         \/ /\ sending # local
            /\ remote' \in Free /\ remote' # remote
            /\ local' = chains /\ local' # 0
            /\ table' = [g \in Handles |-> IF g = remote THEN 0
                                           ELSE IF g = remote' THEN local' ELSE table[g]]
<1>1. sending = chains /\ chains # 0
  BY DEF SendSwapChainHandle, ChainInv
<1>2. CASE sending = local
  BY <1>1, <1>2 DEF SendSwapChainHandle, AssignHandle, OwnerInv, RendererTypeOK, Handle
<1>3. CASE sending # local
  <2>1. PICK h \in Free : /\ table' = Closed(Opened(h, sending), remote)
                          /\ local' = sending
                          /\ remote' = h
    BY <1>3 DEF SendSwapChainHandle, AssignHandle
  <2>2. h # remote
    BY <2>1, PanelAssumption DEF Free, OwnerInv
  <2>3. table' = [g \in Handles |-> IF g = remote THEN 0
                                    ELSE IF g = h THEN sending ELSE table[g]]
    BY <2>1 DEF Closed, Opened, RendererTypeOK, Free
  <2> QED BY <1>1, <1>3, <2>1, <2>2, <2>3
<1> QED BY <1>2, <1>3

\* The handlers posted, with one more.
LEMMA Appended ==
  ASSUME NEW S, NEW s \in Seq(S), NEW e \in S, NEW t, t = Append(s, e)
  PROVE  /\ \A i \in DOMAIN s : i \in DOMAIN t /\ t[i] = s[i]
         /\ \A i \in DOMAIN t : \/ i \in DOMAIN s /\ t[i] = s[i]
                               \/ t[i] = e
         /\ \A i, j \in DOMAIN t : i < j =>
              /\ i \in DOMAIN s /\ t[i] = s[i]
              /\ (j \in DOMAIN s /\ t[j] = s[j]) \/ t[j] = e
         /\ t # <<>> /\ t[Len(t)] = e /\ \E i \in DOMAIN t : t[i] = e
<1>1. /\ DOMAIN s = 1 .. Len(s)
      /\ DOMAIN t = 1 .. Len(s) + 1
      /\ Len(t) = Len(s) + 1
      /\ \A i \in 1 .. Len(s) : t[i] = s[i]
      /\ t[Len(s) + 1] = e
      /\ Len(s) \in Nat
      /\ t # <<>>
  OBVIOUS
<1>2. \A i \in 1 .. Len(s) + 1 : i \in 1 .. Len(s) \/ i = Len(s) + 1
  BY <1>1
<1>3. \A i, j \in 1 .. Len(s) + 1 : i < j => i \in 1 .. Len(s)
  BY <1>1
<1> QED BY <1>1, <1>2, <1>3

\* The handlers posted, without the first.
LEMMA Tailed ==
  ASSUME NEW S, NEW s \in Seq(S), s # <<>>, NEW t, t = Tail(s)
  PROVE  /\ \A i \in DOMAIN t : i + 1 \in DOMAIN s /\ t[i] = s[i + 1] /\ 1 < i + 1
         /\ \A i, j \in DOMAIN t : i < j => i + 1 < j + 1
         /\ 1 \in DOMAIN s /\ Head(s) = s[1]
         /\ IF t = <<>> THEN s[Len(s)] = s[1] ELSE t[Len(t)] = s[Len(s)]
<1>1. /\ DOMAIN s = 1 .. Len(s)
      /\ DOMAIN t = 1 .. Len(s) - 1
      /\ Len(t) = Len(s) - 1
      /\ \A i \in 1 .. Len(s) - 1 : t[i] = s[i + 1]
      /\ Head(s) = s[1]
      /\ Len(s) \in Nat \ {0}
      /\ t \in Seq(S)
  OBVIOUS
<1>2. \A i \in DOMAIN t : i + 1 \in DOMAIN s /\ t[i] = s[i + 1] /\ 1 < i + 1
  BY <1>1
<1>3. \A i, j \in DOMAIN t : i < j => i + 1 < j + 1
  BY <1>1
<1>4. ASSUME Len(s) # 1 PROVE t[Len(t)] = s[Len(s)]
  <2>1. Len(s) - 1 \in 1 .. Len(s) - 1 /\ (Len(s) - 1) + 1 = Len(s)
    BY <1>1, <1>4
  <2> QED BY <1>1, <2>1
<1>5. t = <<>> <=> Len(s) = 1
  <2>1. t = <<>> <=> Len(t) = 0
    BY <1>1, EmptySeq
  <2> QED BY <1>1, <2>1
<1> QED BY <1>1, <1>2, <1>3, <1>4, <1>5

\* All but the first stay.
LEMMA TailKeeps ==
  ASSUME NEW S, NEW s \in Seq(S), s # <<>>, NEW t, t = Tail(s)
  PROVE  \A i \in DOMAIN s : i = 1 \/ \E j \in DOMAIN t : t[j] = s[i]
<1>1. /\ DOMAIN s = 1 .. Len(s)
      /\ DOMAIN t = 1 .. Len(s) - 1
      /\ \A i \in 1 .. Len(s) - 1 : t[i] = s[i + 1]
      /\ Len(s) \in Nat
  OBVIOUS
<1>2. ASSUME NEW i \in 1 .. Len(s), i # 1
      PROVE  i - 1 \in 1 .. Len(s) - 1 /\ (i - 1) + 1 = i
  BY <1>1, <1>2
<1>3. ASSUME NEW i \in 1 .. Len(s), i # 1 PROVE t[i - 1] = s[i]
  BY <1>1, <1>2, <1>3
<1> QED BY <1>1, <1>2, <1>3

LEMMA OwnerStep ==
  ASSUME RendererTypeOK, ChainInv, OwnerInv, SectionInv, Next
  PROVE  OwnerInv'
<1> USE PanelAssumption DEF RendererTypeOK, Handle
<1>1. ASSUME UNCHANGED tableVars PROVE OwnerInv'
  BY <1>1 DEF tableVars, OwnerInv
<1>2. ASSUME StopFrees, UNCHANGED handleVars PROVE OwnerInv'
  BY <1>2 DEF handleVars, OwnerInv, StopFrees, Closed
<1>3. ASSUME ReadNew, UNCHANGED handleVars PROVE OwnerInv'
  <2>1. PICK h \in Free : /\ table' = [table EXCEPT ![h] = local]
                          /\ posted' = Append(posted, h)
    BY <1>3, ReadNewSource
  <2>2. h \in Handles /\ table[h] = 0 /\ local # 0 /\ h # NoHandle
    BY <1>3, ReadNewSource DEF Free
  <2>3. /\ \A i \in DOMAIN posted' : \/ i \in DOMAIN posted /\ posted'[i] = posted[i]
                                    \/ posted'[i] = h
        /\ \A i, j \in DOMAIN posted' : i < j =>
             /\ i \in DOMAIN posted /\ posted'[i] = posted[i]
             /\ (j \in DOMAIN posted /\ posted'[j] = posted[j]) \/ posted'[j] = h
    <3>1. posted \in Seq(Handles)
      OBVIOUS
    <3> HIDE DEF RendererTypeOK
    <3> QED BY <2>1, <2>2, <3>1, Appended
  <2>4. /\ UNCHANGED <<current, remote, local>>
        /\ \A i \in DOMAIN posted : posted[i] \in Handles
        /\ remote # NoHandle => remote \in Handles
        /\ current # NoHandle => current \in Handles
    BY <1>3 DEF ReadNew, handleVars
  <2>5. table'[h] # 0 /\ \A g \in Handles : g # h => table'[g] = table[g]
    BY <2>1, <2>2
  <2> HIDE DEF RendererTypeOK
  <2>6. /\ \A i \in DOMAIN posted : posted[i] # h
        /\ current # h /\ remote # h
    BY <2>2 DEF OwnerInv
  <2>7. \A i \in DOMAIN posted' : table'[posted'[i]] # 0
    BY <2>3, <2>4, <2>5, <2>6 DEF OwnerInv
  <2>8. \A i, j \in DOMAIN posted' : i < j => posted'[i] # posted'[j]
    BY <2>3, <2>6 DEF OwnerInv
  <2>9. \A i \in DOMAIN posted' : posted'[i] # current' /\ posted'[i] # remote'
    BY <2>3, <2>4, <2>6 DEF OwnerInv
  <2> QED BY <2>4, <2>5, <2>6, <2>7, <2>8, <2>9 DEF OwnerInv
<1>4. ASSUME RunPosted, UNCHANGED handleVars PROVE OwnerInv'
  <2>1. /\ \A i \in DOMAIN posted' : /\ i + 1 \in DOMAIN posted
                                     /\ posted'[i] = posted[i + 1]
                                     /\ 1 < i + 1
        /\ \A i, j \in DOMAIN posted' : i < j => i + 1 < j + 1
        /\ 1 \in DOMAIN posted /\ Head(posted) = posted[1]
    <3>1. posted \in Seq(Handles) /\ posted # <<>> /\ posted' = Tail(posted)
      BY <1>4 DEF RunPosted
    <3> HIDE DEF RendererTypeOK
    <3> QED BY <3>1, Tailed
  <2>2. /\ UNCHANGED <<remote, local>>
        /\ \A i \in DOMAIN posted : posted[i] \in Handles
        /\ remote # NoHandle => remote \in Handles
    BY <1>4 DEF handleVars
  <2>3. \A i, j \in DOMAIN posted' : i < j => posted'[i] # posted'[j]
    <3> HIDE DEF RendererTypeOK
    <3> QED BY <2>1 DEF OwnerInv
  <2>4. CASE Show(Head(posted))
    <3>1. current' = posted[1] /\ \A g \in Handles : g # current => table'[g] = table[g]
      BY <2>1, <2>4 DEF Show, Closed
    <3> HIDE DEF RendererTypeOK
    <3>2. \A i \in DOMAIN posted : table'[posted[i]] # 0
      BY <2>2, <3>1 DEF OwnerInv
    <3>3. \A i \in DOMAIN posted' : posted'[i] # current' /\ posted'[i] # remote'
      BY <2>1, <2>2, <3>1 DEF OwnerInv
    <3> QED BY <2>1, <2>2, <2>3, <3>1, <3>2, <3>3 DEF OwnerInv
  <2>5. CASE UNCHANGED <<table, current, shown>>
    <3> HIDE DEF RendererTypeOK
    <3> QED BY <2>1, <2>2, <2>3, <2>5 DEF OwnerInv
  <2> QED BY <1>4, <2>4, <2>5 DEF RunPosted
<1>5. CASE SendSwapChainHandle
  <2>1. UNCHANGED <<posted, current, orphans>>
    <3> HIDE DEF RendererTypeOK, Handle
    <3> QED BY <1>5 DEF SendSwapChainHandle
  <2>2. CASE UNCHANGED <<table, local, remote>>
    BY <1>1, <2>1, <2>2 DEF tableVars
  <2>3. CASE /\ remote' \in Free /\ remote' # remote
             /\ local' # 0
             /\ table' = [g \in Handles |-> IF g = remote THEN 0
                                            ELSE IF g = remote' THEN local' ELSE table[g]]
    <3>1. /\ remote' \in Handles /\ table[remote'] = 0 /\ table'[remote'] = local'
          /\ \A g \in Handles : g # remote' => table'[g] = IF g = remote THEN 0 ELSE table[g]
      BY <2>3 DEF Free
    <3>2. /\ \A i \in DOMAIN posted : posted[i] \in Handles
          /\ current # NoHandle => current \in Handles
      OBVIOUS
    <3> HIDE DEF RendererTypeOK, Handle
    <3>3. /\ \A i \in DOMAIN posted : posted[i] # remote' /\ table'[posted[i]] # 0
          /\ current # NoHandle => current # remote' /\ table'[current] # 0
      BY <3>1, <3>2 DEF OwnerInv
    <3>4. \A i \in DOMAIN posted : posted[i] # current
      BY DEF OwnerInv
    <3>5. \A i, j \in DOMAIN posted : i < j => posted[i] # posted[j]
      BY DEF OwnerInv
    <3> QED BY <2>1, <2>3, <3>1, <3>3, <3>4, <3>5 DEF OwnerInv
  <2> QED BY <1>5, <2>2, <2>3, Assigned
<1>6. CASE CloseSection
  BY <1>6 DEF CloseSection, Closed, OwnerInv
<1> QED BY <1>1, <1>2, <1>3, <1>4, <1>5, <1>6, TableSteps

LEMMA LeakStep ==
  ASSUME RendererTypeOK, ChainInv, OwnerInv, LeakInv, SectionInv, Next
  PROVE  LeakInv'
<1> USE PanelAssumption DEF RendererTypeOK, Handle
<1>1. ASSUME UNCHANGED tableVars PROVE LeakInv'
  BY <1>1 DEF tableVars, LeakInv
<1>2. ASSUME StopFrees, UNCHANGED handleVars PROVE LeakInv'
  <2>1. /\ current' = NoHandle /\ UNCHANGED <<posted, orphans, remote>>
        /\ orphans \subseteq Handles
    BY <1>2 DEF handleVars, StopFrees
  <2>2. \A g \in Handles : table'[g] = IF g = current THEN 0 ELSE table[g]
    BY <1>2 DEF StopFrees, Closed
  <2> HIDE DEF RendererTypeOK, Handle
  <2> QED BY <2>1, <2>2 DEF LeakInv
<1>3. ASSUME ReadNew, UNCHANGED handleVars PROVE LeakInv'
  <2>1. PICK h \in Free : /\ table' = [table EXCEPT ![h] = local]
                          /\ posted' = Append(posted, h)
    BY <1>3, ReadNewSource
  <2>2. h \in Handles /\ table[h] = 0
    BY DEF Free
  <2>3. /\ \A i \in DOMAIN posted : i \in DOMAIN posted' /\ posted'[i] = posted[i]
        /\ \A i \in DOMAIN posted' : \/ i \in DOMAIN posted /\ posted'[i] = posted[i]
                                    \/ posted'[i] = h
        /\ \E i \in DOMAIN posted' : posted'[i] = h
    <3>1. posted \in Seq(Handles)
      OBVIOUS
    <3> HIDE DEF RendererTypeOK
    <3> QED BY <2>1, <2>2, <3>1, Appended
  <2>4. UNCHANGED <<current, remote, orphans>> /\ orphans \subseteq Handles
    BY <1>3 DEF ReadNew, handleVars
  <2>5. \A g \in Handles : g # h => table'[g] = table[g]
    BY <2>1, <2>2
  <2>6. h \notin orphans
    BY <2>2 DEF LeakInv
  <2> HIDE DEF RendererTypeOK
  <2>7. \A g \in orphans : /\ table'[g] # 0 /\ g # current /\ g # remote
                           /\ \A i \in DOMAIN posted' : posted'[i] # g
    BY <2>3, <2>4, <2>5, <2>6 DEF LeakInv
  <2>8. \A g \in Handles : table'[g] # 0 =>
          g \in orphans \cup {current, remote} \/ \E i \in DOMAIN posted' : posted'[i] = g
    BY <2>3, <2>5 DEF LeakInv
  <2> QED BY <2>4, <2>7, <2>8 DEF LeakInv
<1>4. ASSUME RunPosted, UNCHANGED handleVars PROVE LeakInv'
  <2>1. /\ \A i \in DOMAIN posted' : /\ i + 1 \in DOMAIN posted
                                     /\ posted'[i] = posted[i + 1]
                                     /\ 1 < i + 1
        /\ 1 \in DOMAIN posted /\ Head(posted) = posted[1]
    <3>1. posted \in Seq(Handles) /\ posted # <<>> /\ posted' = Tail(posted)
      BY <1>4 DEF RunPosted
    <3> HIDE DEF RendererTypeOK
    <3> QED BY <3>1, Tailed
  <2>6. \A i \in DOMAIN posted : i = 1 \/ \E j \in DOMAIN posted' : posted'[j] = posted[i]
    <3>1. posted \in Seq(Handles) /\ posted # <<>> /\ posted' = Tail(posted)
      BY <1>4 DEF RunPosted
    <3> HIDE DEF RendererTypeOK
    <3> QED BY <3>1, TailKeeps
  <2>2. /\ remote' = remote
        /\ \A i \in DOMAIN posted : posted[i] \in Handles
        /\ orphans \subseteq Handles
    BY <1>4 DEF handleVars
  <2>3. \A i \in DOMAIN posted' : posted'[i] # posted[1]
    <3> HIDE DEF RendererTypeOK
    <3> QED BY <2>1 DEF OwnerInv
  <2>4. CASE Show(Head(posted)) /\ UNCHANGED orphans
    <3>1. current' = posted[1] /\ table' = Closed(table, current)
      BY <2>1, <2>4 DEF Show
    <3>2. \A g \in Handles : table'[g] = IF g = current THEN 0 ELSE table[g]
      BY <3>1 DEF Closed
    <3> HIDE DEF RendererTypeOK
    <3>3. \A g \in orphans : /\ table'[g] # 0 /\ g # current' /\ g # remote
                             /\ \A i \in DOMAIN posted' : posted'[i] # g
      BY <2>1, <2>2, <3>1, <3>2 DEF LeakInv
    <3>4. \A g \in Handles : table'[g] # 0 =>
            g \in orphans \cup {current', remote} \/ \E i \in DOMAIN posted' : posted'[i] = g
      BY <2>1, <2>6, <3>1, <3>2 DEF LeakInv
    <3> QED BY <2>2, <2>4, <3>3, <3>4 DEF LeakInv
  <2>5. CASE orphans' = orphans \cup {posted[1]} /\ UNCHANGED <<table, current, shown>>
    <3> HIDE DEF RendererTypeOK
    <3>1. \A g \in orphans' : /\ table[g] # 0 /\ g # current /\ g # remote
                              /\ \A i \in DOMAIN posted' : posted'[i] # g
      BY <2>1, <2>3, <2>5 DEF LeakInv, OwnerInv
    <3>2. \A g \in Handles : table[g] # 0 =>
            g \in orphans' \cup {current, remote} \/ \E i \in DOMAIN posted' : posted'[i] = g
      BY <2>1, <2>5, <2>6 DEF LeakInv
    <3> QED BY <2>2, <2>5, <3>1, <3>2 DEF LeakInv
  <2> QED BY <1>4, <2>1, <2>4, <2>5 DEF RunPosted
<1>5. CASE SendSwapChainHandle
  <2>1. UNCHANGED <<posted, current, orphans>>
    <3> HIDE DEF RendererTypeOK
    <3> QED BY <1>5 DEF SendSwapChainHandle
  <2>2. CASE UNCHANGED <<table, local, remote>>
    BY <1>1, <2>1, <2>2 DEF tableVars
  <2>3. CASE /\ remote' \in Free /\ remote' # remote
             /\ table' = [g \in Handles |-> IF g = remote THEN 0
                                            ELSE IF g = remote' THEN local' ELSE table[g]]
    <3>1. /\ remote' \in Handles /\ table[remote'] = 0
          /\ \A g \in Handles : g # remote' => table'[g] = IF g = remote THEN 0 ELSE table[g]
      BY <2>3 DEF Free
    <3>2. orphans \subseteq Handles /\ remote' \notin orphans
      BY <3>1 DEF LeakInv
    <3>3. \A i \in DOMAIN posted : posted[i] \in Handles /\ posted[i] # remote'
      BY <3>1 DEF OwnerInv
    <3> HIDE DEF RendererTypeOK
    <3> QED BY <2>1, <3>1, <3>2, <3>3 DEF LeakInv
  <2> QED BY <1>5, <2>2, <2>3, Assigned
<1>6. CASE CloseSection
  BY <1>6 DEF CloseSection, Closed, LeakInv
<1> QED BY <1>1, <1>2, <1>3, <1>4, <1>5, <1>6, TableSteps

LEMMA AgeStep ==
  ASSUME RendererTypeOK, ChainInv, OwnerInv, SectionInv, AgeInv, Next
  PROVE  AgeInv'
<1> USE PanelAssumption, RendererAssumption DEF RendererTypeOK, Handle
<1>1. ASSUME UNCHANGED <<table, posted, local, shown>> PROVE AgeInv'
  BY <1>1 DEF AgeInv
<1>2. ASSUME StopFrees, UNCHANGED handleVars PROVE AgeInv'
  <2>1. \A i \in DOMAIN posted : table'[posted[i]] = table[posted[i]]
    BY <1>2 DEF StopFrees, Closed, OwnerInv
  <2>2. \A i \in DOMAIN posted : table[posted[i]] \in Nat
    OBVIOUS
  <2>3. shown' = 0 /\ local' = local /\ posted' = posted /\ local \in Nat
    BY <1>2 DEF handleVars, StopFrees
  <2> HIDE DEF RendererTypeOK
  <2>4. /\ \A i \in DOMAIN posted : shown' <= table[posted[i]]
        /\ shown' <= local
    BY <2>2, <2>3
  <2> QED BY <2>1, <2>3, <2>4 DEF AgeInv
<1>3. ASSUME ReadNew, UNCHANGED handleVars PROVE AgeInv'
  <2>1. PICK h \in Free : /\ table' = [table EXCEPT ![h] = local]
                          /\ posted' = Append(posted, h)
    BY <1>3, ReadNewSource
  <2>2. h \in Handles /\ table[h] = 0 /\ local # 0
    BY <1>3, ReadNewSource DEF Free
  <2>3. /\ \A i \in DOMAIN posted' : \/ i \in DOMAIN posted /\ posted'[i] = posted[i]
                                    \/ posted'[i] = h
        /\ \A i, j \in DOMAIN posted' : i < j =>
             /\ i \in DOMAIN posted /\ posted'[i] = posted[i]
             /\ (j \in DOMAIN posted /\ posted'[j] = posted[j]) \/ posted'[j] = h
    <3>1. posted \in Seq(Handles)
      OBVIOUS
    <3> HIDE DEF RendererTypeOK
    <3> QED BY <2>1, <2>2, <3>1, Appended
  <2>4. UNCHANGED <<shown, local>>
    BY <1>3 DEF ReadNew, handleVars
  <2>5. /\ table'[h] = local
        /\ \A i \in DOMAIN posted : table'[posted[i]] = table[posted[i]]
    BY <2>1, <2>2 DEF OwnerInv
  <2>6. local <= local
    OBVIOUS
  <2> HIDE DEF RendererTypeOK
  <2>7. \A i, j \in DOMAIN posted' : i < j => table'[posted'[i]] <= table'[posted'[j]]
    BY <2>2, <2>3, <2>5 DEF AgeInv
  <2>8. \A i \in DOMAIN posted' : shown' <= table'[posted'[i]] /\ table'[posted'[i]] <= local'
    BY <2>2, <2>3, <2>4, <2>5, <2>6 DEF AgeInv
  <2> QED BY <2>2, <2>4, <2>7, <2>8 DEF AgeInv
<1>4. ASSUME RunPosted, UNCHANGED handleVars PROVE AgeInv'
  <2>1. /\ \A i \in DOMAIN posted' : /\ i + 1 \in DOMAIN posted
                                     /\ posted'[i] = posted[i + 1]
                                     /\ 1 < i + 1
        /\ \A i, j \in DOMAIN posted' : i < j => i + 1 < j + 1
        /\ 1 \in DOMAIN posted /\ Head(posted) = posted[1]
    <3>1. posted \in Seq(Handles) /\ posted # <<>> /\ posted' = Tail(posted)
      BY <1>4 DEF RunPosted
    <3> HIDE DEF RendererTypeOK
    <3> QED BY <3>1, Tailed
  <2>2. local' = local
    BY <1>4 DEF handleVars
  <2>3. /\ \A i \in DOMAIN posted : table'[posted[i]] = table[posted[i]]
        /\ shown' = shown \/ shown' = table[posted[1]]
    <3>1. \A i \in DOMAIN posted : posted[i] \in Handles /\ posted[i] # current
      BY DEF OwnerInv
    <3>2. CASE Show(Head(posted))
      BY <2>1, <3>1, <3>2 DEF Show, Closed
    <3>3. CASE UNCHANGED <<table, current, shown>>
      BY <3>3
    <3> QED BY <1>4, <3>2, <3>3 DEF RunPosted
  <2> HIDE DEF RendererTypeOK
  <2>4. \A i, j \in DOMAIN posted' : i < j => table'[posted'[i]] <= table'[posted'[j]]
    BY <2>1, <2>3 DEF AgeInv
  <2>5. \A i \in DOMAIN posted' : /\ shown' <= table'[posted'[i]]
                                  /\ local # 0 => table'[posted'[i]] <= local
    BY <2>1, <2>3 DEF AgeInv
  <2> QED BY <2>1, <2>2, <2>3, <2>4, <2>5 DEF AgeInv
<1>5. CASE SendSwapChainHandle
  <2>1. UNCHANGED <<posted, shown>>
    BY <1>5 DEF SendSwapChainHandle
  <2>2. CASE UNCHANGED <<table, local, remote>>
    BY <1>1, <2>1, <2>2
  <2>3. CASE /\ remote' \in Free /\ local' = chains
             /\ table' = [g \in Handles |-> IF g = remote THEN 0
                                            ELSE IF g = remote' THEN local' ELSE table[g]]
    <3>1. \A i \in DOMAIN posted : table'[posted[i]] = table[posted[i]]
      BY <2>3 DEF OwnerInv, Free
    <3>2. /\ \A i \in DOMAIN posted : table[posted[i]] <= chains
          /\ shown <= chains
      BY DEF ChainInv
    <3>3. \A i, j \in DOMAIN posted : i < j => table'[posted[i]] <= table'[posted[j]]
      BY <3>1 DEF AgeInv
    <3> HIDE DEF RendererTypeOK
    <3>4. \A i \in DOMAIN posted : /\ shown <= table'[posted[i]]
                                   /\ table'[posted[i]] <= local'
      BY <2>3, <3>1, <3>2 DEF AgeInv
    <3> QED BY <2>1, <2>3, <3>2, <3>3, <3>4 DEF AgeInv
  <2> QED BY <1>5, <2>2, <2>3, Assigned
<1>6. CASE CloseSection
  <2>1. \A i \in DOMAIN posted : table'[posted[i]] = table[posted[i]]
    BY <1>6 DEF CloseSection, Closed, OwnerInv
  <2> QED BY <1>6, <2>1 DEF CloseSection, AgeInv
<1>7. \/ UNCHANGED <<table, posted, local>>
      \/ StopFrees /\ UNCHANGED handleVars
      \/ ReadNew /\ UNCHANGED handleVars
      \/ RunPosted /\ UNCHANGED handleVars
      \/ SendSwapChainHandle
      \/ CloseSection
  BY TableSteps DEF tableVars
<1> HIDE DEF RendererTypeOK
<1> QED BY <1>1, <1>2, <1>3, <1>4, <1>5, <1>6, <1>7, ShownSteps

-----------------------------------------------------------------------------
(* The engine's swap chains, the threads, and what goes wrong. *)

\* What the panel's steps leave to the renderer, and those of the filter to both.
LEMMA PanelLeaves ==
  ASSUME PanelStep
  PROVE  UNCHANGED <<renderer, connected, restart, engineOn, causes, feed, frame,
                     panelSize, drawn, engine, chain, chains, sending, local, remote, again>>
  BY DEF PanelStep, closeVars, engineVars, handleVars

LEMMA ChainStep ==
  ASSUME RendererTypeOK, ChainInv, OwnerInv, SectionInv, Next
  PROVE  ChainInv'
<1> USE PanelAssumption, RendererAssumption
<1>t. \A h \in Handles : table'[h] <= chains
  <2> USE DEF RendererTypeOK
  <2>1. CASE UNCHANGED tableVars
    BY <2>1 DEF tableVars, ChainInv
  <2>2. CASE StopFrees
    BY <2>2 DEF StopFrees, Closed, ChainInv
  <2>3. CASE ReadNew
    <3>1. PICK h \in Free : table' = [table EXCEPT ![h] = local]
      BY <2>3, ReadNewSource
    <3>2. local <= chains /\ h \in Handles
      BY DEF Free
    <3> QED BY <3>1, <3>2 DEF ChainInv
  <2>4. CASE RunPosted
    <3>1. CASE UNCHANGED table
      BY <3>1 DEF ChainInv
    <3>2. CASE table' = Closed(table, current)
      BY <3>2 DEF Closed, ChainInv
    <3> QED BY <2>4, <3>1, <3>2 DEF RunPosted, Show
  <2>5. CASE SendSwapChainHandle
    <3>1. chains <= chains /\ 0 <= chains
      OBVIOUS
    <3>2. CASE UNCHANGED table
      BY <3>2 DEF ChainInv
    <3>3. CASE /\ local' = chains
               /\ table' = [g \in Handles |-> IF g = remote THEN 0
                                              ELSE IF g = remote' THEN local' ELSE table[g]]
      BY <3>1, <3>3 DEF ChainInv
    <3> QED BY <2>5, <3>2, <3>3, Assigned
  <2>6. CASE CloseSection
    BY <2>6 DEF CloseSection, Closed, ChainInv
  <2> QED BY <2>1, <2>2, <2>3, <2>4, <2>5, <2>6, TableSteps
<1>e. ASSUME /\ UNCHANGED chains
             /\ chain' \in {0, chains}
             /\ engine' = "raised" => chain' # 0
             /\ engine' = "sending" => sending' = chains /\ chains # 0
      PROVE  ChainInv'
  BY <1>t, <1>e DEF ChainInv
<1>1. CASE PanelStep
  BY <1>1, <1>e, PanelLeaves DEF ChainInv
<1>2. CASE FilterNext
  BY <1>2, <1>e DEF ChainInv, FilterNext, engineVars, StartRenderer, SetSwapChainPanel,
     SetSwapChainPanelFails, StartSucceeds, StartFails, Stop, CloseEngine,
     CloseSection, FeedBegins, DeviceLost, FeedCompares, CopyWidth, CopyHeight,
     UpdateVideoStream
<1>3. CASE EngineEvent
  <2>1. /\ chains \in Nat /\ chains' \in Nat /\ chains <= chains'
        /\ chain' \in {0, chains'} /\ chain' # 0 /\ engine' = "raised"
    BY <1>3 DEF EngineEvent, ChainInv, RendererTypeOK
  <2>2. \A h \in Handles : table'[h] \in Nat
    BY <1>3 DEF EngineEvent, panelVars, RendererTypeOK
  <2>3. \A h \in Handles : table'[h] <= chains'
    BY <1>t, <2>1, <2>2
  <2> QED BY <2>1, <2>3 DEF ChainInv
<1>4. CASE OnMediaEngineEvent
  BY <1>4, <1>e DEF ChainInv, OnMediaEngineEvent
<1>5. CASE PlayFails \/ SendErrorEvent \/ SendSwapChainHandle \/ SendReturns
           \/ OrphanReturns \/ EngineDies
  BY <1>5, <1>e DEF ChainInv, PlayFails, SendErrorEvent, SendSwapChainHandle,
     SendReturns, OrphanReturns, EngineDies
<1> QED BY <1>1, <1>2, <1>3, <1>4, <1>5 DEF Next, EngineNext

LEMMA ThreadStep ==
  ASSUME RendererTypeOK, ThreadInv, Next
  PROVE  ThreadInv'
<1>u. ASSUME UNCHANGED <<ui, thread, signalled>> PROVE ThreadInv'
  BY <1>u DEF ThreadInv
<1>w. ASSUME Wait, ui \notin {"stopped", "lost"}, UNCHANGED ui PROVE ThreadInv'
  BY <1>w DEF ThreadInv, Wait
<1>s. ASSUME SignalAvailable, UNCHANGED ui PROVE ThreadInv'
  BY <1>s DEF ThreadInv, SignalAvailable
<1>1. CASE PanelStep
  <2>1. CASE ThreadBegins \/ ReadKnown \/ ReadNew
    BY <1>w, <2>1 DEF ThreadInv, ThreadBegins, ReadKnown, ReadNew, At
  <2>2. CASE Start \/ StopSignals \/ StopFrees \/ Resize \/ ResizeWidth \/ ResizeHeight
    BY <2>2 DEF ThreadInv, Start, StopSignals, StopFrees, Resize, ResizeWidth, ResizeHeight
  <2>3. CASE ThreadLocks \/ ReadError \/ DuplicateFails \/ RunPosted
    BY <2>3 DEF ThreadInv, At, ThreadLocks, ReadError, DuplicateFails, RunPosted
  <2> QED BY <1>1, <2>1, <2>2, <2>3 DEF PanelStep, PanelNext
<1>2. CASE FilterNext
  BY <1>2, <1>u, <1>s DEF FilterNext, panelVars, StartRenderer, SetSwapChainPanel,
     SetSwapChainPanelFails, StartSucceeds, StartFails, Stop, CloseEngine,
     CloseSection, FeedBegins, DeviceLost, FeedCompares, CopyWidth, CopyHeight,
     UpdateVideoStream
<1>3. CASE EngineNext
  BY <1>3, <1>u, <1>s DEF EngineNext, panelVars, EngineEvent, OnMediaEngineEvent,
     PlayFails, SendErrorEvent, SendSwapChainHandle, SendReturns, OrphanReturns, EngineDies
<1> QED BY <1>1, <1>2, <1>3 DEF Next

LEMMA SectionStep ==
  ASSUME RendererTypeOK, RendererTypeOK', ChainInv, OwnerInv, SectionInv, Next
  PROVE  SectionInv'
<1> USE PanelAssumption, RendererAssumption
<1>k. \* Handles are closed, and the rest of the invariant is left alone.
      ASSUME UNCHANGED <<section, remote, renderer, mapped>>,
             \A h \in Handles : table'[h] # 0 => table[h] # 0,
             last' \in {last, section.swapChain}
      PROVE  SectionInv'
  BY <1>k DEF SectionInv, RendererTypeOK, Handle
<1>n. \* Only the state of the renderer changes.
      ASSUME UNCHANGED <<remote, table, last>>, section'.swapChain = section.swapChain,
             renderer # "dead",
             remote # NoHandle /\ renderer' # "dead" => mapped',
             renderer' \in {"closed", "opening"} => ~mapped' /\ remote = NoHandle
      PROVE  SectionInv'
  BY <1>n DEF SectionInv
<1>1. CASE PanelStep
  <2>0. UNCHANGED <<renderer, remote>>
    BY <1>1, PanelLeaves
  <2>1. CASE Start
    <3>1. section'.swapChain = IF mapped THEN section.swapChain ELSE NoHandle
      BY <2>1, StartWrites, Types
    <3> QED BY <2>0, <2>1, <3>1 DEF SectionInv, Start
  <2>2. CASE StopFrees
    BY <1>k, <2>0, <2>2 DEF StopFrees, Closed
  <2>3. CASE ReadNew
    <3>1. PICK h \in Free : table' = [table EXCEPT ![h] = local]
      BY <2>3, ReadNewSource
    <3>2. /\ section.swapChain = remote /\ UNCHANGED <<section, mapped>>
          /\ last' = section.swapChain
      BY <2>3, ReadNewSource DEF ReadNew
    <3> QED BY <2>0, <3>1, <3>2 DEF SectionInv
  <2>4. CASE RunPosted
    BY <1>k, <2>0, <2>4 DEF RunPosted, Show, Closed
  <2>5. CASE ResizeWidth \/ ResizeHeight
    <3>1. /\ UNCHANGED <<mapped, table, last>>
          /\ section'.swapChain = section.swapChain
      BY <2>5 DEF ResizeWidth, ResizeHeight, RendererTypeOK
    <3> QED BY <2>0, <3>1 DEF SectionInv
  <2>6. CASE StopSignals \/ Resize \/ ThreadBegins \/ ThreadLocks \/ ReadError
             \/ ReadKnown \/ DuplicateFails
    BY <1>k, <2>0, <2>6 DEF StopSignals, Resize, ThreadBegins, ThreadLocks, ReadError,
       ReadKnown, DuplicateFails
  <2> QED BY <1>1, <2>1, <2>2, <2>3, <2>4, <2>5, <2>6 DEF PanelStep, PanelNext
<1>2. CASE CloseSection
  BY <1>2 DEF CloseSection, Closed, SectionInv, OwnerInv, RendererTypeOK, Handle
<1>3. CASE StartFails
  <2>1. section'.swapChain = section.swapChain
    BY <1>3 DEF StartFails, RendererTypeOK
  <2>2. UNCHANGED <<remote, table, last>> /\ renderer = "starting"
    BY <1>3 DEF StartFails, handleVars
  <2>3. remote # NoHandle => mapped
    BY <2>2 DEF SectionInv
  <2>4. /\ renderer' \notin {"closed", "opening"}
        /\ remote # NoHandle /\ renderer' # "dead" => mapped'
    <3>1. CASE restart = "feed"
      BY <1>3, <2>3, <3>1 DEF StartFails, Die
    <3>2. CASE restart # "feed"
      BY <1>3, <2>3, <3>2 DEF StartFails
    <3> QED BY <3>1, <3>2
  <2> QED BY <1>n, <2>1, <2>2, <2>4
<1>4. CASE StartRenderer \/ SetSwapChainPanel \/ SetSwapChainPanelFails
           \/ StartSucceeds \/ Stop \/ CloseEngine \/ DeviceLost
  BY <1>4, <1>n DEF SectionInv, Die, panelVars, handleVars, StartRenderer,
     SetSwapChainPanel, SetSwapChainPanelFails, StartSucceeds, Stop, CloseEngine, DeviceLost
<1>9. CASE FeedBegins \/ FeedCompares \/ CopyWidth \/ CopyHeight \/ UpdateVideoStream
  BY <1>9 DEF SectionInv, panelVars, closeVars, handleVars, FeedBegins, FeedCompares,
     CopyWidth, CopyHeight, UpdateVideoStream
<1>5. CASE SendSwapChainHandle
  <2>1. remote' \in Handles /\ section'.swapChain = remote'
    BY <1>5, Assigned DEF SendSwapChainHandle, Free, RendererTypeOK
  <2>2. /\ UNCHANGED <<mapped, renderer, last>>
        /\ mapped
    BY <1>5 DEF SendSwapChainHandle, closeVars
  <2> QED BY <2>1, <2>2 DEF SectionInv
<1>6. CASE EngineDies
  BY <1>6 DEF EngineDies, Die, handleVars, SectionInv
<1>7. CASE SendErrorEvent
  <2>1. section'.swapChain = section.swapChain
    BY <1>7 DEF SendErrorEvent, RendererTypeOK
  <2> QED BY <1>7, <2>1 DEF SendErrorEvent, closeVars, handleVars, SectionInv
<1>8. CASE EngineEvent \/ OnMediaEngineEvent \/ PlayFails \/ SendReturns \/ OrphanReturns
  BY <1>8 DEF SectionInv, panelVars, closeVars, handleVars, EngineEvent,
     OnMediaEngineEvent, PlayFails, SendReturns, OrphanReturns
<1> QED
  BY <1>1, <1>2, <1>3, <1>4, <1>5, <1>6, <1>7, <1>8, <1>9 DEF Next, FilterNext, EngineNext

\* A cause stays one.
LEMMA CausesGrow ==
  ASSUME Next
  PROVE  causes \subseteq causes'
<1> USE DEF panelVars, closeVars
<1>1. CASE PanelStep
  BY <1>1, PanelLeaves
<1>2. CASE FilterNext
  BY <1>2 DEF FilterNext, StartRenderer, SetSwapChainPanel, SetSwapChainPanelFails,
     StartSucceeds, StartFails, Stop, CloseEngine, CloseSection, FeedBegins, DeviceLost,
     FeedCompares, CopyWidth, CopyHeight, UpdateVideoStream
<1>3. CASE EngineNext
  BY <1>3 DEF EngineNext, EngineEvent, OnMediaEngineEvent, PlayFails, SendErrorEvent,
     SendSwapChainHandle, SendReturns, OrphanReturns, EngineDies
<1> QED BY <1>1, <1>2, <1>3 DEF Next

LEMMA HarmStep ==
  ASSUME RendererTypeOK, HarmInv, Next
  PROVE  HarmInv'
<1>g. causes \subseteq causes'
  BY CausesGrow
<1>k. \* The renderer, its events and the mutex stay as they are.
      ASSUME UNCHANGED <<renderer, engine, connected, mapped>>,
             lock' # "engine" \/ (lock' = lock /\ session' = session)
      PROVE  HarmInv'
  BY <1>g, <1>k DEF HarmInv, SameSession
<1>1. CASE PanelStep
  <2>0. UNCHANGED <<renderer, engine, connected>>
    BY <1>1, PanelLeaves
  <2>1. CASE Start \/ StopSignals \/ StopFrees \/ Resize \/ ResizeWidth \/ ResizeHeight
    BY <1>k, <2>0, <2>1 DEF Start, StopSignals, StopFrees, Resize, ResizeWidth, ResizeHeight
  <2>2. CASE ThreadBegins \/ ThreadLocks \/ ReadError \/ ReadKnown \/ ReadNew
             \/ DuplicateFails \/ RunPosted
    BY <1>k, <2>0, <2>2 DEF ThreadBegins, ThreadLocks, ReadError, ReadKnown, ReadNew,
       DuplicateFails, RunPosted
  <2> QED BY <1>1, <2>1, <2>2 DEF PanelStep, PanelNext
<1>2. CASE CloseEngine
  <2>1. /\ renderer = "closing" /\ renderer' = "closed_engine"
        /\ causes' = causes \cup (LateEvents \cap {engine})
        /\ engine' = IF engine = "raised" THEN "stray" ELSE engine
        /\ UNCHANGED <<lock, mapped, connected, session>>
    BY <1>2 DEF CloseEngine, panelVars
  <2>2. /\ engine' = "stray" => "raised" \in causes'
        /\ engine' = "sending" => "sending" \in causes'
        /\ engine' = "sent" => "sent" \in causes'
        /\ engine' # "raised"
    BY <2>1 DEF HarmInv, LateEvents
  <2> QED BY <1>g, <2>1, <2>2 DEF HarmInv, SameSession
<1>3. CASE StartFails
  <2>1. /\ renderer = "starting" /\ UNCHANGED <<engine, connected, session>>
        /\ \/ renderer' \in {"running", "failed"} /\ UNCHANGED <<mapped, lock>>
           \/ Die /\ "restart" \in causes'
    BY <1>3 DEF StartFails, engineVars
  <2>2. CASE renderer' \in {"running", "failed"} /\ UNCHANGED <<mapped, lock>>
    BY <1>g, <2>1, <2>2 DEF HarmInv, SameSession
  <2>3. CASE Die /\ "restart" \in causes'
    BY <1>g, <2>1, <2>3 DEF HarmInv, SameSession, Die
  <2> QED BY <2>1, <2>2, <2>3
<1>4. CASE SetSwapChainPanelFails
  <2>1. /\ renderer = "opening" /\ UNCHANGED <<engine, connected, session>>
        /\ Die /\ "connect" \in causes'
    BY <1>4 DEF SetSwapChainPanelFails, engineVars
  <2> QED BY <1>g, <2>1 DEF HarmInv, SameSession, Die
<1>5. CASE CloseSection
  <2>1. /\ renderer = "closed_engine" /\ renderer' \in {"closed", "opening"}
        /\ engine' = IF engine = "sent" THEN "orphan" ELSE engine
        /\ UNCHANGED lock
    BY <1>5 DEF CloseSection
  <2> QED BY <1>g, <2>1 DEF HarmInv
<1>6. CASE SetSwapChainPanel
  <2>1. /\ renderer = "opening" /\ renderer' = "starting" /\ mapped'
        /\ connected' = session /\ UNCHANGED <<engine, lock, session>>
    BY <1>6 DEF SetSwapChainPanel, engineVars
  <2> QED BY <1>g, <2>1 DEF HarmInv, SameSession
<1>7. CASE StartRenderer \/ StartSucceeds \/ Stop \/ DeviceLost
  BY <1>7, <1>g DEF HarmInv, SameSession, panelVars, engineVars, StartRenderer,
     StartSucceeds, Stop, DeviceLost
<1>8. CASE FeedBegins \/ FeedCompares \/ CopyWidth \/ CopyHeight \/ UpdateVideoStream
  BY <1>8, <1>k DEF panelVars, closeVars, engineVars, FeedBegins, FeedCompares,
     CopyWidth, CopyHeight, UpdateVideoStream
<1>9. CASE EngineEvent \/ OnMediaEngineEvent \/ PlayFails \/ SendErrorEvent
           \/ OrphanReturns
  BY <1>9, <1>g DEF HarmInv, SameSession, panelVars, closeVars, EngineEvent,
     OnMediaEngineEvent, PlayFails, SendErrorEvent, OrphanReturns
<1>10. CASE SendSwapChainHandle
  <2>1. /\ engine = "sending" /\ engine' = "sent"
        /\ lock' = IF SameSession THEN "engine" ELSE lock
        /\ UNCHANGED <<renderer, connected, session, mapped>>
    BY <1>10 DEF SendSwapChainHandle, closeVars
  <2> QED BY <1>g, <2>1 DEF HarmInv, SameSession
<1>11. CASE SendReturns
  <2>1. /\ engine = "sent" /\ engine' = "idle"
        /\ lock' = IF SameSession /\ lock = "engine" THEN "free" ELSE lock
        /\ UNCHANGED <<renderer, connected, session, mapped>>
    BY <1>11 DEF SendReturns, Release, closeVars
  <2> QED BY <1>g, <2>1 DEF HarmInv
<1>12. CASE EngineDies
  <2>1. causes' \cap {"raised", "sending", "duplicate"} # {}
    <3>1. CASE engine = "stray"
      BY <1>g, <3>1 DEF HarmInv
    <3>2. CASE engine = "sending" /\ ~mapped
      BY <1>g, <3>2 DEF HarmInv
    <3>3. CASE causes' = causes \cup {"duplicate"}
      BY <3>3
    <3> QED BY <1>12, <3>1, <3>2, <3>3 DEF EngineDies
  <2>2. renderer' = "dead" /\ engine' = "idle" /\ lock' # "engine"
    BY <1>12 DEF EngineDies, Die
  <2> QED BY <2>1, <2>2 DEF HarmInv
<1> QED
  BY <1>1, <1>2, <1>3, <1>4, <1>5, <1>6, <1>7, <1>8, <1>9, <1>10, <1>11, <1>12
  DEF Next, FilterNext, EngineNext

-----------------------------------------------------------------------------
(* The size of the panel. *)

LEMMA SizeStep ==
  ASSUME RendererTypeOK, SizeInv, Next
  PROVE  SizeInv'
<1>1. CASE PanelStep
  <2>0. UNCHANGED <<renderer, feed, frame, panelSize, drawn>>
    BY <1>1, PanelLeaves
  <2>1. CASE seen' = "no"
    BY <2>0, <2>1 DEF SizeInv
  <2>2. CASE seen' = seen /\ Size' = Size
    <3>1. section'.width = section.width
      BY <2>2 DEF Size
    <3> QED BY <2>0, <2>2, <3>1 DEF SizeInv
  <2> QED BY <1>1, <2>1, <2>2 DEF PanelStep, Size
<1>2. ASSUME /\ UNCHANGED <<seen, feed, frame, panelSize, drawn>>
             /\ section'.width = section.width /\ section'.height = section.height
             /\ renderer' \in {renderer, "dead"}
      PROVE  SizeInv'
  BY <1>2 DEF SizeInv, Size
<1>3. CASE EngineNext
  BY <1>2, <1>3 DEF EngineNext, filterVars, closeVars, panelVars, RendererTypeOK, EngineEvent,
     OnMediaEngineEvent, PlayFails, SendErrorEvent, SendSwapChainHandle, SendReturns,
     OrphanReturns, EngineDies, Die
<1>4. CASE StartRenderer \/ SetSwapChainPanel \/ SetSwapChainPanelFails \/ StartSucceeds
           \/ Stop \/ CloseEngine \/ CloseSection \/ DeviceLost
  BY <1>4 DEF SizeInv, Size, Die, filterVars, panelVars, StartRenderer, SetSwapChainPanel,
     SetSwapChainPanelFails, StartSucceeds, Resume, Stop, CloseEngine, CloseSection, DeviceLost
<1>5. CASE StartFails
  BY <1>5 DEF StartFails, Die, Resume, RendererTypeOK, SizeInv, Size
<1>6. CASE FeedBegins \/ FeedCompares \/ UpdateVideoStream
  BY <1>6 DEF SizeInv, Size, panelVars, closeVars, FeedBegins, FeedCompares, FeedDone,
     PanelChanged, UpdateVideoStream
<1>7. CASE CopyWidth
  <2>1. panelSize' = <<section.width, panelSize[2]>> /\ panelSize = <<panelSize[1], panelSize[2]>>
    <3>1. panelSize \in Sizes \X Sizes
      BY DEF RendererTypeOK
    <3> QED BY <1>7, <3>1 DEF CopyWidth
  <2> QED BY <1>7, <2>1 DEF CopyWidth, SizeInv, Size, panelVars, closeVars
<1>8. CASE CopyHeight
  <2>1. panelSize' = <<panelSize[1], section.height>> /\ panelSize = <<panelSize[1], panelSize[2]>>
    <3>1. panelSize \in Sizes \X Sizes
      BY DEF RendererTypeOK
    <3> QED BY <1>8, <3>1 DEF CopyHeight
  <2> QED BY <1>8, <2>1 DEF CopyHeight, SizeInv, Size, panelVars, closeVars
<1> QED BY <1>1, <1>3, <1>4, <1>5, <1>6, <1>7, <1>8 DEF Next, FilterNext

-----------------------------------------------------------------------------
(* What was sent reaches the panel. *)

\* The handler posted last shows the renderer's swap chain, or it is shown.
Delivered ==
  IF posted = <<>> THEN shown = local
                   ELSE table[posted[Len(posted)]] = local

\* The thread will read the section.
Told == signalled \/ thread \in {"woken", "reading"}

LEMMA SentEquals ==
  SentInv <=> (Connected => IF section.swapChain = last THEN Delivered ELSE Told)
  BY DEF SentInv, Delivered, Told

\* A step that changes neither the numbers nor the posted handlers, and loses no
\* signal.
LEMMA SentKept ==
  ASSUME SentInv, Connected' => Connected,
         UNCHANGED <<last, posted, table, shown, local>>,
         section'.swapChain = section.swapChain,
         Connected' /\ Told => Told'
  PROVE  SentInv'
<1>1. Delivered' <=> Delivered
  BY DEF Delivered
<1>2. SentInv' <=> (Connected' => IF section'.swapChain = last' THEN Delivered' ELSE Told')
  BY SentEquals DEF SentInv, Delivered, Told
<1> QED BY <1>1, <1>2, SentEquals

LEMMA SentPanelStep ==
  ASSUME RendererTypeOK, RendererTypeOK', ChainInv, OwnerInv, SectionInv, ThreadInv, SentInv,
         PanelStep
  PROVE  SentInv'
<1> USE PanelAssumption
<1>0. UNCHANGED <<renderer, connected, local, remote, again>>
  BY PanelLeaves
<1>v. ASSUME ~Connected' PROVE SentInv'
  BY <1>v DEF SentInv
<1>c. ASSUME session' = session, thread # "ended", ui # "lost" PROVE Connected' => Connected
  BY <1>0, <1>c DEF Connected, SameSession
<1>1. CASE Start
  <2>1. ~SameSession'
    BY <1>0, <1>1 DEF Start, SameSession, RendererTypeOK
  <2> QED BY <1>v, <2>1 DEF Connected
<1>2. CASE StopFrees
  BY <1>2, <1>v DEF StopFrees, Connected
<1>3. CASE ReadError \/ DuplicateFails
  BY <1>3, <1>v DEF ReadError, DuplicateFails, Connected
<1>4. CASE StopSignals \/ Resize \/ ResizeWidth \/ ResizeHeight
  <2>1. /\ UNCHANGED <<session, signalled, last, posted, table, shown>>
        /\ section'.swapChain = section.swapChain
        /\ ui # "lost"
        /\ thread' \in {thread, "ended"}
    BY <1>4 DEF StopSignals, Resize, ResizeWidth, ResizeHeight, RendererTypeOK
  <2>2. Connected' => thread' = thread /\ thread # "ended"
    BY <2>1 DEF Connected
  <2>3. Connected' => Connected
    BY <1>c, <2>1, <2>2
  <2> QED BY <1>0, <2>1, <2>2, <2>3, SentKept DEF Told
<1>5. CASE ThreadBegins \/ ThreadLocks
  <2>1. /\ UNCHANGED <<session, ui, last, posted, table, shown, section>>
        /\ ui # "lost" /\ thread # "ended"
    BY <1>5 DEF ThreadBegins, ThreadLocks, At
  <2>2. Connected' /\ Told => Told'
    BY <1>5 DEF ThreadBegins, ThreadLocks, At, Wait, Told, Connected
  <2> QED BY <1>0, <1>c, <2>1, <2>2, SentKept
<1>6. CASE ReadKnown
  <2>1. /\ UNCHANGED <<session, ui, last, posted, table, shown, section>>
        /\ ui # "lost" /\ thread # "ended" /\ section.swapChain = last
    BY <1>6 DEF ReadKnown, At
  <2> QED BY <1>0, <1>c, <2>1 DEF SentInv
<1>7. CASE ReadNew
  <2>1. PICK h \in Free : /\ table' = [table EXCEPT ![h] = local]
                          /\ posted' = Append(posted, h)
    BY <1>7, ReadNewSource
  <2>2. h \in Handles /\ posted \in Seq(Handles) /\ table \in [Handles -> 0 .. MaxSwapChains]
    BY DEF Free, RendererTypeOK
  <2>3. posted' # <<>> /\ posted'[Len(posted')] = h
    <3>1. posted \in Seq(Handles) /\ h \in Handles /\ posted' = Append(posted, h)
      BY <2>1, <2>2
    <3> QED BY <3>1
  <2>4. table'[h] = local
    BY <2>1, <2>2
  <2>5. section'.swapChain = last'
    BY <1>7 DEF ReadNew
  <2>6. local' = local
    BY <1>0
  <2> QED BY <2>3, <2>4, <2>5, <2>6 DEF SentInv
<1>8. CASE RunPosted
  <2>1. CASE ui = "stopped"
    BY <1>8, <1>v, <2>1 DEF RunPosted, ThreadInv, Connected
  <2>2. CASE ui = "idle" /\ Show(Head(posted))
    <3>1. /\ UNCHANGED <<session, ui, thread, signalled, last, section>>
          /\ posted \in Seq(Handles) /\ posted # <<>> /\ posted' = Tail(posted)
      BY <1>8 DEF RunPosted, RendererTypeOK
    <3>2. /\ \A i \in DOMAIN posted' : i + 1 \in DOMAIN posted /\ posted'[i] = posted[i + 1]
          /\ 1 \in DOMAIN posted /\ Head(posted) = posted[1]
          /\ IF posted' = <<>> THEN posted[Len(posted)] = posted[1]
                               ELSE posted'[Len(posted')] = posted[Len(posted)]
      BY <3>1, Tailed
    <3>3. Len(posted) \in DOMAIN posted /\ posted[Len(posted)] \in Handles
      BY <3>1
    <3>4. table'[posted[Len(posted)]] = table[posted[Len(posted)]]
      BY <2>2, <3>3 DEF Show, Closed, OwnerInv
    <3>5. shown' = table[posted[1]]
      BY <2>2, <3>2 DEF Show
    <3>6. Connected' => Connected
      BY <1>0, <3>1 DEF Connected, SameSession
    <3>7. section' = section /\ last' = last /\ local' = local
      BY <1>0, <3>1
    <3> QED BY <3>1, <3>2, <3>4, <3>5, <3>6, <3>7 DEF SentInv
  <2> QED BY <1>8, <2>1, <2>2 DEF RunPosted
<1> QED BY <1>1, <1>2, <1>3, <1>4, <1>5, <1>6, <1>7, <1>8 DEF PanelStep, PanelNext

LEMMA SentStep ==
  ASSUME RendererTypeOK, RendererTypeOK', ChainInv, OwnerInv, SectionInv, ThreadInv, SentInv,
         Next
  PROVE  SentInv'
<1> USE PanelAssumption
<1>v. ASSUME ~Connected' PROVE SentInv'
  BY <1>v DEF SentInv
<1>k. ASSUME renderer' # "dead" => renderer # "dead" /\ UNCHANGED connected,
             UNCHANGED <<ui, session, last, posted, table, shown, local, again>>,
             section'.swapChain = section.swapChain,
             SignalAvailable \/ UNCHANGED <<thread, signalled>>
      PROVE  SentInv'
  <2>1. /\ thread' = thread \/ (thread = "waiting" /\ thread' = "woken")
        /\ signalled => signalled'
    BY <1>k DEF SignalAvailable, RendererTypeOK
  <2>2. Connected' => Connected
    BY <1>k, <2>1 DEF Connected, SameSession
  <2>3. Told => Told'
    BY <2>1 DEF Told
  <2> QED BY <1>k, <2>2, <2>3, SentKept
<1>1. CASE PanelStep
  BY <1>1, SentPanelStep
<1>2. CASE SetSwapChainPanel \/ CloseSection
  <2>1. local' = 0
    BY <1>2 DEF SetSwapChainPanel, CloseSection, SectionInv, OwnerInv, handleVars
  <2> QED BY <1>v, <2>1 DEF Connected
<1>3. CASE StartFails
  <2>1. section'.swapChain = section.swapChain
    BY <1>3 DEF StartFails, RendererTypeOK
  <2>2. renderer' # "dead" => renderer # "dead"
    BY <1>3 DEF StartFails
  <2> QED BY <1>3, <1>k, <2>1, <2>2 DEF StartFails, handleVars
<1>4. CASE StartRenderer \/ SetSwapChainPanelFails \/ StartSucceeds \/ Stop \/ CloseEngine
           \/ DeviceLost
  BY <1>4, <1>k DEF Die, panelVars, handleVars, StartRenderer, SetSwapChainPanelFails,
     StartSucceeds, Stop, CloseEngine, DeviceLost
<1>5. CASE FeedBegins \/ FeedCompares \/ CopyWidth \/ CopyHeight \/ UpdateVideoStream
  BY <1>5, <1>k DEF panelVars, closeVars, handleVars, FeedBegins, FeedCompares, CopyWidth,
     CopyHeight, UpdateVideoStream
<1>6. CASE SendErrorEvent
  <2>1. section'.swapChain = section.swapChain
    BY <1>6 DEF SendErrorEvent, RendererTypeOK
  <2> QED BY <1>6, <1>k, <2>1 DEF SendErrorEvent, closeVars, handleVars
<1>7. CASE EngineEvent \/ OnMediaEngineEvent \/ PlayFails \/ SendReturns \/ OrphanReturns
  BY <1>7, <1>k DEF panelVars, closeVars, handleVars, EngineEvent, OnMediaEngineEvent,
     PlayFails, SendReturns, OrphanReturns
<1>8. CASE EngineDies
  BY <1>8, <1>v DEF EngineDies, Die, Connected
<1>9. CASE SendSwapChainHandle
  <2>0. UNCHANGED <<renderer, connected, session, ui, last, posted, shown>> /\ renderer # "dead"
    BY <1>9 DEF SendSwapChainHandle, closeVars
  <2>1. CASE remote \in Handles /\ UNCHANGED <<table, local, remote>>
    <3>1. section.swapChain = remote /\ remote # NoHandle
      BY <2>0, <2>1 DEF SectionInv
    <3>2. UNCHANGED <<section, signalled, thread, again>>
      BY <1>9, <2>1, <3>1 DEF SendSwapChainHandle
    <3> QED BY <1>k, <2>0, <2>1, <3>2
  <2>2. CASE remote' # remote
    <3>1. SUFFICES ASSUME Connected' PROVE SentInv'
      BY <1>v
    <3>2. again' = (remote' \in {section.swapChain, last})
      BY <1>9, <2>2 DEF SendSwapChainHandle
    <3>3. remote' \notin {section.swapChain, last}
      BY <3>1, <3>2 DEF Connected
    <3>4. section'.swapChain = remote' /\ SignalAvailable
      BY <1>9, <3>3 DEF SendSwapChainHandle, RendererTypeOK
    <3>5. SameSession
      BY <2>0, <3>1 DEF Connected, SameSession
    <3>6. signalled' \/ thread' = "woken"
      BY <3>4, <3>5 DEF SignalAvailable
    <3> QED BY <2>0, <3>3, <3>4, <3>6 DEF SentInv
  <2> QED BY <1>9, <2>1, <2>2, Assigned
<1> QED
  BY <1>1, <1>2, <1>3, <1>4, <1>5, <1>6, <1>7, <1>8, <1>9 DEF Next, FilterNext, EngineNext

-----------------------------------------------------------------------------
(* The invariant holds, and the properties follow. *)

LEMMA TypeStep ==
  ASSUME RendererTypeOK, ChainInv, SectionInv, Next
  PROVE  RendererTypeOK'
<1>1. PanelTypes /\ RestTypes
  BY Types
<1>2. PanelTypes' /\ RestTypes'
  BY <1>1, PanelStepTypeOK, FilterNextTypeOK, EngineNextTypeOK DEF Next
<1> QED BY <1>2 DEF RendererTypeOK, PanelTypes, RestTypes, Sections

LEMMA InitRInv == Init => RInv
<1> SUFFICES ASSUME Init PROVE RInv
  OBVIOUS
<1> USE PanelAssumption, RendererAssumption DEF Init, PanelInit, Empty
<1>1. PanelTypes
  <2>1. section \in Sections
    BY DEF Sections, Sizes, Handle
  <2>2. table \in [Handles -> 0 .. MaxSwapChains]
    BY DEF Sizes
  <2>3. shown \in 0 .. chains /\ sizes \in Sizes /\ failures \in 0 .. MaxFailures
        /\ session \in 0 .. MaxSessions
    BY DEF Sizes
  <2>4. posted \in Seq(Handles)
    OBVIOUS
  <2> QED BY <2>1, <2>2, <2>3, <2>4 DEF PanelTypes, Handle
<1>2. RestTypes
  <2>1. drawn \in (FrameSizes \cup {0}) \X (Sizes \X Sizes) /\ panelSize \in Sizes \X Sizes
    BY DEF Sizes
  <2>2. /\ chains \in 0 .. MaxSwapChains /\ chain \in 0 .. chains
        /\ sending \in 0 .. chains /\ local \in 0 .. chains
        /\ connected \in 0 .. session
    OBVIOUS
  <2> QED BY <2>1, <2>2 DEF RestTypes, Handle
<1>3. ChainInv /\ OwnerInv /\ LeakInv /\ SectionInv /\ AgeInv
  BY DEF ChainInv, OwnerInv, LeakInv, SectionInv, AgeInv
<1>4. ThreadInv /\ SentInv /\ SizeInv /\ HarmInv
  BY DEF ThreadInv, SentInv, Connected, SizeInv, HarmInv
<1> QED BY <1>1, <1>2, <1>3, <1>4, Types DEF RInv

LEMMA RInvUnchanged ==
  ASSUME RInv, UNCHANGED vars
  PROVE  RInv'
<1> USE DEF RInv, vars, panelVars, closeVars, filterVars, engineVars, handleVars
<1>1. RendererTypeOK'
  BY DEF RendererTypeOK
<1>2. ChainInv' /\ OwnerInv' /\ LeakInv' /\ SectionInv' /\ AgeInv'
  BY DEF ChainInv, OwnerInv, LeakInv, SectionInv, AgeInv
<1>3. ThreadInv' /\ SentInv'
  BY DEF ThreadInv, SentInv, Connected, SameSession
<1>4. SizeInv' /\ HarmInv'
  BY DEF SizeInv, Size, HarmInv, SameSession
<1> QED BY <1>1, <1>2, <1>3, <1>4

\* The inductive invariant of the two processes.
THEOREM RendererInvariance == Spec => []RInv
<1>1. RInv /\ [Next]_vars => RInv'
  <2> SUFFICES ASSUME RInv, Next PROVE RInv'
    BY RInvUnchanged
  <2>1. /\ RendererTypeOK /\ ChainInv /\ OwnerInv /\ LeakInv /\ SectionInv
        /\ AgeInv /\ ThreadInv /\ SentInv /\ SizeInv /\ HarmInv
    BY DEF RInv
  <2>2. RendererTypeOK'
    BY <2>1, TypeStep
  <2>3. ChainInv' /\ OwnerInv' /\ LeakInv' /\ AgeInv' /\ ThreadInv'
    BY <2>1, ChainStep, OwnerStep, LeakStep, AgeStep, ThreadStep
  <2>4. SectionInv' /\ SentInv'
    BY <2>1, <2>2, SectionStep, SentStep
  <2>5. SizeInv' /\ HarmInv'
    BY <2>1, SizeStep, HarmStep
  <2> QED BY <2>2, <2>3, <2>4, <2>5 DEF RInv
<1> QED BY <1>1, InitRInv, PTL DEF Spec

\* Every variable of the two processes and of what they share has its type.
THEOREM RendererTypes == Spec => []RendererTypeOK
<1>1. RInv => RendererTypeOK
  BY DEF RInv
<1> QED BY <1>1, RendererInvariance, PTL

\* A handle in the panel's process is open exactly if it has an owner, and then no
\* second one, or is an orphan of a handler that found the source stopped, though three
\* threads open and close handles under no common lock.
THEOREM HandlesOwned == Spec => []HandleOwners
<1>1. RInv => HandleOwners
  <2> SUFFICES ASSUME RInv PROVE HandleOwners
    OBVIOUS
  <2>1. /\ posted \in Seq(Handles) /\ NoHandle \notin Handles
        /\ chains \in Nat /\ local \in Nat
        /\ current \in Handle /\ remote \in Handle
    BY PanelAssumption, RendererAssumption DEF RInv, RendererTypeOK
  <2>2. OwnerInv /\ LeakInv
    BY DEF RInv
  <2>3. {h \in Handles : table[h] # 0} = Owned.posted \cup Owned.others \cup orphans
    <3>1. \A h \in Owned.posted \cup Owned.others \cup orphans :
            h \in Handles /\ table[h] # 0
      BY <2>1, <2>2 DEF Owned, OwnerInv, LeakInv, Handle, RInv, RendererTypeOK
    <3>2. \A h \in Handles : table[h] # 0 =>
            h \in Owned.posted \cup Owned.others \cup orphans
      BY <2>1, <2>2 DEF Owned, OwnerInv, LeakInv
    <3> QED BY <3>1, <3>2
  <2>4. Owned.posted \cap Owned.others = {}
    BY <2>2 DEF Owned, OwnerInv
  <2>5. Cardinality(Owned.posted) = Len(posted)
    <3> DEFINE T == {posted[k] : k \in DOMAIN posted}
               n == Len(posted)
    <3>1. n \in Nat /\ DOMAIN posted = 1 .. n
      BY <2>1
    <3>2. \A i, j \in 1 .. n : posted[i] = posted[j] => i = j
      <4>1. \A i, j \in 1 .. n : i < j \/ j < i \/ i = j
        OBVIOUS
      <4> QED BY <2>2, <3>1, <4>1 DEF OwnerInv
    <3>3. posted \in [1 .. n -> T]
      BY <2>1, <3>1
    <3>7. \A t \in T : \E i \in 1 .. n : posted[i] = t
      BY <3>1
    <3>4. posted \in Injection(1 .. n, T) /\ posted \in Surjection(1 .. n, T)
      <4> HIDE DEF T, n
      <4> QED BY <3>2, <3>3, <3>7, Fun_IsInj, Fun_IsSurj
    <3>5. IsFiniteSet(1 .. n) /\ Cardinality(1 .. n) = n
      <4>1. IsFiniteSet(1 .. n) /\ Cardinality(1 .. n) = IF 1 > n THEN 0 ELSE n - 1 + 1
        <5> HIDE DEF n
        <5> QED BY <3>1, FS_Interval
      <4>2. (IF 1 > n THEN 0 ELSE n - 1 + 1) = n
        BY <3>1
      <4> QED BY <4>1, <4>2
    <3>6. Cardinality(T) = Cardinality(1 .. n)
      BY <3>4, <3>5, FS_Surjection
    <3> QED BY <3>5, <3>6 DEF Owned
  <2>6. current = remote => current = NoHandle
    BY <2>2 DEF OwnerInv
  <2>7. orphans \cap (Owned.posted \cup Owned.others) = {}
    BY <2>2 DEF Owned, OwnerInv, LeakInv
  <2> QED BY <2>3, <2>4, <2>5, <2>6, <2>7 DEF HandleOwners
<1> QED BY <1>1, RendererInvariance, PTL

\* The number that GetEvents reads in the section is that of the swap chain that the
\* renderer sent last, as long as it is connected.
THEOREM NumberIsCurrent == Spec => []NumberNamesSwapChain
<1>1. RInv => NumberNamesSwapChain
  BY DEF RInv, SectionInv, OwnerInv, NumberNamesSwapChain
<1> QED BY <1>1, RendererInvariance, PTL

\* Once nothing is under way the panel shows the swap chain sent last, unless the
\* number of a handle that was closed was given again.
THEOREM PanelCatchesUp == Spec => []PanelShowsCurrent
<1>1. RInv => PanelShowsCurrent
  BY DEF RInv, ThreadInv, SentInv, Connected, AtRest, PanelShowsCurrent
<1> QED BY <1>1, RendererInvariance, PTL

\* After a Feed that began when the panel had its size the engine draws in that
\* size, though it is read twice and without the lock.
THEOREM DrawsInPanelSize == Spec => []SizeFollowsPanel
<1>1. RInv => SizeFollowsPanel
  BY DEF RInv, SizeInv, Size, SizeFollowsPanel
<1> QED BY <1>1, RendererInvariance, PTL

\* The renderer's process ends, or leaves the panel's mutex taken, only after an event
\* that the engine's shutdown overtook in one of the named places or a failed call of
\* the named kinds; and the panel's process is lost only if its thread did not wait.
THEOREM HarmExplained == Spec => []HarmHasCause
<1>1. RInv => HarmHasCause
  BY DEF RInv, RendererTypeOK, HarmInv, ThreadInv, HarmHasCause
<1> QED BY <1>1, RendererInvariance, PTL

\* The panel never goes back to an older swap chain, across sessions too.
THEOREM ShownGrows == Spec => NeverBackwards
<1> DEFINE Grows == shown' # shown => shown' = 0 \/ shown' > shown
<1>1. RInv /\ [Next]_vars => [Grows]_vars
  <2> SUFFICES ASSUME RInv, Next PROVE Grows
    BY DEF vars
  <2>1. CASE UNCHANGED shown
    BY <2>1
  <2>2. CASE StopFrees
    BY <2>2 DEF StopFrees
  <2>3. CASE RunPosted /\ Show(Head(posted))
    <3>1. /\ posted \in Seq(Handles) /\ table \in [Handles -> 0 .. MaxSwapChains]
          /\ shown \in 0 .. chains /\ chains \in 0 .. MaxSwapChains
      BY DEF RInv, RendererTypeOK
    <3>2. 1 \in DOMAIN posted /\ shown' = table[posted[1]] /\ posted[1] \in Handles
      BY <2>3, <3>1 DEF RunPosted, Show
    <3>3. shown <= table[posted[1]]
      BY <3>2 DEF RInv, AgeInv
    <3>4. shown \in Nat /\ table[posted[1]] \in Nat
      BY <3>1, <3>2, RendererAssumption
    <3> QED BY <3>2, <3>3, <3>4
  <2>4. UNCHANGED shown \/ StopFrees \/ (RunPosted /\ Show(Head(posted)))
    BY ShownSteps DEF RunPosted
  <2> QED BY <2>1, <2>2, <2>3, <2>4
<1> QED BY <1>1, RendererInvariance, PTL DEF Spec, NeverBackwards

=============================================================================
