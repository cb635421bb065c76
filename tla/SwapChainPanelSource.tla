------------------------- MODULE SwapChainPanelSource -------------------------
(***************************************************************************)
(* SwapChainPanelSource: the foreground process, which shows the swap      *)
(* chain that a renderer in a background process draws to.  They share a   *)
(* section of memory.  Its foregroundSwapChainHandle is the number of a    *)
(* handle that the renderer has put into this process's handle table.      *)
(*                                                                         *)
(* The UI thread starts and stops the source, and runs the handlers that   *)
(* are posted to it.  Each start makes a mutex, events and a thread that   *)
(* waits for them (GetEvents); the objects are named by the number of the  *)
(* start, the session.  Swap chains are numbered as the media engine makes *)
(* them.                                                                   *)
(***************************************************************************)
EXTENDS Naturals, Sequences, FiniteSets

CONSTANTS
  Handles,      \* numbers in the process's handle table
  NoHandle,     \* the null handle
  MaxSessions,  \* bound: starts of the panel
  MaxSizes,     \* bound: sizes the panel takes
  MaxFailures   \* bound: calls of either process that fail

ASSUME PanelAssumption ==
  /\ NoHandle \notin Handles
  /\ MaxSessions \in Nat /\ MaxSizes \in Nat /\ MaxFailures \in Nat

VARIABLES
  table,      \* external: the handle table, from numbers to swap chains, 0 if free
  section,    \* *mSharedData, with the session its handles belong to
  mapped,     \* the renderer has the section mapped too
  lock,       \* who holds the session's foregroundLockMutex, or "free"
  signalled,  \* foregroundEventAvailableEvent, reset by the thread that waits
  ui,         \* the UI thread: "stopped", "idle", or where it is in a call
  session,    \* how often the panel has been started
  thread,     \* GetEvents: where the session's thread is
  last,       \* lastSwapChainHandleUsed
  posted,     \* handlers posted to the UI thread, each with its handle
  orphans,    \* history: handles that a handler left open
  current,    \* mCurrentSwapChainHandle
  shown,      \* external: the swap chain on the panel, 0 for none
  sizes,      \* how many sizes the panel has taken; the n-th is n by n
  failures    \* history: calls that have failed, in either process

panelVars == <<table, section, mapped, lock, signalled, ui, session, thread,
               last, posted, orphans, current, shown, sizes, failures>>

-----------------------------------------------------------------------------
\* The section as it is created.
Empty == [session |-> 0, swapChain |-> NoHandle, error |-> FALSE,
          width |-> 0, height |-> 0]

Free == {h \in Handles : table[h] = 0}
Opened(h, chain) == [table EXCEPT ![h] = chain]
Closed(t, h) == [g \in Handles |-> IF g = h THEN 0 ELSE t[g]]

Fails == failures < MaxFailures /\ failures' = failures + 1

PanelInit ==
  /\ table = [h \in Handles |-> 0]
  /\ section = Empty
  /\ mapped = FALSE
  /\ lock = "free"
  /\ signalled = FALSE
  /\ ui = "stopped"
  /\ session = 0
  /\ thread = "ended"
  /\ last = NoHandle
  /\ posted = <<>>
  /\ orphans = {}
  /\ current = NoHandle
  /\ shown = 0
  /\ sizes = 0
  /\ failures = 0

-----------------------------------------------------------------------------
(* Start, Stop and OnSizeChanged, on the UI thread. *)

\* A section that the renderer has kept mapped is used again as it is.  A panel
\* that has been laid out has a size.  Start calls Stop first: a source that
\* runs is stopped by the actions below.
Start ==
  /\ ui = "stopped" /\ session < MaxSessions
  /\ ui' = "idle"
  /\ session' = session + 1
  /\ LET kept == IF mapped THEN section ELSE Empty IN
       \/ section' = [kept EXCEPT !.session = session + 1] /\ UNCHANGED sizes
       \/ /\ sizes < MaxSizes
          /\ sizes' = sizes + 1
          /\ section' = [kept EXCEPT !.session = session + 1,
                                     !.width = sizes + 1, !.height = sizes + 1]
  /\ lock' = "free" /\ signalled' = FALSE
  /\ thread' = "starting" /\ last' = NoHandle
  /\ UNCHANGED <<table, mapped, posted, orphans, current, shown, failures>>

\* foregroundShutdownEvent: it ends a thread that waits.
StopSignals ==
  /\ ui = "idle"
  /\ ui' = "stopping"
  /\ thread' = IF thread = "waiting" THEN "ended" ELSE thread
  /\ UNCHANGED <<table, section, mapped, lock, signalled, session, last,
                 posted, orphans, current, shown, sizes, failures>>

\* The handles are closed and the section is unmapped, whether or not the thread
\* has ended.  One that has not uses a null pointer or waits on handles that are
\* closed or, if it is Start that has called Stop, may find the new section and
\* serve the new session beside the new thread.  What becomes of it is left out:
\* the process is taken to be lost, and the model of it ends.
StopFrees ==
  /\ ui = "stopping"
  /\ ui' = IF thread = "ended" THEN "stopped" ELSE "lost"
  /\ table' = Closed(table, current)
  /\ current' = NoHandle
  /\ shown' = 0
  /\ UNCHANGED <<section, mapped, lock, signalled, session, thread, last,
                 posted, orphans, sizes, failures>>

Resize ==
  /\ ui = "idle" /\ sizes < MaxSizes
  /\ ui' = "resizing"
  /\ sizes' = sizes + 1
  /\ UNCHANGED <<table, section, mapped, lock, signalled, session, thread,
                 last, posted, orphans, current, shown, failures>>

ResizeWidth ==
  /\ ui = "resizing" /\ lock = "free"
  /\ ui' = "resized"
  /\ lock' = "ui"
  /\ section' = [section EXCEPT !.width = sizes]
  /\ UNCHANGED <<table, mapped, signalled, session, thread, last, posted, orphans,
                 current, shown, sizes, failures>>

ResizeHeight ==
  /\ ui = "resized"
  /\ ui' = "idle"
  /\ lock' = "free"
  /\ section' = [section EXCEPT !.height = sizes]
  /\ UNCHANGED <<table, mapped, signalled, session, thread, last, posted, orphans,
                 current, shown, sizes, failures>>

-----------------------------------------------------------------------------
(* GetEvents: the thread of the session. *)

\* The thread of a process that is lost does nothing more.
At(place) == thread = place /\ ui # "lost"

\* WaitForMultipleObjects: shutdown comes first.
Wait ==
  IF ui = "stopping" THEN thread' = "ended" /\ UNCHANGED signalled
  ELSE /\ thread' = IF signalled THEN "woken" ELSE "waiting"
       /\ signalled' = FALSE

ThreadBegins ==
  /\ At("starting")
  /\ Wait
  /\ UNCHANGED <<table, section, mapped, lock, ui, session, last, posted, orphans,
                 current, shown, sizes, failures>>

ThreadLocks ==
  /\ At("woken") /\ lock = "free"
  /\ thread' = "reading"
  /\ lock' = "thread"
  /\ UNCHANGED <<table, section, mapped, signalled, ui, session, last, posted,
                 orphans, current, shown, sizes, failures>>

\* An error ends the thread.
ReadError ==
  /\ At("reading") /\ section.error
  /\ thread' = "ended"
  /\ lock' = "free"
  /\ UNCHANGED <<table, section, mapped, signalled, ui, session, last, posted,
                 orphans, current, shown, sizes, failures>>

ReadKnown ==
  /\ At("reading") /\ ~section.error /\ section.swapChain = last
  /\ lock' = "free"
  /\ Wait
  /\ UNCHANGED <<table, section, mapped, ui, session, last, posted, orphans,
                 current, shown, sizes, failures>>

\* Mutant: the handler is posted with a high priority.
PostFirst(h) == posted' = <<h>> \o posted

\* CoreDispatcher::RunAsync: handlers run in the order in which they were posted.
Post(h) == posted' = Append(posted, h)

\* A number not seen before is duplicated, and a handler posted to show it.
ReadNew ==
  /\ At("reading") /\ ~section.error /\ section.swapChain # last
  /\ table[section.swapChain] # 0
  /\ last' = section.swapChain
  /\ \E h \in Free :
       /\ table' = Opened(h, table[section.swapChain])
       /\ Post(h)
  /\ lock' = "free"
  /\ Wait
  /\ UNCHANGED <<section, mapped, ui, session, orphans, current, shown, sizes,
                 failures>>

\* The renderer has closed the handle meanwhile, or the call fails.
DuplicateFails ==
  /\ At("reading") /\ ~section.error /\ section.swapChain # last
  /\ IF table[section.swapChain] = 0 THEN UNCHANGED failures ELSE Fails
  /\ last' = section.swapChain
  /\ thread' = "ended"
  /\ lock' = "free"
  /\ UNCHANGED <<table, section, mapped, signalled, ui, session, posted, orphans,
                 current, shown, sizes>>

-----------------------------------------------------------------------------
(* The handler that ReadNew posts, on the UI thread. *)

\* Mutant: the handler leaves the handle that it replaces open.
ShowKeepsOld(h) ==
  /\ shown' = table[h]
  /\ current' = h
  /\ UNCHANGED table

Show(h) ==
  /\ shown' = table[h]
  /\ table' = Closed(table, current)
  /\ current' = h

\* On a source that is stopped the handler returns.  Nobody else has its handle,
\* which stays open.
RunPosted ==
  /\ posted # <<>>
  /\ posted' = Tail(posted)
  /\ \/ ui = "idle" /\ Show(Head(posted)) /\ UNCHANGED orphans
     \/ /\ ui = "stopped"
        /\ orphans' = orphans \cup {Head(posted)}
        /\ UNCHANGED <<table, current, shown>>
  /\ UNCHANGED <<section, mapped, lock, signalled, ui, session, thread, last,
                 sizes, failures>>

PanelNext ==
  \/ Start \/ StopSignals \/ StopFrees
  \/ Resize \/ ResizeWidth \/ ResizeHeight
  \/ ThreadBegins \/ ThreadLocks
  \/ ReadError \/ ReadKnown \/ ReadNew \/ DuplicateFails
  \/ RunPosted

=============================================================================
