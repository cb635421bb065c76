----------------------------- MODULE SchemeHandler -----------------------------
(***************************************************************************)
(* How the media engine comes by its MediaStreamSource: the renderer's     *)
(* Start registers a URL with the extension manager and has the engine     *)
(* load it, the engine has the scheme handler look the URL up, and only    *)
(* then asks for samples.  Close takes the URL away again.                 *)
(*                                                                         *)
(* Start, Feed and Close run on the filter's thread, BeginCreateObject on  *)
(* one of the engine's.  Other renderers use the same map of URLs.         *)
(***************************************************************************)
EXTENDS MediaStreamSource

VARIABLES
  start,      \* how far Start has come
  urls,       \* mExtensionManagerProperties: whose URLs are in the map
  mUrl,       \* mUrl # nullptr
  resolution  \* the engine's call of BeginCreateObject, and how it ended

schemeVars == <<start, urls, mUrl, resolution>>
allVars == <<vars, schemeVars>>

-----------------------------------------------------------------------------
\* "silent": BeginCreateObject returns S_OK and has not invoked the callback, so
\* that the engine waits for an object that does not come.
Resolutions == {"none", "asked", "missing", "resolved", "failed", "silent"}

SchemeInit ==
  /\ Init
  /\ start = "setup"
  /\ urls \in SUBSET {"other"}
  /\ mUrl = FALSE
  /\ resolution = "none"

\* Start returns, with true or with false; Feed does not look which.
Returned == start \in {"loaded", "failed"}

\* Setup and SetupDirectX succeed and the source is made.  If they fail there
\* is no source, and Start may be called again.
SetUp ==
  /\ start = "setup"
  /\ start' = "created"
  /\ mUrl' = TRUE
  /\ UNCHANGED <<vars, urls, resolution>>

RegisterUrl ==
  /\ start = "created"
  /\ start' = "registered"
  /\ urls' = urls \union {"own"}
  /\ UNCHANGED <<vars, mUrl, resolution>>

\* CoCreateGuid, RegisterUrl, SetSource or Load fails: what was done stays.
StartFails ==
  /\ start \in {"created", "registered"}
  /\ start' = "failed"
  /\ UNCHANGED <<vars, urls, mUrl, resolution>>

\* SetSource and Load: the engine resolves the URL on a thread of its own.
Load ==
  /\ start = "registered"
  /\ start' = "loaded"
  /\ resolution' = "asked"
  /\ UNCHANGED <<vars, urls, mUrl>>

\* Mutant: Close unregisters before it shuts the engine down.
UnregisterEarly ==
  /\ Returned
  /\ mUrl
  /\ urls' = urls \ {"own"}
  /\ mUrl' = FALSE
  /\ UNCHANGED <<vars, start, resolution>>

\* Close, between the engine's Shutdown and the source's Stop.
UnregisterUrl ==
  /\ filter = "closing"
  /\ mUrl
  /\ urls' = urls \ {"own"}
  /\ mUrl' = FALSE
  /\ UNCHANGED <<vars, start, resolution>>

\* Another renderer of this process registers, or unregisters.
OtherRenderer ==
  /\ urls' = IF "other" \in urls THEN urls \ {"other"} ELSE urls \union {"other"}
  /\ UNCHANGED <<vars, start, mUrl, resolution>>

-----------------------------------------------------------------------------
(* BeginCreateObject and EndCreateObject. *)

\* Lookup finds the URL, the callback is invoked and takes the object; or the
\* asynchronous result cannot be made.
LookupFinds ==
  /\ resolution = "asked"
  /\ "own" \in urls
  /\ resolution' \in {"resolved", "failed"}
  /\ UNCHANGED <<vars, start, urls, mUrl>>

LookupFails ==
  /\ resolution = "asked"
  /\ "own" \notin urls
  /\ resolution' = "missing"
  /\ UNCHANGED <<vars, start, urls, mUrl>>

\* What is returned then is the result of get_Size, unless the map is empty.
GetSize ==
  /\ resolution = "missing"
  /\ resolution' = IF urls = {} THEN "failed" ELSE "silent"
  /\ UNCHANGED <<vars, start, urls, mUrl>>

-----------------------------------------------------------------------------
\* The source's own steps: samples are asked for by an engine that has it, and
\* Close comes to Stop when the URL is gone.
SourceStep ==
  /\ Returned
  /\ \/ FeedSlot \/ FeedDeferral
     \/ resolution = "resolved" /\ RaiseRequest
     \/ EnterRequest \/ DeferRequest \/ AnswerRequest \/ UseNull
     \/ ShutDownEngine
     \/ (filter = "closing" => ~mUrl) /\ Stop
     \/ Tick
  /\ UNCHANGED schemeVars

SchemeNext ==
  \/ SetUp \/ RegisterUrl \/ StartFails \/ Load \/ UnregisterUrl \/ OtherRenderer
  \/ LookupFinds \/ LookupFails \/ GetSize
  \/ SourceStep

SchemeSpec == SchemeInit /\ [][SchemeNext]_allVars

-----------------------------------------------------------------------------
(* Properties *)

\* Each resolution finds the source of its renderer, whatever other renderers
\* do: only one that is under way while its renderer closes can miss it, and
\* only then can the engine be left without an answer.
UnansweredNeedsClose == resolution \in {"missing", "silent"} => filter # "running"
=============================================================================
