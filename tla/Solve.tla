-------------------------------- MODULE Solve --------------------------------
(***************************************************************************)
(* One build: Build and BuildOCI of pkg/builder/builder.go around their    *)
(* solve, as RunBuild of internal/plantools/builder.go calls them with a   *)
(* time limit.  After its preparations solve runs two goroutines in an     *)
(* error group: BuildKit's client, which sends its status into a channel   *)
(* of one slot, blocking on every send and closing the channel when it     *)
(* returns; and the progress display, which receives.                      *)
(* For an OCI export BuildKit's session writes the image to the caller's   *)
(* writer and closes it, through closeOnce, which BuildOCI also closes.    *)
(*                                                                         *)
(* BuildKit's client and session are external: they are modelled from what *)
(* builder.go says and uses of them.  The session is an actor of its own,  *)
(* which a failed solve may leave behind for a while.                      *)
(***************************************************************************)
EXTENDS Integers

CONSTANT MaxStatus   \* bound of the model: status messages of a solve

ASSUME SolveAssumption == MaxStatus \in Nat

VARIABLES
  oci,         \* BuildOCI or Build?
  pc,          \* where the caller is
  ctxDone,     \* has the context ended (build timeout, run timeout, interrupt)?
  tempDir,     \* does the directory with the Dockerfile exist?
  client,      \* "none", "running", "sending" (blocked in a send) or "returned"
  sent,        \* status messages so far
  queue,       \* messages in ch, at most one
  chClosed,    \* is ch closed?
  display,     \* "none", "showing", "draining" or "returned"
  displayErr,  \* has the display failed?
  groupErr,    \* the error group has an error, and its context is cancelled
  session,     \* "idle", "writing", "written", "closing", "closed" or "aborted"
  data,        \* what the writer got: "none", "partial" or "whole"
  once,        \* sync.Once of closeOnce: "fresh", "busy" or "over"
  closes,      \* Close calls that reached the caller's writer
  closeErr,    \* did that Close fail?
  err          \* what the build returns: "none", "prepare" or "build"

caller    == <<pc, tempDir, err>>
channel   == <<sent, queue, chClosed>>
showing   == <<display, displayErr>>
writer    == <<data, once, closes, closeErr>>
solveVars == <<oci, ctxDone, caller, client, channel, showing, groupErr, session, writer>>

\* Every variable is in its range, and ch never holds more than its slot.
SolveTypeOK ==
  /\ oci \in BOOLEAN
  /\ pc \in {"prepare", "makeDir", "fillDir", "wait", "removeDir", "close", "closing", "returned"}
  /\ ctxDone \in BOOLEAN
  /\ tempDir \in BOOLEAN
  /\ client \in {"none", "running", "sending", "returned"}
  /\ sent \in 0..MaxStatus
  /\ queue \in 0..1
  /\ chClosed \in BOOLEAN
  /\ display \in {"none", "showing", "draining", "returned"}
  /\ displayErr \in BOOLEAN
  /\ groupErr \in BOOLEAN
  /\ session \in {"idle", "writing", "written", "closing", "closed", "aborted"}
  /\ data \in {"none", "partial", "whole"}
  /\ once \in {"fresh", "busy", "over"}
  /\ closes \in Nat
  /\ closeErr \in BOOLEAN
  /\ err \in {"none", "prepare", "build"}

SolveInit ==
  /\ oci \in BOOLEAN
  /\ pc = "prepare"
  /\ ctxDone \in BOOLEAN
  /\ tempDir = FALSE
  /\ client = "none"
  /\ sent = 0
  /\ queue = 0
  /\ chClosed = FALSE
  /\ display = "none"
  /\ displayErr = FALSE
  /\ groupErr = FALSE
  /\ session = "idle"
  /\ data = "none"
  /\ once = "fresh"
  /\ closes = 0
  /\ closeErr = FALSE
  /\ err = "none"

-----------------------------------------------------------------------------
\* The build timeout of RunBuild, the deadline of the run, or an interrupt.
ContextEnds ==
  /\ ~ctxDone
  /\ ctxDone' = TRUE
  /\ UNCHANGED <<oci, caller, client, channel, showing, groupErr, session, writer>>

\* Validate the Dockerfile, build the policy, prepare the environment, look at
\* the context: any of them may end the build before it owns anything.
Prepare ==
  /\ pc = "prepare"
  /\ \/ ~ctxDone /\ pc' = "makeDir" /\ UNCHANGED err
     \/ pc' = "close" /\ err' = "prepare"
  /\ UNCHANGED <<oci, ctxDone, tempDir, client, channel, showing, groupErr, session, writer>>

MakeDir ==
  /\ pc = "makeDir"
  /\ \/ pc' = "fillDir" /\ tempDir' = TRUE /\ UNCHANGED err
     \/ pc' = "close" /\ err' = "prepare" /\ UNCHANGED tempDir
  /\ UNCHANGED <<oci, ctxDone, client, channel, showing, groupErr, session, writer>>

\* Open the context, write the Dockerfile, and start both goroutines.
FillDir ==
  /\ pc = "fillDir"
  /\ \/ /\ pc' = "wait"
        /\ client' = "running"
        /\ display' = "showing"
        /\ UNCHANGED err
     \/ pc' = "removeDir" /\ err' = "prepare" /\ UNCHANGED <<client, display>>
  /\ UNCHANGED <<oci, ctxDone, tempDir, channel, displayErr, groupErr, session, writer>>

-----------------------------------------------------------------------------
\* The capacity of ch.
ChanCap == 1

\* BuildKit's client commits to a send and blocks until there is room; the
\* context does not interrupt it.
ClientSends ==
  /\ client = "running"
  /\ sent < MaxStatus
  /\ client' = "sending"
  /\ UNCHANGED <<oci, ctxDone, caller, channel, showing, groupErr, session, writer>>

ClientSent ==
  /\ client = "sending"
  /\ queue < ChanCap
  /\ queue' = queue + 1
  /\ sent' = sent + 1
  /\ client' = "running"
  /\ UNCHANGED <<oci, ctxDone, caller, chClosed, showing, groupErr, session, writer>>

\* The client returns nil once the image is exported and its writer closed
\* without an error; ch is closed.
ClientSucceeds ==
  /\ client = "running"
  /\ ~ctxDone
  /\ oci => session = "closed" /\ ~closeErr
  /\ client' = "returned"
  /\ chClosed' = TRUE
  /\ UNCHANGED <<oci, ctxDone, caller, sent, queue, showing, groupErr, session, writer>>

\* The client returns an error: a build step, the export or the context fails.
ClientFails ==
  /\ client = "running"
  /\ client' = "returned"
  /\ chClosed' = TRUE
  /\ groupErr' = TRUE
  /\ UNCHANGED <<oci, ctxDone, caller, sent, queue, showing, session, writer>>

\* The session writes the image to closeOnce, up to its end or to a failure;
\* a closed writer takes nothing.
SessionWrites ==
  /\ oci
  /\ \/ session = "idle" /\ client = "running" /\ session' = "writing" /\ data' = "partial"
     \/ session = "writing" /\ once = "fresh" /\ session' = "written" /\ data' = "whole"
     \/ session = "writing" /\ session' = "aborted" /\ UNCHANGED data
  /\ UNCHANGED <<oci, ctxDone, caller, client, channel, showing, groupErr, once, closes, closeErr>>

\* Mutant: Close calls through every time.
CloseBegins_Always == once' = "busy"

\* closeOnce.Close: the first caller closes the writer, any other waits for it
\* and gets the same error.
CloseBegins == once = "fresh" /\ once' = "busy"

CloseSkips == once = "over"

CloseEnds ==
  /\ once' = "over"
  /\ closes' = closes + 1
  /\ closeErr' \in BOOLEAN
  /\ UNCHANGED data

SessionCloses ==
  /\ \/ /\ session = "written"
        /\ CloseBegins
        /\ session' = "closing"
        /\ UNCHANGED <<data, closes, closeErr>>
     \/ session = "written" /\ CloseSkips /\ session' = "closed" /\ UNCHANGED writer
     \/ session = "closing" /\ CloseEnds /\ session' = "closed"
  /\ UNCHANGED <<oci, ctxDone, caller, client, channel, showing, groupErr>>

-----------------------------------------------------------------------------
\* UpdateFrom shows what it receives; the deferred loop only receives.
DisplayReceives ==
  /\ display \in {"showing", "draining"}
  /\ queue > 0
  /\ queue' = queue - 1
  /\ UNCHANGED <<oci, ctxDone, caller, client, sent, chClosed, showing, groupErr, session, writer>>

\* NewDisplay or UpdateFrom fails: the deferred loop drains ch.
DisplayFails ==
  /\ display = "showing"
  /\ display' = "draining"
  /\ displayErr' = TRUE
  /\ UNCHANGED <<oci, ctxDone, caller, client, channel, groupErr, session, writer>>

\* Mutants: the display leaves when the context is cancelled; the error of
\* the display is lost.
DisplayReturns_OnCancel ==
  /\ display \in {"showing", "draining"}
  /\ (queue = 0 /\ chClosed) \/ ctxDone
  /\ display' = "returned"
  /\ groupErr' = (groupErr \/ displayErr)
  /\ UNCHANGED <<oci, ctxDone, caller, client, channel, displayErr, session, writer>>
DisplayReturns_LosesError ==
  /\ display \in {"showing", "draining"}
  /\ queue = 0 /\ chClosed
  /\ display' = "returned"
  /\ UNCHANGED <<oci, ctxDone, caller, client, channel, displayErr, groupErr, session, writer>>

\* ch is closed and empty: the goroutine returns, with the display's error.
DisplayReturns ==
  /\ display \in {"showing", "draining"}
  /\ queue = 0 /\ chClosed
  /\ display' = "returned"
  /\ groupErr' = (groupErr \/ displayErr)
  /\ UNCHANGED <<oci, ctxDone, caller, client, channel, displayErr, session, writer>>

-----------------------------------------------------------------------------
\* Mutant: solve waits for BuildKit's client only.
GroupOver_ClientOnly == client = "returned"

\* egrp.Wait: both goroutines have returned.
GroupOver == client = "returned" /\ display = "returned"

Wait ==
  /\ pc = "wait"
  /\ GroupOver
  /\ err' = IF groupErr THEN "build" ELSE "none"
  /\ pc' = "removeDir"
  /\ UNCHANGED <<oci, ctxDone, tempDir, client, channel, showing, groupErr, session, writer>>

\* The deferred removal of the directory.
RemoveDir ==
  /\ pc = "removeDir"
  /\ tempDir' = FALSE
  /\ pc' = "close"
  /\ UNCHANGED <<oci, ctxDone, err, client, channel, showing, groupErr, session, writer>>

\* The deferred Close of BuildOCI; its error is dropped.
CloseOut ==
  /\ \/ pc = "close" /\ ~oci /\ pc' = "returned" /\ UNCHANGED writer
     \/ pc = "close" /\ oci /\ CloseBegins /\ pc' = "closing" /\ UNCHANGED <<data, closes, closeErr>>
     \/ pc = "close" /\ oci /\ CloseSkips /\ pc' = "returned" /\ UNCHANGED writer
     \/ pc = "closing" /\ CloseEnds /\ pc' = "returned"
  /\ UNCHANGED <<oci, ctxDone, tempDir, err, client, channel, showing, groupErr, session>>

-----------------------------------------------------------------------------
Caller  == Prepare \/ MakeDir \/ FillDir \/ Wait \/ RemoveDir \/ CloseOut
Client  == ClientSends \/ ClientSent \/ ClientSucceeds \/ ClientFails
Session == SessionWrites \/ SessionCloses
Display == DisplayReceives \/ DisplayFails \/ DisplayReturns

SolveNext == ContextEnds \/ Caller \/ Client \/ Session \/ Display

\* The goroutines of the program run, a Close and an unblocked send end, and
\* the timeout fires.  BuildKit need not ever finish the build: its client
\* only returns, if it is not blocked in a send, once the context has ended.
SolveFairness ==
  /\ WF_solveVars(Caller)
  /\ WF_solveVars(DisplayReceives \/ DisplayReturns)
  /\ WF_solveVars(session = "closing" /\ SessionCloses)
  /\ WF_solveVars(ClientSent)
  /\ WF_solveVars(ContextEnds)
  /\ WF_solveVars(ctxDone /\ ClientFails)

SolveSpec == SolveInit /\ [][SolveNext]_solveVars /\ SolveFairness

-----------------------------------------------------------------------------
Over == pc = "returned"

\* The build as its caller sees it.
Promise == INSTANCE BuildPromise WITH
  export <- oci,
  image  <- data,
  broken <- groupErr \/ displayErr \/ closeErr,
  result <- IF ~Over THEN "running" ELSE IF err = "none" THEN "nil" ELSE "error"

\* Build and BuildOCI keep their promise, through every interleaving: nil means
\* that nothing failed and the writer got the whole image, and "w is always
\* closed exactly once" (builder.go:167), before BuildOCI returns, also while
\* BuildKit's session closes it at the same time.
KeepsBuildPromise == Promise!PromiseSpec

\* The Dockerfile's directory is there as long as BuildKit may read it, and
\* no goroutine and no directory outlives the build.
NothingOutlivesBuild ==
  /\ client \in {"running", "sending"} \/ display \in {"showing", "draining"} => tempDir
  /\ Over => ~tempDir

\* A build returns, however BuildKit's sends, the display's failure and the
\* timeout fall ("Stopping on cancellation would deadlock a timed-out Solve",
\* builder.go:125).
BuildReturns == <>Over
=============================================================================
