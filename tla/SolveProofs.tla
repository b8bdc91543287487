----------------------------- MODULE SolveProofs -----------------------------
(***************************************************************************)
(* Proofs about one build, for every number of status messages: nothing    *)
(* outlives it, and Build and BuildOCI implement BuildPromise.  None of    *)
(* this is inductive as it stands; SolveInv relates where the caller is to *)
(* what the goroutines, the session and closeOnce have done.               *)
(***************************************************************************)
EXTENDS Solve, TLAPS

\* The goroutines run exactly while the caller waits for them, with the
\* directory in place.
PhaseInv ==
  /\ pc \in {"prepare", "makeDir"} => client = "none" /\ ~tempDir
  /\ pc = "fillDir" => client = "none" /\ tempDir
  /\ pc = "wait" => client # "none" /\ tempDir
  /\ pc = "removeDir" => client \in {"none", "returned"} /\ display \in {"none", "returned"}
  /\ pc \in {"close", "closing", "returned"} =>
       client \in {"none", "returned"} /\ display \in {"none", "returned"} /\ ~tempDir
  /\ client = "none" <=> display = "none"

\* The channel is closed when the client has returned, and the display returns
\* after that.  A failure of either reaches the error group, and a build
\* without an error has waited for both.
GroupInv ==
  /\ client = "sending" => sent < MaxStatus
  /\ chClosed <=> client = "returned"
  /\ display = "returned" => chClosed /\ (displayErr => groupErr)
  /\ display \in {"none", "showing"} => ~displayErr
  /\ client = "none" => ~groupErr
  /\ pc \in {"removeDir", "close", "closing", "returned"} /\ err = "none" =>
       client = "returned" /\ display = "returned" /\ ~groupErr

\* What the writer has got is what the session has done, and only one of the
\* session and BuildOCI is inside closeOnce.
WriterInv ==
  /\ data = IF session = "idle" THEN "none"
            ELSE IF session \in {"writing", "aborted"} THEN "partial" ELSE "whole"
  /\ once = "busy" <=> session = "closing" \/ pc = "closing"
  /\ session = "closing" => pc # "closing"
  /\ session = "closed" => once = "over"
  /\ once = "over" => session = "closed" \/ Over
  /\ closes = IF once = "over" THEN 1 ELSE 0
  /\ once # "over" => ~closeErr
  /\ client = "none" => session = "idle"
  /\ client = "none" /\ pc \notin {"closing", "returned"} => once = "fresh"
  /\ ~oci => session = "idle" /\ once = "fresh"
  /\ Over /\ oci => once = "over"

\* The client has only succeeded with a finished export.
ExportInv == client = "returned" /\ ~groupErr /\ oci => session = "closed" /\ ~closeErr

SolveInv == SolveTypeOK /\ PhaseInv /\ GroupInv /\ WriterInv /\ ExportInv

-----------------------------------------------------------------------------
\* SolveInv is inductive: it holds before and after every step of the caller,
\* the two goroutines and BuildKit's session.
LEMMA SolveInvariant == SolveInit /\ [][SolveNext]_solveVars => []SolveInv
<1>1. SolveInit => SolveInv
  <2> SUFFICES ASSUME SolveInit PROVE SolveInv
    OBVIOUS
  <2>1. SolveTypeOK
    <3>1. sent \in 0..MaxStatus /\ queue \in 0..1 /\ closes \in Nat
      BY SolveAssumption DEF SolveInit
    <3>2. QED
      BY <3>1, Zenon DEF SolveInit, SolveTypeOK
  <2>2. PhaseInv /\ GroupInv /\ ExportInv
    BY DEF SolveInit, PhaseInv, GroupInv, ExportInv
  <2>3. WriterInv
    BY DEF SolveInit, WriterInv, Over
  <2>4. QED
    BY <2>1, <2>2, <2>3 DEF SolveInv
<1>2. SolveInv /\ [SolveNext]_solveVars => SolveInv'
  <2> SUFFICES ASSUME SolveInv, [SolveNext]_solveVars PROVE SolveInv'
    OBVIOUS
  <2> USE SolveAssumption DEF SolveInv, SolveTypeOK, PhaseInv, GroupInv, WriterInv, ExportInv, Over,
          caller, channel, showing, writer
  <2>1. CASE ContextEnds
    BY <2>1 DEF ContextEnds
  <2>2. CASE Prepare
    BY <2>2 DEF Prepare
  <2>3. CASE MakeDir
    <3>1. CASE tempDir'
      BY <2>3, <3>1 DEF MakeDir
    <3>2. CASE ~tempDir'
      BY <2>3, <3>2 DEF MakeDir
    <3>3. QED
      BY <3>1, <3>2
  <2>4. CASE FillDir
    BY <2>4 DEF FillDir
  <2>5. CASE ClientSends
    BY <2>5 DEF ClientSends
  <2>6. CASE ClientSent
    BY <2>6 DEF ClientSent, ChanCap
  <2>7. CASE ClientSucceeds
    BY <2>7 DEF ClientSucceeds
  <2>8. CASE ClientFails
    BY <2>8 DEF ClientFails
  <2>9. CASE SessionWrites
    BY <2>9 DEF SessionWrites
  <2>10. CASE SessionCloses
    BY <2>10 DEF SessionCloses, CloseBegins, CloseSkips, CloseEnds
  <2>11. CASE DisplayReceives
    BY <2>11 DEF DisplayReceives
  <2>12. CASE DisplayFails
    BY <2>12 DEF DisplayFails
  <2>13. CASE DisplayReturns
    BY <2>13 DEF DisplayReturns
  <2>14. CASE Wait
    BY <2>14 DEF Wait, GroupOver
  <2>15. CASE RemoveDir
    BY <2>15 DEF RemoveDir
  <2>16. CASE CloseOut
    BY <2>16 DEF CloseOut, CloseBegins, CloseSkips, CloseEnds
  <2>17. CASE UNCHANGED solveVars
    BY <2>17 DEF solveVars
  <2>18. QED
    BY <2>1, <2>2, <2>3, <2>4, <2>5, <2>6, <2>7, <2>8, <2>9, <2>10, <2>11, <2>12, <2>13, <2>14, <2>15, <2>16, <2>17 DEF SolveNext, Caller, Client, Session, Display
<1>3. QED
  BY <1>1, <1>2, PTL

\* The build's state has its type (SolveTypeOK): no more messages than the
\* channel has room for.
THEOREM SolveTypeCorrect == SolveSpec => []SolveTypeOK
<1>1. SolveInv => SolveTypeOK
  BY DEF SolveInv
<1>2. QED
  BY <1>1, SolveInvariant, PTL DEF SolveSpec

\* The temporary directory is there while a goroutine of the build runs, and
\* gone when the build has returned (NothingOutlivesBuild).
THEOREM SolveLeavesNothing == SolveSpec => []NothingOutlivesBuild
<1>1. SolveInv => NothingOutlivesBuild
  BY DEF SolveInv, SolveTypeOK, PhaseInv, NothingOutlivesBuild, Over
<1>2. QED
  BY <1>1, SolveInvariant, PTL DEF SolveSpec

-----------------------------------------------------------------------------
\* Build and BuildOCI implement BuildPromise (KeepsBuildPromise): every step of
\* the goroutines, the session and the caller is one that its caller was
\* promised, or none that it can see.
THEOREM SolveKeepsPromise == SolveSpec => KeepsBuildPromise
<1>1. SolveInit => Promise!PromiseInit
  BY DEF SolveInit, Promise!PromiseInit, Over
<1>2. SolveInv /\ SolveInv' /\ [SolveNext]_solveVars
        => [Promise!PromiseNext]_(Promise!promiseVars)
  <2> SUFFICES ASSUME SolveInv, SolveInv', [SolveNext]_solveVars
               PROVE  [Promise!PromiseNext]_(Promise!promiseVars)
    OBVIOUS
  <2> USE DEF Promise!promiseVars, Over, caller, channel, showing, writer
  <2>1. CASE ContextEnds
    BY <2>1 DEF ContextEnds
  <2>2. CASE Prepare
    BY <2>2 DEF Prepare
  <2>3. CASE MakeDir
    BY <2>3 DEF MakeDir
  <2>4. CASE FillDir
    BY <2>4 DEF FillDir
  <2>5. CASE ClientSends
    BY <2>5 DEF ClientSends
  <2>6. CASE ClientSent
    BY <2>6 DEF ClientSent
  <2>7. CASE ClientSucceeds
    BY <2>7 DEF ClientSucceeds
  <2>8. CASE ClientFails
    <3>1. Promise!Break
      BY <2>8 DEF ClientFails, Promise!Break, Promise!Running, SolveInv, PhaseInv
    <3>2. QED
      BY <3>1 DEF Promise!PromiseNext
  <2>9. CASE SessionWrites
    <3>1. CASE UNCHANGED data
      BY <2>9, <3>1 DEF SessionWrites
    <3>2. CASE data' # data
      <4>1. ~Over /\ closes = 0 /\ oci
        BY <2>9, <3>2 DEF SessionWrites, SolveInv, PhaseInv, WriterInv
      <4>2. \/ data = "none" /\ data' = "partial"
            \/ data = "partial" /\ data' = "whole"
        BY <2>9, <3>2 DEF SessionWrites, SolveInv, WriterInv
      <4>3. Promise!Write
        BY <2>9, <4>1, <4>2 DEF SessionWrites, Promise!Write, Promise!Running
      <4>4. QED
        BY <4>3 DEF Promise!PromiseNext
    <3>3. QED
      BY <3>1, <3>2
  <2>10. CASE SessionCloses
    <3>1. CASE session = "closing"
      <4>1. ~Over /\ closes = 0 /\ oci /\ ~closeErr
        BY <2>10, <3>1 DEF SolveInv, WriterInv
      <4>2. closes' = 1 /\ closeErr' \in BOOLEAN
        BY <2>10, <3>1, <4>1 DEF SessionCloses, CloseEnds
      <4>3. (groupErr \/ displayErr \/ closeErr)' \in {groupErr \/ displayErr \/ closeErr, TRUE}
        <5>1. UNCHANGED <<groupErr, displayErr>>
          BY <2>10 DEF SessionCloses
        <5>2. CASE closeErr'
          BY <5>2
        <5>3. CASE ~closeErr'
          BY <4>1, <5>1, <5>3
        <5>4. QED
          BY <5>2, <5>3
      <4>4. Promise!Close
        BY <2>10, <3>1, <4>1, <4>2, <4>3 DEF SessionCloses, CloseEnds, Promise!Close, Promise!Running
      <4>5. QED
        BY <4>4 DEF Promise!PromiseNext
    <3>2. CASE session # "closing"
      BY <2>10, <3>2 DEF SessionCloses, CloseBegins, CloseSkips
    <3>3. QED
      BY <3>1, <3>2
  <2>11. CASE DisplayReceives
    BY <2>11 DEF DisplayReceives
  <2>12. CASE DisplayFails
    <3>1. Promise!Break
      BY <2>12 DEF DisplayFails, Promise!Break, Promise!Running, SolveInv, PhaseInv
    <3>2. QED
      BY <3>1 DEF Promise!PromiseNext
  <2>13. CASE DisplayReturns
    BY <2>13 DEF DisplayReturns, SolveInv, SolveTypeOK
  <2>14. CASE Wait
    BY <2>14 DEF Wait
  <2>15. CASE RemoveDir
    BY <2>15 DEF RemoveDir
  <2>16. CASE CloseOut
    BY <2>16 DEF CloseOut, CloseBegins, CloseSkips, CloseEnds, Promise!ReturnNil,
         Promise!ReturnError, Promise!PromiseNext, SolveInv, PhaseInv, GroupInv, WriterInv, ExportInv
  <2>17. CASE UNCHANGED solveVars
    BY <2>17 DEF solveVars
  <2>18. QED
    BY <2>1, <2>2, <2>3, <2>4, <2>5, <2>6, <2>7, <2>8, <2>9, <2>10, <2>11, <2>12, <2>13,
       <2>14, <2>15, <2>16, <2>17 DEF SolveNext, Caller, Client, Session, Display
<1>3. QED
  BY <1>1, <1>2, SolveInvariant, PTL DEF SolveSpec, KeepsBuildPromise, Promise!PromiseSpec
=============================================================================
