------------------------------- MODULE PlanRun -------------------------------
(***************************************************************************)
(* Run of pkg/zbplan/zbplan.go, called by main of cmd/zbplan: try the      *)
(* caller's Dockerfile, then let the agent generate one and build it until *)
(* it builds or the attempts are used up.  If the caller wants the image,  *)
(* every build exports to a temporary file, and only the file of the       *)
(* successful build is copied to OCIOutput, which Run closes on every path.*)
(*                                                                         *)
(* Generate (the loop of AgentHistory) and the BuildKit solve (Solve) are  *)
(* single steps here, with every way they can end.  The context may be     *)
(* done at any time: RunTimeout expires, or the user interrupts.  A        *)
(* Dockerfile is its origin: User, or the number of the Generate call that *)
(* wrote it.                                                               *)
(***************************************************************************)
EXTENDS Integers, Sequences

CONSTANTS
  AttemptSettings,  \* possible values of Config.MaxBuildAttempts
  DefaultAttempts,  \* what a setting <= 0 means
  User,             \* the caller's Dockerfile
  None              \* no Dockerfile, no result

ASSUME PlanRunAssumption ==
  /\ AttemptSettings \subseteq Int
  /\ DefaultAttempts \in Nat \ {0}
  /\ User \notin Nat
  /\ None \notin Nat \cup {User}
  /\ None \notin [dockerfile : Nat \cup {User}, attempts : Nat, fromUser : BOOLEAN]

VARIABLES
  pc,        \* where Run is
  cfg,       \* the configuration: [output, user, attempts]
  ctxDone,   \* has the context of the run ended?
  conn,      \* the connection to BuildKit: "none", "open" or "closed"
  attempt,   \* the attempt of the loop, 0 before it
  prompt,    \* what the next Generate is asked: [kind, of, catalog]
  building,  \* the Dockerfile being built
  buildErr,  \* how the build ended: "none", "build" or "output" (errOCIOutput)
  temp,      \* the temporary artifact: "none", "partial" or "whole"
  output,    \* what was written to OCIOutput: Seq of [of, whole]
  closes,    \* how often OCIOutput was closed
  result,    \* the Result, or None
  err,       \* "none" or why Run fails
  exit,      \* exit status of the program, -1 while it runs
  (* History, never read by an action. *)
  gens,      \* Generate calls begun
  builds,    \* solves of generated Dockerfiles
  lateGens   \* Generate calls begun after the context ended

env     == <<cfg, ctxDone>>
loop    == <<attempt, prompt>>
build   == <<building, buildErr, temp>>
sink    == <<output, closes>>
outcome == <<result, err>>
history == <<gens, builds, lateGens>>

runVars == <<pc, env, conn, loop, build, sink, outcome, exit, history>>

Dockerfile == Nat \cup {User}

Prompt == [kind : {"initial", "retry", "hint"}, of : Dockerfile \cup {None}, catalog : BOOLEAN]

\* The variables hold what Run's locals can hold.
RunTypeOK ==
  /\ pc \in {"validate", "connect", "createTemp", "solve", "open", "copy", "removeTemp",
             "built", "createAgent", "loop", "generate", "closeConn", "closeOutput", "returned"}
  /\ cfg \in [output : BOOLEAN, user : BOOLEAN, attempts : AttemptSettings]
  /\ ctxDone \in BOOLEAN
  /\ conn \in {"none", "open", "closed"}
  /\ attempt \in Nat
  /\ prompt \in Prompt
  /\ building \in Dockerfile \cup {None}
  /\ buildErr \in {"none", "build", "output"}
  /\ temp \in {"none", "partial", "whole"}
  /\ output \in Seq([of : Dockerfile, whole : BOOLEAN])
  /\ closes \in Nat
  /\ result = None \/ result \in [dockerfile : Dockerfile, attempts : Nat, fromUser : BOOLEAN]
  /\ err \in {"none", "config", "connect", "agent", "generate", "output", "exhausted", "close"}
  /\ exit \in {-1, 0, 1}
  /\ gens \in Nat
  /\ builds \in Nat
  /\ lateGens \in Nat

-----------------------------------------------------------------------------
RunInit ==
  /\ pc = "validate"
  /\ cfg \in [output : BOOLEAN, user : BOOLEAN, attempts : AttemptSettings]
  /\ ctxDone \in BOOLEAN
  /\ conn = "none"
  /\ attempt = 0
  /\ prompt = [kind |-> "initial", of |-> None, catalog |-> FALSE]
  /\ building = None
  /\ buildErr = "none"
  /\ temp = "none"
  /\ output = << >>
  /\ closes = 0
  /\ result = None
  /\ err = "none"
  /\ exit = -1
  /\ gens = 0
  /\ builds = 0
  /\ lateGens = 0

\* Return with an error: the deferred calls follow.
Fail(why) ==
  /\ err' = why
  /\ pc' = IF conn = "open" THEN "closeConn" ELSE "closeOutput"

\* No Model, no ContextDir, or an invalid registry list.
RejectConfig ==
  /\ pc = "validate"
  /\ Fail("config")
  /\ UNCHANGED <<env, conn, loop, build, sink, result, exit, history>>

\* cfg.MaxBuildAttempts once its default is applied.
MaxAttempts == IF cfg.attempts <= 0 THEN DefaultAttempts ELSE cfg.attempts

\* The configuration is accepted.
AcceptConfig ==
  /\ pc = "validate"
  /\ pc' = "connect"
  /\ UNCHANGED <<env, conn, loop, build, sink, outcome, exit, history>>

\* A build starts: with OCIOutput it needs a temporary file first.
StartBuild(dockerfile) ==
  /\ building' = dockerfile
  /\ buildErr' = "none"
  /\ pc' = IF cfg.output THEN "createTemp" ELSE "solve"

\* NewBuilderClient; the caller's Dockerfile, if any, is tried first.
Connect ==
  /\ pc = "connect"
  /\ conn' = "open"
  /\ IF cfg.user THEN StartBuild(User)
     ELSE pc' = "createAgent" /\ UNCHANGED <<building, buildErr>>
  /\ UNCHANGED <<env, loop, temp, sink, outcome, exit, history>>

ConnectFails ==
  /\ pc = "connect"
  /\ Fail("connect")
  /\ UNCHANGED <<env, conn, loop, build, sink, result, exit, history>>

\* runBuildOnce creates the spool file, or cannot.
CreateTemp ==
  /\ pc = "createTemp"
  /\ \/ temp' = "partial" /\ pc' = "solve" /\ UNCHANGED buildErr
     \/ temp' = "none" /\ buildErr' = "output" /\ pc' = "built"
  /\ UNCHANGED <<env, conn, loop, building, sink, outcome, exit, history>>

\* Count saturates one above the limit, so that the history stays finite.
Count(n, limit) == IF n > limit THEN n ELSE n + 1

BuildCounted == builds' = IF building = User THEN builds ELSE Count(builds, MaxAttempts)

\* RunBuild returns nil: the image builds and the export is complete.  Once
\* the context is done a solve can only fail.
SolveSucceeds ==
  /\ pc = "solve"
  /\ ~ctxDone
  /\ IF cfg.output THEN temp' = "whole" /\ pc' = "open"
     ELSE pc' = "built" /\ UNCHANGED temp
  /\ BuildCounted
  /\ UNCHANGED <<env, conn, loop, building, buildErr, sink, outcome, exit, gens, lateGens>>

\* RunBuild fails: the Dockerfile is wrong, BuildTimeout or RunTimeout passes.
SolveFails ==
  /\ pc = "solve"
  /\ buildErr' = "build"
  /\ pc' = IF cfg.output THEN "removeTemp" ELSE "built"
  /\ BuildCounted
  /\ UNCHANGED <<env, conn, loop, building, temp, sink, outcome, exit, gens, lateGens>>

OpenArtifact ==
  /\ pc = "open"
  /\ \/ pc' = "copy" /\ UNCHANGED buildErr
     \/ pc' = "removeTemp" /\ buildErr' = "output"
  /\ UNCHANGED <<env, conn, loop, building, temp, sink, outcome, exit, history>>

\* Mutant: the error of io.Copy is dropped.
CopyArtifact_IgnoresError ==
  /\ pc = "copy"
  /\ \E whole \in BOOLEAN :
       output' = Append(output, [of |-> building, whole |-> whole /\ temp = "whole"])
  /\ pc' = "removeTemp"
  /\ UNCHANGED <<env, conn, loop, build, closes, outcome, exit, history>>

\* io.Copy to OCIOutput: all of the artifact, or some of it and an error.
CopyArtifact ==
  /\ pc = "copy"
  /\ \E whole \in BOOLEAN :
       /\ output' = Append(output, [of |-> building, whole |-> whole /\ temp = "whole"])
       /\ buildErr' = IF whole THEN "none" ELSE "output"
  /\ pc' = "removeTemp"
  /\ UNCHANGED <<env, conn, loop, building, temp, closes, outcome, exit, history>>

\* Mutant: the spool file of a failed build stays.
RemoveTemp_OnlyOnSuccess ==
  /\ pc = "removeTemp"
  /\ temp' = IF buildErr = "none" THEN "none" ELSE temp
  /\ pc' = "built"
  /\ UNCHANGED <<env, conn, loop, building, buildErr, sink, outcome, exit, history>>

\* The deferred close and removal of the spool file.
RemoveTemp ==
  /\ pc = "removeTemp"
  /\ temp' = "none"
  /\ pc' = "built"
  /\ UNCHANGED <<env, conn, loop, building, buildErr, sink, outcome, exit, history>>

\* The Dockerfile builds: Run returns it.
ReturnResult ==
  /\ pc = "built"
  /\ buildErr = "none"
  /\ result' = [dockerfile |-> building, attempts |-> attempt, fromUser |-> building = User]
  /\ pc' = "closeConn"
  /\ UNCHANGED <<env, conn, loop, build, sink, err, exit, history>>

\* Mutant: errOCIOutput is retried like a failed build.
Fatal_Never == FALSE

\* Failures of the output are not the Dockerfile's fault: they end the run.
Fatal == buildErr = "output"

OutputFails ==
  /\ pc = "built"
  /\ Fatal
  /\ Fail("output")
  /\ UNCHANGED <<env, conn, loop, build, sink, result, exit, history>>

\* Mutant: every retry prompt forgets the catalog.
RetryPrompt_NoCatalog == [kind |-> "retry", of |-> building, catalog |-> FALSE]

RetryPrompt == [kind |-> "retry", of |-> building, catalog |-> building # User]

\* The failed Dockerfile and its log become the next prompt; those of the
\* caller's Dockerfile do not consume an attempt and bring no catalog.
RetryAfterBuild ==
  /\ pc = "built"
  /\ buildErr # "none"
  /\ ~Fatal
  /\ prompt' = RetryPrompt
  /\ IF building = User THEN pc' = "createAgent" /\ UNCHANGED attempt
     ELSE pc' = "loop" /\ attempt' = attempt + 1
  /\ UNCHANGED <<env, conn, build, sink, outcome, exit, history>>

\* Mutant: trying the caller's Dockerfile consumes an attempt.
FirstAttempt_CountsUser == IF cfg.user THEN 2 ELSE 1

FirstAttempt == 1

CreateAgent ==
  /\ pc = "createAgent"
  /\ pc' = "loop"
  /\ attempt' = FirstAttempt
  /\ UNCHANGED <<env, conn, prompt, build, sink, outcome, exit, history>>

CreateAgentFails ==
  /\ pc = "createAgent"
  /\ Fail("agent")
  /\ UNCHANGED <<env, conn, loop, build, sink, result, exit, history>>

\* The loop condition.
MoreAttempts == attempt <= MaxAttempts

StartGenerate ==
  /\ pc = "loop"
  /\ MoreAttempts
  /\ pc' = "generate"
  /\ gens' = Count(gens, MaxAttempts)
  /\ lateGens' = IF ctxDone THEN Count(lateGens, 1) ELSE lateGens
  /\ UNCHANGED <<env, conn, loop, build, sink, outcome, exit, builds>>

GiveUp ==
  /\ pc = "loop"
  /\ ~MoreAttempts
  /\ Fail("exhausted")
  /\ UNCHANGED <<env, conn, loop, build, sink, result, exit, history>>

\* The agent answers; the Dockerfile of attempt n is n.
GenerateAnswers ==
  /\ pc = "generate"
  /\ ~ctxDone
  /\ StartBuild(attempt)
  /\ UNCHANGED <<env, conn, loop, temp, sink, outcome, exit, history>>

\* Mutant: exceeding the steps does not consume the attempt.
GenerateExceedsSteps_Free ==
  /\ pc = "generate"
  /\ ~ctxDone
  /\ prompt' = [kind |-> "hint", of |-> None, catalog |-> TRUE]
  /\ pc' = "loop"
  /\ UNCHANGED <<env, conn, attempt, build, sink, outcome, exit, history>>

\* The agent exceeds its steps: the attempt is used up, without a build.
GenerateExceedsSteps ==
  /\ pc = "generate"
  /\ ~ctxDone
  /\ prompt' = [kind |-> "hint", of |-> None, catalog |-> TRUE]
  /\ attempt' = attempt + 1
  /\ pc' = "loop"
  /\ UNCHANGED <<env, conn, build, sink, outcome, exit, history>>

\* The model, a tool or the context fails.
GenerateFails ==
  /\ pc = "generate"
  /\ Fail("generate")
  /\ UNCHANGED <<env, conn, loop, build, sink, result, exit, history>>

\* The deferred Close of the BuildKit client.
CloseConn ==
  /\ pc = "closeConn"
  /\ conn' = "closed"
  /\ pc' = "closeOutput"
  /\ UNCHANGED <<env, loop, build, sink, outcome, exit, history>>

\* The deferred Close of OCIOutput, the last thing Run does: its failure turns
\* a success into an error, and never replaces an earlier error.
CloseOutput ==
  /\ pc = "closeOutput"
  /\ IF cfg.output
     THEN /\ closes' = closes + 1
          /\ \/ UNCHANGED <<result, err>>
             \/ /\ err' = IF err = "none" THEN "close" ELSE err
                /\ result' = None
     ELSE UNCHANGED <<closes, result, err>>
  /\ pc' = "returned"
  /\ UNCHANGED <<env, conn, loop, build, output, exit, history>>

\* main: an error is logged and the program exits with 1, otherwise the
\* Dockerfile is printed.
Exit ==
  /\ pc = "returned"
  /\ exit = -1
  /\ exit' = IF err # "none" THEN 1 ELSE 0
  /\ UNCHANGED <<pc, env, conn, loop, build, sink, outcome, history>>

\* RunTimeout passes or the user interrupts.
ContextEnds ==
  /\ ~ctxDone
  /\ exit = -1
  /\ ctxDone' = TRUE
  /\ UNCHANGED <<pc, cfg, conn, loop, build, sink, outcome, exit, history>>

Exited == exit # -1 /\ UNCHANGED runVars

-----------------------------------------------------------------------------
RunStep ==
  \/ RejectConfig \/ AcceptConfig
  \/ Connect \/ ConnectFails
  \/ CreateTemp \/ SolveSucceeds \/ SolveFails \/ OpenArtifact \/ CopyArtifact \/ RemoveTemp
  \/ ReturnResult \/ OutputFails \/ RetryAfterBuild
  \/ CreateAgent \/ CreateAgentFails
  \/ StartGenerate \/ GiveUp
  \/ GenerateAnswers \/ GenerateExceedsSteps \/ GenerateFails
  \/ CloseConn \/ CloseOutput \/ Exit

RunNext == RunStep \/ ContextEnds \/ Exited

\* Run is inside a call of the caller's writer: the Write under io.Copy, or
\* Close.  Neither consults the context, and what is written into a pipe, the
\* closing block of a compressor included, waits for its reader.
WaitsForWriter == pc = "copy" \/ (pc = "closeOutput" /\ cfg.output)

\* Run is sequential and the calls it waits for end, Generate and the solve by
\* the deadline of the run at the latest; of the caller's writer nothing is
\* assumed.
RunFairness == WF_runVars(RunStep /\ ~WaitsForWriter)

RunSpec == RunInit /\ [][RunNext]_runVars /\ RunFairness

-----------------------------------------------------------------------------
Returned == pc = "returned"

\* What a caller may rely on when Run succeeds: OCIOutput holds one complete
\* image, built from exactly the returned Dockerfile, and has been closed.
SuccessDelivers ==
  Returned /\ result # None =>
    /\ err = "none"
    /\ cfg.output => /\ output = <<[of |-> result.dockerfile, whole |-> TRUE]>>
                     /\ closes = 1

\* Once a byte may have reached OCIOutput nothing is generated or built any
\* more ("retries do not corrupt this output", zbplan.go:46-47).
NoRetryAfterWrite ==
  output # << >> =>
    pc \in {"removeTemp", "built", "closeConn", "closeOutput", "returned"} /\ Len(output) = 1

\* Whatever happens, a returned Run has removed its spool file, closed its
\* connection, closed OCIOutput exactly once, and says either what it made or
\* why it failed.
NothingLeftBehind ==
  Returned =>
    /\ temp = "none"
    /\ conn # "open"
    /\ closes = IF cfg.output THEN 1 ELSE 0
    /\ (result = None) <=> (err # "none")

\* Every Generate starts from the right context: the failed Dockerfile that
\* was built last, with the catalog unless it was the caller's; a first
\* attempt without one starts from nothing.
PromptFitsHistory ==
  pc = "generate" =>
    CASE prompt.kind = "retry"   -> /\ prompt.of = building
                                    /\ buildErr = "build"
                                    /\ prompt.of = User <=> ~prompt.catalog
                                    /\ attempt = IF prompt.of = User THEN 1 ELSE prompt.of + 1
      [] prompt.kind = "hint"    -> attempt > 1 /\ prompt.catalog
      [] prompt.kind = "initial" -> attempt = 1 /\ ~cfg.user

\* Attempts are accounted for: no more Generate calls and builds than configured,
\* and at most one Generate with a context that is already done.  A caller's
\* Dockerfile that works is returned without the agent, and one that does not
\* costs no attempt: the result counts the Generate calls, and a run that gives
\* up has used all of them (zbplan.go:41-43 and 151).
AttemptsAccounted ==
  /\ builds <= gens /\ gens <= MaxAttempts
  /\ lateGens <= 1
  /\ Returned =>
       /\ result # None => result.attempts = gens /\ (result.fromUser <=> gens = 0)
       /\ err = "exhausted" => gens = MaxAttempts

\* The program comes to an end, whatever fails and however often, unless the
\* caller's writer blocks for ever: nothing else can keep Run.
Terminates == <>(exit # -1) \/ <>[]WaitsForWriter
=============================================================================
