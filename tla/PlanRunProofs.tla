---------------------------- MODULE PlanRunProofs ----------------------------
(***************************************************************************)
(* Proofs about Run, for every configuration and every number of attempts: *)
(* what a successful run delivers, what a returned run leaves behind, that *)
(* nothing is retried once OCIOutput was written to, which prompt every    *)
(* Generate starts from, and the accounting of attempts.  One inductive    *)
(* invariant, RunInv, says for each place in Run what its locals hold.     *)
(***************************************************************************)
EXTENDS PlanRun, TLAPS

BuildSteps  == {"createTemp", "solve", "open", "copy", "removeTemp", "built"}
ReturnSteps == {"closeConn", "closeOutput", "returned"}

\* The connection is open from Connect to its deferred Close.
ConnInv ==
  /\ pc \in {"validate", "connect"} => conn = "none"
  /\ pc \in BuildSteps \cup {"createAgent", "loop", "generate", "closeConn"} => conn = "open"
  /\ pc \in {"closeOutput", "returned"} => conn # "open"

\* The spool file exists inside runBuildOnce only, and is whole when copied.
TempInv ==
  /\ pc \in {"createTemp", "open", "copy", "removeTemp"} => cfg.output
  /\ pc \in {"open", "copy"} => temp = "whole"
  /\ pc \notin {"solve", "open", "copy", "removeTemp"} => temp = "none"
  /\ pc = "solve" /\ ~cfg.output => temp = "none"

\* The Dockerfile being built is the caller's or that of this attempt.
BuildingInv ==
  /\ pc \in BuildSteps => building \in {User, attempt}
  /\ pc \in {"createTemp", "solve", "open", "copy"} => buildErr = "none"

\* OCIOutput is untouched until the copy of a build, and then holds as much
\* of that build as its error says.
OutputInv ==
  /\ output # << >> =>
       /\ pc \in {"removeTemp", "built"} \cup ReturnSteps
       /\ cfg.output
       /\ buildErr # "build"
       /\ output = <<[of |-> building, whole |-> buildErr = "none"]>>
  /\ pc \in {"removeTemp", "built"} /\ cfg.output /\ buildErr = "none" => output # << >>

\* A returning Run has either the Dockerfile it built, or an error.
OutcomeInv ==
  /\ pc \notin ReturnSteps => result = None /\ err = "none"
  /\ pc \in ReturnSteps => (result = None <=> err # "none")
  /\ result # None =>
       /\ buildErr = "none"
       /\ cfg.output => output # << >>
       /\ result = [dockerfile |-> building, attempts |-> attempt, fromUser |-> building = User]
       /\ gens = attempt
       /\ building = User <=> gens = 0
  /\ err = "exhausted" => gens = MaxAttempts
  /\ closes = IF Returned /\ cfg.output THEN 1 ELSE 0

\* The counters follow the attempt of the loop.
CountInv ==
  /\ builds <= gens /\ gens <= MaxAttempts
  /\ pc \in {"validate", "connect", "createAgent"} => attempt = 0 /\ gens = 0
  /\ pc \in BuildSteps => gens = attempt /\ (building = User <=> attempt = 0)
  /\ pc \in {"createTemp", "solve"} /\ building # User => builds < gens
  /\ pc = "loop" => attempt = gens + 1
  /\ pc = "generate" => attempt = gens /\ builds < gens
  /\ lateGens \in {0, 1}
  /\ lateGens = 1 => ctxDone /\ pc \in {"generate"} \cup ReturnSteps

\* The prompt fits the last build from the moment it is made.
PromptInv ==
  /\ pc \in {"validate", "connect"} => prompt.kind = "initial"
  /\ pc = "createAgent" =>
       \/ prompt.kind = "initial" /\ ~cfg.user
       \/ prompt.kind = "retry" /\ prompt.of = User /\ ~prompt.catalog /\ building = User /\ buildErr = "build"
  /\ pc \in {"loop", "generate"} =>
       \/ prompt.kind = "initial" /\ attempt = 1 /\ ~cfg.user
       \/ prompt.kind = "hint" /\ attempt > 1 /\ prompt.catalog
       \/ /\ prompt.kind = "retry" /\ prompt.of = building /\ buildErr = "build"
          /\ prompt.of = User <=> ~prompt.catalog
          /\ attempt = IF prompt.of = User THEN 1 ELSE prompt.of + 1

RunInv ==
  /\ RunTypeOK /\ ConnInv /\ TempInv /\ BuildingInv
  /\ OutputInv /\ OutcomeInv /\ CountInv /\ PromptInv

-----------------------------------------------------------------------------
\* MaxAttempts is a positive number, whatever Config.MaxBuildAttempts says.
LEMMA MaxAttemptsPositive == RunTypeOK => MaxAttempts \in Nat \ {0}
<1> SUFFICES ASSUME RunTypeOK PROVE MaxAttempts \in Nat \ {0}
  OBVIOUS
<1>1. cfg.attempts \in Int
  BY PlanRunAssumption DEF RunTypeOK
<1>2. QED
  BY <1>1, PlanRunAssumption DEF MaxAttempts

\* RunInv is inductive: every step of Run, and the end of its context, keeps
\* it.
LEMMA RunInvariant == RunInit /\ [][RunNext]_runVars => []RunInv
<1>1. RunInit => RunInv
  <2> SUFFICES ASSUME RunInit PROVE RunInv
    OBVIOUS
  <2>1. RunTypeOK
    BY DEF RunInit, RunTypeOK, Prompt
  <2>2. MaxAttempts \in Nat \ {0}
    BY <2>1, MaxAttemptsPositive
  <2>3. ConnInv /\ TempInv /\ BuildingInv /\ OutputInv /\ PromptInv
    BY DEF RunInit, ConnInv, TempInv, BuildingInv, OutputInv, PromptInv, BuildSteps, ReturnSteps
  <2>4. OutcomeInv /\ CountInv
    BY <2>2 DEF RunInit, OutcomeInv, CountInv, BuildSteps, ReturnSteps, Returned
  <2>5. QED
    BY <2>1, <2>3, <2>4 DEF RunInv
<1>2. RunInv /\ [RunNext]_runVars => RunInv'
  <2> SUFFICES ASSUME RunInv, [RunNext]_runVars PROVE RunInv'
    OBVIOUS
  <2>a. MaxAttempts \in Nat \ {0}
    BY MaxAttemptsPositive DEF RunInv
  <2>c. UNCHANGED cfg
    BY DEF RunNext, RunStep, runVars, env, Exited,
       RejectConfig, AcceptConfig, Connect, ConnectFails, CreateTemp, SolveSucceeds, SolveFails, OpenArtifact, CopyArtifact, RemoveTemp, ReturnResult, OutputFails, RetryAfterBuild, CreateAgent, CreateAgentFails, StartGenerate, GiveUp, GenerateAnswers, GenerateExceedsSteps, GenerateFails, CloseConn, CloseOutput, Exit, ContextEnds
  <2>b. MaxAttempts' = MaxAttempts
    BY <2>c DEF MaxAttempts
  <2> USE PlanRunAssumption DEF RunInv, RunTypeOK, ConnInv, TempInv, BuildingInv, OutputInv, OutcomeInv,
          CountInv, PromptInv, BuildSteps, ReturnSteps, Returned, Dockerfile, Prompt,
          env, loop, build, sink, outcome, history
  <2>1. CASE RejectConfig
    BY <2>1, <2>a, <2>b DEF RejectConfig, Fail
  <2>2. CASE AcceptConfig
    BY <2>2, <2>a, <2>b DEF AcceptConfig
  <2>3. CASE Connect
    BY <2>3, <2>a, <2>b DEF Connect, StartBuild
  <2>4. CASE ConnectFails
    BY <2>4, <2>a, <2>b DEF ConnectFails, Fail
  <2>5. CASE CreateTemp
    BY <2>5, <2>a, <2>b DEF CreateTemp
  <2>6. CASE SolveSucceeds
    BY <2>6, <2>a, <2>b DEF SolveSucceeds, BuildCounted, Count
  <2>7. CASE SolveFails
    BY <2>7, <2>a, <2>b DEF SolveFails, BuildCounted, Count
  <2>8. CASE OpenArtifact
    BY <2>8, <2>a, <2>b DEF OpenArtifact
  <2>9. CASE CopyArtifact
    <3>1. PICK whole \in BOOLEAN :
            /\ output' = Append(output, [of |-> building, whole |-> whole /\ temp = "whole"])
            /\ buildErr' = IF whole THEN "none" ELSE "output"
      BY <2>9 DEF CopyArtifact
    <3>2. output = << >> /\ temp = "whole" /\ building \in Dockerfile
      BY <2>9 DEF CopyArtifact
    <3>3. output' = <<[of |-> building, whole |-> whole]>>
      BY <3>1, <3>2
    <3>4. whole = (buildErr' = "none")
      BY <3>1
    <3>5. output' # << >> /\ output' \in Seq([of : Dockerfile, whole : BOOLEAN])
      BY <3>2, <3>3
    <3>6. output' = <<[of |-> building', whole |-> buildErr' = "none"]>>
      BY <2>9, <3>3, <3>4 DEF CopyArtifact
    <3>7. /\ pc = "copy" /\ pc' = "removeTemp" /\ buildErr' \in {"none", "output"}
          /\ UNCHANGED <<env, conn, loop, building, temp, closes, outcome, exit, history>>
      BY <2>9, <3>1 DEF CopyArtifact
    <3>8. QED
      BY <2>a, <2>b, <3>5, <3>6, <3>7
  <2>10. CASE RemoveTemp
    BY <2>10, <2>a, <2>b DEF RemoveTemp
  <2>11. CASE ReturnResult
    <3>1. result' = [dockerfile |-> building', attempts |-> attempt', fromUser |-> building' = User]
      BY <2>11 DEF ReturnResult
    <3>2. building' \in Dockerfile /\ attempt' \in Nat /\ (building' = User) \in BOOLEAN
      BY <2>11 DEF ReturnResult
    <3>3. result' \in [dockerfile : Dockerfile, attempts : Nat, fromUser : BOOLEAN]
      BY <3>1, <3>2
    <3>4. result' # None
      BY <3>3
    <3>5. QED
      BY <2>11, <2>a, <2>b, <3>1, <3>3, <3>4 DEF ReturnResult
  <2>12. CASE OutputFails
    BY <2>12, <2>a, <2>b DEF OutputFails, Fail, Fatal
  <2>13. CASE RetryAfterBuild
    <3>1. /\ prompt' = [kind |-> "retry", of |-> building, catalog |-> building # User]
          /\ building \in Dockerfile /\ (building # User) \in BOOLEAN
      BY <2>13 DEF RetryAfterBuild, RetryPrompt
    <3>2. prompt' \in Prompt
      BY <3>1
    <3>3. prompt'.kind = "retry" /\ prompt'.of = building' /\ buildErr' = "build"
      BY <2>13, <3>1 DEF RetryAfterBuild, Fatal
    <3>4. CASE building = User
      <4>1. prompt'.of = User /\ ~prompt'.catalog
        BY <3>1, <3>4
      <4>2. QED
        BY <2>13, <2>a, <2>b, <3>2, <3>3, <3>4, <4>1 DEF RetryAfterBuild, Fatal
    <3>5. CASE building # User
      <4>1. prompt'.of # User /\ prompt'.catalog
        BY <3>1, <3>5
      <4>2. QED
        BY <2>13, <2>a, <2>b, <3>2, <3>3, <3>5, <4>1 DEF RetryAfterBuild, Fatal
    <3>6. QED
      BY <3>4, <3>5
  <2>14. CASE CreateAgent
    BY <2>14, <2>a, <2>b DEF CreateAgent, FirstAttempt
  <2>15. CASE CreateAgentFails
    BY <2>15, <2>a, <2>b DEF CreateAgentFails, Fail
  <2>16. CASE StartGenerate
    BY <2>16, <2>a, <2>b DEF StartGenerate, MoreAttempts, Count
  <2>17. CASE GiveUp
    BY <2>17, <2>a, <2>b DEF GiveUp, Fail, MoreAttempts
  <2>18. CASE GenerateAnswers
    BY <2>18, <2>a, <2>b DEF GenerateAnswers, StartBuild
  <2>19. CASE GenerateExceedsSteps
    BY <2>19, <2>a, <2>b DEF GenerateExceedsSteps
  <2>20. CASE GenerateFails
    BY <2>20, <2>a, <2>b DEF GenerateFails, Fail
  <2>21. CASE CloseConn
    BY <2>21, <2>a, <2>b DEF CloseConn
  <2>22. CASE CloseOutput
    BY <2>22, <2>a, <2>b DEF CloseOutput
  <2>23. CASE Exit
    BY <2>23, <2>a, <2>b DEF Exit
  <2>24. CASE ContextEnds
    BY <2>24, <2>a, <2>b DEF ContextEnds
  <2>25. CASE UNCHANGED runVars
    BY <2>25, <2>a, <2>b DEF runVars
  <2>26. QED
    BY <2>1, <2>2, <2>3, <2>4, <2>5, <2>6, <2>7, <2>8, <2>9, <2>10, <2>11, <2>12, <2>13, <2>14, <2>15, <2>16, <2>17, <2>18, <2>19, <2>20, <2>21, <2>22, <2>23, <2>24, <2>25 DEF RunNext, RunStep, Exited
<1>3. QED
  BY <1>1, <1>2, PTL

-----------------------------------------------------------------------------
\* The locals of Run hold what they can hold (RunTypeOK).
THEOREM RunTypeCorrect == RunSpec => []RunTypeOK
<1>1. RunInv => RunTypeOK
  BY DEF RunInv
<1>2. QED
  BY <1>1, RunInvariant, PTL DEF RunSpec

\* When Run succeeds OCIOutput holds one whole image, built from the returned
\* Dockerfile, and has been closed once (SuccessDelivers).
THEOREM RunDelivers == RunSpec => []SuccessDelivers
<1>1. RunInv => SuccessDelivers
  <2> SUFFICES ASSUME RunInv, Returned, result # None
               PROVE  /\ err = "none"
                      /\ cfg.output => /\ output = <<[of |-> result.dockerfile, whole |-> TRUE]>>
                                       /\ closes = 1
    BY DEF SuccessDelivers
  <2>1. err = "none" /\ (cfg.output => closes = 1)
    BY DEF RunInv, OutcomeInv, ReturnSteps, Returned
  <2>2. buildErr = "none" /\ result.dockerfile = building /\ (cfg.output => output # << >>)
    BY DEF RunInv, OutcomeInv
  <2>3. output # << >> => output = <<[of |-> building, whole |-> buildErr = "none"]>>
    BY DEF RunInv, OutputInv
  <2>4. (buildErr = "none") = TRUE
    BY <2>2
  <2>5. QED
    BY <2>1, <2>2, <2>3, <2>4
<1>2. QED
  BY <1>1, RunInvariant, PTL DEF RunSpec

\* Nothing is generated or built once a byte may have reached OCIOutput
\* (NoRetryAfterWrite).
THEOREM RunNeverRetriesAfterWrite == RunSpec => []NoRetryAfterWrite
<1>1. RunInv => NoRetryAfterWrite
  BY DEF RunInv, OutputInv, ReturnSteps, NoRetryAfterWrite
<1>2. QED
  BY <1>1, RunInvariant, PTL DEF RunSpec

\* A returned Run has removed its spool file, closed its connection and closed
\* OCIOutput once, and has a result or an error (NothingLeftBehind).
THEOREM RunLeavesNothing == RunSpec => []NothingLeftBehind
<1>1. RunInv => NothingLeftBehind
  BY DEF RunInv, ConnInv, TempInv, OutcomeInv, ReturnSteps, Returned, NothingLeftBehind
<1>2. QED
  BY <1>1, RunInvariant, PTL DEF RunSpec

\* Every Generate is asked about the Dockerfile that failed last, with the
\* catalog unless it was the caller's (PromptFitsHistory).
THEOREM RunPromptsFit == RunSpec => []PromptFitsHistory
<1>1. RunInv => PromptFitsHistory
  BY DEF RunInv, PromptInv, PromptFitsHistory
<1>2. QED
  BY <1>1, RunInvariant, PTL DEF RunSpec

\* Generate calls and builds stay within the configured attempts, at most one
\* Generate begins after the context ended, and the result counts them
\* (AttemptsAccounted).
THEOREM RunAccountsAttempts == RunSpec => []AttemptsAccounted
<1>1. RunInv => AttemptsAccounted
  <2> SUFFICES ASSUME RunInv PROVE AttemptsAccounted
    OBVIOUS
  <2>1. builds <= gens /\ gens <= MaxAttempts /\ lateGens <= 1
    BY DEF RunInv, CountInv
  <2>2. result # None => result.attempts = gens /\ (result.fromUser <=> gens = 0)
    <3> SUFFICES ASSUME result # None PROVE result.attempts = gens /\ (result.fromUser <=> gens = 0)
      OBVIOUS
    <3>1. /\ result.attempts = attempt /\ result.fromUser = (building = User)
          /\ gens = attempt /\ (building = User <=> gens = 0)
      BY DEF RunInv, OutcomeInv
    <3>2. QED
      BY <3>1
  <2>3. err = "exhausted" => gens = MaxAttempts
    BY DEF RunInv, OutcomeInv
  <2>4. QED
    BY <2>1, <2>2, <2>3 DEF AttemptsAccounted
<1>2. QED
  BY <1>1, RunInvariant, PTL DEF RunSpec
=============================================================================
