---------------------------- MODULE AgentHistory ----------------------------
(***************************************************************************)
(* The ReAct loop of one Run as its context budgeting sees it              *)
(* (pkg/zbplan/tool_output.go and the attempts loop of zbplan.go).         *)
(*                                                                         *)
(* Before every model request newToolHistoryRewriter compacts the old      *)
(* tool messages; the model answers or asks for tool calls, which run in   *)
(* parallel behind newToolOutputMiddleware; when all have returned their   *)
(* messages are appended in call order.  A tool error fails Generate, and  *)
(* Run with it.  A new attempt starts from fresh messages and a prompt     *)
(* that lists what the output store still holds.                           *)
(*                                                                         *)
(* The loop itself, the order of the appended messages and the joining of  *)
(* parallel calls belong to the agent library and are modelled from its    *)
(* use.  Only tools with output lengths matter here, and a page is a       *)
(* result of read_tool_output.                                             *)
(***************************************************************************)
EXTENDS ToolOutputStore

CONSTANTS
  MaxCalls,      \* bound of the model: tool calls in a response
  MaxRounds,     \* bound of the model: tool rounds in a run
  MaxAttempts,   \* attempts in a run
  CatalogLines,  \* how many lines of the catalog fit its 4 KiB
  PageLens       \* possible lengths of what read_tool_output returns

ASSUME HistoryAssumption ==
  /\ MaxCalls \in Nat \ {0}
  /\ MaxRounds \in Nat
  /\ MaxAttempts \in Nat \ {0}
  /\ CatalogLines \in Nat
  /\ PageLens \subseteq 1..MaxInline
  /\ Callers = 1..MaxCalls
  /\ (1..MaxRounds) \X (1..MaxCalls) \subseteq CallIDs
  /\ MaxSaves >= MaxRounds * MaxCalls

VARIABLES
  phase,     \* rewrite -> respond -> tools -> rewrite ..., or done or failed
  messages,  \* the messages of the attempt, as the library keeps them
  calls,     \* the tool calls of the round being run, in order
  listed,    \* refs the catalog in the prompt of this attempt lists
  round,     \* tool rounds so far
  attempt    \* the attempt being made

agentVars == <<phase, messages, calls, listed, round, attempt>>
vars == <<storeVars, agentVars>>

\* System, user and assistant messages.
Plain == [role |-> "other"]

ToolMessage ==
  [role : {"tool"}, call : CallIDs, page : BOOLEAN, len : Nat,
   own : 0..MaxSaves,   \* the ref its full output was kept under, 0 if none
   content : {"verbatim", "preview", "compacted", "discarded"},
   ref : 0..MaxSaves,   \* the ref the text names, 0 if none
   round : 1..MaxRounds]

\* A tool call in flight; "wants" is the ref a page is asked of, 0 for the
\* other tools.
Call == [id : CallIDs, wants : 0..MaxSaves,
         state : {"running", "saving", "returned", "error"},
         message : ToolMessage \cup {Plain}]

\* Messages, calls and counters are well-formed, and the store is.
HistoryTypeOK ==
  /\ TypeOK
  /\ phase \in {"rewrite", "respond", "tools", "done", "failed"}
  /\ messages \in Seq(ToolMessage \cup {Plain})
  /\ calls \in Seq(Call)
  /\ listed \subseteq 1..nextRef
  /\ round \in 0..MaxRounds
  /\ attempt \in 1..MaxAttempts

-----------------------------------------------------------------------------
HistoryInit ==
  /\ StoreInit
  /\ phase = "rewrite"
  /\ messages = <<Plain>>
  /\ calls = << >>
  /\ listed = {}
  /\ round = 0
  /\ attempt = 1

\* Message i belongs to the tool messages at the end of the history.
InLatestRound(i) == \A j \in i..Len(messages) : messages[j].role = "tool"

Replaced == {"compacted", "discarded"}

\* Mutants: a message is replaced whatever its length was; the mark is not
\* looked at, nor whether the output is retained.
Rewritten_Any(m) ==
  IF m.role = "tool" /\ m.content \notin Replaced
  THEN [m EXCEPT !.content = "compacted", !.ref = m.own] ELSE m
Rewritten_IgnoresRetained(m) ==
  IF m.role = "tool" /\ CompactionForCall(m.call).compactable
  THEN [m EXCEPT !.content = "discarded", !.ref = 0] ELSE m

\* What the rewriter makes of a message of an older round.
Rewritten(m) ==
  IF m.role # "tool" \/ m.content \in Replaced THEN m
  ELSE LET about == CompactionForCall(m.call)
       IN  IF ~about.compactable THEN m
           ELSE IF about.retained
           THEN [m EXCEPT !.content = "compacted", !.ref = about.ref]
           ELSE [m EXCEPT !.content = "discarded", !.ref = 0]

\* newToolHistoryRewriter, before every model request.  No tool call runs
\* then, so the lock is free.
Rewrite ==
  /\ phase = "rewrite"
  /\ messages' = [i \in 1..Len(messages) |->
                    IF InLatestRound(i) THEN messages[i] ELSE Rewritten(messages[i])]
  /\ phase' = "respond"
  /\ UNCHANGED <<storeVars, calls, listed, round, attempt>>

\* Every ref the model can see: in notices and in the catalog of the prompt.
Named ==
  (listed \cup {messages[i].ref : i \in {j \in 1..Len(messages) : messages[j].role = "tool"}})
    \ {0}

\* The ID of call i of the next round: the provider gives each call its own.
CallID(i) == <<round + 1, i>>

\* The model asks for tool calls: other tools, or pages of refs it has seen.
AskForTools ==
  /\ phase = "respond"
  /\ round < MaxRounds
  /\ \E n \in 1..MaxCalls : \E wants \in [1..n -> Named \cup {0}] :
       calls' = [i \in 1..n |-> [id |-> CallID(i), wants |-> wants[i],
                                 state |-> "running", message |-> Plain]]
  /\ messages' = Append(messages, Plain)
  /\ round' = round + 1
  /\ phase' = "tools"
  /\ UNCHANGED <<storeVars, listed, attempt>>

\* boundedToolOutput: what the message of an output shows, given the ref
\* saveCall returned (0 for none).
BoundedToolOutput(id, len, ref) ==
  [role |-> "tool", call |-> id, page |-> FALSE, len |-> len, own |-> ref,
   content |-> IF len <= MaxInline THEN "verbatim" ELSE "preview",
   ref |-> IF len <= MaxInline THEN 0 ELSE ref, round |-> round]

Return(i, message) ==
  calls' = [calls EXCEPT ![i].state = "returned", ![i].message = message]

\* The middleware: a tool has returned and its output is saved.  The message
\* is complete at once if the store refuses the output.
ToolReturns(i, meta, len) ==
  /\ phase = "tools"
  /\ i \in DOMAIN calls
  /\ calls[i].state = "running"
  /\ calls[i].wants = 0
  /\ SaveCall(i, calls[i].id, meta, len)
  /\ IF saving' = NoSave THEN Return(i, BoundedToolOutput(calls[i].id, len, 0))
     ELSE calls' = [calls EXCEPT ![i].state = "saving"]
  /\ UNCHANGED <<phase, messages, listed, round, attempt>>

\* saveCall makes room for the output being saved.
MakeRoom == EvictOldest /\ UNCHANGED agentVars

\* saveCall returns the ref to the middleware.
ToolSaved ==
  /\ Insert
  /\ Return(saving.caller, BoundedToolOutput(saving.callID, saving.len, saving.ref))
  /\ UNCHANGED <<phase, messages, listed, round, attempt>>

\* A tool fails; the middleware passes the error on and saves nothing.
ToolFails(i) ==
  /\ phase = "tools"
  /\ i \in DOMAIN calls
  /\ calls[i].state = "running"
  /\ calls[i].wants = 0
  /\ calls' = [calls EXCEPT ![i].state = "error"]
  /\ UNCHANGED <<storeVars, phase, messages, listed, round, attempt>>

\* The message of a page: a result that fits, under no ref of its own.
Page(id, len) ==
  [role |-> "tool", call |-> id, page |-> TRUE, len |-> len, own |-> 0,
   content |-> "verbatim", ref |-> 0, round |-> round]

\* Mutant: a read that fails is tried again, as if the ref could come back.
PageReturns_Polls(i) ==
  /\ phase = "tools"
  /\ i \in DOMAIN calls
  /\ calls[i].state = "running"
  /\ calls[i].wants # 0
  /\ \/ /\ Unlocked
        /\ Retained(calls[i].wants)
        /\ \E len \in PageLens : Return(i, Page(calls[i].id, len))
     \/ UNCHANGED calls
  /\ UNCHANGED <<storeVars, phase, messages, listed, round, attempt>>

\* Mutant: the middleware saves a page like any other output.
PageReturns_Saves(i) ==
  /\ phase = "tools"
  /\ i \in DOMAIN calls
  /\ calls[i].state = "running"
  /\ calls[i].wants # 0
  /\ Retained(calls[i].wants)
  /\ \E meta \in MetaLens, len \in PageLens :
       /\ SaveCall(i, calls[i].id, meta, len)
       /\ IF saving' = NoSave THEN Return(i, Page(calls[i].id, len))
          ELSE calls' = [calls EXCEPT ![i].state = "saving"]
  /\ UNCHANGED <<phase, messages, listed, round, attempt>>

\* read_tool_output: get under the read lock, or an error if the ref is gone or
\* the arguments are not valid.  The middleware does not save the page; it fits
\* the message.
PageReturns(i) ==
  /\ phase = "tools"
  /\ i \in DOMAIN calls
  /\ calls[i].state = "running"
  /\ calls[i].wants # 0
  /\ \/ /\ Unlocked
        /\ Retained(calls[i].wants)
        /\ \E len \in PageLens : Return(i, Page(calls[i].id, len))
     \/ calls' = [calls EXCEPT ![i].state = "error"]
  /\ UNCHANGED <<storeVars, phase, messages, listed, round, attempt>>

\* All calls of the round are over: their messages join the history, or the
\* first error ends the run.
RoundOver ==
  /\ phase = "tools"
  /\ \A i \in DOMAIN calls : calls[i].state \in {"returned", "error"}
  /\ IF \E i \in DOMAIN calls : calls[i].state = "error"
     THEN phase' = "failed" /\ UNCHANGED messages
     ELSE /\ phase' = "rewrite"
          /\ messages' = messages \o [i \in DOMAIN calls |-> calls[i].message]
  /\ calls' = << >>
  /\ UNCHANGED <<storeVars, listed, round, attempt>>

\* catalog: the newest retained outputs, as many as fit.
Catalog ==
  {order[i] : i \in {j \in 1..Len(order) : j > Len(order) - CatalogLines}}

AttemptsLeft == attempt < MaxAttempts

\* The answer does not build, or the step limit is hit: the next attempt has
\* its own messages, the same store, and a prompt with its catalog.
NextAttempt ==
  /\ phase = "respond"
  /\ AttemptsLeft
  /\ attempt' = attempt + 1
  /\ messages' = <<Plain>>
  /\ listed' = Catalog
  /\ phase' = "rewrite"
  /\ UNCHANGED <<storeVars, calls, round>>

\* The answer builds, or there are no attempts left.
Finish ==
  /\ phase = "respond"
  /\ phase' = "done"
  /\ UNCHANGED <<storeVars, messages, calls, listed, round, attempt>>

Stopped == phase \in {"done", "failed"} /\ UNCHANGED vars

-----------------------------------------------------------------------------
ToolStep ==
  \/ \E i \in 1..MaxCalls, meta \in MetaLens, len \in OutputLens : ToolReturns(i, meta, len)
  \/ \E i \in 1..MaxCalls : ToolFails(i) \/ PageReturns(i)
  \/ MakeRoom
  \/ ToolSaved
  \/ RoundOver

HistoryNext ==
  \/ Rewrite
  \/ AskForTools
  \/ ToolStep
  \/ NextAttempt
  \/ Finish
  \/ Stopped

\* Tools return (each is bounded by the deadline of the run), a goroutine in
\* the store runs on, and the library joins the calls.
HistoryFairness == WF_vars(ToolStep)

HistorySpec == HistoryInit /\ [][HistoryNext]_vars /\ HistoryFairness

-----------------------------------------------------------------------------
ToolMessages == {i \in 1..Len(messages) : messages[i].role = "tool"}

\* Of the latest round the model gets every result as it was returned; of the
\* older ones exactly those are replaced that were truncated, and short results
\* and pages stay ("only previously truncated results are compacted in older
\* tool rounds", README.md:117).
ContextBudgeted ==
  phase = "respond" =>
    \A i \in ToolMessages :
      LET long == messages[i].len > MaxInline
      IN  IF messages[i].round = round
          THEN messages[i].content = IF long THEN "preview" ELSE "verbatim"
          ELSE (messages[i].content \in Replaced <=> long) /\ messages[i].content # "preview"

\* What a message says of the store is true of its own output: a ref is the ref
\* of that output, and "discarded" is said only of one that cannot be read any
\* more.
NoticesTruthful ==
  \A i \in ToolMessages :
    /\ messages[i].ref \in {0, messages[i].own}
    /\ messages[i].content = "discarded" => ~Retained(messages[i].own)

\* An output is lost only to the newer output of another tool, which a call of
\* the round under way is saving: never to a page read from it, to the rewriter
\* or to a new attempt ("Retaining them again could evict the source being
\* paged", tool_output.go:169).  However often the agent pages through an
\* output, alone or in parallel, it can read the rest.
LostOnlyToOtherTools ==
  [][\A ref \in DOMAIN outputs \ DOMAIN outputs' :
       \E i \in DOMAIN calls :
         /\ calls[i].wants = 0
         /\ calls[i].state = "saving"
         /\ ref < lastSave[calls[i].id].ref]_vars

\* Parallel tool calls and the lock of the store never keep a round from
\* ending.
RoundCompletes == phase = "tools" ~> phase \in {"rewrite", "failed"}

\* What a notice or the catalog tells the model to read can be read when it is
\* told so ("Full output is %q; use read_tool_output with that ref",
\* tool_output.go:188; "Prior tool outputs remain available by reference",
\* zbplan.go:252).
NamedRefsReadable == phase = "respond" => \A ref \in Named : Retained(ref)
=============================================================================
