# A TLA+ model of zbplan

zbplan turns a source tree into a container image: a language model, driven by
an agent loop, explores the project with tools, writes a Dockerfile, BuildKit
builds it, and a failed build goes back to the model until an attempt works.
The modules here model the parts of that program that keep state, share it
between goroutines, or have to get bounds and failures right. File and line
references are to the repository; `PROJECT.json` maps every definition to the
lines it stands for. What TLC checks on small instances and what TLAPS proves
for all of them is told apart throughout.

- [Inventory](#inventory)
- [Modules and how they correspond to the code](#modules-and-how-they-correspond-to-the-code)
- [Runs](#runs)
- [Where the code and its documents disagree](#where-the-code-and-its-documents-disagree)
- [Fairness](#fairness)
- [Proofs](#proofs)
- [What is only model-checked, and what is not modelled](#what-is-only-model-checked-and-what-is-not-modelled)
- [Plan](#plan)

## Inventory

| Component | State it keeps | Operations | Hard about it |
|---|---|---|---|
| Run (`pkg/zbplan/zbplan.go`), called by `cmd/zbplan` | attempt number, next prompt, spool file, connection, caller's output | validate, connect, try the caller's Dockerfile, generate, build, copy, deferred clean-up | the context ends between any two steps; every step fails in its own way; nothing may be retried once the output was touched |
| Agent loop (eino's react agent, used in `zbplan.go`) | messages of an attempt, calls of a round | ask the model, run tool calls in parallel, join | calls of a round finish in any order |
| Tool output store (`tool_output.go`) | outputs, order, byte count, call-ID index, marks | `saveCall`, `get`, `refForCall`, `compactionForCall`, `catalog` | eviction against a byte budget while the index must stay true, with call IDs that a provider may reuse |
| Tool output middleware, history rewriter, `read_tool_output` (`tool_output.go`) | none of their own; they edit messages | bound an output, compact old rounds, page | what a message says about the store has to stay true while the store changes |
| BuildKit solve (`pkg/builder/builder.go`) | two goroutines, status channel, temporary directory, `closeOnce` | `Build`, `BuildOCI`, `solve` | blocking sends against a display that fails and a timeout; two closers of one writer |
| One build (`internal/plantools/builder.go`) | build log | `RunBuild`, `NewBuilderClient` | timeout |
| Build log buffer (`internal/plantools/bounded_buffer.go`) | head, tail, total | `Write`, `String` | arithmetic at every capacity |
| Tag search (`pkg/registryutil`) | two TTL caches, two singleflight groups | `Tags` | callers share requests, each with its own deadline; late answers |
| Image search (`pkg/registryutil/images.go`, `ListImages`) | a channel per search, and one more within the search of ghcr.io | fan-out, close, receive | nested fan-outs, failing and over-generous registries |
| Workspace visibility (`internal/workspace`) and filtered context (`pkg/builder/context.go`) | compiled patterns | `IgnoreMatcher`, `HiddenMatcher`, `Walk`, `Open` | three ways to ask one question have to agree |
| File tools (`internal/plantools/files.go`) | a walk or a scan per call | glob, grep, tree, list, read | limits that must be told; paging by line and column over runes |
| Source policy (`pkg/builder/policy.go`), registry allowlist, registry tools | none | `validateDockerfile`, `sourcePolicy`, `NormalizeAllowedRegistries`, `ListTags` | last match wins; run, tools and build each normalise the allowlist and have to agree |
| Build environment (`pkg/buildenv`) | active and declared variables per stage | `Prepare` | scopes of `ENV` and `FROM` while rewriting text |
| Prompts, templates, model clients, log writer | none | formatting, look-up, construction | nothing that a model checker would reach |

How they interact. `main` calls `Run`. `Run` calls the agent's `Generate`, whose
tool calls (file tools, registry tools, `read_tool_output`) pass through the
middleware into the store; before every request the rewriter asks the store
what became of old outputs. `Run` then calls `RunBuild`, which calls the
builder's `solve` with the filtered context and gives the end of the bounded
log to the next prompt. The store lives as long as a run, the messages as long
as an attempt; the catalog in the prompt is the only thing that connects them.
Registry tools share one finder, and with it caches and requests, between
parallel calls.

What makes each component correct is stated in the last section of its module;
what can go wrong, line by line, is the `hazards` list of `PROJECT.json`, each
with the properties that would catch it.

## Modules and how they correspond to the code

**ToolOutputStore** — `toolOutputStore`. The variables are the fields of the
struct. `SaveCall` is `saveCall` up to its loop (including the refusal of an
output above the whole budget), `EvictOldest` one iteration of the loop,
`Insert` the rest. The goroutine inside holds the lock, which is the variable
`saving`, so nobody sees the steps in between. An output is its length; the
length of the formatted ref is a parameter because it is charged to the budget
and grows. `lastSave` and `accepted` are history variables: what was saved last
under an ID, and everything that was ever kept with its running byte count.

**AgentHistory** extends it — the loop of one run as the context budget sees
it. `Rewrite` is `newToolHistoryRewriter`, `ToolReturns`, `MakeRoom` and
`ToolSaved` the middleware around `saveCall`, `PageReturns` is
`read_tool_output`, `NextAttempt` the prompt with `catalog`. A page has a length
that fits its message; a ref that is gone and arguments that are not valid are
the errors of `PageReturns`. A message records
what it shows (`verbatim`, `preview`, `compacted`, `discarded`), the ref its
text names and, for the properties, the output it came from. The model behind
the loop may ask for anything it has been told of, and gives every call an ID
of its own.

**PlanRun** — `Run` and the end of `main`. One action per step that can fail;
`Generate` and the solve are single steps with all their endings. Deferred calls
are actions in the order in which they run. `output` is the list of what was
copied to the caller's writer.

**Solve** — `Build`/`BuildOCI` and their `solve`. The caller, BuildKit's client,
the display and the export session are four actors. The client and the session
are external: a send blocks and is not interrupted by the context, the channel
is closed when the client returns (`builder.go:121-126`). **BuildPromise** is the
same build as its caller sees it: pieces of an image, one close, a result.
`Solve` implements it (`KeepsBuildPromise`), with "broken" for an error of the
client, the display or the close. `PlanRun` takes a build to be no more than
that.

**LogBuffer** — `boundedLogBuffer`; a byte is its position in the log, so losing,
repeating or reordering bytes is visible. **LogWindow** is what its reader is
promised: the whole log while it fits, else the beginning, the notice and the
end. `LogBuffer` implements it, with what `String` returns for `view`.

**TagFinder** — `finder.Tags` for one repository. Both caches and both
singleflight groups behave alike, so one function over keys stands for each
pair. A value is the version of the registry's answer. The groups are external:
a call that its last waiter leaves is cancelled and forgotten, but may still
answer and be added. `Begin` … `Leave` are the steps of a caller, `Recheck` …
`Finish` those of the shared function.

**FileWalk** — a project tree, a `.gitignore`, and one walk over it: of the
build context or of a tool. `IsHidden` is `HiddenMatcher`, including that the
last matching line decides for a path or its parents; `Open` and `VisitContext`
are the two methods of `filteredFS`; `VisitGlob`, `VisitGrep`, `VisitTree` and
`VisitList` are what the tools do with one entry, with their limits of results,
entries, depth, files and bytes. `GlobWalkRoot` and `MatchGlob` are the glob
language; a part of a pattern matches the names that the constant `Wildcard`
says. `TruncationTold` compares what was shown with a definition of its own,
in which a pattern covers a path if the names can be shared out to its parts.

**ReadPages** — the read tool, and an agent that follows the offset and column
of every result. A line is its length and the set of its bytes that start a
rune. The step `Scan` is one turn of the scan loop, `Report` writes the header.
`ReadOutput` is a call of `read_tool_output`; an output is one line, and its
offset a column.

**SourcePolicy** — operators over a registry allowlist: what
`NormalizeAllowedRegistries` makes of it, the registries `list_images` searches,
the one `list_tags` may ask, and the rules of `sourcePolicy` with BuildKit's
evaluation of them. A written registry is mapped by the constant `HostOf` to
its host, to nothing or to a malformed name. An allowlist is a set, and the
rules that one loop of `sourcePolicy` makes, which have one action, are one
member of the list with a set of selectors.

**ImageSearch** extends it — a run that configures its allowlist and offers
`list_images`, and a call of it. The caller, the goroutine of each registry,
the goroutine of each repository on ghcr.io and the two that wait and close are
actors of their own; a channel is its buffer, capacity and closed flag. `found`
and `contacted` are history variables.

**BuildEnv** — `Prepare`, one instruction of a Dockerfile per step: `From`,
`Use`, `Arg`, `Env` and `Run`. `active`, `declared`, `buildArgs` and `secrets`
are its variables of the same names. Beside it the model keeps what BuildKit's
frontend has after the rewritten instruction (`args`, `authorArgs`, `env`) and
what the environment would be if every stage began with the platform's
variables (`meantEnv`), and collects the words that differ under the two.

## Runs

The longest run (`tags`) takes about two minutes, the others less.

| Run | Instance | What it shows |
|---|---|---|
| `store` | 5 saves, 2 reused call IDs and none, outputs short, long and too large, budget 8 | the newest outputs that fit are retained, exactly; the index describes the latest save of an ID; a ref is never reused |
| `history` | 2 parallel calls, 3 rounds, 2 attempts, a store that two truncated outputs overflow, unique IDs | exactly the truncated results of older rounds are replaced, notices are true of their own output, an output is lost only to a newer one of another tool and never to a page of it, every round ends |
| `history_stale_refs` | as `history` | a ref the model is told to read may be gone (violated) |
| `planrun` | all settings, attempts -1, 0, 1, 2 with default 3 | a success delivers exactly one whole image of the returned Dockerfile; no retry after a write; nothing left behind; attempts are accounted for; prompts fit; the program ends unless the caller's writer blocks for ever |
| `solve` | 3 status messages over one slot | refinement of BuildPromise (nil means complete, one close before the return), nothing outlives a build, every build returns |
| `log_buffer` | limits 0 to 9, logs up to 16 bytes, every cut into writes | parts within their capacities; refinement of LogWindow |
| `tags` | 2 callers, a list of tags that changes once, 3 tags of which the limit leaves 2 | another caller's deadline harms nobody, only unanswered tags are skipped, only answers are cached, nothing cached is asked for, the cache goes back only after an abandoned request, every search returns |
| `file_walk` | 4 directories below the root, every `.gitignore` of up to 3 of 7 lines, every tool and start, 9 glob patterns | the context opens exactly what it lists, sensitive names are never shown, a tool shows exactly what it is asked for or says that it stopped short |
| `file_walk_exact` | the same | the context is less than what the tools read (violated) |
| `read_pages` | up to 3 lines of 0, 3, 9 or 17 bytes, pages of 10; outputs of the same lengths, limits from 1 byte to beyond the maximum of 7 | nothing skipped or repeated, whole runes, complete means complete, progress, for files and outputs |
| `image_search` | 7 allowlists, 2 registries, 2 repositories, channels of one slot per registry against answers of up to 3 images | nothing found is lost, nothing is sent into a closed channel, every search returns with its goroutines, nothing is asked or offered that the build denies |
| `build_env` | Dockerfiles of any length over 2 variables, one of which is no ARG name, and a name of the author; 5 words, up to 2 per instruction | the rewritten Dockerfile means what was written, and publishes only what words outside the scripts of `RUN` ask for |

Why the bounds are enough. Five saves fill the store, evict, reuse an ID that
is indexed, evict the output of an ID that was reused, and refuse one that is
indexed, in any order; one more save repeats a situation with other numbers,
and the proofs do not have the bound. Three rounds over two attempts are the
least in which a message is fresh, old and read again after an eviction, and
in which an attempt begins with a full store. The default of three attempts is
reached through settings of zero and below. Three messages are one more than
the channel and the client's blocked send hold. The limits of the buffer
include those with no head and no room at all; its logs overflow it by several
writes. Two callers suffice for every way one can join, leave and abandon a
request while the other starts a second one; both caches behave alike, so it is
enough that the answer of one of them changes. The walk's tree has a file and a
directory under each name that a rule is about, and limits below and above the
number of its entries, files and bytes. A line of 17 bytes takes more than two
pages, at rune boundaries that no page limit meets, and limits of a byte are
smaller than a rune. A registry that answers three images overfills the channel
of two slots by itself, so a send can block while the other registry is still
searching. A Dockerfile has no bound at all: its instructions only move the
state of `Prepare`, which is finite; two variables and a name of the author's
are the least in which a word is fully known, known in part, or not known, and
words of one instruction can need an ARG each.

Deadlock is not checked where the system stops by design: a store that nobody
saves to, a build, a search, a walk or a scan that has returned. `history`,
`planrun` and `log_buffer` check it: the first two have an explicit final step.

## Where the code and its documents disagree

- **A named ref is not always readable.** "Full output is … use read_tool_output"
  can be written about an output that a parallel call has evicted; reading it is
  an error that ends the run. A compacted notice is never revisited.
- **The build does not see exactly what the tools read.** With `dist` and
  `!dist/keep`, the read tool shows `dist/keep`, the context skips `dist`.

Met while modelling, and not the subject of a run:

- "RunTimeout bounds the whole run" (`zbplan.go:66`), but the copy to `OCIOutput`
  and its `Close` (`:282` and `:91`) know nothing of the context, and a pipe, which
  the comment on `OCIOutput` names, makes them wait for its reader. `PlanRun`
  therefore lets them block for ever, and `Terminates` excepts exactly them.
- `Prepared.BuildArgs` "contains only inputs explicitly referenced by Dockerfile
  metadata/file instructions ... RUN-only inputs never go here"
  (`buildenv.go:42-44`; "references outside RUN", `:79`), but a variable that only
  the flags of a `RUN` refer to, as in
  `TestContinuedMountDoesNotRewriteShellReferences`, goes there (`:121-154` and
  `:189-195`). `OnlyReferencedPublic` is about what the code keeps to: the flags
  of a `RUN` publish like other instructions (`inFlags`), its script does not.
- `Config` and `Result` count "agent generate→build cycles" (`zbplan.go:60` and
  `:78`), and giving up reads "failed to build after N attempts" (`:243`); an
  attempt that exceeds the agent's steps is counted and builds nothing
  (`:216-220`), so a run can give up without having built anything.
- The rewriter knows a message by its call ID only. With a provider that reuses
  IDs, which `saveCall` provides for, a page of `read_tool_output` would be
  replaced by a notice about another call's output (`tool_output.go:239`),
  though pages are said to stay verbatim.
- glob and grep pass over files and directories they may not read without
  saying so; the model has none of those.
- tree stops at its depth without saying so (`files.go:811`). The agent has asked
  for that depth, or for the default of 3 that the tool documents, so
  `TruncationTold` takes it as part of the question.
- A glob pattern that begins with `./` matches nothing but, as `./**` does, the
  project directory itself, since the other paths are compared without it.

## Fairness

A goroutine of the program that can take a step eventually takes one (weak
fairness); nothing is assumed of the model or the registry beyond what a
deadline enforces.

- *AgentHistory*: tool calls of a round end, each being bounded by the context
  of the run, and the goroutine that holds the store's lock runs on, as it waits
  for nothing. The model need not ever answer.
- *PlanRun*: the calls `Run` waits for end, by the step limit of `Generate`, the
  build timeout or the run's deadline. Nothing is assumed of the caller's writer:
  a `Write` or `Close` of it may never return (`WaitsForWriter`), and `Terminates`
  says that nothing else can keep the program.
- *Solve*: the caller, the display, an unblocked send and a close make
  progress, and the timeout fires. BuildKit need not finish; its client
  returns, unless it is blocked in a send, once the context has ended.
- *ImageSearch*: goroutines run, and a request ends, with an answer or an error:
  the HTTP client has a time limit (`registryutil.go:180-185`). A search need not
  be asked for.
- *TagFinder*: callers run and their deadlines pass. The shared request gets no
  fairness at all: the registry may hang for ever.

## Proofs

Eight modules hold theorems, for every value of the constants under the named
assumptions of the modules they are about:

| Proof module | About | Theorems |
|---|---|---|
| `AgentHistoryProofs` | ToolOutputStore, AgentHistory | type, `RetainsSuffix`, `BudgetRespected`, `EvictsOnlyForRoom`, `CallRefsLive`, `CompactionDescribesLatest`, `RefsNeverReused`; type, `ContextBudgeted`, `NoticesTruthful`, `LostOnlyToOtherTools` |
| `PlanRunProofs` | PlanRun | type, `SuccessDelivers`, `NoRetryAfterWrite`, `NothingLeftBehind`, `PromptFitsHistory`, `AttemptsAccounted` |
| `SolveProofs` | Solve, BuildPromise | type, `KeepsBuildPromise`, `NothingOutlivesBuild` |
| `LogBufferProofs` | LogBuffer, LogWindow | type, `KeepsBothEnds`, the refinement of LogWindow |
| `TagFinderProofs` | TagFinder | `SkipsOnlyUnanswered`, `AnswersOnly`, `NoRedundantListing`, `CacheGoesForward` |
| `FileToolsProofs` | ReadPages, FileWalk | `ReadTypeOK`, `NothingSkipped`, `CompleteIsComplete`, `RunesWhole`, `CursorAdvances`; type, `SensitiveNeverShown`, `OpenAgreesWithWalk`, `TruncationTold`, and `GlobIsCovers` about `matchGlob` |
| `ImageSearchProofs` | ImageSearch, SourcePolicy | `NothingLost`, `OffersOnlyBuildable`, and `PolicyExact` about `sourcePolicy` |
| `BuildEnvProofs` | BuildEnv | `MeaningPreserved`, `OnlyReferencedPublic` |

The bounds of the runs (saves, rounds, attempts, messages, callers, versions,
lines, entries, words) are constants, so the theorems hold for any number of
each. The assumptions say that lengths, limits and capacities are natural
numbers, that special values are no ordinary ones, and beyond that:

- a ref has at least one byte (ToolOutputStore);
- there is an ID for every call of a run, and the bound on saves leaves room
  for one by each (`HistoryAssumption`); that the provider gives every call an ID
  of its own is part of the model, and what the rewriter relies on; a page fits
  its message, as the limit of `read_tool_output` provides for;
- a rune has at most four bytes, and the first one of a line fits an empty page
  beside the line number and two marks (`ReadAssumption`), as `maxReadBytes`
  provides for by a wide margin;
- every directory but the root is an entry of a directory, names being strings
  (`WalkAssumption`);
- Docker Hub lists a repository once in an answer, and ghcr.io is asked for
  finitely many (`SearchAssumption`); the host of a normalized registry is
  written as it is, and Docker Hub and ghcr.io are two (`PolicyAssumption`).

Every inductive invariant below was checked by TLC on the instance of its run
before it was proved.

*The store.* None of the properties is inductive as it stands. `StoreInv` is
`TypeOK /\ SuffixInv /\ IndexInv`:

- `SuffixInv` says that the order list, the map and the byte counter are three
  views of one suffix of `accepted`, whose running totals are increasing and
  whose refs ascend; the budget then is a difference of two totals. In the
  middle of a save it also says that what was already evicted does not fit
  beside the output being saved (`EvictedForRoom`), which `EvictsOnlyForRoom`
  claims between saves only.
- `IndexInv` says, for every call but the one being saved, that the index names
  the latest save of the ID if that is retained and nothing else, and that the
  marks describe the length of the latest save. The exception is why
  `CompactionDescribesLatest` alone is not preserved.

Each action preserves each part by a lemma of its own. From the invariant follow
`StoreTypeOK`, `StoreRetainsSuffix`, `StoreBudgetRespected`,
`StoreEvictsOnlyForRoom`, `StoreCallRefsLive` (the index never dangles),
`StoreCompactionDescribesLatest` and the action property `StoreRefsNeverReused`.

*The log buffer.* `Bytes(a, b)` is the log from a to b; five lemmas say how such
pieces concatenate and slice. `BufferInv` says that head is a prefix of the log
and tail the last bytes behind it, of exactly the lengths the capacities allow.
`HeadStep` and `TailStep` preserve it, one case per branch of `Write`.
`BufferTypeCorrect` and `BufferKeepsBothEnds` follow, and with `StringShown`
(what `String` returns is what LogWindow shows) the refinement
`BufferImplementsWindow`: every write is an `Extend` or a stutter.

*The agent loop.* `LoopStoreInv` comes first: the invariant of the store holds
inside the loop, whatever the order of the calls. `HistoryInv` has four parts. `LoopInv`: the calls of a
round carry the IDs of the round, and the lock is held by exactly the call that
is saving. `FreshInv`: nothing was saved under an ID that no call has used yet,
which makes `lastSave` of an ID its only save. `MessagesInv`: every tool message,
in the history or still on its way in a call, has the length and the ref of
that save, and says "discarded" only of what is gone. `ShapeInv`: the messages
of the latest round are those at the end of the history, so what the rewriter
spares by position is what `ContextBudgeted` means by the round. A notice stays
true because an evicted ref never returns, which is the store's theorem. For
`LostOnlyToOtherTools`, `SaversInv` adds that a call which is saving is of another
tool than `read_tool_output`, and `LostToNewer` that what an eviction takes is
older than what is being saved.

*Run.* `RunInv` says for each place in `Run` what its locals hold, in parts by
subject: the connection, the spool file, the Dockerfile being built, the
caller's output, the outcome, the counters and the prompt. The properties speak
of a run that has returned; they are inductive only with what was known where
the run turned to return.

*The solve.* `SolveInv` ties the place of the caller to its goroutines
(`PhaseInv`), the channel and the error group (`GroupInv`), and the session to
`closeOnce` (`WriterInv`): only one of the session and `BuildOCI` is inside it,
and it ran once when `BuildOCI` returns. `ExportInv` says that a client without
an error has a finished export. Under the invariant each step is a step of
BuildPromise or a stutter.

*Tag search.* `FinderInv` relates three kinds of state, each for any number of
individuals: a caller has its tags, what is left to ask and what failed, and
these make up what it ranked (`CallerInv`); a shared call has the outcome that
the registry gave (`OutcomeInv`) and is the one to join unless it was abandoned
(`SharedInv`, `GroupInv`); and a caller waits for exactly the call that counts
it among its waiters (`WaitInv`). The last one is what makes a deadline of one
caller harmless to another.

*Paging.* `ReadInv` says of the page under way that its i-th piece is of the
i-th line behind the offset, whole but for the first and the last (`PageInv`),
and of the cursor that the last piece shown ends there (`CursorInv`); that
pages follow each other is inductive with these. Where a page is cut is the
maximum or minimum of a set of positions; two lemmas get both from the
well-foundedness of the natural numbers, and others bound how far a cut moves
by the size of a rune.

*Walks.* `WalkInv` says that what is shown was not hidden (`ShownInv`) and, in
`ReachInv`, that nothing between the root of the walk and a pending path is
hidden, that what is shown is in reach of the tool, and that what is in reach is
shown, pending, or below a pending path, unless the tool reports truncation.
`Passes` states what all five visits have in common: a step goes past the first
pending path, into it, or stops, and leaves nothing in reach behind without a
report; `StepKeeps` shows that such a step keeps the invariant, and one lemma per
tool that its visit is such a step. `PrefixClosed` and `BelowPath` are about the
tree: what is above a path is a path, and of a directory above a path an entry
leads to it. `GlobStartsAbove` shows that starting a glob below the literal part
of its pattern misses nothing, and `ScannedEntries` that a directory of no more
than `maxDirectoryScan` entries is listed whole. When nothing is pending,
`OpenAgreesWithWalk` and `TruncationTold` remain.

*The glob language.* `GlobIsCovers` compares the recursion of `matchGlob` with
`Covers`, which asks for a way to share the names of a path out to the parts of
the pattern. `CoversFrom` generalizes it to the rest of a pattern and of a path,
and satisfies the equations of the recursion (`CoversEnd`, `CoversStars`,
`CoversOne`). Two functions that satisfy them are equal: among the places where
they differ, one would have the fewest parts and names left, and there the
equation makes them equal. That argument by a least counterexample takes the
place of an induction over patterns and paths.

*Image search.* `SearchInv` says where each image found is: in the hands of the
goroutine of a repository that is about to send it, or at exactly one of the
places `Held` names: the two layers of channels, the slices of the goroutines and
the results (`FoundInv`). That none is there twice is what makes an image that
moves from one place to the next neither lost nor repeated; the lemmas on `Moved`
and `Put` say so once for all actions. `SendersInv` says that a goroutine which
has returned holds nothing and that a channel is closed only when all its senders
have returned, so that no send panics and a closed and empty channel has passed
everything on. `AllowedInv` says that only allowed registries are contacted.
With `NormalizedTwice` (the run, the tools and the build normalize the same list
again and again, without a change) and `PolicyExact`, which says what a build
may read and that nothing else is, `OffersOnlyBuildable` follows.

*Build environment.* `EnvInv` relates the environment that the frontend has to
the one that is meant: `Prepare`'s active names are exactly those that are
still the platform's, all others agree, and what is declared is an ARG of the
stage with a value that an instruction, or the flags of a `RUN`, asked for. Each word and each script then expands
alike under both.

## What is only model-checked, and what is not modelled

Out of reach of the proof system, and left to TLC: liveness under fairness
(`RoundCompletes`, `Terminates`, `BuildReturns`, `TagsReturns`,
`SearchReturns`). Every safety property of a passing run is a theorem as well.

The type invariants `HistoryTypeOK`, `RunTypeOK`, `SolveTypeOK`, `FinderTypeOK` and
`WalkTypeOK` are defined for the proofs and not the subject of a run.

Left out of the modelled components: the cutting of an output's preview at a
rune boundary; fuzzy ranking of tags (a constant) and parsing of image
references and host names; regular expressions, wildcards within a name,
symbolic links and path escapes in the workspace; text that is not UTF-8; the
lexing of Dockerfile words in `Prepare` (quotes, escapes, where a reference
ends), its handling of `ONBUILD`, and `oldStandardFrontend`, whose effect
`builder.go` has on every build anyway; the counting of instructions in
`validateDockerfile`; wording and formatting everywhere.

Not modelled at all, since they keep no state and decide nothing: Dockerfile
templates (embedded texts looked up by name), model clients (construction of
HTTP clients), the log writer, the build environment's test suite, the example
program, scripts and CI.

## Plan

1. ToolOutputStore, its run and proofs; AgentHistory on top of it.
2. PlanRun.
3. Solve, and BuildPromise, which it implements.
4. LogBuffer and LogWindow, with the refinement proved.
5. TagFinder.
6. FileWalk with the glob language, and ReadPages with both paging tools.
7. SourcePolicy, and ImageSearch on top of it.
8. BuildEnv.
9. Proofs of the safety properties: AgentHistory, PlanRun, Solve, BuildEnv,
   TagFinder, ReadPages, and of FileWalk what does not depend on the globs.
10. Proofs about ImageSearch and SourcePolicy, and about FileWalk with the glob
    language.

Items 1 to 10 are done.
