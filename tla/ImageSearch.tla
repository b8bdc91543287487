----------------------------- MODULE ImageSearch -----------------------------
(***************************************************************************)
(* list_images: ListImages of internal/plantools/registryutil.go over      *)
(* Images of pkg/registryutil/images.go, from the configuration of the run *)
(* that offers the tool to the answer.  One goroutine per registry sends   *)
(* what it found into resultChan while the caller receives; another closes *)
(* the channel when all of them have returned.  The goroutine of ghcr.io   *)
(* does the same once more inside, with one goroutine per repository that  *)
(* asks for a pull token.  HTTP requests are external: each ends, with an  *)
(* answer of any length or with an error.                                  *)
(***************************************************************************)
EXTENDS SourcePolicy, Functions

CONSTANTS
  Configs,          \* allowlists a run may be configured with
  Repos,            \* repositories on ghcr.io
  MaxPerRegistry,   \* maxPerRegistry, the limit given to Images
  HubAnswers        \* bound of the model: lists Docker Hub may answer with

ASSUME SearchAssumption ==
  /\ Configs \subseteq SUBSET Written
  \* Docker Hub lists a repository once.
  /\ \A names \in HubAnswers : names \in Seq(STRING) /\ IsInjective(names)
  /\ IsFiniteSet(Repos)
  /\ MaxPerRegistry \in Nat \ {0}

Registries == {DockerHub, GHCR}

VARIABLES
  configured,   \* AllowedRegistries as given to Run
  allowed,      \* AllowedRegistries as Run uses them
  caller,       \* the run and its call of list_images
  ctxDone,      \* has the caller's context ended?
  worker,       \* worker[r]: the goroutine of a registry, and the images it holds
  item,         \* item[i]: the goroutine of a repository
  imageChan,    \* the channel of searchGHCR
  resultChan,   \* the channel of ListImages
  results,      \* what the caller has received
  panicked,     \* has a goroutine sent into a closed channel?
  found,        \* history: images the registries answered with
  contacted     \* history: registries asked

run        == <<configured, allowed>>
packages   == <<item, imageChan>>
answer     == <<resultChan, results>>
history    == <<found, contacted>>
searchVars == <<run, caller, ctxDone, worker, packages, answer, panicked, history>>

ImageOf(r, n) == [registry |-> r, name |-> n]

Channel(capacity) == [buf |-> << >>, cap |-> capacity, closed |-> FALSE]

Full(ch)        == Len(ch.buf) = ch.cap
Sent(ch, image) == [ch EXCEPT !.buf = Append(@, image)]
Taken(ch)       == [ch EXCEPT !.buf = Tail(@)]
Closed(ch)      == [ch EXCEPT !.closed = TRUE]
Drained(ch)     == ch.closed /\ ch.buf = << >>

SearchInit ==
  /\ configured \in Configs
  /\ allowed = Invalid
  /\ caller = "configure"
  /\ ctxDone = FALSE
  /\ worker = [r \in Registries |-> [step |-> "none", images |-> << >>]]
  /\ item = [i \in Repos |-> "none"]
  /\ imageChan = Channel(0)
  /\ resultChan = Channel(0)
  /\ results = << >>
  /\ panicked = FALSE
  /\ found = {}
  /\ contacted = {}

-----------------------------------------------------------------------------
\* Run refuses an invalid allowlist and offers list_images only if one of
\* the allowed registries can be searched.
Configure ==
  /\ caller = "configure"
  /\ allowed' = NormalizeAllowedRegistries(configured)
  /\ caller' = IF allowed' = Invalid THEN "refused"
               ELSE IF SearchableRegistries(allowed') = {} THEN "withoutSearch"
               ELSE "offered"
  /\ UNCHANGED <<configured, ctxDone, worker, packages, answer, panicked, history>>

\* A query that is empty or too long is an error.
RefuseQuery ==
  /\ caller = "offered"
  /\ caller' = "error"
  /\ UNCHANGED <<run, ctxDone, worker, packages, answer, panicked, history>>

ListImages ==
  LET registries == SearchableRegistries(allowed)
  IN  /\ caller = "offered"
      /\ caller' = "receive"
      /\ resultChan' = Channel(MaxPerRegistry * Cardinality(registries))
      /\ worker' = [r \in Registries |->
                      [worker[r] EXCEPT !.step = IF r \in registries THEN "start" ELSE "returned"]]
      /\ UNCHANGED <<run, ctxDone, packages, results, panicked, history>>

\* Mutant: the results are collected once all goroutines have returned.
Receive_AfterClose ==
  /\ caller = "receive"
  /\ resultChan.closed
  /\ resultChan.buf # << >>
  /\ results' = Append(results, Head(resultChan.buf))
  /\ resultChan' = Taken(resultChan)
  /\ UNCHANGED <<run, caller, ctxDone, worker, packages, panicked, history>>

Receive ==
  /\ caller = "receive"
  /\ resultChan.buf # << >>
  /\ results' = Append(results, Head(resultChan.buf))
  /\ resultChan' = Taken(resultChan)
  /\ UNCHANGED <<run, caller, ctxDone, worker, packages, panicked, history>>

Return ==
  /\ caller = "receive"
  /\ Drained(resultChan)
  /\ caller' = "returned"
  /\ UNCHANGED <<run, ctxDone, worker, packages, answer, panicked, history>>

\* wg.Wait and close.
CloseResults ==
  /\ caller = "receive"
  /\ ~resultChan.closed
  /\ \A r \in Registries : worker[r].step = "returned"
  /\ resultChan' = Closed(resultChan)
  /\ UNCHANGED <<run, caller, ctxDone, worker, packages, results, panicked, history>>

-----------------------------------------------------------------------------
\* The goroutine of a registry looks at the context and calls Images.
Search(r) ==
  /\ worker[r].step = "start"
  /\ worker' = [worker EXCEPT ![r].step = IF ctxDone THEN "returned" ELSE "search"]
  /\ contacted' = IF ctxDone THEN contacted ELSE contacted \cup {r}
  /\ UNCHANGED <<run, caller, ctxDone, packages, answer, panicked, found>>

\* The request fails, is not answered with OK or cannot be decoded: the error
\* is logged and the registry omitted.
Fail(r) ==
  /\ worker[r].step = "search"
  /\ worker' = [worker EXCEPT ![r].step = "returned"]
  /\ UNCHANGED <<run, caller, ctxDone, packages, answer, panicked, history>>

\* Docker Hub answers searchDockerHub, not necessarily within the limit.
AnswerHub ==
  \E names \in HubAnswers :
    LET images == [i \in DOMAIN names |-> ImageOf(DockerHub, names[i])]
    IN  /\ worker[DockerHub].step = "search"
        /\ worker' = [worker EXCEPT ![DockerHub] = [step |-> "send", images |-> images]]
        /\ found' = found \cup Range(images)
        /\ UNCHANGED <<run, caller, ctxDone, packages, answer, panicked, contacted>>

\* GitHub answers searchGHCR with repositories, which are looked at at once.
AnswerGitHub ==
  \E items \in SUBSET Repos :
    /\ worker[GHCR].step = "search"
    /\ worker' = [worker EXCEPT ![GHCR].step = "collect"]
    /\ item' = [i \in Repos |-> IF i \in items THEN "start" ELSE "returned"]
    /\ imageChan' = Channel(Cardinality(items))
    /\ UNCHANGED <<run, caller, ctxDone, answer, panicked, history>>

\* The goroutine of a repository looks at the context and asks for a token.
AskToken(i) ==
  /\ item[i] = "start"
  /\ item' = [item EXCEPT ![i] = IF ctxDone THEN "returned" ELSE "token"]
  /\ UNCHANGED <<run, caller, ctxDone, worker, imageChan, answer, panicked, history>>

\* hasGHCRPackage: a token says that there is a package, anything else counts
\* as none.
HasPackage(i) ==
  /\ item[i] = "token"
  /\ \/ /\ item' = [item EXCEPT ![i] = "send"]
        /\ found' = found \cup {ImageOf(GHCR, i)}
     \/ /\ item' = [item EXCEPT ![i] = "returned"]
        /\ UNCHANGED found
  /\ UNCHANGED <<run, caller, ctxDone, worker, imageChan, answer, panicked, contacted>>

SendImage(i) ==
  /\ item[i] = "send"
  /\ imageChan.closed \/ ~Full(imageChan)
  /\ panicked' = imageChan.closed
  /\ imageChan' = Sent(imageChan, ImageOf(GHCR, i))
  /\ item' = [item EXCEPT ![i] = "returned"]
  /\ UNCHANGED <<run, caller, ctxDone, worker, answer, history>>

\* Mutant: the channel is closed without wg.Wait.
CloseImages_NoWait ==
  /\ worker[GHCR].step = "collect"
  /\ ~imageChan.closed
  /\ imageChan' = Closed(imageChan)
  /\ UNCHANGED <<run, caller, ctxDone, worker, item, answer, panicked, history>>

\* wg.Wait and close of searchGHCR.
CloseImages ==
  /\ worker[GHCR].step = "collect"
  /\ ~imageChan.closed
  /\ \A i \in Repos : item[i] = "returned"
  /\ imageChan' = Closed(imageChan)
  /\ UNCHANGED <<run, caller, ctxDone, worker, item, answer, panicked, history>>

\* searchGHCR receives until the channel is closed and empty.
Collect ==
  /\ worker[GHCR].step = "collect"
  /\ \/ /\ imageChan.buf # << >>
        /\ worker' = [worker EXCEPT ![GHCR].images = Append(@, Head(imageChan.buf))]
        /\ imageChan' = Taken(imageChan)
     \/ /\ Drained(imageChan)
        /\ worker' = [worker EXCEPT ![GHCR].step = "send"]
        /\ UNCHANGED imageChan
  /\ UNCHANGED <<run, caller, ctxDone, item, answer, panicked, history>>

\* The goroutine of a registry sends its images one by one and returns.
SendResult(r) ==
  LET images == worker[r].images
  IN  /\ worker[r].step = "send"
      /\ \/ /\ images # << >>
            /\ resultChan.closed \/ ~Full(resultChan)
            /\ panicked' = resultChan.closed
            /\ resultChan' = Sent(resultChan, Head(images))
            /\ worker' = [worker EXCEPT ![r].images = Tail(images)]
         \/ /\ images = << >>
            /\ worker' = [worker EXCEPT ![r].step = "returned"]
            /\ UNCHANGED <<resultChan, panicked>>
      /\ UNCHANGED <<run, caller, ctxDone, packages, results, history>>

\* The run's deadline, or an interrupt.
ContextEnds ==
  /\ caller \in {"offered", "receive"}
  /\ ~ctxDone
  /\ ctxDone' = TRUE
  /\ UNCHANGED <<run, caller, worker, packages, answer, panicked, history>>

CallerStep == Configure \/ RefuseQuery \/ ListImages \/ Receive \/ Return

WorkerStep(r) == Search(r) \/ Fail(r) \/ SendResult(r)

RepoStep(i) == AskToken(i) \/ HasPackage(i) \/ SendImage(i)

\* A panic ends the program.
SearchNext ==
  /\ ~panicked
  /\ \/ CallerStep
     \/ CloseResults
     \/ \E r \in Registries : WorkerStep(r)
     \/ AnswerHub
     \/ AnswerGitHub
     \/ \E i \in Repos : RepoStep(i)
     \/ CloseImages
     \/ Collect
     \/ ContextEnds

\* Goroutines run, and a request ends: the HTTP client has a time limit.
SearchFairness ==
  /\ WF_searchVars(~panicked /\ (Receive \/ Return))
  /\ WF_searchVars(~panicked /\ CloseResults)
  /\ \A r \in Registries : WF_searchVars(~panicked /\ WorkerStep(r))
  /\ \A i \in Repos : WF_searchVars(~panicked /\ RepoStep(i))
  /\ WF_searchVars(~panicked /\ CloseImages)
  /\ WF_searchVars(~panicked /\ Collect)

SearchSpec == SearchInit /\ [][SearchNext]_searchVars /\ SearchFairness

-----------------------------------------------------------------------------
\* ListImages answers with exactly what the registries found, each image
\* once, whichever of them fail, however much they answer and in whatever
\* order the goroutines run; none of them sends into a closed channel.
NothingLost ==
  /\ ~panicked
  /\ caller = "returned" =>
       /\ Range(results) = found
       /\ Len(results) = Cardinality(found)

\* The comment of NewListImagesTool: the agent never contacts, or is offered
\* images from, a registry the build would deny.  Neither do calls of
\* list_tags, whatever registry they name.
OffersOnlyBuildable ==
  LET asked == contacted \cup {i.registry : i \in Range(results)}
                 \cup UNION {ListTagsContacts(allowed, w) : w \in Written}
  IN  \A host \in asked : Admits(sourcePolicy(allowed), Image(host))

\* A search ends, with every goroutine it started, even if the registries
\* find more than the channels hold.
SearchReturns ==
  caller = "receive" ~> /\ caller = "returned"
                        /\ \A r \in Registries : worker[r].step = "returned"
                        /\ \A i \in Repos : item[i] \in {"none", "returned"}
=============================================================================
