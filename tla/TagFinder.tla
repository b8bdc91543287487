------------------------------ MODULE TagFinder ------------------------------
(***************************************************************************)
(* finder.Tags of pkg/registryutil: concurrent list_tags calls for one     *)
(* repository that share the two TTL caches and the two singleflight       *)
(* groups of a finder.  Both caches, and both groups, behave alike, so     *)
(* one function over Keys stands for the pair: the key Names for the list  *)
(* of tag names, and a tag for the time it was created at.                 *)
(*                                                                         *)
(* A value is the version of the registry's answer it was read from; later *)
(* versions are newer.  The caches (expirable.LRU) and singleflight are    *)
(* external: an entry may vanish at any time, by age or by eviction; a     *)
(* shared call is cancelled and forgotten when its last waiter leaves.     *)
(***************************************************************************)
EXTENDS Integers, Sequences, FiniteSets, SequencesExt

CONSTANTS
  Callers,     \* concurrent calls of Tags
  Names,       \* the key of the tag names
  TagNames,    \* tags of the repository
  Limit,       \* the limit argument of Tags
  RankFind,    \* the tags each version of the list ranks, best match first
  MaxVersion,  \* bound of the model: versions of an answer
  Changing     \* bound of the model: keys whose answer changes

Keys     == {Names} \cup TagNames
Versions == 1..MaxVersion

\* No load starts more than one call, and a caller loads the names and then
\* at most Limit tags.
Calls == 1..(Cardinality(Callers) * (1 + Limit))

ASSUME FinderAssumption ==
  /\ Names \notin TagNames
  /\ Limit \in Nat \ {0}
  /\ MaxVersion \in Nat \ {0}
  /\ RankFind \in [Versions -> Seq(TagNames)]
  /\ Changing \subseteq Keys

None == 0   \* no version, and no call

VARIABLES
  remote,    \* remote[k]: version the registry would answer with now
  cache,     \* cache[k]: cached version, or None
  group,     \* group[k]: the call singleflight would join for k, or None
  call,      \* call[f]: a run of the function given to Do, in its goroutine
  caller,    \* caller[c]: a call of Tags
  seen       \* history: what the registry did and which calls were abandoned

vars == <<remote, cache, group, call, caller, seen>>

Errs == {"nil", "registry", "context"}

CallRecord ==
  [key : Keys, step : {"unused", "recheck", "list", "add", "return", "done"},
   val : Versions \cup {None}, err : Errs, waiting : SUBSET Callers,
   cancelled : BOOLEAN]

CallerRecord ==
  [step : {"idle", "get", "do", "wait", "returned"}, todo : Seq(Keys),
   asked : SUBSET TagNames,   \* history: the tags ranked for this call
   on : Calls \cup {None}, ctxDone : BOOLEAN,
   tags : Seq([name : TagNames, createdAt : Versions]), err : Errs]

FinderTypeOK ==
  /\ remote \in [Keys -> Versions]
  /\ cache \in [Keys -> Versions \cup {None}]
  /\ group \in [Keys -> Calls \cup {None}]
  /\ call \in [Calls -> CallRecord]
  /\ caller \in [Callers -> CallerRecord]
  /\ seen \in [answers : SUBSET (Keys \X Versions), failed : SUBSET Keys,
               abandoned : SUBSET Keys]

UnusedCall == [key |-> Names, step |-> "unused", val |-> None, err |-> "nil",
               waiting |-> {}, cancelled |-> FALSE]

FinderInit ==
  /\ remote = [k \in Keys |-> 1]
  /\ cache = [k \in Keys |-> None]
  /\ group = [k \in Keys |-> None]
  /\ call = [f \in Calls |-> UnusedCall]
  /\ caller = [c \in Callers |-> [step |-> "idle", todo |-> << >>, asked |-> {},
                                  on |-> None, ctxDone |-> FALSE, tags |-> << >>,
                                  err |-> "nil"]]
  /\ seen = [answers |-> {}, failed |-> {}, abandoned |-> {}]

-----------------------------------------------------------------------------
\* A call of Tags whose arguments are valid.
Begin(c) ==
  /\ caller[c].step = "idle"
  /\ caller' = [caller EXCEPT ![c].step = "get", ![c].todo = <<Names>>]
  /\ UNCHANGED <<remote, cache, group, call, seen>>

\* The best matches of a list, at most Limit of them.
Ranked(v) ==
  LET ranked == RankFind[v]
  IN  SubSeq(ranked, 1, IF Len(ranked) > Limit THEN Limit ELSE Len(ranked))

\* The orders sort.Slice may leave the tags in: newest first, ties in any order.
NewestFirst(tags) ==
  {s \in SetToSeqs(tags) :
     \A i, j \in 1..Len(s) : i < j => s[i].createdAt >= s[j].createdAt}

\* The tags once the next one is resolved; one that cannot be is skipped.
Resolved(r, err, val) ==
  IF err # "nil" THEN r.tags
  ELSE Append(r.tags, [name |-> Head(r.todo), createdAt |-> val])

\* The loop goes on while there are tags.
More(r) == Tail(r.todo) # << >>

\* What Tags does with the outcome of cachedTagNames or cachedCreatedAt: it
\* returns an error of the first, skips a tag for an error of the second, and
\* sorts the tags once the last one is dealt with.
Delivered(r, err, val) ==
  IF Head(r.todo) # Names
  THEN {[r EXCEPT !.step = IF More(r) THEN "get" ELSE "returned",
                  !.todo = Tail(@), !.on = None, !.tags = s] :
          s \in IF More(r) THEN {Resolved(r, err, val)}
                ELSE NewestFirst(ToSet(Resolved(r, err, val)))}
  ELSE IF err # "nil"
  THEN {[r EXCEPT !.step = "returned", !.err = err, !.on = None]}
  ELSE {[r EXCEPT !.step = IF Ranked(val) = << >> THEN "returned" ELSE "get",
                  !.todo = Ranked(val), !.asked = ToSet(Ranked(val)), !.on = None]}

Deliver(c, err, val) ==
  \E r \in Delivered(caller[c], err, val) : caller' = [caller EXCEPT ![c] = r]

\* cachedTagNames and cachedCreatedAt look in their cache first.
Get(c) ==
  LET k == Head(caller[c].todo)
  IN  /\ caller[c].step = "get"
      /\ IF cache[k] # None
         THEN Deliver(c, "nil", cache[k])
         ELSE caller' = [caller EXCEPT ![c].step = "do"]
      /\ UNCHANGED <<remote, cache, group, call, seen>>

\* Call f without caller c; a finished call nobody waits for is gone.
Without(f, c) ==
  IF call[f].step = "done" /\ call[f].waiting = {c} THEN UnusedCall
  ELSE [call[f] EXCEPT !.waiting = @ \ {c}]

\* The calls that are not running are interchangeable: any of them.
Unused == CHOOSE f \in Calls : call[f].step = "unused"

\* There is always one: Calls bounds the model, not the callers.
StartCall(c, k) ==
  /\ \E f \in Calls : call[f].step = "unused"
  /\ call' = [call EXCEPT ![Unused].key = k, ![Unused].step = "recheck",
                          ![Unused].waiting = {c}]
  /\ group' = [group EXCEPT ![k] = Unused]
  /\ caller' = [caller EXCEPT ![c].step = "wait", ![c].on = Unused]

JoinCall(c, f) ==
  /\ call' = [call EXCEPT ![f].waiting = @ \cup {c}]
  /\ caller' = [caller EXCEPT ![c].step = "wait", ![c].on = f]
  /\ UNCHANGED group

\* Mutant: the group is not used.
Do_Alone(c) ==
  LET k == Head(caller[c].todo)
  IN  /\ caller[c].step = "do"
      /\ StartCall(c, k)
      /\ UNCHANGED <<remote, cache, seen>>

\* Group.Do joins the call for the key, or starts one.
Do(c) ==
  LET k == Head(caller[c].todo)
  IN  /\ caller[c].step = "do"
      /\ IF group[k] # None THEN JoinCall(c, group[k]) ELSE StartCall(c, k)
      /\ UNCHANGED <<remote, cache, seen>>

\* Do returns the outcome of the call.
Receive(c) ==
  LET f == caller[c].on
  IN  /\ caller[c].step = "wait"
      /\ call[f].step = "done"
      /\ call' = [call EXCEPT ![f] = Without(f, c)]
      /\ Deliver(c, call[f].err, call[f].val)
      /\ UNCHANGED <<remote, cache, group, seen>>

\* Mutant: the caller that leaves takes the shared call with it.
Leave_CancelsShared(c) ==
  LET f == caller[c].on
      k == call[f].key
  IN  /\ caller[c].step = "wait"
      /\ caller[c].ctxDone
      /\ call' = [call EXCEPT ![f] = IF call[f].step = "done" THEN Without(f, c)
                                     ELSE [Without(f, c) EXCEPT !.cancelled = TRUE]]
      /\ group' = IF group[k] = f THEN [group EXCEPT ![k] = None] ELSE group
      /\ Deliver(c, "context", None)
      /\ UNCHANGED <<remote, cache, seen>>

\* Mutant: Do waits for the call, whatever becomes of the caller's context.
Leave_Never(c) == FALSE /\ UNCHANGED vars

\* Do returns because the caller's own context is done.  The last one to leave
\* cancels the call, and singleflight forgets it.
Leave(c) ==
  LET f    == caller[c].on
      k    == call[f].key
      last == call[f].waiting = {c} /\ call[f].step # "done"
  IN  /\ caller[c].step = "wait"
      /\ caller[c].ctxDone
      /\ call' = [call EXCEPT ![f] = [Without(f, c) EXCEPT !.cancelled = last]]
      /\ group' = IF last THEN [group EXCEPT ![k] = None] ELSE group
      /\ seen' = IF last THEN [seen EXCEPT !.abandoned = @ \cup {k}] ELSE seen
      /\ Deliver(c, "context", None)
      /\ UNCHANGED <<remote, cache>>

\* The deadline of the attempt, or the end of the run, cancels a caller.
Deadline(c) ==
  /\ ~caller[c].ctxDone
  /\ caller[c].step # "returned"
  /\ caller' = [caller EXCEPT ![c].ctxDone = TRUE]
  /\ UNCHANGED <<remote, cache, group, call, seen>>

-----------------------------------------------------------------------------
\* Mutant: it does not look again.
Recheck_Skipped(f) ==
  /\ call[f].step = "recheck"
  /\ call' = [call EXCEPT ![f].step = "list"]
  /\ UNCHANGED <<remote, cache, group, caller, seen>>

\* The function given to Do looks in the cache again.
Recheck(f) ==
  LET k == call[f].key
  IN  /\ call[f].step = "recheck"
      /\ call' = IF cache[k] # None
                 THEN [call EXCEPT ![f].step = "return", ![f].val = cache[k]]
                 ELSE [call EXCEPT ![f].step = "list"]
      /\ UNCHANGED <<remote, cache, group, caller, seen>>

\* listRemoteTags or resolveTagCreatedAt answers.  A request whose context is
\* cancelled may have been answered already.
Answer(f) ==
  /\ call[f].step = "list"
  /\ call' = [call EXCEPT ![f].step = "add", ![f].val = remote[call[f].key]]
  /\ seen' = [seen EXCEPT !.answers = @ \cup {<<call[f].key, remote[call[f].key]>>}]
  /\ UNCHANGED <<remote, cache, group, caller>>

\* Mutant: the outcome is added whether it is an error or not.
Refuse_Adds(f) ==
  /\ call[f].step = "list"
  /\ call' = [call EXCEPT ![f].step = "add", ![f].err = "registry", ![f].val = 1]
  /\ seen' = [seen EXCEPT !.failed = @ \cup {call[f].key}]
  /\ UNCHANGED <<remote, cache, group, caller>>

\* The registry fails, and nothing is cached.
Refuse(f) ==
  /\ call[f].step = "list"
  /\ call' = [call EXCEPT ![f].step = "return", ![f].err = "registry"]
  /\ seen' = [seen EXCEPT !.failed = @ \cup {call[f].key}]
  /\ UNCHANGED <<remote, cache, group, caller>>

\* The request of a cancelled call ends.
Abort(f) ==
  /\ call[f].step = "list"
  /\ call[f].cancelled
  /\ call' = [call EXCEPT ![f].step = "return", ![f].err = "context"]
  /\ UNCHANGED <<remote, cache, group, caller, seen>>

\* Cache.Add.
Add(f) ==
  /\ call[f].step = "add"
  /\ cache' = [cache EXCEPT ![call[f].key] = call[f].val]
  /\ call' = [call EXCEPT ![f].step = "return"]
  /\ UNCHANGED <<remote, group, caller, seen>>

\* singleflight publishes the outcome and forgets the call.
Finish(f) ==
  LET k == call[f].key
  IN  /\ call[f].step = "return"
      /\ call' = [call EXCEPT ![f] = IF call[f].waiting = {} THEN UnusedCall
                                     ELSE [@ EXCEPT !.step = "done"]]
      /\ group' = IF group[k] = f THEN [group EXCEPT ![k] = None] ELSE group
      /\ UNCHANGED <<remote, cache, caller, seen>>

\* A tag is pushed: the registry's answer changes.
Push(k) ==
  /\ remote[k] < MaxVersion
  /\ k \in Changing
  /\ remote' = [remote EXCEPT ![k] = @ + 1]
  /\ UNCHANGED <<cache, group, call, caller, seen>>

\* A cached entry expires, or is evicted.
Drop(k) ==
  /\ cache[k] # None
  /\ cache' = [cache EXCEPT ![k] = None]
  /\ UNCHANGED <<remote, group, call, caller, seen>>

CallerStep(c) == Begin(c) \/ Get(c) \/ Do(c) \/ Receive(c) \/ Leave(c)
CallStep(f)   == Recheck(f) \/ Answer(f) \/ Refuse(f) \/ Abort(f) \/ Add(f) \/ Finish(f)

FinderNext ==
  \/ \E c \in Callers : CallerStep(c) \/ Deadline(c)
  \/ \E f \in Calls : CallStep(f)
  \/ \E k \in Keys : Push(k) \/ Drop(k)

\* A goroutine that can take a step takes one, and every context of a run has
\* a deadline.  Nothing is assumed of the registry.
FinderFairness ==
  \A c \in Callers : WF_vars(CallerStep(c)) /\ WF_vars(Deadline(c))

FinderSpec == FinderInit /\ [][FinderNext]_vars /\ FinderFairness

-----------------------------------------------------------------------------
\* Tags that returns with its context live has failed, or left a ranked tag
\* out, only because the registry did not answer for that very key: "one
\* caller's deadline never fails another caller" (registryutil.go:102-103).
SkipsOnlyUnanswered ==
  \A c \in Callers :
    LET r == caller[c]
    IN  r.step = "returned" /\ ~r.ctxDone
          => /\ r.err # "nil" => r.err = "registry" /\ Names \in seen.failed
             /\ r.asked \ {t.name : t \in ToSet(r.tags)} \subseteq seen.failed

\* Every cached version and every time in a result was an answer of the registry
\* for that key: no error, no zero time and no answer for another key.
AnswersOnly ==
  /\ \A k \in Keys : cache[k] # None => <<k, cache[k]>> \in seen.answers
  /\ \A c \in Callers : \A t \in ToSet(caller[c].tags) :
       <<t.name, t.createdAt>> \in seen.answers

\* The registry is not asked for what is cached, even when the entry came
\* between a caller's miss and its call; only the late answer of an abandoned
\* call can overtake a running one.
NoRedundantListing ==
  \A f \in Calls :
    call[f].step \in {"list", "add"} /\ cache[call[f].key] # None
      => call[f].key \in seen.abandoned

\* A cached version is replaced by an older one only after a call for its key was
\* abandoned (two calls then run at once, and either may add last).
CacheGoesForward ==
  [][\A k \in Keys : cache'[k] # None /\ cache'[k] < cache[k] => k \in seen.abandoned]_vars

\* Every call of Tags returns by its deadline, even if the registry never
\* answers.
TagsReturns == \A c \in Callers : <>(caller[c].step = "returned")
=============================================================================
