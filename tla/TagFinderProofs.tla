--------------------------- MODULE TagFinderProofs ---------------------------
(***************************************************************************)
(* Proofs about concurrent calls of Tags, for any number of callers, tags, *)
(* versions and any limit: what a caller leaves out the registry did not   *)
(* answer for, what it returns and what is cached the registry answered,   *)
(* and nothing cached is listed again or overtaken unless a call for its   *)
(* key was abandoned.  FinderInv ties the callers to the shared calls they *)
(* wait for, and the calls to what the registry has done.                  *)
(***************************************************************************)
EXTENDS TagFinder, SequenceTheorems, FiniteSetTheorems, TLAPS

Tag == [name : TagNames, createdAt : Versions]

\* A call of Tags loads the names, or the tags that are left of those it
\* ranked.  Each ranked tag is among its tags, left, or failed.
CallerInv(r, answers, failed) ==
  /\ r.step = "idle" => r.todo = << >> /\ r.asked = {}
  /\ r.step \in {"get", "do", "wait"} =>
       /\ r.err = "nil"
       /\ \/ r.todo = <<Names>> /\ r.asked = {}
          \/ r.todo # << >> /\ r.todo \in Seq(TagNames)
  /\ r.step = "returned" => ToSet(r.todo) \cap r.asked = {}
  /\ \A t \in ToSet(r.tags) : <<t.name, t.createdAt>> \in answers
  /\ r.err # "nil" => r.step = "returned"
  /\ ~r.ctxDone =>
       /\ r.err # "nil" => r.err = "registry" /\ Names \in failed
       /\ r.asked \ ({t.name : t \in ToSet(r.tags)} \cup ToSet(r.todo)) \subseteq failed

Running(f) == call[f].step \in {"recheck", "list", "add", "return"}

\* The outcome of a call is what the registry did.
OutcomeInv(f) ==
  /\ call[f].step = "unused" => call[f] = UnusedCall
  /\ call[f].step \in {"recheck", "list"} => call[f].err = "nil"
  /\ call[f].step = "add" => call[f].val # None /\ call[f].err = "nil"
  /\ call[f].step \in {"return", "done"} /\ call[f].err = "nil" => call[f].val # None
  /\ call[f].val # None => <<call[f].key, call[f].val>> \in seen.answers
  /\ call[f].err = "registry" => call[f].key \in seen.failed
  /\ call[f].err = "context" => call[f].cancelled

\* A call without waiters is abandoned, and any other one that runs is the
\* one to join: two calls for a key run at once only if one is abandoned.
SharedInv(f) ==
  /\ call[f].cancelled => call[f].waiting = {} /\ call[f].key \in seen.abandoned
  /\ Running(f) /\ ~call[f].cancelled => group[call[f].key] = f
  /\ call[f].step \in {"list", "add"} /\ cache[call[f].key] # None
       => call[f].key \in seen.abandoned

GroupInv(k) ==
  group[k] # None => /\ Running(group[k])
                     /\ call[group[k]].key = k
                     /\ ~call[group[k]].cancelled

\* A caller waits for the call that has it among its waiters, and for the key
\* it needs.
WaitInv(c) ==
  /\ caller[c].step = "wait" => /\ caller[c].on \in Calls
                                /\ c \in call[caller[c].on].waiting
                                /\ call[caller[c].on].key = Head(caller[c].todo)
  /\ \A f \in Calls : c \in call[f].waiting => caller[c].step = "wait" /\ caller[c].on = f

FinderInv ==
  /\ FinderTypeOK
  /\ \A c \in Callers : CallerInv(caller[c], seen.answers, seen.failed)
  /\ \A c \in Callers : WaitInv(c)
  /\ \A f \in Calls : OutcomeInv(f) /\ SharedInv(f)
  /\ \A k \in Keys : GroupInv(k)
  /\ \A k \in Keys : cache[k] # None => <<k, cache[k]>> \in seen.answers

-----------------------------------------------------------------------------
\* The best matches of a list are tags.
LEMMA RankedTags ==
  ASSUME NEW v \in Versions
  PROVE  Ranked(v) \in Seq(TagNames)
<1>1. RankFind[v] \in Seq(TagNames)
  BY FinderAssumption
<1> DEFINE n == IF Len(RankFind[v]) > Limit THEN Limit ELSE Len(RankFind[v])
<1>2. n \in 0..Len(RankFind[v])
  BY <1>1, FinderAssumption, LenProperties
<1>3. SubSeq(RankFind[v], 1, n) \in Seq(TagNames)
  BY <1>1, <1>2, SubSeqProperties
<1>4. QED
  BY <1>3 DEF Ranked

\* The set of the elements of a sequence.
LEMMA ToSetOfSeq ==
  ASSUME NEW T, NEW s \in Seq(T)
  PROVE  /\ ToSet(s) \subseteq T
         /\ \A e : ToSet(Append(s, e)) = ToSet(s) \cup {e}
         /\ s # << >> => ToSet(s) = {Head(s)} \cup ToSet(Tail(s))
<1>1. ToSet(s) \subseteq T
  BY DEF ToSet
<1>2. ASSUME NEW e PROVE ToSet(Append(s, e)) = ToSet(s) \cup {e}
  <2>1. Append(s, e) \in Seq(T \cup {e}) /\ Len(Append(s, e)) = Len(s) + 1
    BY AppendProperties
  <2>2. \A i \in 1..(Len(s) + 1) : Append(s, e)[i] = IF i = Len(s) + 1 THEN e ELSE s[i]
    BY AppendProperties
  <2>3. DOMAIN Append(s, e) = 1..(Len(s) + 1) /\ DOMAIN s = 1..Len(s) /\ Len(s) \in Nat
    BY <2>1
  <2>4. QED
    BY <2>2, <2>3 DEF ToSet
<1>3. ASSUME s # << >> PROVE ToSet(s) = {Head(s)} \cup ToSet(Tail(s))
  <2>1. /\ Tail(s) \in Seq(T) /\ Len(Tail(s)) = Len(s) - 1 /\ Head(s) = s[1]
        /\ \A i \in 1..Len(Tail(s)) : Tail(s)[i] = s[i + 1]
        /\ Len(s) \in Nat \ {0}
    BY <1>3, HeadTailProperties
  <2>2. DOMAIN s = 1..Len(s) /\ DOMAIN Tail(s) = 1..Len(Tail(s))
    BY <2>1
  <2>3. \A i \in DOMAIN s : i = 1 \/ (i - 1 \in DOMAIN Tail(s) /\ s[i] = Tail(s)[i - 1])
    BY <2>1, <2>2
  <2>4. \A i \in DOMAIN Tail(s) : i + 1 \in DOMAIN s /\ Tail(s)[i] = s[i + 1]
    BY <2>1, <2>2
  <2>5. 1 \in DOMAIN s
    BY <2>1, <2>2
  <2>6. ASSUME NEW i \in DOMAIN s PROVE s[i] \in {Head(s)} \cup ToSet(Tail(s))
    BY <2>1, <2>3 DEF ToSet
  <2>7. Head(s) \in ToSet(s)
    BY <2>1, <2>5 DEF ToSet
  <2>8. ASSUME NEW i \in DOMAIN Tail(s) PROVE Tail(s)[i] \in ToSet(s)
    BY <2>4 DEF ToSet
  <2>9. QED
    BY <2>6, <2>7, <2>8 DEF ToSet
<1>4. QED
  BY <1>1, <1>2, <1>3

\* sort.Slice loses no tag and adds none.
LEMMA SortKeepsTags ==
  ASSUME NEW T, NEW tags \in Seq(T), NEW s \in NewestFirst(ToSet(tags))
  PROVE  s \in Seq(T) /\ ToSet(s) = ToSet(tags)
<1> DEFINE S == ToSet(tags)
           n == Cardinality(S)
<1>1. DOMAIN tags = 1..Len(tags) /\ Len(tags) \in Nat
  BY LenProperties
<1>2. tags \in Surjection(1..Len(tags), S)
  BY <1>1 DEF ToSet, Surjection
<1>3. IsFiniteSet(1..Len(tags))
  BY <1>1, FS_Interval
<1>4. IsFiniteSet(S)
  BY <1>2, <1>3, FS_Surjection
<1>5. n \in Nat
  BY <1>4, FS_CardinalityType
<1>6. s \in [1..n -> S] /\ \A i, j \in 1..n : i # j => s[i] # s[j]
  BY DEF NewestFirst, SetToSeqs
<1>7. s \in Injection(1..n, S)
  BY <1>6 DEF Injection, IsInjective
<1>8. Cardinality(1..n) = Cardinality(S)
  BY <1>5, FS_Interval
<1>9. s \in Surjection(1..n, S)
  BY <1>4, <1>7, <1>8, FS_Injection
<1>10. ToSet(s) = S
  <2>1. DOMAIN s = 1..n /\ \A i \in 1..n : s[i] \in S
    BY <1>6
  <2>2. \A t \in S : \E i \in 1..n : s[i] = t
    BY <1>9 DEF Surjection
  <2>3. \A x : x \in ToSet(s) <=> \E i \in 1..n : s[i] = x
    BY <2>1 DEF ToSet
  <2>4. QED
    BY <2>1, <2>2, <2>3
<1>11. S \subseteq T
  BY ToSetOfSeq
<1>12. s \in Seq(T)
  <2>1. s \in [1..n -> T]
    BY <1>6, <1>11
  <2>2. QED
    BY <1>5, <2>1
<1>13. QED
  BY <1>10, <1>12

-----------------------------------------------------------------------------
\* An outcome that may be delivered for key k: a version the registry answered
\* with, or an error that the caller's context or the registry accounts for.
MayDeliver(r, err, val, answers, failed) ==
  /\ err \in Errs
  /\ err = "nil" => val \in Versions /\ <<Head(r.todo), val>> \in answers
  /\ err # "nil" /\ ~r.ctxDone => err = "registry" /\ Head(r.todo) \in failed

\* What Tags makes of an outcome keeps the invariant of its caller.
LEMMA DeliveredKeeps ==
  ASSUME NEW r \in CallerRecord, NEW answers, NEW failed, NEW err, NEW val,
         CallerInv(r, answers, failed), r.step \in {"get", "wait"},
         MayDeliver(r, err, val, answers, failed),
         NEW q \in Delivered(r, err, val)
  PROVE  q \in CallerRecord /\ CallerInv(q, answers, failed) /\ q.step \in {"get", "returned"}
<1>0. /\ r.err = "nil" /\ r.tags \in Seq(Tag) /\ r.todo \in Seq(Keys) /\ r.asked \subseteq TagNames
      /\ \/ r.todo = <<Names>> /\ r.asked = {}
         \/ r.todo # << >> /\ r.todo \in Seq(TagNames)
  BY DEF CallerInv, CallerRecord, Tag
<1>1. CASE Head(r.todo) # Names
  <2>1. r.todo # << >> /\ r.todo \in Seq(TagNames)
    BY <1>0, <1>1
  <2>2. Head(r.todo) \in TagNames /\ Tail(r.todo) \in Seq(TagNames) /\ Tail(r.todo) \in Seq(Keys)
    BY <2>1, HeadTailProperties DEF Keys
  <2>3. ToSet(r.todo) = {Head(r.todo)} \cup ToSet(Tail(r.todo))
    BY <2>1, ToSetOfSeq
  <2> DEFINE res == Resolved(r, err, val)
  <2>4. res \in Seq(Tag) /\ \A t \in ToSet(res) : <<t.name, t.createdAt>> \in answers
    <3>1. CASE err # "nil"
      BY <1>0, <3>1 DEF Resolved, CallerInv
    <3>2. CASE err = "nil"
      <4>1. [name |-> Head(r.todo), createdAt |-> val] \in Tag
        BY <2>2, <3>2 DEF MayDeliver, Tag
      <4>2. ToSet(res) = ToSet(r.tags) \cup {[name |-> Head(r.todo), createdAt |-> val]}
        BY <1>0, <3>2, ToSetOfSeq DEF Resolved
      <4>3. res \in Seq(Tag)
        BY <1>0, <3>2, <4>1 DEF Resolved
      <4>4. QED
        BY <3>2, <4>2, <4>3 DEF MayDeliver, CallerInv
    <3>3. QED
      BY <3>1, <3>2
  <2>5. ~r.ctxDone =>
          r.asked \ ({t.name : t \in ToSet(res)} \cup ToSet(Tail(r.todo))) \subseteq failed
    <3> SUFFICES ASSUME ~r.ctxDone, NEW a \in r.asked, a \notin failed
                 PROVE  a \in {t.name : t \in ToSet(res)} \cup ToSet(Tail(r.todo))
      OBVIOUS
    <3>1. a \in {t.name : t \in ToSet(r.tags)} \cup {Head(r.todo)} \cup ToSet(Tail(r.todo))
      BY <2>3 DEF CallerInv
    <3>2. CASE err # "nil"
      <4>1. res = r.tags /\ Head(r.todo) \in failed
        BY <3>2 DEF Resolved, MayDeliver
      <4>2. QED
        BY <3>1, <4>1
    <3>3. CASE err = "nil"
      <4>1. ToSet(res) = ToSet(r.tags) \cup {[name |-> Head(r.todo), createdAt |-> val]}
        BY <1>0, <3>3, ToSetOfSeq DEF Resolved
      <4>2. [name |-> Head(r.todo), createdAt |-> val].name = Head(r.todo)
        OBVIOUS
      <4>3. QED
        BY <3>1, <4>1, <4>2
    <3>4. QED
      BY <3>2, <3>3
  <2>6. PICK s : /\ q = [r EXCEPT !.step = IF More(r) THEN "get" ELSE "returned",
                                  !.todo = Tail(@), !.on = None, !.tags = s]
                 /\ IF More(r) THEN s = res ELSE s \in NewestFirst(ToSet(res))
    BY <1>1 DEF Delivered
  <2>7. s \in Seq(Tag) /\ ToSet(s) = ToSet(res)
    BY <2>4, <2>6, SortKeepsTags
  <2>8. /\ q.step = (IF More(r) THEN "get" ELSE "returned") /\ q.todo = Tail(r.todo)
        /\ q.tags = s /\ q.asked = r.asked /\ q.ctxDone = r.ctxDone /\ q.err = "nil"
        /\ q.on = None
    BY <1>0, <2>6 DEF CallerRecord
  <2>9. q \in CallerRecord
    BY <2>2, <2>6, <2>7 DEF CallerRecord, Tag
  <2>10. ~More(r) => ToSet(q.todo) = {}
    BY <2>8 DEF More, ToSet
  <2>11. CallerInv(q, answers, failed)
    BY <2>2, <2>4, <2>5, <2>7, <2>8, <2>10 DEF CallerInv, More
  <2>12. QED
    BY <2>8, <2>9, <2>11
<1>2. CASE Head(r.todo) = Names /\ err # "nil"
  <2>1. q = [r EXCEPT !.step = "returned", !.err = err, !.on = None]
    BY <1>2 DEF Delivered
  <2>2. r.todo = <<Names>> /\ r.asked = {}
    <3>1. \A t : t # << >> /\ t \in Seq(TagNames) => Head(t) \in TagNames
      BY HeadTailProperties
    <3>2. QED
      BY <1>0, <1>2, <3>1, FinderAssumption
  <2>3. QED
    BY <1>2, <2>1, <2>2 DEF CallerRecord, CallerInv, MayDeliver
<1>3. CASE Head(r.todo) = Names /\ err = "nil"
  <2>1. q = [r EXCEPT !.step = IF Ranked(val) = << >> THEN "returned" ELSE "get",
                      !.todo = Ranked(val), !.asked = ToSet(Ranked(val)), !.on = None]
    BY <1>3 DEF Delivered
  <2>2. Ranked(val) \in Seq(TagNames) /\ Ranked(val) \in Seq(Keys) /\ ToSet(Ranked(val)) \subseteq TagNames
    BY <1>3, RankedTags, ToSetOfSeq DEF MayDeliver, Keys
  <2>3. /\ q.step = (IF Ranked(val) = << >> THEN "returned" ELSE "get") /\ q.todo = Ranked(val)
        /\ q.tags = r.tags /\ q.asked = ToSet(Ranked(val)) /\ q.ctxDone = r.ctxDone /\ q.err = "nil"
    BY <1>0, <2>1 DEF CallerRecord
  <2>4. Ranked(val) = << >> => ToSet(Ranked(val)) = {}
    BY DEF ToSet
  <2>5. q \in CallerRecord
    BY <2>1, <2>2 DEF CallerRecord
  <2>6. CallerInv(q, answers, failed)
    BY <2>2, <2>3, <2>4 DEF CallerInv
  <2>7. QED
    BY <2>3, <2>5, <2>6
<1>4. QED
  BY <1>1, <1>2, <1>3

-----------------------------------------------------------------------------
\* What the registry does only adds to its history.
LEMMA CallerInvMonotonic ==
  ASSUME NEW r, NEW answers, NEW failed, NEW answers2, NEW failed2,
         CallerInv(r, answers, failed), answers \subseteq answers2, failed \subseteq failed2
  PROVE  CallerInv(r, answers2, failed2)
BY DEF CallerInv

\* The parts of FinderInv that are about the calls are kept by a step that
\* leaves them, the group and the cache alone.
LEMMA CallsUntouched ==
  ASSUME FinderInv, UNCHANGED <<cache, group, call, seen>>
  PROVE  /\ \A f \in Calls : OutcomeInv(f)' /\ SharedInv(f)'
         /\ \A k \in Keys : GroupInv(k)' /\ (cache'[k] # None => <<k, cache'[k]>> \in seen'.answers)
BY DEF FinderInv, OutcomeInv, SharedInv, Running, GroupInv

\* A step of a caller by itself: it waits neither before nor after, or for the
\* same call and key.
LEMMA CallerStepKeeps ==
  ASSUME FinderInv, NEW c \in Callers, NEW q \in CallerRecord,
         caller' = [caller EXCEPT ![c] = q],
         UNCHANGED <<remote, cache, group, call, seen>>,
         CallerInv(q, seen.answers, seen.failed),
         \/ caller[c].step # "wait" /\ q.step # "wait"
         \/ q.step = caller[c].step /\ q.on = caller[c].on /\ q.todo = caller[c].todo
  PROVE  FinderInv'
<1>1. caller'[c] = q /\ \A d \in Callers \ {c} : caller'[d] = caller[d]
  BY DEF FinderInv, FinderTypeOK
<1>2. FinderTypeOK'
  BY DEF FinderInv, FinderTypeOK
<1>3. \A d \in Callers : CallerInv(caller'[d], seen'.answers, seen'.failed)
  BY <1>1 DEF FinderInv
<1>4. \A d \in Callers : WaitInv(d)'
  <2> TAKE d \in Callers
  <2>1. CASE d # c
    BY <1>1, <2>1 DEF FinderInv, WaitInv
  <2>2. CASE d = c
    BY <1>1, <2>2 DEF FinderInv, WaitInv
  <2>3. QED
    BY <2>1, <2>2
<1>5. QED
  BY <1>2, <1>3, <1>4, CallsUntouched DEF FinderInv

\* Begin: Tags starts with the list of names.
LEMMA BeginKeeps == ASSUME FinderInv, NEW c \in Callers, Begin(c) PROVE FinderInv'
<1> DEFINE q == [caller[c] EXCEPT !.step = "get", !.todo = <<Names>>]
<1>1. caller[c] \in CallerRecord /\ CallerInv(caller[c], seen.answers, seen.failed)
  BY DEF FinderInv, FinderTypeOK
<1>2. caller' = [caller EXCEPT ![c] = q]
  BY DEF Begin, FinderInv, FinderTypeOK
<1>3. <<Names>> \in Seq(Keys)
  BY DEF Keys
<1>4. /\ q.step = "get" /\ q.todo = <<Names>> /\ q.asked = caller[c].asked /\ q.tags = caller[c].tags
      /\ q.err = caller[c].err /\ q.ctxDone = caller[c].ctxDone
  BY <1>1 DEF CallerRecord
<1>5. q \in CallerRecord
  BY <1>1, <1>3 DEF CallerRecord
<1>6. CallerInv(q, seen.answers, seen.failed)
  BY <1>1, <1>4 DEF CallerInv, Begin
<1>7. QED
  BY <1>2, <1>4, <1>5, <1>6, CallerStepKeeps DEF Begin

\* Get: a hit is an answer of the registry for the key.
LEMMA GetKeeps == ASSUME FinderInv, NEW c \in Callers, Get(c) PROVE FinderInv'
<1> DEFINE k == Head(caller[c].todo)
<1>1. caller[c] \in CallerRecord /\ CallerInv(caller[c], seen.answers, seen.failed)
  BY DEF FinderInv, FinderTypeOK
<1>2. CASE cache[k] # None
  <2>1. PICK q \in Delivered(caller[c], "nil", cache[k]) : caller' = [caller EXCEPT ![c] = q]
    BY <1>2 DEF Get, Deliver
  <2>2. k \in Keys
    BY <1>1 DEF Get, CallerRecord, CallerInv, Keys
  <2>3. cache[k] \in Versions /\ <<k, cache[k]>> \in seen.answers
    BY <1>2, <2>2 DEF FinderInv, FinderTypeOK
  <2>4. MayDeliver(caller[c], "nil", cache[k], seen.answers, seen.failed)
    BY <2>3 DEF MayDeliver, Errs
  <2>5. q \in CallerRecord /\ CallerInv(q, seen.answers, seen.failed) /\ q.step \in {"get", "returned"}
    BY <1>1, <2>1, <2>4, DeliveredKeeps DEF Get
  <2>6. QED
    BY <2>1, <2>5, CallerStepKeeps DEF Get
<1>3. CASE cache[k] = None
  <2> DEFINE q == [caller[c] EXCEPT !.step = "do"]
  <2>1. caller' = [caller EXCEPT ![c] = q]
    BY <1>3 DEF Get, FinderInv, FinderTypeOK
  <2>2. q \in CallerRecord /\ q.step = "do"
    BY <1>1 DEF CallerRecord
  <2>3. CallerInv(q, seen.answers, seen.failed)
    BY <1>1 DEF CallerInv, Get, CallerRecord
  <2>4. QED
    BY <2>1, <2>2, <2>3, CallerStepKeeps DEF Get
<1>4. QED
  BY <1>2, <1>3

\* Deadline: a caller's context may end wherever it is.
LEMMA DeadlineKeeps == ASSUME FinderInv, NEW c \in Callers, Deadline(c) PROVE FinderInv'
<1> DEFINE q == [caller[c] EXCEPT !.ctxDone = TRUE]
<1>1. caller[c] \in CallerRecord /\ CallerInv(caller[c], seen.answers, seen.failed)
  BY DEF FinderInv, FinderTypeOK
<1>2. caller' = [caller EXCEPT ![c] = q]
  BY DEF Deadline, FinderInv, FinderTypeOK
<1>3. /\ q \in CallerRecord
      /\ q.step = caller[c].step /\ q.on = caller[c].on /\ q.todo = caller[c].todo
  BY <1>1 DEF CallerRecord
<1>4. CallerInv(q, seen.answers, seen.failed)
  BY <1>1 DEF CallerInv, CallerRecord
<1>5. QED
  BY <1>2, <1>3, <1>4, CallerStepKeeps DEF Deadline

-----------------------------------------------------------------------------
\* A call that lists or adds what is cached already has been overtaken by one
\* that was abandoned.
ListingInv(f) ==
  call[f].step \in {"list", "add"} /\ cache[call[f].key] # None => call[f].key \in seen.abandoned

\* A step of the goroutine of a running call, which leaves its key and its
\* waiters alone.
LEMMA CallStepKeeps ==
  ASSUME FinderInv, NEW f \in Calls, Running(f), NEW r \in CallRecord,
         call' = [call EXCEPT ![f] = r],
         r.key = call[f].key, r.waiting = call[f].waiting, r.cancelled = call[f].cancelled,
         r.step \in {"list", "add", "return"},
         UNCHANGED <<remote, group, caller>>,
         FinderTypeOK',
         seen.answers \subseteq seen'.answers, seen.failed \subseteq seen'.failed,
         seen'.abandoned = seen.abandoned,
         OutcomeInv(f)',
         \A g \in Calls : ListingInv(g)',
         \A k \in Keys : cache'[k] # None => <<k, cache'[k]>> \in seen'.answers
  PROVE  FinderInv'
<1>1. call'[f] = r /\ \A g \in Calls \ {f} : call'[g] = call[g]
  BY DEF FinderInv, FinderTypeOK
<1>2. \A g \in Calls : /\ call'[g].key = call[g].key /\ call'[g].waiting = call[g].waiting
                       /\ call'[g].cancelled = call[g].cancelled
                       /\ Running(g)' <=> Running(g)
  BY <1>1 DEF Running
<1>3. \A c \in Callers : CallerInv(caller'[c], seen'.answers, seen'.failed)
  BY CallerInvMonotonic DEF FinderInv
<1>4. \A c \in Callers : WaitInv(c)'
  BY <1>2 DEF FinderInv, WaitInv
<1>5. \A g \in Calls : OutcomeInv(g)'
  BY <1>1 DEF FinderInv, OutcomeInv
<1>6. \A g \in Calls : SharedInv(g)'
  BY <1>2 DEF FinderInv, SharedInv, ListingInv
<1>7. \A k \in Keys : GroupInv(k)'
  <2> TAKE k \in Keys
  <2>1. group[k] # None => group[k] \in Calls
    BY DEF FinderInv, FinderTypeOK
  <2>2. QED
    BY <1>2, <2>1 DEF FinderInv, GroupInv
<1>8. QED
  BY <1>3, <1>4, <1>5, <1>6, <1>7 DEF FinderInv

\* The record of a call, and the types that a step of it keeps.
LEMMA CallType ==
  ASSUME FinderInv, NEW f \in Calls
  PROVE  /\ call[f] \in CallRecord /\ call[f].key \in Keys
         /\ OutcomeInv(f) /\ SharedInv(f) /\ ListingInv(f)
         /\ seen.answers \subseteq Keys \X Versions /\ seen.failed \subseteq Keys
BY DEF FinderInv, FinderTypeOK, CallRecord, SharedInv, ListingInv

\* Recheck: the function given to Do returns what is cached by now, or lists.
LEMMA RecheckKeeps == ASSUME FinderInv, NEW f \in Calls, Recheck(f) PROVE FinderInv'
<1> DEFINE k == call[f].key
           r == IF cache[k] # None THEN [call[f] EXCEPT !.step = "return", !.val = cache[k]]
                ELSE [call[f] EXCEPT !.step = "list"]
<1>1. call[f] \in CallRecord /\ k \in Keys /\ OutcomeInv(f) /\ SharedInv(f) /\ call[f].step = "recheck"
  BY CallType DEF Recheck
<1>2. call' = [call EXCEPT ![f] = r]
  BY DEF Recheck, FinderInv, FinderTypeOK
<1>3. cache[k] \in Versions \cup {None} /\ (cache[k] # None => <<k, cache[k]>> \in seen.answers)
  BY <1>1 DEF FinderInv, FinderTypeOK
<1>4. /\ r \in CallRecord
      /\ r.key = k /\ r.waiting = call[f].waiting /\ r.cancelled = call[f].cancelled
      /\ r.err = call[f].err
      /\ IF cache[k] # None THEN r.step = "return" /\ r.val = cache[k]
         ELSE r.step = "list" /\ r.val = call[f].val
  BY <1>1, <1>3 DEF CallRecord
<1>5. call'[f] = r /\ \A g \in Calls \ {f} : call'[g] = call[g]
  BY <1>2 DEF FinderInv, FinderTypeOK
<1>6. OutcomeInv(f)'
  <2>1. call[f].err = "nil" /\ (call[f].val # None => <<k, call[f].val>> \in seen.answers)
    BY <1>1 DEF OutcomeInv
  <2>2. PICK s : s = r
    OBVIOUS
  <2>3. /\ s.key = k /\ s.err = "nil"
        /\ \/ s.step = "return" /\ s.val # None /\ s.val = cache[k]
           \/ s.step = "list" /\ s.val = call[f].val
    BY <1>4, <2>1, <2>2
  <2>4. s.val # None => <<s.key, s.val>> \in seen.answers
    BY <1>3, <2>1, <2>3
  <2>5. call'[f] = s /\ UNCHANGED seen
    BY <1>5, <2>2 DEF Recheck
  <2>6. QED
    BY <2>3, <2>4, <2>5 DEF OutcomeInv
<1>7. \A g \in Calls : ListingInv(g)'
  <2> TAKE g \in Calls
  <2>1. CASE g = f
    <3>1. call'[f].key = k /\ (call'[f].step \in {"list", "add"} => cache[k] = None)
      BY <1>4, <1>5
    <3>2. UNCHANGED cache
      BY DEF Recheck
    <3>3. QED
      BY <2>1, <3>1, <3>2 DEF ListingInv
  <2>2. CASE g # f
    BY <1>5, <2>2, CallType DEF ListingInv, Recheck
  <2>3. QED
    BY <2>1, <2>2
<1>8. FinderTypeOK'
  BY <1>2, <1>4 DEF FinderInv, FinderTypeOK, Recheck
<1>9. Running(f)
  BY <1>1 DEF Running
<1>10. QED
  BY <1>2, <1>4, <1>6, <1>7, <1>8, <1>9, CallStepKeeps DEF Recheck, FinderInv

\* Answer: the answer becomes part of the history before it is cached.
LEMMA AnswerKeeps == ASSUME FinderInv, NEW f \in Calls, Answer(f) PROVE FinderInv'
<1> DEFINE k == call[f].key
           r == [call[f] EXCEPT !.step = "add", !.val = remote[k]]
<1>1. call[f] \in CallRecord /\ k \in Keys /\ OutcomeInv(f) /\ SharedInv(f) /\ call[f].step = "list"
  BY CallType DEF Answer
<1>2. call' = [call EXCEPT ![f] = r]
  BY DEF Answer, FinderInv, FinderTypeOK
<1>3. remote[k] \in Versions
  BY <1>1 DEF FinderInv, FinderTypeOK
<1>4. /\ r \in CallRecord
      /\ r.key = k /\ r.waiting = call[f].waiting /\ r.cancelled = call[f].cancelled
      /\ r.err = call[f].err /\ r.step = "add" /\ r.val = remote[k]
  BY <1>1, <1>3 DEF CallRecord
<1>5. call'[f] = r /\ \A g \in Calls \ {f} : call'[g] = call[g]
  BY <1>2 DEF FinderInv, FinderTypeOK
<1>6. /\ seen'.answers = seen.answers \cup {<<k, remote[k]>>} /\ seen'.failed = seen.failed
      /\ seen'.abandoned = seen.abandoned
  BY DEF Answer, FinderInv, FinderTypeOK
<1>7. OutcomeInv(f)'
  BY <1>1, <1>3, <1>4, <1>5, <1>6 DEF OutcomeInv, Versions, None
<1>8. \A g \in Calls : ListingInv(g)'
  <2> TAKE g \in Calls
  <2>1. ListingInv(g) /\ UNCHANGED cache
    BY CallType DEF Answer
  <2>2. CASE g = f
    BY <1>1, <1>4, <1>5, <1>6, <2>1, <2>2 DEF ListingInv
  <2>3. CASE g # f
    BY <1>5, <1>6, <2>1, <2>3 DEF ListingInv
  <2>4. QED
    BY <2>2, <2>3
<1>9. seen' \in [answers : SUBSET (Keys \X Versions), failed : SUBSET Keys, abandoned : SUBSET Keys]
  <2>1. seen.answers \cup {<<k, remote[k]>>} \in SUBSET (Keys \X Versions)
    BY <1>1, <1>3, CallType
  <2>2. seen' = [seen EXCEPT !.answers = seen.answers \cup {<<k, remote[k]>>}]
    BY DEF Answer
  <2>3. QED
    BY <2>1, <2>2 DEF FinderInv, FinderTypeOK
<1>10. FinderTypeOK'
  BY <1>2, <1>4, <1>9 DEF FinderInv, FinderTypeOK, Answer
<1>11. Running(f)
  BY <1>1 DEF Running
<1>12. QED
  BY <1>2, <1>4, <1>6, <1>7, <1>8, <1>10, <1>11, CallStepKeeps DEF Answer, FinderInv

\* Refuse: the failure becomes part of the history before it is returned.
LEMMA RefuseKeeps == ASSUME FinderInv, NEW f \in Calls, Refuse(f) PROVE FinderInv'
<1> DEFINE k == call[f].key
           r == [call[f] EXCEPT !.step = "return", !.err = "registry"]
<1>1. call[f] \in CallRecord /\ k \in Keys /\ OutcomeInv(f) /\ SharedInv(f) /\ call[f].step = "list"
  BY CallType DEF Refuse
<1>2. call' = [call EXCEPT ![f] = r]
  BY DEF Refuse, FinderInv, FinderTypeOK
<1>3. /\ r \in CallRecord
      /\ r.key = k /\ r.waiting = call[f].waiting /\ r.cancelled = call[f].cancelled
      /\ r.err = "registry" /\ r.step = "return" /\ r.val = call[f].val
  BY <1>1 DEF CallRecord, Errs
<1>4. call'[f] = r /\ \A g \in Calls \ {f} : call'[g] = call[g]
  BY <1>2 DEF FinderInv, FinderTypeOK
<1>5. /\ seen'.answers = seen.answers /\ seen'.failed = seen.failed \cup {k}
      /\ seen'.abandoned = seen.abandoned
  BY DEF Refuse, FinderInv, FinderTypeOK
<1>6. OutcomeInv(f)'
  BY <1>1, <1>3, <1>4, <1>5 DEF OutcomeInv
<1>7. \A g \in Calls : ListingInv(g)'
  BY <1>1, <1>3, <1>4, <1>5, CallType DEF ListingInv, Refuse
<1>8. seen' \in [answers : SUBSET (Keys \X Versions), failed : SUBSET Keys, abandoned : SUBSET Keys]
  <2>1. seen.failed \cup {k} \in SUBSET Keys
    BY <1>1, CallType
  <2>2. seen' = [seen EXCEPT !.failed = seen.failed \cup {k}]
    BY DEF Refuse
  <2>3. QED
    BY <2>1, <2>2 DEF FinderInv, FinderTypeOK
<1>9. FinderTypeOK'
  BY <1>2, <1>3, <1>8 DEF FinderInv, FinderTypeOK, Refuse
<1>10. Running(f)
  BY <1>1 DEF Running
<1>11. QED
  BY <1>2, <1>3, <1>5, <1>6, <1>7, <1>9, <1>10, CallStepKeeps DEF Refuse, FinderInv

\* Abort: only a call that nobody waits for ends with the error of its context.
LEMMA AbortKeeps == ASSUME FinderInv, NEW f \in Calls, Abort(f) PROVE FinderInv'
<1> DEFINE r == [call[f] EXCEPT !.step = "return", !.err = "context"]
<1>1. call[f] \in CallRecord /\ OutcomeInv(f) /\ SharedInv(f) /\ call[f].step = "list" /\ call[f].cancelled
  BY CallType DEF Abort
<1>2. call' = [call EXCEPT ![f] = r]
  BY DEF Abort, FinderInv, FinderTypeOK
<1>3. /\ r \in CallRecord
      /\ r.key = call[f].key /\ r.waiting = call[f].waiting /\ r.cancelled = call[f].cancelled
      /\ r.err = "context" /\ r.step = "return" /\ r.val = call[f].val
  BY <1>1 DEF CallRecord, Errs
<1>4. call'[f] = r /\ \A g \in Calls \ {f} : call'[g] = call[g]
  BY <1>2 DEF FinderInv, FinderTypeOK
<1>5. OutcomeInv(f)'
  BY <1>1, <1>3, <1>4 DEF OutcomeInv, Abort
<1>6. \A g \in Calls : ListingInv(g)'
  BY <1>1, <1>3, <1>4, CallType DEF ListingInv, Abort
<1>7. FinderTypeOK'
  BY <1>2, <1>3 DEF FinderInv, FinderTypeOK, Abort
<1>8. Running(f)
  BY <1>1 DEF Running
<1>9. QED
  BY <1>2, <1>3, <1>5, <1>6, <1>7, <1>8, CallStepKeeps DEF Abort, FinderInv

\* Two calls for one key run at once only if a call for it was abandoned.
LEMMA OneCallPerKey ==
  ASSUME FinderInv, NEW f \in Calls, NEW g \in Calls, f # g, Running(f), Running(g),
         call[f].key = call[g].key
  PROVE  call[f].key \in seen.abandoned
BY CallType DEF SharedInv

\* Add: the entry that is added has been answered, and any other call for the
\* key that still lists has been overtaken by an abandoned one.
LEMMA AddKeeps == ASSUME FinderInv, NEW f \in Calls, Add(f) PROVE FinderInv'
<1> DEFINE k == call[f].key
           r == [call[f] EXCEPT !.step = "return"]
<1>1. call[f] \in CallRecord /\ k \in Keys /\ OutcomeInv(f) /\ SharedInv(f) /\ call[f].step = "add"
  BY CallType DEF Add
<1>2. call' = [call EXCEPT ![f] = r] /\ cache' = [cache EXCEPT ![k] = call[f].val]
  BY DEF Add, FinderInv, FinderTypeOK
<1>3. /\ r \in CallRecord
      /\ r.key = k /\ r.waiting = call[f].waiting /\ r.cancelled = call[f].cancelled
      /\ r.err = call[f].err /\ r.step = "return" /\ r.val = call[f].val
  BY <1>1 DEF CallRecord
<1>4. call'[f] = r /\ \A g \in Calls \ {f} : call'[g] = call[g]
  BY <1>2 DEF FinderInv, FinderTypeOK
<1>5. cache'[k] = call[f].val /\ \A j \in Keys \ {k} : cache'[j] = cache[j]
  BY <1>1, <1>2 DEF FinderInv, FinderTypeOK
<1>6. OutcomeInv(f)'
  BY <1>1, <1>3, <1>4 DEF OutcomeInv, Add
<1>7. Running(f)
  BY <1>1 DEF Running
<1>8. \A g \in Calls : ListingInv(g)'
  <2> TAKE g \in Calls
  <2>1. CASE g = f
    BY <1>3, <1>4, <2>1 DEF ListingInv
  <2>2. CASE g # f /\ call[g].key = k /\ call[g].step \in {"list", "add"}
    <3>1. k \in seen.abandoned
      BY <1>7, <2>2, OneCallPerKey DEF Running
    <3>2. QED
      BY <1>4, <2>2, <3>1 DEF ListingInv, Add
  <2>3. CASE g # f /\ call[g].step \notin {"list", "add"}
    BY <1>4, <2>3 DEF ListingInv
  <2>4. CASE g # f /\ call[g].key # k
    BY <1>4, <1>5, <2>4, CallType DEF ListingInv, Add
  <2>5. QED
    BY <2>1, <2>2, <2>3, <2>4
<1>9. FinderTypeOK'
  <2>1. call[f].val \in Versions \cup {None}
    BY <1>1 DEF CallRecord
  <2>2. QED
    BY <1>2, <1>3, <2>1 DEF FinderInv, FinderTypeOK, Add
<1>10. \A j \in Keys : cache'[j] # None => <<j, cache'[j]>> \in seen'.answers
  BY <1>1, <1>5 DEF FinderInv, OutcomeInv, Add
<1>11. QED
  BY <1>2, <1>3, <1>6, <1>7, <1>8, <1>9, <1>10, CallStepKeeps DEF Add

-----------------------------------------------------------------------------
\* Push: the registry moves on.
LEMMA PushKeeps == ASSUME FinderInv, NEW k \in Keys, Push(k) PROVE FinderInv'
<1>1. remote[k] \in Versions /\ remote[k] + 1 \in Versions
  BY FinderAssumption DEF FinderInv, FinderTypeOK, Push, Versions
<1>2. FinderTypeOK'
  BY <1>1 DEF FinderInv, FinderTypeOK, Push
<1>3. \A c \in Callers : WaitInv(c)' /\ CallerInv(caller'[c], seen'.answers, seen'.failed)
  BY DEF FinderInv, WaitInv, Push
<1>4. QED
  BY <1>2, <1>3, CallsUntouched DEF FinderInv, Push

\* Drop: an entry vanishes from the cache.
LEMMA DropKeeps == ASSUME FinderInv, NEW k \in Keys, Drop(k) PROVE FinderInv'
<1>1. cache'[k] = None /\ \A j \in Keys \ {k} : cache'[j] = cache[j]
  BY DEF FinderInv, FinderTypeOK, Drop
<1>2. FinderTypeOK'
  BY DEF FinderInv, FinderTypeOK, Drop
<1>3. \A c \in Callers : WaitInv(c)' /\ CallerInv(caller'[c], seen'.answers, seen'.failed)
  BY DEF FinderInv, WaitInv, Drop
<1>4. \A f \in Calls : OutcomeInv(f)' /\ SharedInv(f)'
  <2> TAKE f \in Calls
  <2>1. cache'[call[f].key] # None => cache[call[f].key] # None
    BY <1>1, CallType
  <2>2. QED
    BY <2>1, CallType DEF OutcomeInv, SharedInv, Running, Drop
<1>5. \A j \in Keys : GroupInv(j)' /\ (cache'[j] # None => <<j, cache'[j]>> \in seen'.answers)
  BY <1>1 DEF FinderInv, GroupInv, Running, Drop
<1>6. QED
  BY <1>2, <1>3, <1>4, <1>5 DEF FinderInv

-----------------------------------------------------------------------------
\* A caller stops waiting: what is left to show is about the call it leaves.
LEMMA LeavingKeeps ==
  ASSUME FinderInv, NEW c \in Callers, NEW f \in Calls, caller[c].step = "wait", caller[c].on = f,
         NEW q \in CallerRecord, q.step \in {"get", "returned"},
         CallerInv(q, seen.answers, seen.failed),
         NEW r \in CallRecord, r.waiting = call[f].waiting \ {c},
         r.waiting # {} => r.key = call[f].key,
         caller' = [caller EXCEPT ![c] = q], call' = [call EXCEPT ![f] = r],
         UNCHANGED <<remote, cache>>,
         group' \in [Keys -> Calls \cup {None}],
         seen' \in [answers : SUBSET (Keys \X Versions), failed : SUBSET Keys, abandoned : SUBSET Keys],
         seen'.answers = seen.answers, seen'.failed = seen.failed,
         OutcomeInv(f)', \A g \in Calls : SharedInv(g)', \A k \in Keys : GroupInv(k)'
  PROVE  FinderInv'
<1>1. /\ caller'[c] = q /\ \A d \in Callers \ {c} : caller'[d] = caller[d]
      /\ call'[f] = r /\ \A g \in Calls \ {f} : call'[g] = call[g]
  BY DEF FinderInv, FinderTypeOK
<1>2. FinderTypeOK'
  BY DEF FinderInv, FinderTypeOK
<1>3. \A d \in Callers : CallerInv(caller'[d], seen'.answers, seen'.failed)
  BY <1>1 DEF FinderInv
<1>4. \A d \in Callers : WaitInv(d)'
  <2> TAKE d \in Callers
  <2>1. WaitInv(d)
    BY DEF FinderInv
  <2>2. CASE d = c
    <3>1. \A g \in Calls : c \notin call'[g].waiting
      BY <1>1, <2>1, <2>2 DEF WaitInv
    <3>2. QED
      BY <1>1, <2>2, <3>1 DEF WaitInv
  <2>3. CASE d # c
    BY <1>1, <2>1, <2>3 DEF WaitInv
  <2>4. QED
    BY <2>2, <2>3
<1>5. \A g \in Calls : OutcomeInv(g)'
  BY <1>1 DEF FinderInv, OutcomeInv
<1>6. \A k \in Keys : cache'[k] # None => <<k, cache'[k]>> \in seen'.answers
  BY DEF FinderInv
<1>7. QED
  BY <1>2, <1>3, <1>4, <1>5, <1>6 DEF FinderInv

\* A call that c waits for is in use, wanted and not cancelled.
LEMMA WaitingFacts ==
  ASSUME FinderInv, NEW c \in Callers, caller[c].step = "wait"
  PROVE  /\ caller[c].on \in Calls
         /\ c \in call[caller[c].on].waiting
         /\ call[caller[c].on].key = Head(caller[c].todo)
         /\ call[caller[c].on].step # "unused"
         /\ ~call[caller[c].on].cancelled
         /\ call[caller[c].on].err # "context"
         /\ caller[c] \in CallerRecord
         /\ CallerInv(caller[c], seen.answers, seen.failed)
<1>1. /\ caller[c].on \in Calls /\ c \in call[caller[c].on].waiting
      /\ call[caller[c].on].key = Head(caller[c].todo)
  BY DEF FinderInv, WaitInv
<1>2. OutcomeInv(caller[c].on) /\ SharedInv(caller[c].on)
  BY <1>1, CallType
<1>3. call[caller[c].on].step # "unused"
  BY <1>1, <1>2 DEF OutcomeInv, UnusedCall
<1>4. ~call[caller[c].on].cancelled /\ call[caller[c].on].err # "context"
  BY <1>1, <1>2 DEF OutcomeInv, SharedInv
<1>5. caller[c] \in CallerRecord /\ CallerInv(caller[c], seen.answers, seen.failed)
  BY DEF FinderInv, FinderTypeOK
<1>6. QED
  BY <1>1, <1>3, <1>4, <1>5

\* What becomes of a finished call that one of its waiters leaves.
LEMMA WithoutDone ==
  ASSUME FinderInv, NEW c \in Callers, caller[c].step = "wait",
         call[caller[c].on].step = "done"
  PROVE  LET f == caller[c].on
             r == Without(f, c)
         IN  /\ r \in CallRecord /\ r.waiting = call[f].waiting \ {c} /\ ~r.cancelled
             /\ r.step \in {"unused", "done"}
             /\ r.step = "unused" => r = UnusedCall
             /\ r.step = "done" => r.key = call[f].key /\ r.val = call[f].val /\ r.err = call[f].err
             /\ r.waiting # {} => r.key = call[f].key
<1> DEFINE f == caller[c].on
           r == Without(f, c)
<1>1. /\ f \in Calls /\ c \in call[f].waiting /\ ~call[f].cancelled /\ call[f] \in CallRecord
  BY WaitingFacts, CallType
<1>2. CASE call[f].waiting = {c}
  <2>1. r = UnusedCall
    BY <1>2 DEF Without
  <2>2. UnusedCall \in CallRecord
    BY DEF UnusedCall, CallRecord, Keys, Errs
  <2>3. QED
    BY <1>2, <2>1, <2>2 DEF UnusedCall
<1>3. CASE call[f].waiting # {c}
  <2>1. r = [call[f] EXCEPT !.waiting = call[f].waiting \ {c}]
    BY <1>3 DEF Without
  <2>2. QED
    BY <1>1, <2>1 DEF CallRecord
<1>4. QED
  BY <1>2, <1>3

\* Replacing a finished call by one that is finished or unused leaves every
\* running call as it was.
LEMMA DoneKeepsShared ==
  ASSUME FinderInv, NEW f \in Calls, call[f].step = "done", NEW r \in CallRecord,
         r.step \in {"unused", "done"}, ~r.cancelled,
         call' = [call EXCEPT ![f] = r], UNCHANGED <<cache, group, seen>>
  PROVE  (\A g \in Calls : SharedInv(g)') /\ (\A k \in Keys : GroupInv(k)')
<1>1. call'[f] = r /\ \A g \in Calls \ {f} : call'[g] = call[g]
  BY DEF FinderInv, FinderTypeOK
<1>2. \A g \in Calls : SharedInv(g)'
  <2> TAKE g \in Calls
  <2>1. CASE g = f
    BY <1>1, <2>1 DEF SharedInv, Running
  <2>2. CASE g # f
    BY <1>1, <2>2, CallType DEF SharedInv, Running
  <2>3. QED
    BY <2>1, <2>2
<1>3. \A k \in Keys : GroupInv(k)'
  <2> TAKE k \in Keys
  <2>1. group[k] # None => group[k] \in Calls \ {f}
    BY DEF FinderInv, FinderTypeOK, GroupInv, Running
  <2>2. QED
    BY <1>1, <2>1 DEF FinderInv, GroupInv, Running
<1>4. QED
  BY <1>2, <1>3

\* Receive: the outcome of the call is delivered, and the last one to receive
\* it ends the call.
LEMMA ReceiveKeeps == ASSUME FinderInv, NEW c \in Callers, Receive(c) PROVE FinderInv'
<1>0. PICK f \in Calls : f = caller[c].on
  BY WaitingFacts DEF Receive
<1>a. PICK r : r = Without(f, c)
  OBVIOUS
<1>1. caller[c].step = "wait" /\ call[f].step = "done" /\ call' = [call EXCEPT ![f] = r]
      /\ UNCHANGED <<remote, cache, group, seen>>
  BY <1>0, <1>a DEF Receive
<1>2. /\ f \in Calls /\ caller[c] \in CallerRecord /\ CallerInv(caller[c], seen.answers, seen.failed)
      /\ call[f].key = Head(caller[c].todo) /\ call[f].err # "context"
  BY <1>0, <1>1, WaitingFacts
<1>3. call[f] \in CallRecord /\ OutcomeInv(f)
  BY <1>2, CallType
<1>4. MayDeliver(caller[c], call[f].err, call[f].val, seen.answers, seen.failed)
  BY <1>1, <1>2, <1>3 DEF MayDeliver, OutcomeInv, CallRecord, Errs
<1>5. PICK q \in Delivered(caller[c], call[f].err, call[f].val) : caller' = [caller EXCEPT ![c] = q]
  BY <1>0 DEF Receive, Deliver
<1>6. q \in CallerRecord /\ CallerInv(q, seen.answers, seen.failed) /\ q.step \in {"get", "returned"}
  BY <1>1, <1>2, <1>4, <1>5, DeliveredKeeps
<1>7. /\ r \in CallRecord /\ r.waiting = call[f].waiting \ {c} /\ ~r.cancelled
      /\ r.step \in {"unused", "done"}
      /\ r.step = "unused" => r = UnusedCall
      /\ r.step = "done" => r.key = call[f].key /\ r.val = call[f].val /\ r.err = call[f].err
      /\ r.waiting # {} => r.key = call[f].key
  BY <1>0, <1>a, <1>1, WithoutDone
<1>8. (\A g \in Calls : SharedInv(g)') /\ (\A k \in Keys : GroupInv(k)')
  BY <1>1, <1>2, <1>7, DoneKeepsShared
<1>9. call'[f] = r
  BY <1>1, <1>2 DEF FinderInv, FinderTypeOK
<1>10. OutcomeInv(f)'
  <2>1. CASE r.step = "unused"
    BY <1>7, <1>9, <2>1 DEF OutcomeInv, UnusedCall, None
  <2>2. CASE r.step = "done"
    <3>1. call'[f].step = "done" /\ call'[f].key = call[f].key /\ call'[f].val = call[f].val
          /\ call'[f].err = call[f].err /\ seen' = seen
      BY <1>1, <1>7, <1>9, <2>2
    <3>2. QED
      BY <1>1, <1>2, <1>3, <3>1 DEF OutcomeInv
  <2>3. QED
    BY <1>7, <2>1, <2>2
<1>11. /\ group' \in [Keys -> Calls \cup {None}]
       /\ seen' \in [answers : SUBSET (Keys \X Versions), failed : SUBSET Keys, abandoned : SUBSET Keys]
  BY <1>1 DEF FinderInv, FinderTypeOK
<1>12. QED
  BY <1>1, <1>2, <1>5, <1>6, <1>7, <1>8, <1>10, <1>11, <1>0, LeavingKeeps
\* Leave, when others go on waiting or the call has finished: nothing changes
\* for them.
LEMMA LeaveSharedKeeps ==
  ASSUME FinderInv, NEW c \in Callers, Leave(c),
         call[caller[c].on].waiting # {c} \/ call[caller[c].on].step = "done"
  PROVE  FinderInv'
<1>0. PICK f \in Calls : f = caller[c].on
  BY WaitingFacts DEF Leave
<1>1. caller[c].step = "wait" /\ caller[c].ctxDone /\ UNCHANGED <<remote, cache>>
  BY DEF Leave
<1>2. /\ c \in call[f].waiting /\ caller[c] \in CallerRecord /\ ~call[f].cancelled
      /\ CallerInv(caller[c], seen.answers, seen.failed)
      /\ call[f].err # "context" /\ call[f].step # "unused"
  BY <1>0, <1>1, WaitingFacts
<1>3. call[f] \in CallRecord /\ OutcomeInv(f) /\ SharedInv(f)
  BY CallType
<1>4. MayDeliver(caller[c], "context", None, seen.answers, seen.failed)
  BY <1>1 DEF MayDeliver, Errs
<1>5. PICK q \in Delivered(caller[c], "context", None) : caller' = [caller EXCEPT ![c] = q]
  BY DEF Leave, Deliver
<1>6. q \in CallerRecord /\ CallerInv(q, seen.answers, seen.failed) /\ q.step \in {"get", "returned"}
  BY <1>1, <1>2, <1>4, <1>5, DeliveredKeeps
<1>7. PICK r : r = [Without(f, c) EXCEPT !.cancelled = FALSE]
  OBVIOUS
<1>8. call' = [call EXCEPT ![f] = r] /\ UNCHANGED <<group, seen>>
  BY <1>0, <1>7 DEF Leave
<1>9. call'[f] = r /\ \A g \in Calls \ {f} : call'[g] = call[g]
  BY <1>8 DEF FinderInv, FinderTypeOK
<1>10. /\ group' \in [Keys -> Calls \cup {None}]
       /\ seen' \in [answers : SUBSET (Keys \X Versions), failed : SUBSET Keys, abandoned : SUBSET Keys]
  BY <1>8 DEF FinderInv, FinderTypeOK
<1>11. CASE call[f].step = "done"
  <2>1. PICK w : w = Without(f, c)
    OBVIOUS
  <2>2. /\ w \in CallRecord /\ w.waiting = call[f].waiting \ {c} /\ ~w.cancelled
        /\ w.step \in {"unused", "done"}
        /\ w.step = "unused" => w = UnusedCall
        /\ w.step = "done" => w.key = call[f].key /\ w.val = call[f].val /\ w.err = call[f].err
        /\ w.waiting # {} => w.key = call[f].key
    BY <1>0, <1>1, <1>11, <2>1, WithoutDone
  <2>3. r = w
    BY <1>7, <2>1, <2>2 DEF CallRecord
  <2>4. (\A g \in Calls : SharedInv(g)') /\ (\A k \in Keys : GroupInv(k)')
    BY <1>1, <1>8, <1>11, <2>2, <2>3, DoneKeepsShared
  <2>5. OutcomeInv(f)'
    <3>1. CASE w.step = "unused"
      BY <1>9, <2>2, <2>3, <3>1 DEF OutcomeInv, UnusedCall, None
    <3>2. CASE w.step = "done"
      <4>1. /\ call'[f].step = "done" /\ call'[f].key = call[f].key /\ call'[f].val = call[f].val
            /\ call'[f].err = call[f].err /\ seen' = seen
        BY <1>8, <1>9, <2>2, <2>3, <3>2
      <4>2. QED
        BY <1>2, <1>3, <1>11, <4>1 DEF OutcomeInv
    <3>3. QED
      BY <2>2, <3>1, <3>2
  <2>6. QED
    BY <1>0, <1>1, <1>5, <1>6, <1>8, <1>10, <2>2, <2>3, <2>4, <2>5, LeavingKeeps
<1>12. CASE call[f].step # "done"
  <2>1. r = [call[f] EXCEPT !.waiting = call[f].waiting \ {c}, !.cancelled = FALSE]
    BY <1>7, <1>12 DEF Without
  <2>2. /\ r \in CallRecord /\ r.waiting = call[f].waiting \ {c} /\ r.cancelled = FALSE
        /\ r.step = call[f].step /\ r.key = call[f].key /\ r.val = call[f].val /\ r.err = call[f].err
    BY <1>3, <2>1 DEF CallRecord
  <2>3. OutcomeInv(f)'
    <3>1. /\ call'[f].step = call[f].step /\ call'[f].key = call[f].key /\ call'[f].val = call[f].val
          /\ call'[f].err = call[f].err /\ seen' = seen
      BY <1>8, <1>9, <2>2
    <3>2. QED
      BY <1>2, <1>3, <3>1 DEF OutcomeInv
  <2>4. \A g \in Calls : SharedInv(g)'
    <3> TAKE g \in Calls
    <3>1. /\ call'[g].step = call[g].step /\ call'[g].key = call[g].key
          /\ call'[g].cancelled => call[g].cancelled /\ g # f
          /\ g # f => call'[g] = call[g]
      BY <1>9, <2>2
    <3>2. ~call[f].cancelled /\ SharedInv(g)
      BY <1>2, CallType
    <3>3. QED
      BY <1>1, <1>8, <3>1, <3>2 DEF SharedInv, Running
  <2>5. \A k \in Keys : GroupInv(k)'
    <3> TAKE k \in Keys
    <3>1. group[k] # None => group[k] \in Calls
      BY DEF FinderInv, FinderTypeOK
    <3>2. \A g \in Calls : /\ call'[g].step = call[g].step /\ call'[g].key = call[g].key
                           /\ call'[g].cancelled => call[g].cancelled
      BY <1>9, <2>2
    <3>3. QED
      BY <1>8, <3>1, <3>2 DEF FinderInv, GroupInv, Running
  <2>6. QED
    BY <1>0, <1>1, <1>5, <1>6, <1>8, <1>10, <2>2, <2>3, <2>4, <2>5, LeavingKeeps
<1>13. QED
  BY <1>11, <1>12

\* Leave, as the last one: the call is cancelled, forgotten and abandoned.
LEMMA LeaveLastKeeps ==
  ASSUME FinderInv, NEW c \in Callers, Leave(c),
         call[caller[c].on].waiting = {c}, call[caller[c].on].step # "done"
  PROVE  FinderInv'
<1>0. PICK f \in Calls : f = caller[c].on
  BY WaitingFacts DEF Leave
<1>1. caller[c].step = "wait" /\ caller[c].ctxDone /\ UNCHANGED <<remote, cache>>
  BY DEF Leave
<1>2. /\ caller[c] \in CallerRecord /\ CallerInv(caller[c], seen.answers, seen.failed)
      /\ call[f].step \notin {"unused", "done"} /\ ~call[f].cancelled
  BY <1>0, <1>1, WaitingFacts
<1>3. call[f] \in CallRecord /\ OutcomeInv(f) /\ SharedInv(f) /\ call[f].key \in Keys
  BY CallType
<1>4. MayDeliver(caller[c], "context", None, seen.answers, seen.failed)
  BY <1>1 DEF MayDeliver, Errs
<1>5. PICK q \in Delivered(caller[c], "context", None) : caller' = [caller EXCEPT ![c] = q]
  BY DEF Leave, Deliver
<1>6. q \in CallerRecord /\ CallerInv(q, seen.answers, seen.failed) /\ q.step \in {"get", "returned"}
  BY <1>1, <1>2, <1>4, <1>5, DeliveredKeeps
<1>7. PICK k \in Keys : k = call[f].key
  BY <1>3
<1>8. PICK r : r = [call[f] EXCEPT !.waiting = {}, !.cancelled = TRUE]
  OBVIOUS
<1>9. /\ call' = [call EXCEPT ![f] = r] /\ group' = [group EXCEPT ![k] = None]
      /\ seen' = [seen EXCEPT !.abandoned = @ \cup {k}]
  <2>1. [Without(f, c) EXCEPT !.cancelled = TRUE] = r
    <3>1. Without(f, c) = [call[f] EXCEPT !.waiting = call[f].waiting \ {c}]
      BY <1>2 DEF Without
    <3>2. call[f].waiting \ {c} = {}
      BY <1>0
    <3>3. QED
      BY <1>8, <3>1, <3>2, <1>3 DEF CallRecord
  <2>2. QED
    BY <1>0, <1>7, <2>1 DEF Leave
<1>10. /\ r \in CallRecord /\ r.waiting = {} /\ r.cancelled = TRUE /\ r.key = k
       /\ r.step = call[f].step /\ r.val = call[f].val /\ r.err = call[f].err
  BY <1>3, <1>7, <1>8 DEF CallRecord
<1>11. call'[f] = r /\ \A g \in Calls \ {f} : call'[g] = call[g]
  BY <1>9 DEF FinderInv, FinderTypeOK
<1>12. group'[k] = None /\ \A j \in Keys \ {k} : group'[j] = group[j]
  BY <1>9 DEF FinderInv, FinderTypeOK
<1>13. /\ seen'.answers = seen.answers /\ seen'.failed = seen.failed
       /\ seen'.abandoned = seen.abandoned \cup {k}
  BY <1>9 DEF FinderInv, FinderTypeOK
<1>14. group' \in [Keys -> Calls \cup {None}]
  BY <1>9 DEF FinderInv, FinderTypeOK
<1>15. seen' \in [answers : SUBSET (Keys \X Versions), failed : SUBSET Keys, abandoned : SUBSET Keys]
  <2>1. seen.abandoned \cup {k} \in SUBSET Keys
    BY DEF FinderInv, FinderTypeOK
  <2>2. seen' = [seen EXCEPT !.abandoned = seen.abandoned \cup {k}]
    BY <1>9
  <2>3. QED
    BY <2>1, <2>2 DEF FinderInv, FinderTypeOK
<1>16. Running(f) /\ group[k] = f
  <2>1. Running(f)
    BY <1>2, <1>3 DEF Running, CallRecord
  <2>2. QED
    BY <1>2, <1>3, <1>7, <2>1 DEF SharedInv
<1>17. OutcomeInv(f)'
  <2>1. /\ call'[f].step = call[f].step /\ call'[f].key = call[f].key /\ call'[f].val = call[f].val
        /\ call'[f].err = call[f].err /\ call'[f].cancelled
    BY <1>7, <1>10, <1>11
  <2>2. QED
    BY <1>2, <1>3, <1>13, <2>1 DEF OutcomeInv
<1>18. \A g \in Calls : SharedInv(g)'
  <2> TAKE g \in Calls
  <2>1. CASE g = f
    BY <1>10, <1>11, <1>13, <2>1 DEF SharedInv
  <2>2. CASE g # f
    <3>1. SharedInv(g) /\ call'[g] = call[g] /\ call[g].key \in Keys
      BY <1>11, <2>2, CallType
    <3>2. Running(g) /\ ~call[g].cancelled => call[g].key # k
      BY <1>16, <2>2, <3>1 DEF SharedInv
    <3>3. QED
      BY <1>1, <1>12, <1>13, <3>1, <3>2 DEF SharedInv, Running
  <2>3. QED
    BY <2>1, <2>2
<1>19. \A j \in Keys : GroupInv(j)'
  <2> TAKE j \in Keys
  <2>1. CASE j = k
    BY <1>12, <2>1 DEF GroupInv
  <2>2. CASE j # k
    <3>1. GroupInv(j) /\ (group[j] # None => group[j] \in Calls)
      BY DEF FinderInv, FinderTypeOK
    <3>2. group[j] # f
      BY <1>7, <2>2, <3>1 DEF GroupInv, None, Calls
    <3>3. QED
      BY <1>11, <1>12, <2>2, <3>1, <3>2 DEF GroupInv, Running
  <2>3. QED
    BY <2>1, <2>2
<1>20. r.waiting = call[f].waiting \ {c}
  BY <1>0, <1>10
<1>21. QED
  BY <1>0, <1>1, <1>5, <1>6, <1>9, <1>10, <1>13, <1>14, <1>15, <1>17, <1>18, <1>19, <1>20, LeavingKeeps

\* Finish: a call with waiters keeps its outcome for them, one without is over.
LEMMA FinishKeeps == ASSUME FinderInv, NEW f \in Calls, Finish(f) PROVE FinderInv'
<1>1. call[f] \in CallRecord /\ OutcomeInv(f) /\ SharedInv(f) /\ call[f].key \in Keys
  BY CallType
<1>2. call[f].step = "return" /\ UNCHANGED <<remote, cache, caller, seen>>
  BY DEF Finish
<1>3. PICK r : r = IF call[f].waiting = {} THEN UnusedCall ELSE [call[f] EXCEPT !.step = "done"]
  OBVIOUS
<1>4. PICK k \in Keys : k = call[f].key
  BY <1>1
<1>5. /\ call' = [call EXCEPT ![f] = r]
      /\ group' = IF group[k] = f THEN [group EXCEPT ![k] = None] ELSE group
  BY <1>3, <1>4 DEF Finish, FinderInv, FinderTypeOK
<1>6. call'[f] = r /\ \A g \in Calls \ {f} : call'[g] = call[g]
  BY <1>5 DEF FinderInv, FinderTypeOK
<1>7. /\ r \in CallRecord /\ r.step \in {"unused", "done"} /\ r.waiting = call[f].waiting
      /\ ~r.cancelled /\ (r.waiting # {} => r.key = call[f].key)
      /\ OutcomeInv(f)'
  <2>1. CASE call[f].waiting = {}
    <3>1. r = UnusedCall
      BY <1>3, <2>1
    <3>2. QED
      BY <1>6, <2>1, <3>1 DEF OutcomeInv, UnusedCall, CallRecord, Keys, Errs, None
  <2>2. CASE call[f].waiting # {}
    <3>1. r = [call[f] EXCEPT !.step = "done"] /\ ~call[f].cancelled
      BY <1>1, <1>3, <2>2 DEF SharedInv
    <3>2. /\ r \in CallRecord /\ r.step = "done" /\ r.waiting = call[f].waiting
          /\ r.cancelled = call[f].cancelled /\ r.key = call[f].key /\ r.val = call[f].val
          /\ r.err = call[f].err
      BY <1>1, <3>1 DEF CallRecord
    <3>3. OutcomeInv(f)'
      BY <1>1, <1>2, <1>6, <3>1, <3>2 DEF OutcomeInv
    <3>4. QED
      BY <3>1, <3>2, <3>3
  <2>3. QED
    BY <2>1, <2>2
<1>8. FinderTypeOK'
  BY <1>2, <1>5, <1>7 DEF FinderInv, FinderTypeOK
<1>9. \A c \in Callers : WaitInv(c)' /\ CallerInv(caller'[c], seen'.answers, seen'.failed)
  <2> TAKE c \in Callers
  <2>1. WaitInv(c) /\ CallerInv(caller[c], seen.answers, seen.failed)
    BY DEF FinderInv
  <2>2. \A g \in Calls : /\ call'[g].waiting = call[g].waiting
                         /\ call[g].waiting # {} => call'[g].key = call[g].key
    BY <1>6, <1>7
  <2>3. QED
    BY <1>2, <2>1, <2>2 DEF WaitInv
<1>10. \A g \in Calls : OutcomeInv(g)'
  BY <1>2, <1>6, <1>7 DEF FinderInv, OutcomeInv
<1>11. \A j \in Keys : GroupInv(j) /\ (group[j] # None => group[j] \in Calls)
  BY DEF FinderInv, FinderTypeOK
<1>12. /\ group'[k] # f
       /\ group[k] # f => group'[k] = group[k]
       /\ group[k] = f => group'[k] = None
       /\ \A j \in Keys \ {k} : group'[j] = group[j]
  BY <1>5 DEF FinderInv, FinderTypeOK, None, Calls
<1>13. \A g \in Calls : SharedInv(g)'
  <2> TAKE g \in Calls
  <2>1. CASE g = f
    BY <1>6, <1>7, <2>1 DEF SharedInv, Running
  <2>2. CASE g # f
    <3>1. SharedInv(g) /\ call'[g] = call[g] /\ call[g].key \in Keys
      BY <1>6, <2>2, CallType
    <3>2. Running(g) /\ ~call[g].cancelled => group'[call[g].key] = g
      BY <1>12, <2>2, <3>1 DEF SharedInv
    <3>3. QED
      BY <1>2, <3>1, <3>2 DEF SharedInv, Running
  <2>3. QED
    BY <2>1, <2>2
<1>14. \A j \in Keys : GroupInv(j)'
  <2> TAKE j \in Keys
  <2>1. group'[j] # None => group'[j] = group[j] /\ group[j] # f /\ group[j] \in Calls
    <3>1. CASE j = k
      BY <1>11, <1>12, <3>1
    <3>2. CASE j # k
      <4>1. group[j] # None => group[j] # f
        BY <1>4, <1>11, <3>2 DEF GroupInv
      <4>2. QED
        BY <1>11, <1>12, <3>2, <4>1
    <3>3. QED
      BY <3>1, <3>2
  <2>2. QED
    BY <1>6, <1>11, <2>1 DEF GroupInv, Running
<1>15. \A j \in Keys : cache'[j] # None => <<j, cache'[j]>> \in seen'.answers
  BY <1>2 DEF FinderInv
<1>16. QED
  BY <1>8, <1>9, <1>10, <1>13, <1>14, <1>15 DEF FinderInv

-----------------------------------------------------------------------------
\* The record of a caller that begins to wait for call f.
LEMMA WaitingRecord ==
  ASSUME FinderInv, NEW c \in Callers, caller[c].step = "do", NEW f \in Calls
  PROVE  LET q == [caller[c] EXCEPT !.step = "wait", !.on = f]
         IN  /\ q \in CallerRecord /\ CallerInv(q, seen.answers, seen.failed)
             /\ q.step = "wait" /\ q.on = f /\ q.todo = caller[c].todo
             /\ \A g \in Calls : c \notin call[g].waiting
<1> DEFINE q == [caller[c] EXCEPT !.step = "wait", !.on = f]
<1>1. caller[c] \in CallerRecord /\ CallerInv(caller[c], seen.answers, seen.failed) /\ WaitInv(c)
  BY DEF FinderInv, FinderTypeOK
<1>2. /\ q \in CallerRecord /\ q.step = "wait" /\ q.on = f /\ q.todo = caller[c].todo
      /\ q.asked = caller[c].asked /\ q.tags = caller[c].tags /\ q.err = caller[c].err
      /\ q.ctxDone = caller[c].ctxDone
  BY <1>1 DEF CallerRecord
<1>3. CallerInv(q, seen.answers, seen.failed)
  BY <1>1, <1>2 DEF CallerInv
<1>4. QED
  BY <1>1, <1>2, <1>3 DEF WaitInv

\* Do, for a key whose call runs: the caller joins it.
LEMMA JoinKeeps ==
  ASSUME FinderInv, NEW c \in Callers, Do(c), group[Head(caller[c].todo)] # None
  PROVE  FinderInv'
<1>0. PICK k : k = Head(caller[c].todo)
  OBVIOUS
<1>1. caller[c].step = "do" /\ k \in Keys
  BY <1>0 DEF Do, FinderInv, FinderTypeOK, CallerRecord, CallerInv, Keys
<1>2. PICK f \in Calls : f = group[k]
  BY <1>0, <1>1 DEF FinderInv, FinderTypeOK
<1>3. JoinCall(c, f) /\ UNCHANGED <<remote, cache, seen, group>>
  BY <1>0, <1>2 DEF Do, JoinCall
<1>4. PICK q : q = [caller[c] EXCEPT !.step = "wait", !.on = f]
  OBVIOUS
<1>5. PICK r : r = [call[f] EXCEPT !.waiting = call[f].waiting \cup {c}]
  OBVIOUS
<1>6. caller' = [caller EXCEPT ![c] = q] /\ call' = [call EXCEPT ![f] = r]
  BY <1>3, <1>4, <1>5 DEF JoinCall, FinderInv, FinderTypeOK
<1>7. /\ q \in CallerRecord /\ CallerInv(q, seen.answers, seen.failed)
      /\ q.step = "wait" /\ q.on = f /\ q.todo = caller[c].todo
      /\ \A g \in Calls : c \notin call[g].waiting
  BY <1>1, <1>4, WaitingRecord
<1>8. call[f] \in CallRecord /\ OutcomeInv(f) /\ SharedInv(f)
  BY CallType
<1>9. Running(f) /\ call[f].key = k /\ ~call[f].cancelled
  BY <1>0, <1>1, <1>2 DEF FinderInv, GroupInv
<1>10. /\ r \in CallRecord /\ r.step = call[f].step /\ r.key = k /\ r.val = call[f].val
       /\ r.err = call[f].err /\ r.cancelled = call[f].cancelled
       /\ r.waiting = call[f].waiting \cup {c}
  BY <1>5, <1>8, <1>9 DEF CallRecord
<1>11. /\ call'[f] = r /\ \A g \in Calls \ {f} : call'[g] = call[g]
       /\ caller'[c] = q /\ \A d \in Callers \ {c} : caller'[d] = caller[d]
  BY <1>6 DEF FinderInv, FinderTypeOK
<1>12. FinderTypeOK'
  BY <1>3, <1>6, <1>7, <1>10 DEF FinderInv, FinderTypeOK
<1>13. \A d \in Callers : CallerInv(caller'[d], seen'.answers, seen'.failed)
  BY <1>3, <1>7, <1>11 DEF FinderInv
<1>14. \A d \in Callers : WaitInv(d)'
  <2> TAKE d \in Callers
  <2>1. CASE d = c
    BY <1>0, <1>7, <1>10, <1>11, <2>1 DEF WaitInv
  <2>2. CASE d # c
    <3>1. WaitInv(d) /\ caller'[d] = caller[d]
      BY <1>11, <2>2 DEF FinderInv
    <3>2. \A g \in Calls : /\ d \in call'[g].waiting <=> d \in call[g].waiting
                           /\ call'[g].key = call[g].key
      BY <1>9, <1>10, <1>11, <2>2
    <3>3. QED
      BY <3>1, <3>2 DEF WaitInv
  <2>3. QED
    BY <2>1, <2>2
<1>15. \A g \in Calls : /\ call'[g].step = call[g].step /\ call'[g].key = call[g].key
                        /\ call'[g].cancelled = call[g].cancelled
  BY <1>9, <1>10, <1>11
<1>16. \A g \in Calls : OutcomeInv(g)'
  <2> TAKE g \in Calls
  <2>1. CASE g = f
    BY <1>3, <1>8, <1>9, <1>10, <1>11, <2>1 DEF OutcomeInv, Running
  <2>2. CASE g # f
    BY <1>3, <1>11, <2>2, CallType DEF OutcomeInv
  <2>3. QED
    BY <2>1, <2>2
<1>17. \A g \in Calls : SharedInv(g)'
  <2> TAKE g \in Calls
  <2>1. SharedInv(g) /\ (call[g].cancelled => call'[g] = call[g])
    BY <1>9, <1>11, CallType
  <2>2. QED
    BY <1>3, <1>15, <2>1 DEF SharedInv, Running
<1>18. \A j \in Keys : GroupInv(j)'
  <2> TAKE j \in Keys
  <2>1. GroupInv(j) /\ (group[j] # None => group[j] \in Calls)
    BY DEF FinderInv, FinderTypeOK
  <2>2. QED
    BY <1>3, <1>15, <2>1 DEF GroupInv, Running
<1>19. \A j \in Keys : cache'[j] # None => <<j, cache'[j]>> \in seen'.answers
  BY <1>3 DEF FinderInv
<1>20. QED
  BY <1>12, <1>13, <1>14, <1>16, <1>17, <1>18, <1>19 DEF FinderInv

\* Do, for a key without a call to join: the caller starts one.
LEMMA StartKeeps ==
  ASSUME FinderInv, NEW c \in Callers, Do(c), group[Head(caller[c].todo)] = None
  PROVE  FinderInv'
<1>0. PICK k : k = Head(caller[c].todo)
  OBVIOUS
<1>1. caller[c].step = "do" /\ k \in Keys
  BY <1>0 DEF Do, FinderInv, FinderTypeOK, CallerRecord, CallerInv, Keys
<1>2. StartCall(c, k) /\ UNCHANGED <<remote, cache, seen>>
  BY <1>0 DEF Do
<1>3. PICK f \in Calls : f = Unused /\ call[f].step = "unused"
  BY <1>2 DEF StartCall, Unused
<1>4. call[f] = UnusedCall
  BY <1>3, CallType DEF OutcomeInv
<1>5. PICK q : q = [caller[c] EXCEPT !.step = "wait", !.on = f]
  OBVIOUS
<1>6. PICK r : r = [UnusedCall EXCEPT !.key = k, !.step = "recheck", !.waiting = {c}]
  OBVIOUS
<1>7. /\ caller' = [caller EXCEPT ![c] = q] /\ call' = [call EXCEPT ![f] = r]
      /\ group' = [group EXCEPT ![k] = f]
  BY <1>2, <1>3, <1>4, <1>5, <1>6 DEF StartCall, FinderInv, FinderTypeOK
<1>8. /\ q \in CallerRecord /\ CallerInv(q, seen.answers, seen.failed)
      /\ q.step = "wait" /\ q.on = f /\ q.todo = caller[c].todo
      /\ \A g \in Calls : c \notin call[g].waiting
  BY <1>1, <1>5, WaitingRecord
<1>9. /\ r \in CallRecord /\ r.step = "recheck" /\ r.key = k /\ r.val = None /\ r.err = "nil"
      /\ ~r.cancelled /\ r.waiting = {c}
  BY <1>1, <1>6 DEF CallRecord, UnusedCall, Errs
<1>10. /\ call'[f] = r /\ \A g \in Calls \ {f} : call'[g] = call[g]
       /\ caller'[c] = q /\ \A d \in Callers \ {c} : caller'[d] = caller[d]
       /\ group'[k] = f /\ \A j \in Keys \ {k} : group'[j] = group[j]
  BY <1>1, <1>7 DEF FinderInv, FinderTypeOK
<1>11. FinderTypeOK'
  BY <1>1, <1>2, <1>7, <1>8, <1>9 DEF FinderInv, FinderTypeOK
<1>12. \A d \in Callers : CallerInv(caller'[d], seen'.answers, seen'.failed)
  BY <1>2, <1>8, <1>10 DEF FinderInv
<1>13. call[f].waiting = {}
  BY <1>4 DEF UnusedCall
<1>14. \A d \in Callers : WaitInv(d)'
  <2> TAKE d \in Callers
  <2>1. CASE d = c
    BY <1>0, <1>8, <1>9, <1>10, <2>1 DEF WaitInv
  <2>2. CASE d # c
    <3>1. WaitInv(d) /\ caller'[d] = caller[d]
      BY <1>10, <2>2 DEF FinderInv
    <3>2. \A g \in Calls : /\ d \in call'[g].waiting <=> d \in call[g].waiting
                           /\ d \in call[g].waiting => call'[g].key = call[g].key
      BY <1>9, <1>10, <1>13, <2>2
    <3>3. QED
      BY <3>1, <3>2 DEF WaitInv
  <2>3. QED
    BY <2>1, <2>2
<1>15. \A g \in Calls : OutcomeInv(g)'
  <2> TAKE g \in Calls
  <2>1. CASE g = f
    BY <1>9, <1>10, <2>1 DEF OutcomeInv
  <2>2. CASE g # f
    BY <1>2, <1>10, <2>2, CallType DEF OutcomeInv
  <2>3. QED
    BY <2>1, <2>2
<1>16. \A g \in Calls : SharedInv(g)'
  <2> TAKE g \in Calls
  <2>1. CASE g = f
    BY <1>9, <1>10, <2>1 DEF SharedInv
  <2>2. CASE g # f
    <3>1. SharedInv(g) /\ call'[g] = call[g] /\ call[g].key \in Keys
      BY <1>10, <2>2, CallType
    <3>2. Running(g) /\ ~call[g].cancelled => call[g].key # k
      BY <1>0, <3>1 DEF SharedInv, None, Calls
    <3>3. QED
      BY <1>2, <1>10, <3>1, <3>2 DEF SharedInv, Running
  <2>3. QED
    BY <2>1, <2>2
<1>17. \A j \in Keys : GroupInv(j)'
  <2> TAKE j \in Keys
  <2>1. CASE j = k
    BY <1>9, <1>10, <2>1 DEF GroupInv, Running
  <2>2. CASE j # k
    <3>1. GroupInv(j) /\ (group[j] # None => group[j] \in Calls)
      BY DEF FinderInv, FinderTypeOK
    <3>2. group[j] # None => group[j] # f
      BY <1>3, <3>1 DEF GroupInv, Running
    <3>3. QED
      BY <1>10, <2>2, <3>1, <3>2 DEF GroupInv, Running
  <2>3. QED
    BY <2>1, <2>2
<1>18. \A j \in Keys : cache'[j] # None => <<j, cache'[j]>> \in seen'.answers
  BY <1>2 DEF FinderInv
<1>19. QED
  BY <1>11, <1>12, <1>14, <1>15, <1>16, <1>17, <1>18 DEF FinderInv

-----------------------------------------------------------------------------
\* FinderInv is inductive: every step of a caller, of a call, of the registry
\* and of the cache keeps it.
LEMMA FinderInvariant == FinderInit /\ [][FinderNext]_vars => []FinderInv
<1>1. FinderInit => FinderInv
  <2> SUFFICES ASSUME FinderInit PROVE FinderInv
    OBVIOUS
  <2>1. UnusedCall \in CallRecord
    BY DEF UnusedCall, CallRecord, Keys, Errs
  <2>2. FinderTypeOK
    BY <2>1, FinderAssumption DEF FinderInit, FinderTypeOK, CallerRecord, Versions, Errs
  <2>3. ToSet(<< >>) = {}
    BY DEF ToSet
  <2>4. \A c \in Callers : CallerInv(caller[c], seen.answers, seen.failed) /\ WaitInv(c)
    BY <2>3 DEF FinderInit, CallerInv, WaitInv, UnusedCall
  <2>5. \A f \in Calls : OutcomeInv(f) /\ SharedInv(f)
    BY DEF FinderInit, OutcomeInv, SharedInv, Running, UnusedCall
  <2>6. QED
    BY <2>2, <2>4, <2>5 DEF FinderInit, FinderInv, GroupInv
<1>2. FinderInv /\ [FinderNext]_vars => FinderInv'
  <2> SUFFICES ASSUME FinderInv, [FinderNext]_vars PROVE FinderInv'
    OBVIOUS
  <2>1. ASSUME NEW c \in Callers, CallerStep(c) \/ Deadline(c) PROVE FinderInv'
    <3>1. CASE Leave(c)
      BY <3>1, LeaveSharedKeeps, LeaveLastKeeps
    <3>2. CASE Do(c)
      BY <3>2, JoinKeeps, StartKeeps
    <3>3. QED
      BY <2>1, <3>1, <3>2, BeginKeeps, GetKeeps, ReceiveKeeps, DeadlineKeeps DEF CallerStep
  <2>2. ASSUME NEW f \in Calls, CallStep(f) PROVE FinderInv'
    BY <2>2, RecheckKeeps, AnswerKeeps, RefuseKeeps, AbortKeeps, AddKeeps, FinishKeeps DEF CallStep
  <2>3. ASSUME NEW k \in Keys, Push(k) \/ Drop(k) PROVE FinderInv'
    BY <2>3, PushKeeps, DropKeeps
  <2>4. CASE UNCHANGED vars
    BY <2>4, CallsUntouched DEF vars, FinderInv, FinderTypeOK, WaitInv
  <2>5. QED
    BY <2>1, <2>2, <2>3, <2>4 DEF FinderNext
<1>3. QED
  BY <1>1, <1>2, PTL

\* Tags with a live context fails, or leaves a ranked tag out, only because
\* the registry did not answer for that key (SkipsOnlyUnanswered).
THEOREM TagsSkipsOnlyUnanswered == FinderSpec => []SkipsOnlyUnanswered
<1>1. FinderInv => SkipsOnlyUnanswered
  <2> SUFFICES ASSUME FinderInv, NEW c \in Callers,
                      caller[c].step = "returned", ~caller[c].ctxDone
               PROVE  /\ caller[c].err # "nil" => caller[c].err = "registry" /\ Names \in seen.failed
                      /\ caller[c].asked \ {t.name : t \in ToSet(caller[c].tags)} \subseteq seen.failed
    BY DEF SkipsOnlyUnanswered
  <2>1. CallerInv(caller[c], seen.answers, seen.failed)
    BY DEF FinderInv
  <2>2. QED
    BY <2>1 DEF CallerInv
<1>2. QED
  BY <1>1, FinderInvariant, PTL DEF FinderSpec

\* Every cached version and every time in a result was an answer of the
\* registry for that key (AnswersOnly).
THEOREM TagsReturnsAnswersOnly == FinderSpec => []AnswersOnly
<1>1. FinderInv => AnswersOnly
  BY DEF FinderInv, CallerInv, AnswersOnly
<1>2. QED
  BY <1>1, FinderInvariant, PTL DEF FinderSpec

\* The registry is asked for what is cached only after a call for the key was
\* abandoned (NoRedundantListing).
THEOREM TagsListsNothingTwice == FinderSpec => []NoRedundantListing
<1>1. FinderInv => NoRedundantListing
  BY DEF FinderInv, SharedInv, NoRedundantListing
<1>2. QED
  BY <1>1, FinderInvariant, PTL DEF FinderSpec

\* A cached version is replaced by an older one only after a call for its key
\* was abandoned (CacheGoesForward).
THEOREM TagsCacheGoesForward == FinderSpec => CacheGoesForward
<1>1. FinderInv /\ [FinderNext]_vars
        => [\A k \in Keys : cache'[k] # None /\ cache'[k] < cache[k] => k \in seen.abandoned]_vars
  <2> SUFFICES ASSUME FinderInv, FinderNext, NEW k \in Keys, cache'[k] # None, cache'[k] < cache[k]
               PROVE  k \in seen.abandoned
    OBVIOUS
  <2>1. cache[k] \in Versions \cup {None}
    BY DEF FinderInv, FinderTypeOK
  <2>2. PICK f \in Calls : Add(f)
    <3>1. UNCHANGED cache \/ (\E f \in Calls : Add(f)) \/ (\E j \in Keys : Drop(j))
      BY DEF FinderNext, CallerStep, CallStep, Begin, Get, Do, Receive, Leave, Deadline, Recheck,
             Answer, Refuse, Abort, Finish, Push
    <3>2. ~UNCHANGED cache
      BY <2>1 DEF Versions, None
    <3>3. ASSUME NEW j \in Keys, Drop(j) PROVE FALSE
      BY <2>1, <3>3 DEF Drop, FinderInv, FinderTypeOK, Versions, None
    <3>4. QED
      BY <3>1, <3>2, <3>3
  <2>3. call[f].key = k /\ call[f].step = "add"
    BY <2>1, <2>2 DEF Add, FinderInv, FinderTypeOK, Versions, None
  <2>4. cache'[k] \in Versions
    <3>1. cache'[k] = call[f].val /\ call[f] \in CallRecord
      BY <2>2, <2>3 DEF Add, FinderInv, FinderTypeOK
    <3>2. QED
      BY <3>1 DEF CallRecord
  <2>5. cache[k] # None
    BY <2>1, <2>4 DEF Versions, None
  <2>6. QED
    BY <2>3, <2>5, CallType DEF ListingInv
<1>2. QED
  BY <1>1, FinderInvariant, PTL DEF FinderSpec, CacheGoesForward
=============================================================================
