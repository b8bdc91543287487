-------------------------- MODULE ToolOutputStore --------------------------
(***************************************************************************)
(* The bounded store of full tool outputs, toolOutputStore of              *)
(* pkg/zbplan/tool_output.go.  The tool calls of one agent round run in    *)
(* parallel goroutines; each that returns saves its output here.  The      *)
(* store keeps at most MaxBytes bytes: a save evicts the oldest outputs    *)
(* until the new one fits, and an output that cannot fit at all is not     *)
(* kept.  An index from tool-call IDs to refs lets the history rewriter    *)
(* find the output of a message.                                           *)
(*                                                                         *)
(* saveCall runs under the write lock.  Its eviction loop is one step per  *)
(* iteration; "saving" holds the locals of the goroutine inside and is     *)
(* NoSave exactly when the lock is free, so nobody else acts in between    *)
(* and every started save runs to its end.  A ref "out-n" is the number n. *)
(***************************************************************************)
EXTENDS Integers, Sequences

CONSTANTS
  Callers,     \* goroutines that call saveCall
  CallIDs,     \* the non-empty tool-call IDs
  NoID,        \* the empty call ID
  OutputLens,  \* possible len(output)
  MetaLens,    \* possible len(callID) + len(toolName) + len(args)
  RefLen(_),   \* len of the formatted ref of a number
  MaxBytes,    \* maxBytes, the budget of the store
  MaxInline,   \* defaultMaxToolOutputBytes, what a message may show whole
  MaxSaves,    \* bound of the model: saves in a run
  NoSave       \* no goroutine is inside saveCall

ASSUME StoreAssumption ==
  /\ OutputLens \subseteq Nat
  /\ MetaLens \subseteq Nat
  /\ \A n \in 1..MaxSaves : RefLen(n) \in Nat \ {0}
  /\ MaxBytes \in Nat
  /\ MaxInline \in Nat
  /\ MaxSaves \in Nat
  /\ NoID \notin CallIDs
  /\ NoSave \notin [caller : Callers, callID : CallIDs \cup {NoID},
                    len : OutputLens, ref : Nat, size : Nat]

VARIABLES
  nextRef,           \* number of the last ref handed out
  totalBytes,        \* bytes charged to the retained outputs
  outputs,           \* ref -> storedToolOutput, for the retained refs
  callRefs,          \* call ID -> ref of its retained output
  compactableCalls,  \* call IDs whose output is too long for a message
  order,             \* retained refs, oldest first
  saving,            \* locals of the save in progress, or NoSave
  (* History, never read by an action. *)
  lastSave,          \* call ID -> its latest save, [ref, len]
  accepted           \* every output ever kept: [ref, end], where end is
                     \* the number of bytes kept so far, this one included

storeState == <<nextRef, totalBytes, outputs, callRefs, compactableCalls, order>>
storeVars  == <<storeState, saving, lastSave, accepted>>

AnyID == CallIDs \cup {NoID}

\* storedToolOutput; the value and the texts are abstracted to their lengths.
StoredOutput == [callID : AnyID, len : OutputLens, size : Nat]

\* The locals of a save: it holds the newest ref and fits the whole budget.
SaveLocals ==
  [caller : Callers, callID : AnyID, len : OutputLens,
   ref : {nextRef} \ {0}, size : 0..MaxBytes]

\* What the history keeps of an output.
KeptOutput == [ref : 1..nextRef, end : Nat]

\* The state of the store is well-formed: refs are numbers already handed
\* out, and the maps of tool_output.go:32-41 hold what they are declared to.
\* (That totalBytes is a number in its range takes more: BudgetRespected.)
TypeOK ==
  /\ nextRef \in 0..MaxSaves
  /\ DOMAIN outputs \subseteq 1..nextRef
  /\ outputs \in [DOMAIN outputs -> StoredOutput]
  /\ DOMAIN callRefs \subseteq CallIDs
  /\ callRefs \in [DOMAIN callRefs -> 1..nextRef]
  /\ compactableCalls \subseteq CallIDs
  /\ order \in Seq(1..nextRef)
  /\ (saving = NoSave \/ saving \in SaveLocals)
  /\ lastSave \in [CallIDs -> [ref : 0..nextRef, len : Nat]]
  /\ accepted \in Seq(KeptOutput)

-----------------------------------------------------------------------------
\* newToolOutputStore
StoreInit ==
  /\ nextRef = 0
  /\ totalBytes = 0
  /\ outputs = << >>
  /\ callRefs = << >>
  /\ compactableCalls = {}
  /\ order = << >>
  /\ saving = NoSave
  /\ lastSave = [c \in CallIDs |-> [ref |-> 0, len |-> 0]]
  /\ accepted = << >>

Unlocked == saving = NoSave

\* get: is the full output of ref still there?  Readers hold the read lock.
Retained(ref) == ref \in DOMAIN outputs

\* delete(m, k) on a map m
Without(m, k) == [x \in DOMAIN m \ {k} |-> m[x]]

\* m[k] = v on a map m
With(m, k, v) == [x \in DOMAIN m \cup {k} |-> IF x = k THEN v ELSE m[x]]

\* The bytes an entry is charged: its ref, call ID, tool name, arguments
\* and output.
EntrySize(ref, meta, len) == RefLen(ref) + meta + len

\* Whether the output of call c has to be compacted later is decided anew by
\* every save of c.
MarkCompactable(c, len) ==
  compactableCalls' = IF c = NoID THEN compactableCalls
                      ELSE IF len > MaxInline THEN compactableCalls \cup {c}
                      ELSE compactableCalls \ {c}

\* Mutants: the counter is incremented after use; refs number the entries kept.
NewRef_PostIncrement == nextRef
NewRef_ByPosition    == Len(order) + 1

\* The number of the next ref.
NewRef == nextRef + 1

\* The index once the output of call c has been refused.
Unindexed(c) == Without(callRefs, c)

\* saveCall up to its loop: take the lock, hand out a ref, and refuse an
\* output that exceeds the whole budget; the call ID then points nowhere.
SaveCall(p, c, meta, len) ==
  LET ref  == NewRef
      size == EntrySize(ref, meta, len)
  IN  /\ Unlocked
      /\ nextRef < MaxSaves
      /\ MarkCompactable(c, len)
      /\ nextRef' = ref
      /\ lastSave' = IF c = NoID THEN lastSave
                     ELSE [lastSave EXCEPT ![c] = [ref |-> ref, len |-> len]]
      /\ \/ /\ size > MaxBytes
            /\ callRefs' = Unindexed(c)
            /\ UNCHANGED saving
         \/ /\ size <= MaxBytes
            /\ saving' = [caller |-> p, callID |-> c, len |-> len,
                          ref |-> ref, size |-> size]
            /\ UNCHANGED callRefs
      /\ UNCHANGED <<totalBytes, outputs, order, accepted>>

\* Mutants: an exact fit is evicted for; the new entry is not counted.
MustEvict_Eager      == totalBytes + saving.size >= MaxBytes /\ order # << >>
MustEvict_IgnoresNew == totalBytes > MaxBytes /\ order # << >>

\* The loop condition: the new entry does not fit and something can go.
MustEvict == totalBytes + saving.size > MaxBytes /\ order # << >>

\* Mutant: the index forgets the call whatever it names.
UnindexEvicted_Always(ref) == Without(callRefs, outputs[ref].callID)

\* An evicted output leaves the index only while the index still names it.
UnindexEvicted(ref) ==
  LET c == outputs[ref].callID
  IN  IF c \in DOMAIN callRefs /\ callRefs[c] = ref
      THEN Without(callRefs, c) ELSE callRefs

\* Mutant: the wrong end of the order.
Oldest_Newest == order[Len(order)]

\* The ref the loop evicts next.
Oldest == Head(order)

\* One iteration of the eviction loop of saveCall.
EvictOldest ==
  LET oldest == Oldest
  IN  /\ ~Unlocked
      /\ MustEvict
      /\ order' = Tail(order)
      /\ outputs' = Without(outputs, oldest)
      /\ totalBytes' = totalBytes - outputs[oldest].size
      /\ callRefs' = UnindexEvicted(oldest)
      /\ UNCHANGED <<nextRef, compactableCalls, saving, lastSave, accepted>>

\* The first i outputs ever kept take End(i) bytes together.
End(i) == IF i = 0 THEN 0 ELSE accepted[i].end

\* The rest of saveCall: store the output, index it, release the lock.
Insert ==
  /\ ~Unlocked
  /\ ~MustEvict
  /\ outputs' = With(outputs, saving.ref,
                     [callID |-> saving.callID, len |-> saving.len, size |-> saving.size])
  /\ order' = Append(order, saving.ref)
  /\ totalBytes' = totalBytes + saving.size
  /\ callRefs' = IF saving.callID = NoID THEN callRefs
                 ELSE With(callRefs, saving.callID, saving.ref)
  /\ saving' = NoSave
  /\ accepted' = Append(accepted,
                        [ref |-> saving.ref, end |-> End(Len(accepted)) + saving.size])
  /\ UNCHANGED <<nextRef, compactableCalls, lastSave>>

\* compactionForCall
CompactionForCall(c) ==
  LET indexed == c \in DOMAIN callRefs
  IN  IF c \notin compactableCalls
      THEN [ref |-> 0, compactable |-> FALSE, retained |-> FALSE]
      ELSE [ref         |-> IF indexed THEN callRefs[c] ELSE 0,
            compactable |-> TRUE,
            retained    |-> indexed /\ Retained(callRefs[c])]

-----------------------------------------------------------------------------
StoreNext ==
  \/ \E p \in Callers, c \in AnyID, meta \in MetaLens, len \in OutputLens :
       SaveCall(p, c, meta, len)
  \/ EvictOldest
  \/ Insert

StoreSpec == StoreInit /\ [][StoreNext]_storeVars

-----------------------------------------------------------------------------
\* How many of the outputs ever kept have been evicted.
Evicted == Len(accepted) - Len(order)

\* Exactly the newest outputs are retained, in the order they came: the
\* order list, the map and the byte counter of tool_output.go:37-40 are three
\* views of the same suffix of everything saveCall ever kept.
RetainsSuffix ==
  /\ Evicted >= 0
  /\ \A i \in 1..Len(order) :
       /\ order[i] = accepted[Evicted + i].ref
       /\ Retained(order[i])
       /\ outputs[order[i]].size = End(Evicted + i) - End(Evicted + i - 1)
  /\ \A ref \in DOMAIN outputs : \E i \in 1..Len(order) : order[i] = ref
  /\ totalBytes = End(Len(accepted)) - End(Evicted)

\* The bytes retained never exceed the budget, not even in the middle of a
\* save (maxRetainedToolOutputBytes "bounds the full tool outputs kept").
BudgetRespected == totalBytes \in 0..MaxBytes

\* Eviction is never eager: between saves, the newest evicted output would
\* no longer fit together with those that were kept (tool_output.go:79).
EvictsOnlyForRoom ==
  Unlocked /\ Evicted > 0 => End(Len(accepted)) - End(Evicted - 1) > MaxBytes

\* The index never dangles: what it names is retained, and is an output of
\* that very call (tool_output.go:75 and 85).
CallRefsLive ==
  \A c \in DOMAIN callRefs :
    /\ Retained(callRefs[c])
    /\ outputs[callRefs[c]].callID = c

\* Between saves, compactionForCall speaks of the latest save under a call ID
\* and of no other, even when the provider reuses IDs: the call is
\* compactable iff that output was long, and retained iff that very output
\* still is, under its own ref.
CompactionDescribesLatest ==
  Unlocked =>
    \A c \in CallIDs :
      LET last == lastSave[c]
          long == last.len > MaxInline
          kept == long /\ Retained(last.ref)
      IN  CompactionForCall(c) = [ref         |-> IF kept THEN last.ref ELSE 0,
                                  compactable |-> long,
                                  retained    |-> kept]

\* A ref means one output for the whole run: a step never changes what a ref
\* names, and what it adds goes under a ref newer than any handed out before.
\* A ref in an old message cannot come to name another output.
RefsNeverReused ==
  [][\A ref \in DOMAIN outputs' :
       IF Retained(ref) THEN outputs'[ref] = outputs[ref]
       ELSE \A i \in 1..Len(accepted) : accepted[i].ref < ref]_storeVars
=============================================================================
