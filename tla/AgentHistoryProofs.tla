------------------------- MODULE AgentHistoryProofs -------------------------
(***************************************************************************)
(* Proofs about the tool-output store and the ReAct loop around it.        *)
(*                                                                         *)
(* The store, for every budget, every set of call IDs and output lengths   *)
(* and any number of saves.  The argument has three layers, each an        *)
(* invariant that uses the ones below it: TypeOK; what is retained         *)
(* (SuffixInv); what the index and the marks say (IndexInv).               *)
(*                                                                         *)
(* The loop, for any number of rounds, attempts and parallel calls and any *)
(* store budget: it uses the store only by its operations, so that every   *)
(* theorem about the store holds inside it; and the rewriter compacts      *)
(* exactly the long results of older rounds and says nothing untrue of     *)
(* them.                                                                   *)
(***************************************************************************)
EXTENDS AgentHistory, SequenceTheorems, TLAPS

\* The kept outputs are numbered upwards, and the save in progress will
\* carry the highest number.
AcceptedInOrder ==
  /\ \A i, j \in 1..Len(accepted) :
       i < j => /\ accepted[i].ref < accepted[j].ref
                /\ accepted[i].end <= accepted[j].end
  /\ ~Unlocked => \A i \in 1..Len(accepted) : accepted[i].ref < saving.ref

\* EvictsOnlyForRoom, extended to the middle of a save: what has been evicted
\* already would not have fitted beside the output being saved.
EvictedForRoom ==
  Evicted > 0 =>
    End(Len(accepted)) - End(Evicted - 1)
      + (IF Unlocked THEN 0 ELSE saving.size) > MaxBytes

SuffixInv ==
  /\ AcceptedInOrder
  /\ RetainsSuffix
  /\ BudgetRespected
  /\ EvictedForRoom

\* The index names the latest save of every call but the one being saved.
IndexNamesLatest ==
  /\ \A c \in CallIDs :
       Unlocked \/ saving.callID # c =>
         /\ c \in DOMAIN callRefs => callRefs[c] = lastSave[c].ref
         /\ Retained(lastSave[c].ref) => c \in DOMAIN callRefs
  /\ ~Unlocked =>
       \A c \in CallIDs :
         IF c = saving.callID THEN lastSave[c].ref = saving.ref
         ELSE lastSave[c].ref < saving.ref

MarksDescribeLatest ==
  \A c \in CallIDs : c \in compactableCalls <=> lastSave[c].len > MaxInline

IndexInv ==
  /\ CallRefsLive
  /\ IndexNamesLatest
  /\ MarksDescribeLatest

StoreInv == TypeOK /\ SuffixInv /\ IndexInv

-----------------------------------------------------------------------------
\* What delete and assignment do to a map.
LEMMA WithoutMap ==
  ASSUME NEW m, NEW k
  PROVE  /\ DOMAIN Without(m, k) = DOMAIN m \ {k}
         /\ \A x \in DOMAIN m \ {k} : Without(m, k)[x] = m[x]
BY DEF Without

\* What a map answers once a key has been set.
LEMMA WithMap ==
  ASSUME NEW m, NEW k, NEW v
  PROVE  /\ DOMAIN With(m, k, v) = DOMAIN m \cup {k}
         /\ With(m, k, v)[k] = v
         /\ \A x \in DOMAIN m \ {k} : With(m, k, v)[x] = m[x]
BY DEF With

\* A sequence over a set is one over a larger set.
LEMMA SeqOfMore ==
  ASSUME NEW S, NEW T, S \subseteq T, NEW s \in Seq(S)
  PROVE  s \in Seq(T)
<1>1. Len(s) \in Nat /\ s \in [1..Len(s) -> T]
  OBVIOUS
<1>2. QED
  BY <1>1

\* The running totals and the refs of the kept outputs are numbers.
LEMMA EndNat ==
  ASSUME TypeOK
  PROVE  /\ Len(accepted) \in Nat
         /\ \A i \in 0..Len(accepted) : End(i) \in Nat
         /\ \A i \in 1..Len(accepted) : accepted[i].ref \in 1..nextRef
<1>1. \A i \in 1..Len(accepted) : accepted[i] \in KeptOutput
  BY DEF TypeOK
<1>2. \A i \in 1..Len(accepted) : accepted[i].end \in Nat /\ accepted[i].ref \in 1..nextRef
  BY <1>1 DEF KeptOutput
<1>3. Len(accepted) \in Nat
  BY DEF TypeOK
<1>4. QED
  BY <1>2, <1>3 DEF End

\* newToolOutputStore builds a well-formed store.
LEMMA InitTypeOK == StoreInit => TypeOK
<1>1. StoreInit => DOMAIN outputs = {} /\ DOMAIN callRefs = {}
  BY DEF StoreInit
<1>2. QED
  BY <1>1, StoreAssumption DEF StoreInit, TypeOK

\* What a step of the save in progress may rely on.
LEMMA SaverLocals ==
  ASSUME TypeOK, ~Unlocked
  PROVE  /\ saving \in SaveLocals
         /\ saving.ref = nextRef
         /\ nextRef \in 1..MaxSaves
         /\ saving.size \in 0..MaxBytes
         /\ saving.callID \in AnyID
         /\ saving.len \in OutputLens
BY StoreAssumption DEF TypeOK, Unlocked, SaveLocals

\* Every iteration of the loop evicts a retained ref number.
LEMMA EvictedRef ==
  ASSUME TypeOK, ~Unlocked, MustEvict
  PROVE  /\ order # << >>
         /\ Oldest = order[1]
         /\ Oldest \in 1..nextRef
         /\ Tail(order) \in Seq(1..nextRef)
         /\ Len(order) \in Nat \ {0}
         /\ Len(Tail(order)) = Len(order) - 1
         /\ \A i \in 1..Len(Tail(order)) : Tail(order)[i] = order[i + 1]
BY DEF TypeOK, MustEvict, Oldest

\* Every step of saveCall keeps the store well-formed.
LEMMA StepTypeOK ==
  ASSUME TypeOK, [StoreNext]_storeVars
  PROVE  TypeOK'
<1>1. ASSUME NEW p \in Callers, NEW c \in AnyID, NEW meta \in MetaLens,
             NEW len \in OutputLens, SaveCall(p, c, meta, len)
      PROVE  TypeOK'
  <2> DEFINE size == EntrySize(nextRef + 1, meta, len)
  <2>1. /\ nextRef' = nextRef + 1
        /\ nextRef' \in 1..MaxSaves
        /\ 1..nextRef \subseteq 1..nextRef'
        /\ size \in Nat
    <3>1. nextRef' = nextRef + 1 /\ nextRef \in Nat /\ nextRef + 1 \in 1..MaxSaves
      BY <1>1, StoreAssumption DEF TypeOK, SaveCall, NewRef
    <3>2. RefLen(nextRef + 1) \in Nat /\ meta \in Nat /\ len \in Nat
      BY <3>1, StoreAssumption
    <3>3. QED
      BY <3>1, <3>2 DEF EntrySize
  <2>2. outputs' \in [DOMAIN outputs' -> StoredOutput] /\ DOMAIN outputs' \subseteq 1..nextRef'
    BY <1>1, <2>1 DEF TypeOK, SaveCall, StoredOutput
  <2>3. /\ DOMAIN callRefs' \subseteq CallIDs
        /\ callRefs' \in [DOMAIN callRefs' -> 1..nextRef']
    <3>1. DOMAIN Without(callRefs, c) \subseteq CallIDs
      BY WithoutMap, ZenonT(60) DEF TypeOK
    <3>2. Without(callRefs, c) \in [DOMAIN Without(callRefs, c) -> 1..nextRef']
      BY <2>1 DEF TypeOK, Without
    <3>3. callRefs \in [DOMAIN callRefs -> 1..nextRef']
      BY <2>1 DEF TypeOK
    <3>4. QED
      BY <1>1, <3>1, <3>2, <3>3 DEF TypeOK, SaveCall, Unindexed
  <2>4. compactableCalls' \subseteq CallIDs
    BY <1>1 DEF TypeOK, SaveCall, MarkCompactable, AnyID
  <2>5. order' \in Seq(1..nextRef')
    <3>1. order' = order
      BY <1>1 DEF SaveCall
    <3>2. order \in Seq(1..nextRef')
      BY <2>1 DEF TypeOK
    <3>3. QED
      BY <3>1, <3>2
  <2>6. saving' = NoSave \/ saving' \in SaveLocals'
    BY <1>1, <2>1, StoreAssumption DEF TypeOK, SaveCall, NewRef, SaveLocals, Unlocked
  <2>7. lastSave' \in [CallIDs -> [ref : 0..nextRef', len : Nat]]
    BY <1>1, <2>1, StoreAssumption DEF TypeOK, SaveCall, NewRef, AnyID
  <2>8. accepted' \in Seq(KeptOutput')
    <3>1. accepted' = accepted
      BY <1>1 DEF SaveCall
    <3>2. KeptOutput \subseteq KeptOutput'
      BY <2>1 DEF KeptOutput
    <3>3. accepted \in Seq(KeptOutput')
      BY <3>2, SeqOfMore DEF TypeOK
    <3>4. QED
      BY <3>1, <3>3
  <2>9. QED
    BY <2>1, <2>2, <2>3, <2>4, <2>5, <2>6, <2>7, <2>8 DEF TypeOK
<1>2. ASSUME EvictOldest
      PROVE  TypeOK'
  <2>1. /\ ~Unlocked
        /\ MustEvict
        /\ UNCHANGED <<nextRef, compactableCalls, saving, lastSave, accepted>>
        /\ order' = Tail(order)
        /\ outputs' = Without(outputs, Oldest)
        /\ totalBytes' = totalBytes - outputs[Oldest].size
        /\ callRefs' = UnindexEvicted(Oldest)
    BY <1>2 DEF EvictOldest
  <2>2. order' \in Seq(1..nextRef')
    BY <2>1, EvictedRef
  <2>3. /\ DOMAIN outputs' \subseteq 1..nextRef'
        /\ outputs' \in [DOMAIN outputs' -> StoredOutput]
    BY <2>1 DEF TypeOK, Without
  <2>4. /\ DOMAIN callRefs' \subseteq CallIDs
        /\ callRefs' \in [DOMAIN callRefs' -> 1..nextRef']
    <3> DEFINE c == outputs[Oldest].callID
    <3>1. CASE callRefs' = callRefs
      BY <2>1, <3>1 DEF TypeOK
    <3>2. CASE callRefs' = Without(callRefs, c)
      <4>1. DOMAIN Without(callRefs, c) \subseteq DOMAIN callRefs
        BY DEF Without
      <4>2. callRefs' \in [DOMAIN callRefs' -> 1..nextRef]
        BY <3>2 DEF TypeOK, Without
      <4>3. QED
        BY <2>1, <3>2, <4>1, <4>2 DEF TypeOK
    <3>3. QED
      BY <2>1, <3>1, <3>2 DEF UnindexEvicted
  <2>5. saving' = NoSave \/ saving' \in SaveLocals'
    BY <2>1 DEF TypeOK, SaveLocals
  <2>6. accepted' \in Seq(KeptOutput')
    BY <2>1 DEF TypeOK, KeptOutput
  <2>7. QED
    BY <2>1, <2>2, <2>3, <2>4, <2>5, <2>6 DEF TypeOK
<1>3. ASSUME Insert
      PROVE  TypeOK'
  <2>1. /\ saving.ref = nextRef
        /\ nextRef \in 1..MaxSaves
        /\ nextRef' = nextRef
        /\ saving.size \in 0..MaxBytes
        /\ saving.callID \in AnyID
        /\ saving.len \in OutputLens
    BY <1>3, SaverLocals DEF Insert
  <2>2. /\ DOMAIN outputs' \subseteq 1..nextRef'
        /\ outputs' \in [DOMAIN outputs' -> StoredOutput]
    BY <1>3, <2>1 DEF TypeOK, Insert, With, StoredOutput
  <2>3. /\ DOMAIN callRefs' \subseteq CallIDs
        /\ callRefs' \in [DOMAIN callRefs' -> 1..nextRef']
    BY <1>3, <2>1 DEF TypeOK, Insert, With, AnyID
  <2>4. order' \in Seq(1..nextRef')
    BY <1>3, <2>1 DEF TypeOK, Insert
  <2>5. accepted' \in Seq(KeptOutput')
    <3>1. End(Len(accepted)) \in Nat
      BY EndNat
    <3>2. [ref |-> saving.ref, end |-> End(Len(accepted)) + saving.size] \in KeptOutput'
      BY <2>1, <3>1, StoreAssumption DEF KeptOutput
    <3>3. KeptOutput' = KeptOutput /\ accepted \in Seq(KeptOutput)
      BY <2>1 DEF TypeOK, KeptOutput
    <3>4. QED
      BY <1>3, <3>2, <3>3 DEF Insert
  <2>6. QED
    BY <1>3, <2>1, <2>2, <2>3, <2>4, <2>5 DEF TypeOK, Insert
<1>4. CASE UNCHANGED storeVars
  <2>1. SaveLocals' = SaveLocals /\ KeptOutput' = KeptOutput
    BY <1>4 DEF storeVars, storeState, SaveLocals, KeptOutput
  <2>2. QED
    BY <1>4, <2>1 DEF TypeOK, storeVars, storeState
<1>5. QED
  BY <1>1, <1>2, <1>3, <1>4 DEF StoreNext

\* The store is well-formed in every state of every run.
THEOREM StoreTypeOK == StoreSpec => []TypeOK
<1>1. QED
  BY InitTypeOK, StepTypeOK, PTL DEF StoreSpec

-----------------------------------------------------------------------------
\* The running totals never decrease.
LEMMA EndMonotone ==
  ASSUME TypeOK, AcceptedInOrder,
         NEW i \in 0..Len(accepted), NEW j \in 0..Len(accepted), i <= j
  PROVE  End(i) <= End(j)
<1>1. Len(accepted) \in Nat /\ End(i) \in Nat /\ End(j) \in Nat
  BY EndNat
<1>2. CASE i = 0
  BY <1>1, <1>2 DEF End
<1>3. CASE i # 0
  BY <1>1, <1>3 DEF End, AcceptedInOrder
<1>4. QED
  BY <1>2, <1>3

\* The positions of the retained outputs in the list of all kept ones.
LEMMA Positions ==
  ASSUME TypeOK, RetainsSuffix
  PROVE  /\ Len(order) \in Nat
         /\ Len(accepted) \in Nat
         /\ Evicted \in 0..Len(accepted)
         /\ Evicted + Len(order) = Len(accepted)
BY EndNat DEF TypeOK, RetainsSuffix, Evicted

\* A new store has evicted nothing.
LEMMA InitSuffixInv == StoreInit => SuffixInv
<1> SUFFICES ASSUME StoreInit PROVE SuffixInv
  OBVIOUS
<1>1. Len(accepted) = 0 /\ Len(order) = 0 /\ DOMAIN outputs = {} /\ Unlocked
  BY DEF StoreInit, Unlocked
<1>2. totalBytes = 0
  BY DEF StoreInit
<1>3. QED
  BY <1>1, <1>2, StoreAssumption
  DEF SuffixInv, AcceptedInOrder, RetainsSuffix, BudgetRespected, EvictedForRoom, Evicted, End

\* Taking the lock, or refusing an output, moves no retained output.
LEMMA SaveCallSuffixInv ==
  ASSUME TypeOK, TypeOK', SuffixInv,
         NEW p \in Callers, NEW c \in AnyID, NEW meta \in MetaLens,
         NEW len \in OutputLens, SaveCall(p, c, meta, len)
  PROVE  SuffixInv'
<1>1. /\ UNCHANGED <<totalBytes, outputs, order, accepted>>
      /\ Unlocked
      /\ nextRef' = nextRef + 1
      /\ ~Unlocked' => saving'.ref = nextRef + 1 /\ saving'.size \in Nat
  <2>1. ~Unlocked' => saving' \in SaveLocals'
    BY DEF TypeOK, Unlocked
  <2>2. QED
    BY <2>1, StoreAssumption DEF SaveCall, NewRef, Unlocked, SaveLocals
<1>2. \A i \in 1..Len(accepted) : accepted[i].ref \in 1..nextRef
  BY EndNat
<1>3. AcceptedInOrder'
  BY <1>1, <1>2 DEF SuffixInv, AcceptedInOrder, TypeOK
<1>4. Evicted' = Evicted /\ \A i : End(i)' = End(i)
  BY <1>1 DEF Evicted, End
<1>5. RetainsSuffix' /\ BudgetRespected'
  BY <1>1, <1>4 DEF SuffixInv, RetainsSuffix, BudgetRespected, Retained, Evicted, End
<1>6. EvictedForRoom'
  <2>1. SUFFICES ASSUME Evicted' > 0
                 PROVE  End(Len(accepted)) - End(Evicted - 1)
                          + (IF Unlocked' THEN 0 ELSE saving'.size) > MaxBytes
    BY <1>1, <1>4 DEF EvictedForRoom, End, Evicted
  <2>2. Evicted > 0 /\ Evicted - 1 \in 0..Len(accepted)
    BY <1>4, <2>1, Positions DEF SuffixInv
  <2>3. End(Len(accepted)) - End(Evicted - 1) > MaxBytes
    BY <1>1, <2>2, EndNat DEF SuffixInv, EvictedForRoom
  <2>4. QED
    BY <1>1, <2>2, <2>3, EndNat, StoreAssumption
<1>7. QED
  BY <1>3, <1>5, <1>6 DEF SuffixInv

\* An iteration of the loop moves the oldest retained output, and no other,
\* to the evicted ones, and gives back exactly its bytes.
LEMMA EvictSuffixInv ==
  ASSUME TypeOK, SuffixInv, EvictOldest
  PROVE  SuffixInv'
<1> DEFINE n == Len(accepted)
           k == Evicted
<1>1. /\ ~Unlocked
      /\ MustEvict
      /\ UNCHANGED <<nextRef, saving, accepted>>
      /\ order' = Tail(order)
      /\ outputs' = Without(outputs, order[1])
      /\ totalBytes' = totalBytes - outputs[order[1]].size
  BY EvictedRef DEF EvictOldest
<1>2. /\ n \in Nat
      /\ k \in 0..n
      /\ Len(order) \in Nat \ {0}
      /\ k + Len(order) = n
      /\ Len(order') = Len(order) - 1
      /\ \A i \in 1..Len(order') : order'[i] = order[i + 1]
  BY <1>1, EvictedRef, Positions DEF SuffixInv
<1>3. Evicted' = k + 1 /\ (\A i : End(i)' = End(i))
  BY <1>1, <1>2 DEF Evicted, End
<1>4. /\ End(k) \in Nat
      /\ End(k + 1) \in Nat
      /\ End(n) \in Nat
      /\ End(k) <= End(k + 1)
      /\ End(k + 1) <= End(n)
  BY <1>2, EndNat, EndMonotone DEF SuffixInv
<1>5. outputs[order[1]].size = End(k + 1) - End(k)
  BY <1>2 DEF SuffixInv, RetainsSuffix
<1>6. totalBytes' = End(n) - End(k + 1)
  BY <1>1, <1>4, <1>5 DEF SuffixInv, RetainsSuffix
<1>7. /\ DOMAIN outputs' = DOMAIN outputs \ {order[1]}
      /\ \A r \in DOMAIN outputs' : outputs'[r] = outputs[r]
  BY <1>1 DEF Without
<1>8. \A i \in 1..Len(order') :
        /\ order'[i] = accepted[k + 1 + i].ref
        /\ order'[i] # order[1]
  <2> SUFFICES ASSUME NEW i \in 1..Len(order')
               PROVE  /\ order[i + 1] = accepted[k + 1 + i].ref
                      /\ order[i + 1] # order[1]
    BY <1>2
  <2>1. i + 1 \in 1..Len(order) /\ k + 1 \in 1..n /\ k + (i + 1) \in 1..n
    BY <1>2
  <2>2. order[1] = accepted[k + 1].ref /\ order[i + 1] = accepted[k + (i + 1)].ref
    BY <1>2, <2>1 DEF SuffixInv, RetainsSuffix
  <2>3. /\ accepted[k + 1].ref < accepted[k + (i + 1)].ref
        /\ accepted[k + 1].ref \in Nat
    BY <1>2, <2>1, EndNat DEF SuffixInv, AcceptedInOrder
  <2>4. QED
    BY <1>2, <2>2, <2>3
<1>9. RetainsSuffix'
  <2>1. \A i \in 1..Len(order') :
          /\ order'[i] \in DOMAIN outputs'
          /\ outputs'[order'[i]].size = End(k + 1 + i) - End(k + 1 + i - 1)
    <3> SUFFICES ASSUME NEW i \in 1..Len(order')
                 PROVE  /\ order'[i] \in DOMAIN outputs'
                        /\ outputs'[order'[i]].size = End(k + 1 + i) - End(k + 1 + i - 1)
      OBVIOUS
    <3>1. i + 1 \in 1..Len(order) /\ order'[i] = order[i + 1]
      BY <1>2
    <3>2. /\ order[i + 1] \in DOMAIN outputs
          /\ outputs[order[i + 1]].size = End(k + (i + 1)) - End(k + (i + 1) - 1)
      BY <3>1 DEF SuffixInv, RetainsSuffix, Retained
    <3>3. k + (i + 1) = k + 1 + i /\ k + (i + 1) - 1 = k + 1 + i - 1
      BY <1>2
    <3>4. QED
      BY <1>7, <1>8, <3>1, <3>2, <3>3
  <2>2. \A ref \in DOMAIN outputs' : \E i \in 1..Len(order') : order'[i] = ref
    <3> SUFFICES ASSUME NEW ref \in DOMAIN outputs, ref # order[1]
                 PROVE  \E i \in 1..Len(order') : order'[i] = ref
      BY <1>7
    <3>1. PICK j \in 1..Len(order) : order[j] = ref
      BY DEF SuffixInv, RetainsSuffix
    <3>2. j - 1 \in 1..Len(order')
      BY <1>2, <3>1
    <3>3. order'[j - 1] = order[j - 1 + 1] /\ j - 1 + 1 = j
      BY <1>2, <3>1, <3>2
    <3>4. QED
      BY <3>1, <3>2, <3>3
  <2>3. QED
    BY <1>1, <1>2, <1>3, <1>6, <1>8, <2>1, <2>2 DEF RetainsSuffix, Retained
<1>10. BudgetRespected'
  BY <1>4, <1>5, <1>1, <1>6, StoreAssumption DEF SuffixInv, BudgetRespected
<1>11. EvictedForRoom'
  <2>1. totalBytes = End(n) - End(k) /\ totalBytes + saving.size > MaxBytes
    BY <1>1 DEF SuffixInv, RetainsSuffix, MustEvict
  <2>2. Evicted' - 1 = k
    BY <1>2, <1>3
  <2>3. QED
    BY <1>1, <1>3, <2>1, <2>2 DEF EvictedForRoom, Unlocked
<1>12. AcceptedInOrder'
  BY <1>1 DEF SuffixInv, AcceptedInOrder, Unlocked
<1>13. QED
  BY <1>9, <1>10, <1>11, <1>12 DEF SuffixInv

\* Storing the new output appends it to the retained suffix; by then it fits.
LEMMA InsertSuffixInv ==
  ASSUME TypeOK, SuffixInv, Insert
  PROVE  SuffixInv'
<1> DEFINE n == Len(accepted)
           k == Evicted
           EndNew(i) == IF i = 0 THEN 0 ELSE accepted'[i].end
<1>1. /\ ~Unlocked
      /\ ~MustEvict
      /\ saving.ref = nextRef
      /\ saving.size \in 0..MaxBytes
      /\ order' = Append(order, saving.ref)
      /\ totalBytes' = totalBytes + saving.size
      /\ Unlocked'
      /\ accepted' = Append(accepted, [ref |-> saving.ref, end |-> End(n) + saving.size])
  BY SaverLocals DEF Insert, Unlocked
<1>2. /\ n \in Nat
      /\ k \in 0..n
      /\ Len(order) \in Nat
      /\ k + Len(order) = n
  BY Positions DEF SuffixInv
<1>3. /\ Len(order') = Len(order) + 1
      /\ order'[Len(order) + 1] = saving.ref
      /\ \A i \in 1..Len(order) : order'[i] = order[i]
  BY <1>1 DEF TypeOK
<1>4. /\ Len(accepted') = n + 1
      /\ accepted'[n + 1] = [ref |-> saving.ref, end |-> End(n) + saving.size]
      /\ \A i \in 1..n : accepted'[i] = accepted[i]
  BY <1>1 DEF TypeOK
<1>5. /\ Evicted' = k
      /\ \A i \in 0..n : EndNew(i) = End(i) /\ End(i) \in Nat
      /\ EndNew(n + 1) = End(n) + saving.size
  <2>1. Evicted' = k
    BY <1>2, <1>3, <1>4 DEF Evicted
  <2>2. \A i \in 0..n : EndNew(i) = End(i) /\ End(i) \in Nat
    BY <1>2, <1>4, EndNat DEF End
  <2>3. EndNew(n + 1) = End(n) + saving.size
    BY <1>2, <1>4 DEF End
  <2>4. QED
    BY <2>1, <2>2, <2>3
<1> HIDE DEF EndNew
<1>6. /\ DOMAIN outputs' = DOMAIN outputs \cup {saving.ref}
      /\ outputs'[saving.ref].size = saving.size
      /\ \A r \in DOMAIN outputs \ {saving.ref} : outputs'[r] = outputs[r]
  BY DEF Insert, With
<1>7. totalBytes = End(n) - End(k)
  BY DEF SuffixInv, RetainsSuffix
<1>8. RetainsSuffix'
  <2>1. \A i \in 1..Len(order') :
          /\ order'[i] = accepted'[k + i].ref
          /\ order'[i] \in DOMAIN outputs'
          /\ outputs'[order'[i]].size = EndNew(k + i) - EndNew(k + i - 1)
    <3> SUFFICES ASSUME NEW i \in 1..Len(order')
                 PROVE  /\ order'[i] = accepted'[k + i].ref
                        /\ order'[i] \in DOMAIN outputs'
                        /\ outputs'[order'[i]].size = EndNew(k + i) - EndNew(k + i - 1)
      OBVIOUS
    <3>1. CASE i = Len(order) + 1
      <4>1. k + i = n + 1 /\ k + i - 1 = n /\ n \in 0..n
        BY <1>2, <3>1
      <4>2. EndNew(k + i) - EndNew(k + i - 1) = saving.size
        BY <1>1, <1>5, <4>1
      <4>3. QED
        BY <1>3, <1>4, <1>6, <3>1, <4>1, <4>2
    <3>2. CASE i \in 1..Len(order)
      <4>1. k + i \in 1..n /\ k + i \in 0..n /\ k + i - 1 \in 0..n
        BY <1>2, <3>2
      <4>2. /\ order'[i] = order[i]
            /\ order[i] = accepted[k + i].ref
            /\ order[i] \in DOMAIN outputs
            /\ outputs[order[i]].size = End(k + i) - End(k + i - 1)
        BY <1>3, <3>2 DEF SuffixInv, RetainsSuffix, Retained
      <4>3. accepted[k + i].ref < saving.ref /\ accepted[k + i].ref \in Nat
        BY <1>1, <4>1, EndNat DEF SuffixInv, AcceptedInOrder
      <4>4. order[i] # saving.ref
        BY <1>1, <4>2, <4>3 DEF TypeOK
      <4>5. QED
        BY <1>4, <1>5, <1>6, <4>1, <4>2, <4>4
    <3>3. QED
      BY <1>2, <1>3, <3>1, <3>2
  <2>2. \A ref \in DOMAIN outputs' : \E i \in 1..Len(order') : order'[i] = ref
    <3> SUFFICES ASSUME NEW ref \in DOMAIN outputs'
                 PROVE  \E i \in 1..Len(order') : order'[i] = ref
      OBVIOUS
    <3>1. CASE ref = saving.ref
      BY <1>2, <1>3, <3>1
    <3>2. CASE ref \in DOMAIN outputs
      <4>1. PICK j \in 1..Len(order) : order[j] = ref
        BY <3>2 DEF SuffixInv, RetainsSuffix
      <4>2. j \in 1..Len(order') /\ order'[j] = ref
        BY <1>2, <1>3, <4>1
      <4>3. QED
        BY <4>2
    <3>3. QED
      BY <1>6, <3>1, <3>2
  <2>3. totalBytes' = EndNew(n + 1) - EndNew(k)
    <3>1. saving.size \in Nat
      BY <1>1, StoreAssumption
    <3>2. EndNew(k) = End(k) /\ End(k) \in Nat /\ End(n) \in Nat
      BY <1>2, <1>5
    <3>3. QED
      BY <1>1, <1>5, <1>7, <3>1, <3>2
  <2>4. Evicted' >= 0
    BY <1>2, <1>5
  <2>5. QED
    BY <1>4, <1>5, <2>1, <2>2, <2>3, <2>4 DEF RetainsSuffix, Retained, End, EndNew
<1>9. BudgetRespected'
  <2>1. saving.size \in Nat /\ saving.size <= MaxBytes /\ totalBytes \in 0..MaxBytes
    BY <1>1, StoreAssumption DEF SuffixInv, BudgetRespected
  <2>2. totalBytes + saving.size <= MaxBytes
    <3>1. CASE order = << >>
      <4>1. k = n
        BY <1>2, <3>1
      <4>2. QED
        BY <1>2, <1>5, <1>7, <2>1, <4>1
    <3>2. CASE order # << >>
      BY <1>1, <2>1, <3>2, StoreAssumption DEF MustEvict
    <3>3. QED
      BY <3>1, <3>2
  <2>3. QED
    BY <1>1, <2>1, <2>2, StoreAssumption DEF BudgetRespected
<1>10. EvictedForRoom'
  <2>1. SUFFICES ASSUME k > 0
                 PROVE  EndNew(n + 1) - EndNew(k - 1) + 0 > MaxBytes
    BY <1>1, <1>4, <1>5 DEF EvictedForRoom, End, EndNew
  <2>2. k - 1 \in 0..n /\ n \in 0..n
    BY <1>2, <2>1
  <2>3. End(n) - End(k - 1) + saving.size > MaxBytes
    BY <1>1, <2>1 DEF SuffixInv, EvictedForRoom
  <2>4. saving.size \in Nat
    BY <1>1, StoreAssumption
  <2>5. QED
    BY <1>5, <2>2, <2>3, <2>4, StoreAssumption
<1>11. AcceptedInOrder'
  <2> SUFFICES ASSUME NEW i \in 1..(n + 1), NEW j \in 1..(n + 1), i < j
               PROVE  /\ accepted'[i].ref < accepted'[j].ref
                      /\ accepted'[i].end <= accepted'[j].end
    BY <1>1, <1>4 DEF AcceptedInOrder
  <2>1. CASE j \in 1..n
    BY <1>2, <1>4, <2>1 DEF SuffixInv, AcceptedInOrder
  <2>2. CASE j = n + 1
    <3>1. i \in 1..n /\ accepted'[i] = accepted[i]
      BY <1>2, <1>4, <2>2
    <3>2. accepted'[j].ref = saving.ref /\ accepted'[j].end = End(n) + saving.size
      BY <1>4, <2>2
    <3>3. accepted[i].ref < saving.ref
      BY <1>1, <3>1 DEF SuffixInv, AcceptedInOrder
    <3>4. End(i) <= End(n) /\ End(i) = accepted[i].end
      BY <1>2, <3>1, EndMonotone DEF SuffixInv, End
    <3>5. End(i) \in Nat /\ End(n) \in Nat /\ saving.size \in Nat
      BY <1>1, <1>2, <1>5, <3>1, StoreAssumption
    <3>6. QED
      BY <3>1, <3>2, <3>3, <3>4, <3>5
  <2>3. QED
    BY <1>2, <2>1, <2>2
<1>12. QED
  BY <1>8, <1>9, <1>10, <1>11 DEF SuffixInv

\* A step that leaves the store alone changes none of the layers.
LEMMA StutterInv ==
  ASSUME UNCHANGED storeVars
  PROVE  (SuffixInv' <=> SuffixInv) /\ (IndexInv' <=> IndexInv)
BY DEF storeVars, storeState, SuffixInv, AcceptedInOrder, RetainsSuffix, BudgetRespected,
       EvictedForRoom, Evicted, End, Unlocked, Retained,
       IndexInv, CallRefsLive, IndexNamesLatest, MarksDescribeLatest

\* Every step keeps the order, the map and the counter one suffix.
LEMMA StepSuffixInv ==
  ASSUME TypeOK, TypeOK', SuffixInv, [StoreNext]_storeVars
  PROVE  SuffixInv'
BY SaveCallSuffixInv, EvictSuffixInv, InsertSuffixInv, StutterInv DEF StoreNext

-----------------------------------------------------------------------------
\* A new store has an empty index.
LEMMA InitIndexInv == StoreInit => IndexInv
<1> SUFFICES ASSUME StoreInit PROVE IndexInv
  OBVIOUS
<1>1. DOMAIN outputs = {} /\ DOMAIN callRefs = {} /\ Unlocked
  BY DEF StoreInit, Unlocked
<1>2. compactableCalls = {} /\ \A c \in CallIDs : lastSave[c].len = 0
  BY DEF StoreInit
<1>3. QED
  BY <1>1, <1>2, StoreAssumption
  DEF IndexInv, CallRefsLive, IndexNamesLatest, MarksDescribeLatest, Retained

\* Taking the lock freezes the index entry of the call being saved; refusing
\* its output removes the entry.  Either way every other call is untouched.
LEMMA SaveCallIndexInv ==
  ASSUME TypeOK, TypeOK', IndexInv,
         NEW p \in Callers, NEW c \in AnyID, NEW meta \in MetaLens,
         NEW len \in OutputLens, SaveCall(p, c, meta, len)
  PROVE  IndexInv'
<1>1. /\ Unlocked
      /\ UNCHANGED outputs
      /\ nextRef' = nextRef + 1
      /\ nextRef \in Nat
      /\ DOMAIN outputs \subseteq 1..nextRef
      /\ len \in Nat
  BY StoreAssumption DEF SaveCall, NewRef, TypeOK
<1>2. /\ \A d \in CallIDs \ {c} : lastSave'[d] = lastSave[d]
      /\ c \in CallIDs => lastSave'[c] = [ref |-> nextRef + 1, len |-> len]
      /\ \A d \in CallIDs : lastSave[d].ref \in 0..nextRef
  BY StoreAssumption DEF SaveCall, NewRef, TypeOK
<1>3. nextRef + 1 \notin DOMAIN outputs
  BY <1>1
<1>4. MarksDescribeLatest'
  BY <1>1, <1>2, StoreAssumption
  DEF SaveCall, MarkCompactable, IndexInv, MarksDescribeLatest, AnyID
<1>5. CASE callRefs' = Without(callRefs, c) /\ Unlocked'
  <2>1. /\ DOMAIN callRefs' = DOMAIN callRefs \ {c}
        /\ \A d \in DOMAIN callRefs' : callRefs'[d] = callRefs[d]
    BY <1>5 DEF Without
  <2>2. CallRefsLive'
    BY <1>1, <2>1 DEF IndexInv, CallRefsLive, Retained
  <2>3. IndexNamesLatest'
    BY <1>1, <1>2, <1>3, <1>5, <2>1 DEF IndexInv, IndexNamesLatest, Retained
  <2>4. QED
    BY <1>4, <2>2, <2>3 DEF IndexInv
<1>6. CASE callRefs' = callRefs /\ ~Unlocked' /\ saving'.callID = c /\ saving'.ref = nextRef + 1
  <2>1. CallRefsLive'
    BY <1>1, <1>6 DEF IndexInv, CallRefsLive, Retained
  <2>2. IndexNamesLatest'
    BY <1>1, <1>2, <1>6 DEF IndexInv, IndexNamesLatest, Retained
  <2>3. QED
    BY <1>4, <2>1, <2>2 DEF IndexInv
<1>7. QED
  <2>1. CASE callRefs' = Without(callRefs, c) /\ UNCHANGED saving
    BY <1>1, <1>5, <2>1 DEF Unlocked
  <2>2. CASE /\ UNCHANGED callRefs
             /\ saving' = [caller |-> p, callID |-> c, len |-> len, ref |-> nextRef + 1,
                           size |-> EntrySize(nextRef + 1, meta, len)]
             /\ EntrySize(nextRef + 1, meta, len) \in Nat
    <3>1. saving' \in [caller : Callers, callID : CallIDs \cup {NoID},
                       len : OutputLens, ref : Nat, size : Nat]
      BY <1>1, <2>2 DEF AnyID
    <3>2. ~Unlocked'
      BY <3>1, StoreAssumption DEF Unlocked
    <3>3. saving'.callID = c /\ saving'.ref = nextRef + 1
      BY <2>2
    <3>4. QED
      BY <1>6, <2>2, <3>2, <3>3
  <2>3. EntrySize(nextRef + 1, meta, len) \in Nat
    <3>1. nextRef + 1 \in 1..MaxSaves
      BY <1>1, StoreAssumption DEF SaveCall
    <3>2. RefLen(nextRef + 1) \in Nat /\ meta \in Nat
      BY <3>1, StoreAssumption
    <3>3. QED
      BY <1>1, <3>2 DEF EntrySize
  <2>4. QED
    BY <2>1, <2>2, <2>3 DEF SaveCall, NewRef, Unindexed

\* An evicted output leaves the index exactly when the index names it.
LEMMA EvictIndexInv ==
  ASSUME TypeOK, SuffixInv, IndexInv, EvictOldest
  PROVE  IndexInv'
<1> DEFINE gone == outputs[Oldest].callID
<1>1. /\ UNCHANGED <<nextRef, compactableCalls, saving, lastSave>>
      /\ outputs' = Without(outputs, Oldest)
      /\ callRefs' = UnindexEvicted(Oldest)
  BY DEF EvictOldest
<1>2. /\ DOMAIN outputs' = DOMAIN outputs \ {Oldest}
      /\ \A r \in DOMAIN outputs' : outputs'[r] = outputs[r]
  BY <1>1 DEF Without
<1>3. /\ DOMAIN callRefs' = {d \in DOMAIN callRefs : callRefs[d] # Oldest}
      /\ \A d \in DOMAIN callRefs' : callRefs'[d] = callRefs[d]
  <2>1. \A d \in DOMAIN callRefs : callRefs[d] = Oldest => d = gone
    BY DEF IndexInv, CallRefsLive
  <2>2. CASE gone \in DOMAIN callRefs /\ callRefs[gone] = Oldest
    <3>1. callRefs' = Without(callRefs, gone)
      BY <1>1, <2>2 DEF UnindexEvicted
    <3>2. /\ DOMAIN callRefs' = DOMAIN callRefs \ {gone}
          /\ \A d \in DOMAIN callRefs' : callRefs'[d] = callRefs[d]
      BY <3>1 DEF Without
    <3>3. QED
      BY <2>1, <2>2, <3>2
  <2>3. CASE ~(gone \in DOMAIN callRefs /\ callRefs[gone] = Oldest)
    <3>1. callRefs' = callRefs
      BY <1>1, <2>3 DEF UnindexEvicted
    <3>2. QED
      BY <2>1, <2>3, <3>1
  <2>4. QED
    BY <2>2, <2>3
<1>4. CallRefsLive'
  BY <1>2, <1>3 DEF IndexInv, CallRefsLive, Retained
<1>5. IndexNamesLatest'
  BY <1>1, <1>2, <1>3 DEF IndexInv, IndexNamesLatest, Retained, Unlocked
<1>6. MarksDescribeLatest'
  BY <1>1 DEF IndexInv, MarksDescribeLatest
<1>7. QED
  BY <1>4, <1>5, <1>6 DEF IndexInv

\* The stored output is indexed under its call, in place of an older one.
LEMMA InsertIndexInv ==
  ASSUME TypeOK, IndexInv, Insert
  PROVE  IndexInv'
<1>1. /\ ~Unlocked
      /\ Unlocked'
      /\ saving.callID \in AnyID
      /\ UNCHANGED <<nextRef, compactableCalls, lastSave>>
  BY SaverLocals DEF Insert, Unlocked
<1>2. /\ DOMAIN outputs' = DOMAIN outputs \cup {saving.ref}
      /\ outputs'[saving.ref].callID = saving.callID
      /\ \A r \in DOMAIN outputs \ {saving.ref} : outputs'[r] = outputs[r]
  BY DEF Insert, With
<1>3. /\ DOMAIN callRefs \subseteq CallIDs
      /\ \A d \in CallIDs : lastSave[d].ref \in Nat
      /\ saving.ref \in Nat
      /\ NoID \notin CallIDs
  BY <1>1, SaverLocals, StoreAssumption DEF TypeOK
<1>4. \A d \in CallIDs \ {saving.callID} :
        /\ lastSave[d].ref # saving.ref
        /\ d \in DOMAIN callRefs => callRefs[d] # saving.ref
  BY <1>1, <1>3 DEF IndexInv, IndexNamesLatest
<1>5. /\ \A d \in CallIDs \ {saving.callID} :
           /\ d \in DOMAIN callRefs' <=> d \in DOMAIN callRefs
           /\ d \in DOMAIN callRefs => callRefs'[d] = callRefs[d]
      /\ saving.callID \in CallIDs =>
           saving.callID \in DOMAIN callRefs' /\ callRefs'[saving.callID] = saving.ref
      /\ DOMAIN callRefs' \subseteq CallIDs
  BY <1>1, <1>3 DEF Insert, With, AnyID
<1>6. CallRefsLive'
  BY <1>2, <1>4, <1>5 DEF IndexInv, CallRefsLive, Retained
<1>7. IndexNamesLatest'
  BY <1>1, <1>2, <1>4, <1>5 DEF IndexInv, IndexNamesLatest, Retained
<1>8. MarksDescribeLatest'
  BY <1>1 DEF IndexInv, MarksDescribeLatest
<1>9. QED
  BY <1>6, <1>7, <1>8 DEF IndexInv

\* Every step keeps the index and the marks true of the latest saves.
LEMMA StepIndexInv ==
  ASSUME TypeOK, TypeOK', SuffixInv, IndexInv, [StoreNext]_storeVars
  PROVE  IndexInv'
BY SaveCallIndexInv, EvictIndexInv, InsertIndexInv, StutterInv DEF StoreNext

-----------------------------------------------------------------------------
\* The three layers hold in every state of every run of saveCall.
THEOREM StoreInvariant == StoreSpec => []StoreInv
<1>1. StoreInit => StoreInv
  BY InitTypeOK, InitSuffixInv, InitIndexInv DEF StoreInv
<1>2. StoreInv /\ [StoreNext]_storeVars => StoreInv'
  BY StepTypeOK, StepSuffixInv, StepIndexInv DEF StoreInv
<1>3. QED
  BY <1>1, <1>2, PTL DEF StoreSpec

\* saveCall keeps exactly the newest outputs, and its list, map and byte
\* counter agree at every moment.
THEOREM StoreRetainsSuffix == StoreSpec => []RetainsSuffix
<1>1. StoreInv => RetainsSuffix
  BY DEF StoreInv, SuffixInv
<1>2. QED
  BY <1>1, StoreInvariant, PTL

\* Whatever is saved, and in the middle of a save too, the bytes retained
\* stay within the budget of newToolOutputStore.
THEOREM StoreBudgetRespected == StoreSpec => []BudgetRespected
<1>1. StoreInv => BudgetRespected
  BY DEF StoreInv, SuffixInv
<1>2. QED
  BY <1>1, StoreInvariant, PTL

\* The eviction loop drops an output only when it could not have been kept.
THEOREM StoreEvictsOnlyForRoom == StoreSpec => []EvictsOnlyForRoom
<1>1. StoreInv => EvictsOnlyForRoom
  <2> SUFFICES ASSUME StoreInv, Unlocked, Evicted > 0
               PROVE  End(Len(accepted)) - End(Evicted - 1) > MaxBytes
    BY DEF EvictsOnlyForRoom
  <2>1. Evicted - 1 \in 0..Len(accepted) /\ Len(accepted) \in 0..Len(accepted)
    BY Positions DEF StoreInv, SuffixInv
  <2>2. End(Len(accepted)) \in Nat /\ End(Evicted - 1) \in Nat
    BY <2>1, EndNat DEF StoreInv
  <2>3. QED
    BY <2>2 DEF StoreInv, SuffixInv, EvictedForRoom
<1>2. QED
  BY <1>1, StoreInvariant, PTL

\* The call index of the store never names an evicted output or the output
\* of another call.
THEOREM StoreCallRefsLive == StoreSpec => []CallRefsLive
<1>1. StoreInv => CallRefsLive
  BY DEF StoreInv, IndexInv
<1>2. QED
  BY <1>1, StoreInvariant, PTL

\* Between saves, index and marks together say exactly what compactionForCall
\* has to answer.
LEMMA IndexDescribesLatest == StoreInv => CompactionDescribesLatest
<1> SUFFICES ASSUME StoreInv, Unlocked, NEW c \in CallIDs
             PROVE  LET last == lastSave[c]
                        long == last.len > MaxInline
                        kept == long /\ Retained(last.ref)
                    IN  CompactionForCall(c) = [ref         |-> IF kept THEN last.ref ELSE 0,
                                                compactable |-> long,
                                                retained    |-> kept]
  BY DEF CompactionDescribesLatest
<1>1. /\ c \in DOMAIN callRefs => callRefs[c] = lastSave[c].ref /\ Retained(callRefs[c])
      /\ Retained(lastSave[c].ref) => c \in DOMAIN callRefs
      /\ c \in compactableCalls <=> lastSave[c].len > MaxInline
  BY DEF StoreInv, IndexInv, IndexNamesLatest, CallRefsLive, MarksDescribeLatest
<1>2. CASE c \notin compactableCalls
  <2>1. (lastSave[c].len > MaxInline) = FALSE
    BY <1>1, <1>2
  <2>2. CompactionForCall(c) = [ref |-> 0, compactable |-> FALSE, retained |-> FALSE]
    BY <1>2 DEF CompactionForCall
  <2>3. QED
    BY <2>1, <2>2, Zenon
<1>3. CASE c \in compactableCalls /\ c \in DOMAIN callRefs
  BY <1>1, <1>3 DEF CompactionForCall
<1>4. CASE c \in compactableCalls /\ c \notin DOMAIN callRefs
  BY <1>1, <1>4 DEF CompactionForCall
<1>5. QED
  BY <1>2, <1>3, <1>4

\* compactionForCall always speaks of the latest output saved under a call
\* ID, however the provider reuses IDs.
THEOREM StoreCompactionDescribesLatest == StoreSpec => []CompactionDescribesLatest
BY IndexDescribesLatest, StoreInvariant, PTL

\* No step of saveCall ever changes what a ref names or brings back an old
\* ref, so a ref in an old message cannot come to name another output.
THEOREM StoreRefsNeverReused == StoreSpec => RefsNeverReused
<1> DEFINE Fresh == \A ref \in DOMAIN outputs' :
                      IF Retained(ref) THEN outputs'[ref] = outputs[ref]
                      ELSE \A i \in 1..Len(accepted) : accepted[i].ref < ref
<1>1. StoreInv /\ [StoreNext]_storeVars => [Fresh]_storeVars
  <2> SUFFICES ASSUME StoreInv, StoreNext PROVE Fresh
    OBVIOUS
  <2>1. CASE \E p \in Callers, c \in AnyID, meta \in MetaLens, len \in OutputLens :
               SaveCall(p, c, meta, len)
    BY <2>1 DEF SaveCall, Retained
  <2>2. CASE EvictOldest
    BY <2>2 DEF EvictOldest, Without, Retained
  <2>3. CASE Insert
    <3>1. \A i \in 1..Len(accepted) : accepted[i].ref < saving.ref
      BY <2>3 DEF Insert, StoreInv, SuffixInv, AcceptedInOrder
    <3>2. saving.ref \notin DOMAIN outputs
      <4>1. \A r \in DOMAIN outputs : \E i \in 1..Len(accepted) : r = accepted[i].ref
        <5> SUFFICES ASSUME NEW r \in DOMAIN outputs
                     PROVE  \E i \in 1..Len(accepted) : r = accepted[i].ref
          OBVIOUS
        <5>1. PICK i \in 1..Len(order) : order[i] = r
          BY DEF StoreInv, SuffixInv, RetainsSuffix
        <5>2. r = accepted[Evicted + i].ref
          BY <5>1 DEF StoreInv, SuffixInv, RetainsSuffix
        <5>3. Evicted + i \in 1..Len(accepted)
          BY Positions DEF StoreInv, SuffixInv
        <5>4. QED
          BY <5>2, <5>3
      <4>2. saving.ref \in Nat
        BY <2>3, SaverLocals DEF Insert, StoreInv
      <4>3. QED
        BY <3>1, <4>1, <4>2
    <3>3. QED
      BY <2>3, <3>1, <3>2 DEF Insert, With, Retained
  <2>4. QED
    BY <2>1, <2>2, <2>3 DEF StoreNext
<1>2. QED
  BY <1>1, StoreInvariant, PTL DEF StoreSpec, RefsNeverReused

-----------------------------------------------------------------------------
\* The loop.

Round == 1..MaxRounds

\* The calls of a round carry the IDs of the round, and the lock of the store
\* is held exactly by the call that is saving.
CallsInv ==
  /\ phase # "tools" => calls = << >>
  /\ phase = "tools" => round \in Round
  /\ Len(calls) <= MaxCalls
  /\ \A i \in DOMAIN calls : calls[i].id = <<round, i>>
  /\ \A i \in DOMAIN calls : calls[i].state = "saving" => ~Unlocked /\ saving.caller = i
  /\ ~Unlocked => /\ saving.caller \in DOMAIN calls
                  /\ calls[saving.caller].state = "saving"
                  /\ saving.callID = calls[saving.caller].id

LoopInv == HistoryTypeOK /\ CallsInv

\* An ID that no call has used yet has nothing saved under it.
FreshInv ==
  /\ \A r \in Round, i \in 1..MaxCalls :
       r > round => lastSave[<<r, i>>] = [ref |-> 0, len |-> 0]
  /\ \A i \in DOMAIN calls :
       calls[i].state = "running" => lastSave[calls[i].id] = [ref |-> 0, len |-> 0]
  /\ ~Unlocked => lastSave[saving.callID] = [ref |-> saving.ref, len |-> saving.len]

\* A tool message describes the only save under its call ID, if its output was
\* saved at all, and was replaced only if it was long.
Truthful(m) ==
  /\ \E j \in 1..MaxCalls : m.call = <<m.round, j>>
  /\ m.len > MaxInline <=> lastSave[m.call].len > MaxInline
  /\ m.own \in {0, lastSave[m.call].ref}
  /\ m.own = 0 => ~Retained(lastSave[m.call].ref)
  /\ m.ref \in {0, m.own}
  /\ m.content = "discarded" => ~Retained(m.own)
  /\ IF m.content \in Replaced THEN m.len > MaxInline
     ELSE m.content = IF m.len > MaxInline THEN "preview" ELSE "verbatim"

\* The result a returned call waits with is the message of that call.
Result(c) ==
  /\ c.message \in ToolMessage
  /\ c.message.call = c.id
  /\ c.message.round = round
  /\ c.message.content \notin Replaced
  /\ Truthful(c.message)

\* A message of the history is of a round so far, and replaced only once a
\* later round has begun.
Settled(m) ==
  /\ Truthful(m)
  /\ m.round <= round
  /\ m.round = round => m.content \notin Replaced

MessagesInv ==
  /\ \A i \in DOMAIN calls : calls[i].state = "returned" => Result(calls[i])
  /\ \A i \in ToolMessages : Settled(messages[i])

\* The messages of the latest round are the ones at the end of the history,
\* and every older long one has been replaced when the model is asked.
ShapeInv ==
  /\ phase = "tools" => /\ messages # << >> /\ messages[Len(messages)] = Plain
                        /\ \A i \in ToolMessages : messages[i].round < round
  /\ phase \in {"rewrite", "respond"} =>
       \A i \in ToolMessages : messages[i].round = round <=> InLatestRound(i)
  /\ phase = "respond" =>
       \A i \in ToolMessages :
         messages[i].round < round /\ messages[i].len > MaxInline => messages[i].content \in Replaced

HistoryInv == LoopInv /\ FreshInv /\ MessagesInv /\ ShapeInv

-----------------------------------------------------------------------------
\* A call in flight is a record of these four fields.
LEMMA CallFields ==
  ASSUME NEW c \in Call
  PROVE  /\ c = [id |-> c.id, wants |-> c.wants, state |-> c.state, message |-> c.message]
         /\ c.id \in CallIDs /\ c.wants \in 0..MaxSaves
         /\ c.state \in {"running", "saving", "returned", "error"}
         /\ c.message \in ToolMessage \cup {Plain}
BY DEF Call

\* One place of a sequence is replaced.
LEMMA ReplaceAt ==
  ASSUME NEW S, NEW q \in Seq(S), NEW i \in DOMAIN q, NEW d \in S
  PROVE  LET r == [q EXCEPT ![i] = d]
         IN  /\ r \in Seq(S)
             /\ DOMAIN r = DOMAIN q
             /\ Len(r) = Len(q)
             /\ r[i] = d
             /\ \A j \in DOMAIN q : j # i => r[j] = q[j]
OBVIOUS

\* A call that goes from one state to another keeps its place and its ID.
LEMMA StateChanges ==
  ASSUME calls \in Seq(Call), NEW i \in DOMAIN calls,
         NEW s \in {"running", "saving", "returned", "error"},
         calls' = [calls EXCEPT ![i].state = s]
  PROVE  /\ calls' \in Seq(Call)
         /\ DOMAIN calls' = DOMAIN calls
         /\ Len(calls') = Len(calls)
         /\ calls'[i].id = calls[i].id
         /\ calls'[i].wants = calls[i].wants
         /\ calls'[i].state = s
         /\ \A j \in DOMAIN calls : j # i => calls'[j] = calls[j]
<1>1. PICK c \in Call : c = calls[i]
  OBVIOUS
<1>2. [c EXCEPT !.state = s]
        = [id |-> c.id, wants |-> c.wants, state |-> s, message |-> c.message]
  BY <1>1, CallFields
<1>3. PICK d \in Call :
        d = [id |-> c.id, wants |-> c.wants, state |-> s, message |-> c.message]
  BY <1>1, CallFields DEF Call
<1>4. calls' = [calls EXCEPT ![i] = d]
  BY <1>1, <1>2, <1>3
<1>5. /\ calls' \in Seq(Call)
      /\ DOMAIN calls' = DOMAIN calls
      /\ Len(calls') = Len(calls)
      /\ calls'[i] = d
      /\ \A j \in DOMAIN calls : j # i => calls'[j] = calls[j]
  BY <1>4, ReplaceAt
<1>6. QED
  BY <1>1, <1>3, <1>5

\* A call that returns keeps its place and its ID, and gets its message.
LEMMA CallReturns ==
  ASSUME calls \in Seq(Call), NEW i \in DOMAIN calls, NEW m \in ToolMessage, Return(i, m)
  PROVE  /\ calls' \in Seq(Call)
         /\ DOMAIN calls' = DOMAIN calls
         /\ Len(calls') = Len(calls)
         /\ calls'[i].id = calls[i].id
         /\ calls'[i].state = "returned"
         /\ calls'[i].message = m
         /\ \A j \in DOMAIN calls : j # i => calls'[j] = calls[j]
<1>1. PICK c \in Call : c = calls[i]
  OBVIOUS
<1>2. [[c EXCEPT !.state = "returned"] EXCEPT !.message = m]
        = [id |-> c.id, wants |-> c.wants, state |-> "returned", message |-> m]
  <2>1. [c EXCEPT !.state = "returned"]
          = [id |-> c.id, wants |-> c.wants, state |-> "returned", message |-> c.message]
    BY <1>1, CallFields
  <2>2. PICK e : e = [id |-> c.id, wants |-> c.wants, state |-> "returned",
                      message |-> c.message]
    OBVIOUS
  <2>3. [e EXCEPT !.message = m]
          = [id |-> c.id, wants |-> c.wants, state |-> "returned", message |-> m]
    BY <2>2
  <2>4. QED
    BY <2>1, <2>2, <2>3
<1>3. PICK d \in Call :
        d = [id |-> c.id, wants |-> c.wants, state |-> "returned", message |-> m]
  BY <1>1, CallFields DEF Call
<1>4. calls' = [calls EXCEPT ![i] = d]
  BY <1>1, <1>2, <1>3 DEF Return
<1>5. /\ calls' \in Seq(Call)
      /\ DOMAIN calls' = DOMAIN calls
      /\ Len(calls') = Len(calls)
      /\ calls'[i] = d
      /\ \A j \in DOMAIN calls : j # i => calls'[j] = calls[j]
  BY <1>4, ReplaceAt
<1>6. QED
  BY <1>1, <1>3, <1>5

\* boundedToolOutput makes a tool message.
LEMMA BoundedIsMessage ==
  ASSUME NEW id \in CallIDs, NEW len \in Nat, NEW ref \in 0..MaxSaves, round \in Round
  PROVE  BoundedToolOutput(id, len, ref) \in ToolMessage
BY StoreAssumption DEF BoundedToolOutput, ToolMessage, Round

\* A page is a tool message that fits and names nothing.
LEMMA PageIsMessage ==
  ASSUME NEW id \in CallIDs, NEW len \in PageLens, round \in Round
  PROVE  LET m == Page(id, len)
         IN  /\ m \in ToolMessage
             /\ m.call = id /\ m.round = round /\ m.own = 0 /\ m.ref = 0
             /\ m.content = "verbatim"
             /\ ~(m.len > MaxInline)
<1>1. len \in Nat /\ len <= MaxInline /\ ~(len > MaxInline)
  BY StoreAssumption, HistoryAssumption
<1>2. Page(id, len) = [role |-> "tool", call |-> id, page |-> TRUE, len |-> len,
                       own |-> 0, content |-> "verbatim", ref |-> 0, round |-> round]
  BY DEF Page
<1>3. QED
  BY <1>1, <1>2, StoreAssumption DEF ToolMessage, Round

\* Every message is plain or a tool message, as its role says.
LEMMA MessageKind ==
  ASSUME NEW m \in ToolMessage \cup {Plain}
  PROVE  m.role = "tool" <=> m \in ToolMessage
BY DEF ToolMessage, Plain

\* The same for a place of the history.
LEMMA MessageAt ==
  ASSUME NEW q \in Seq(ToolMessage \cup {Plain}), NEW i \in 1..Len(q)
  PROVE  /\ q[i] \in ToolMessage \cup {Plain}
         /\ q[i].role = "tool" <=> q[i] \in ToolMessage
BY MessageKind

\* The fields of a tool message.
LEMMA MessageFields ==
  ASSUME NEW m \in ToolMessage
  PROVE  /\ m.role = "tool" /\ m.call \in CallIDs /\ m.len \in Nat
         /\ m.own \in 0..MaxSaves /\ m.ref \in 0..MaxSaves /\ m.round \in Round
         /\ m.content \in {"verbatim", "preview", "compacted", "discarded"}
BY DEF ToolMessage, Round

\* What the rewriter does to a message, field by field: the text and the ref it
\* names change, or nothing does.
LEMMA RewrittenMessage ==
  ASSUME TypeOK, NEW m \in ToolMessage
  PROVE  LET r == Rewritten(m)
             a == CompactionForCall(m.call)
         IN  /\ r \in ToolMessage
             /\ r.call = m.call /\ r.len = m.len /\ r.own = m.own /\ r.round = m.round
             /\ IF m.content \notin Replaced /\ a.compactable
                THEN /\ r.content = IF a.retained THEN "compacted" ELSE "discarded"
                     /\ r.ref = IF a.retained THEN a.ref ELSE 0
                ELSE r = m
<1> DEFINE a == CompactionForCall(m.call)
<1>1. m.role = "tool"
  BY MessageFields
<1>2. a.retained => a.ref \in 0..MaxSaves
  <2>1. m.call \in DOMAIN callRefs => callRefs[m.call] \in 0..MaxSaves
    BY StoreAssumption DEF TypeOK
  <2>2. QED
    BY <2>1 DEF CompactionForCall
<1>3. CASE m.content \in Replaced \/ ~a.compactable
  BY <1>1, <1>3 DEF Rewritten
<1>4. CASE m.content \notin Replaced /\ a.compactable /\ a.retained
  <2>1. Rewritten(m) = [m EXCEPT !.content = "compacted", !.ref = a.ref]
    BY <1>1, <1>4 DEF Rewritten
  <2>2. PICK ref \in 0..MaxSaves : ref = a.ref
    BY <1>2, <1>4
  <2>3. PICK r : r = [m EXCEPT !.content = "compacted", !.ref = ref]
    OBVIOUS
  <2>4. /\ r \in ToolMessage
        /\ r.call = m.call /\ r.len = m.len /\ r.own = m.own /\ r.round = m.round
        /\ r.content = "compacted" /\ r.ref = ref
    BY <2>3 DEF ToolMessage
  <2>5. QED
    BY <1>4, <2>1, <2>2, <2>3, <2>4
<1>5. CASE m.content \notin Replaced /\ a.compactable /\ ~a.retained
  <2>1. Rewritten(m) = [m EXCEPT !.content = "discarded", !.ref = 0]
    BY <1>1, <1>5 DEF Rewritten
  <2>2. PICK r : r = [m EXCEPT !.content = "discarded", !.ref = 0]
    OBVIOUS
  <2>3. /\ r \in ToolMessage
        /\ r.call = m.call /\ r.len = m.len /\ r.own = m.own /\ r.round = m.round
        /\ r.content = "discarded" /\ r.ref = 0
    <3>1. 0 \in 0..MaxSaves
      BY StoreAssumption
    <3>2. QED
      BY <2>2, <3>1 DEF ToolMessage
  <2>4. QED
    BY <1>5, <2>1, <2>2, <2>3
<1>6. QED
  BY <1>3, <1>4, <1>5

\* The history after the rewriter has gone over it.
LEMMA RewriteEffect ==
  ASSUME HistoryTypeOK, Rewrite
  PROVE  /\ Len(messages') = Len(messages)
         /\ messages' \in Seq(ToolMessage \cup {Plain})
         /\ \A i \in 1..Len(messages) :
              messages'[i] = IF InLatestRound(i) THEN messages[i] ELSE Rewritten(messages[i])
<1> DEFINE New(i) == IF InLatestRound(i) THEN messages[i] ELSE Rewritten(messages[i])
<1>1. messages' = [i \in 1..Len(messages) |-> New(i)] /\ Len(messages) \in Nat
  BY DEF Rewrite, HistoryTypeOK
<1>2. ASSUME NEW i \in 1..Len(messages) PROVE New(i) \in ToolMessage \cup {Plain}
  <2>1. PICK m \in ToolMessage \cup {Plain} : m = messages[i]
    BY MessageAt DEF HistoryTypeOK
  <2>2. Rewritten(Plain) = Plain
    BY DEF Rewritten, Plain
  <2>3. Rewritten(m) \in ToolMessage \cup {Plain}
    BY <2>2, RewrittenMessage DEF HistoryTypeOK
  <2>4. QED
    BY <2>1, <2>3
<1> HIDE DEF New
<1>3. /\ Len(messages') = Len(messages)
      /\ messages' \in Seq(ToolMessage \cup {Plain})
      /\ \A i \in 1..Len(messages) : messages'[i] = New(i)
  BY <1>1, <1>2
<1>4. QED
  BY <1>3 DEF New

-----------------------------------------------------------------------------
\* A step that leaves the store alone leaves it well-formed and its lock where
\* it was.
LEMMA StoreAlone ==
  ASSUME TypeOK, UNCHANGED storeVars
  PROVE  /\ [StoreNext]_storeVars
         /\ TypeOK'
         /\ nextRef' = nextRef /\ saving' = saving /\ (Unlocked' <=> Unlocked)
         /\ outputs' = outputs /\ lastSave' = lastSave
BY StepTypeOK DEF storeVars, storeState, Unlocked

\* The first request of newToolHistoryRewriter finds no call in flight.
LEMMA RewriteLoop ==
  ASSUME LoopInv, Rewrite
  PROVE  [StoreNext]_storeVars /\ LoopInv'
<1>1. /\ phase = "rewrite" /\ phase' = "respond"
      /\ UNCHANGED <<calls, listed, round, attempt>> /\ UNCHANGED storeVars
  BY DEF Rewrite
<1>2. [StoreNext]_storeVars /\ TypeOK' /\ nextRef' = nextRef
      /\ saving' = saving /\ (Unlocked' <=> Unlocked)
  BY <1>1, StoreAlone DEF LoopInv, HistoryTypeOK
<1>3. messages' \in Seq(ToolMessage \cup {Plain})
  BY RewriteEffect DEF LoopInv
<1>4. HistoryTypeOK'
  BY <1>1, <1>2, <1>3 DEF LoopInv, HistoryTypeOK
<1>5. CallsInv'
  BY <1>1, <1>2 DEF LoopInv, CallsInv
<1>6. QED
  BY <1>2, <1>4, <1>5 DEF LoopInv

\* The calls the model asks for carry the IDs of the new round, and none of them
\* holds the lock.
LEMMA AskLoop ==
  ASSUME LoopInv, AskForTools
  PROVE  /\ [StoreNext]_storeVars /\ LoopInv'
         /\ \A i \in DOMAIN calls' : calls'[i].state = "running"
         /\ Unlocked /\ Unlocked'
<1>1. /\ phase = "respond" /\ phase' = "tools" /\ round < MaxRounds /\ round' = round + 1
      /\ messages' = Append(messages, Plain)
      /\ UNCHANGED <<listed, attempt>> /\ UNCHANGED storeVars
  BY DEF AskForTools
<1>2. [StoreNext]_storeVars /\ TypeOK' /\ nextRef' = nextRef
      /\ saving' = saving /\ (Unlocked' <=> Unlocked)
  BY <1>1, StoreAlone DEF LoopInv, HistoryTypeOK
<1>3. round \in 0..MaxRounds /\ MaxRounds \in Nat /\ round' \in Round
  BY <1>1, HistoryAssumption DEF LoopInv, HistoryTypeOK, Round
<1>4. Named \cup {0} \subseteq 0..MaxSaves
  <2>1. listed \subseteq 0..MaxSaves
    BY StoreAssumption DEF LoopInv, HistoryTypeOK, TypeOK
  <2>2. \A i \in 1..Len(messages) : messages[i].role = "tool" => messages[i].ref \in 0..MaxSaves
    BY MessageAt, MessageFields DEF LoopInv, HistoryTypeOK
  <2>3. 0 \in 0..MaxSaves
    BY StoreAssumption
  <2>4. QED
    BY <2>1, <2>2, <2>3 DEF Named
<1>5. PICK n \in 1..MaxCalls : \E wants \in [1..n -> Named \cup {0}] :
        calls' = [i \in 1..n |-> [id |-> CallID(i), wants |-> wants[i],
                                  state |-> "running", message |-> Plain]]
  BY DEF AskForTools
<1>6. PICK wants \in [1..n -> Named \cup {0}] :
        calls' = [i \in 1..n |-> [id |-> CallID(i), wants |-> wants[i],
                                  state |-> "running", message |-> Plain]]
  BY <1>5
<1>7. n \in Nat /\ n <= MaxCalls /\ DOMAIN calls' = 1..n /\ Len(calls') = n
  BY <1>5, <1>6, HistoryAssumption
<1>8. \A i \in 1..n : calls'[i] = [id |-> CallID(i), wants |-> wants[i],
                                  state |-> "running", message |-> Plain]
  BY <1>6
<1>9. \A i \in 1..n : CallID(i) = <<round', i>> /\ CallID(i) \in CallIDs
  <2>1. ASSUME NEW i \in 1..n PROVE <<round', i>> \in CallIDs
    <3>1. round' \in 1..MaxRounds /\ i \in 1..MaxCalls
      BY <1>3, <1>7, HistoryAssumption DEF Round
    <3>2. QED
      BY <3>1, HistoryAssumption
  <2>2. QED
    BY <1>1, <2>1 DEF CallID
<1>10. ASSUME NEW i \in 1..n PROVE calls'[i] \in Call
  <2>1. wants[i] \in 0..MaxSaves
    BY <1>4, <1>6
  <2>2. CallID(i) \in CallIDs /\ Plain \in ToolMessage \cup {Plain}
    BY <1>9
  <2>3. [id |-> CallID(i), wants |-> wants[i], state |-> "running", message |-> Plain] \in Call
    BY <2>1, <2>2, Zenon DEF Call
  <2>4. QED
    BY <1>8, <2>3
<1>11. calls' \in Seq(Call)
  BY <1>6, <1>7, <1>10
<1>12. messages' \in Seq(ToolMessage \cup {Plain})
  BY <1>1 DEF LoopInv, HistoryTypeOK
<1>13. HistoryTypeOK'
  BY <1>1, <1>2, <1>3, <1>11, <1>12 DEF LoopInv, HistoryTypeOK, Round
<1>14. Unlocked
  <2>1. calls = << >>
    BY <1>1 DEF LoopInv, CallsInv
  <2>2. QED
    BY <2>1 DEF LoopInv, CallsInv
<1>15. \A i \in DOMAIN calls' : calls'[i].state = "running" /\ calls'[i].id = <<round', i>>
  BY <1>7, <1>8, <1>9
<1>16. CallsInv'
  BY <1>1, <1>2, <1>3, <1>7, <1>14, <1>15 DEF CallsInv
<1>17. QED
  BY <1>2, <1>13, <1>14, <1>15, <1>16 DEF LoopInv

\* saveCall as the store's own step: the caller is one of its goroutines and the
\* call ID one of its IDs.
LEMMA ToolReturnsIsSave ==
  ASSUME LoopInv, NEW i \in 1..MaxCalls, NEW meta \in MetaLens, NEW len \in OutputLens,
         ToolReturns(i, meta, len)
  PROVE  /\ i \in DOMAIN calls /\ calls[i].id = <<round, i>> /\ calls[i].id \in CallIDs
         /\ calls[i].state = "running"
         /\ phase = "tools" /\ round \in Round
         /\ UNCHANGED <<phase, messages, listed, round, attempt>>
         /\ SaveCall(i, calls[i].id, meta, len)
         /\ [StoreNext]_storeVars
         /\ nextRef' = nextRef + 1 /\ nextRef \in Nat
         /\ Unlocked
         /\ lastSave' = [lastSave EXCEPT ![calls[i].id] = [ref |-> nextRef + 1, len |-> len]]
         /\ outputs' = outputs
         /\ \/ Unlocked'
            \/ /\ saving'.caller = i /\ saving'.callID = calls[i].id
               /\ saving'.ref = nextRef + 1 /\ saving'.len = len
<1>1. /\ i \in DOMAIN calls /\ phase = "tools" /\ calls[i].state = "running"
      /\ SaveCall(i, calls[i].id, meta, len)
      /\ UNCHANGED <<phase, messages, listed, round, attempt>>
  BY DEF ToolReturns
<1>2. calls[i].id = <<round, i>> /\ round \in Round
  BY <1>1 DEF LoopInv, CallsInv
<1>3. calls[i].id \in CallIDs
  BY <1>1, CallFields DEF LoopInv, HistoryTypeOK
<1>4. i \in Callers
  BY HistoryAssumption
<1>5. StoreNext
  BY <1>1, <1>3, <1>4 DEF StoreNext, AnyID
<1>6. PICK c : c = calls[i].id
  OBVIOUS
<1>7. c # NoID
  BY <1>3, <1>6, StoreAssumption
<1>8. /\ nextRef' = nextRef + 1 /\ Unlocked /\ outputs' = outputs
      /\ lastSave' = [lastSave EXCEPT ![c] = [ref |-> nextRef + 1, len |-> len]]
  BY <1>1, <1>6, <1>7 DEF SaveCall, NewRef
<1>9. \/ Unlocked'
      \/ /\ saving'.caller = i /\ saving'.callID = c
         /\ saving'.ref = nextRef + 1 /\ saving'.len = len
  BY <1>1, <1>6 DEF SaveCall, NewRef, Unlocked
<1>10. nextRef \in Nat
  BY DEF LoopInv, HistoryTypeOK, TypeOK
<1>11. QED
  BY <1>1, <1>2, <1>3, <1>5, <1>6, <1>8, <1>9, <1>10

\* The call that has returned is "returned" when the store refuses its output
\* and "saving" while the store makes room.
LEMMA ToolReturnsCall ==
  ASSUME LoopInv, NEW i \in 1..MaxCalls, NEW meta \in MetaLens, NEW len \in OutputLens,
         ToolReturns(i, meta, len)
  PROVE  /\ calls' \in Seq(Call)
         /\ DOMAIN calls' = DOMAIN calls
         /\ Len(calls') = Len(calls)
         /\ calls'[i].id = calls[i].id
         /\ IF Unlocked'
            THEN /\ calls'[i].state = "returned"
                 /\ calls'[i].message = BoundedToolOutput(calls[i].id, len, 0)
                 /\ calls'[i].message \in ToolMessage
            ELSE calls'[i].state = "saving"
         /\ \A j \in DOMAIN calls : j # i => calls'[j] = calls[j]
<1>1. calls \in Seq(Call)
  BY DEF LoopInv, HistoryTypeOK
<1>2. i \in DOMAIN calls /\ calls[i].id \in CallIDs /\ round \in Round
  BY ToolReturnsIsSave
<1>3. CASE Unlocked'
  <2>1. len \in Nat /\ 0 \in 0..MaxSaves
    BY StoreAssumption
  <2>2. PICK m \in ToolMessage : m = BoundedToolOutput(calls[i].id, len, 0)
    BY <1>2, <2>1, BoundedIsMessage
  <2>3. Return(i, m)
    BY <1>3, <2>2 DEF ToolReturns, Unlocked
  <2>4. QED
    BY <1>1, <1>2, <1>3, <2>2, <2>3, CallReturns
<1>4. CASE ~Unlocked'
  <2>1. calls' = [calls EXCEPT ![i].state = "saving"]
    BY <1>4 DEF ToolReturns, Unlocked
  <2>2. QED
    BY <1>1, <1>2, <1>4, <2>1, StateChanges
<1>5. QED
  BY <1>3, <1>4

\* A tool that returns moves its own call on, and holds the lock if it saves.
LEMMA ToolReturnsLoop ==
  ASSUME LoopInv, NEW i \in 1..MaxCalls, NEW meta \in MetaLens, NEW len \in OutputLens,
         ToolReturns(i, meta, len)
  PROVE  LoopInv'
<1>1. /\ i \in DOMAIN calls /\ phase = "tools" /\ round \in Round
      /\ UNCHANGED <<phase, messages, listed, round, attempt>>
      /\ nextRef' = nextRef + 1 /\ nextRef \in Nat
      /\ Unlocked
      /\ Unlocked' \/ (saving'.caller = i /\ saving'.callID = calls[i].id)
  BY ToolReturnsIsSave
<1>2. TypeOK'
  BY ToolReturnsIsSave, StepTypeOK DEF LoopInv, HistoryTypeOK
<1>3. /\ calls' \in Seq(Call)
      /\ DOMAIN calls' = DOMAIN calls
      /\ Len(calls') = Len(calls)
      /\ calls'[i].id = calls[i].id
      /\ IF Unlocked' THEN calls'[i].state = "returned" ELSE calls'[i].state = "saving"
      /\ \A j \in DOMAIN calls : j # i => calls'[j] = calls[j]
  BY ToolReturnsCall
<1>4. HistoryTypeOK'
  BY <1>1, <1>2, <1>3 DEF LoopInv, HistoryTypeOK
<1>5. CallsInv'
  BY <1>1, <1>3 DEF LoopInv, CallsInv
<1>6. QED
  BY <1>4, <1>5 DEF LoopInv

\* An iteration of the eviction loop of saveCall.
LEMMA MakeRoomLoop ==
  ASSUME LoopInv, MakeRoom
  PROVE  /\ [StoreNext]_storeVars /\ LoopInv'
         /\ UNCHANGED agentVars /\ saving' = saving /\ lastSave' = lastSave
         /\ DOMAIN outputs' \subseteq DOMAIN outputs
<1>1. /\ UNCHANGED agentVars /\ nextRef' = nextRef /\ saving' = saving
      /\ lastSave' = lastSave
      /\ outputs' = Without(outputs, Oldest)
      /\ StoreNext
  BY DEF MakeRoom, EvictOldest, StoreNext
<1>2. TypeOK'
  BY <1>1, StepTypeOK DEF LoopInv, HistoryTypeOK
<1>3. HistoryTypeOK'
  BY <1>1, <1>2 DEF LoopInv, HistoryTypeOK, agentVars
<1>4. CallsInv'
  BY <1>1 DEF LoopInv, CallsInv, agentVars, Unlocked
<1>5. DOMAIN outputs' \subseteq DOMAIN outputs
  BY <1>1, WithoutMap
<1>6. QED
  BY <1>1, <1>3, <1>4, <1>5 DEF LoopInv

\* The call that holds the lock of the store.
LEMMA SaverCall ==
  ASSUME LoopInv, ~Unlocked
  PROVE  /\ saving.caller \in DOMAIN calls
         /\ calls[saving.caller].state = "saving"
         /\ saving.callID = calls[saving.caller].id
         /\ saving.callID = <<round, saving.caller>>
         /\ saving.callID \in CallIDs
         /\ saving.ref = nextRef /\ saving.ref \in 1..MaxSaves
         /\ saving.len \in Nat
         /\ phase = "tools" /\ round \in Round
<1>1. /\ saving.caller \in DOMAIN calls
      /\ calls[saving.caller].state = "saving"
      /\ saving.callID = calls[saving.caller].id
      /\ saving.callID = <<round, saving.caller>>
  BY DEF LoopInv, CallsInv
<1>2. calls # << >>
  BY <1>1
<1>3. phase = "tools" /\ round \in Round
  BY <1>2 DEF LoopInv, CallsInv
<1>4. saving.callID \in CallIDs
  <2>1. PICK c \in Call : c = calls[saving.caller]
    BY <1>1 DEF LoopInv, HistoryTypeOK
  <2>2. QED
    BY <1>1, <2>1, CallFields
<1>5. saving.ref = nextRef /\ saving.ref \in 1..MaxSaves /\ saving.len \in Nat
  BY SaverLocals, StoreAssumption DEF LoopInv, HistoryTypeOK
<1>6. QED
  BY <1>1, <1>3, <1>4, <1>5

\* The end of a save: the lock is free again and the call has its message.
LEMMA ToolSavedLoop ==
  ASSUME LoopInv, ToolSaved
  PROVE  /\ [StoreNext]_storeVars /\ LoopInv'
         /\ UNCHANGED <<phase, messages, listed, round, attempt>>
         /\ ~Unlocked /\ Unlocked'
         /\ lastSave' = lastSave
         /\ DOMAIN outputs' = DOMAIN outputs \cup {saving.ref}
         /\ DOMAIN calls' = DOMAIN calls
         /\ calls'[saving.caller].id = calls[saving.caller].id
         /\ calls'[saving.caller].state = "returned"
         /\ calls'[saving.caller].message
              = BoundedToolOutput(saving.callID, saving.len, saving.ref)
         /\ calls'[saving.caller].message \in ToolMessage
         /\ \A j \in DOMAIN calls : j # saving.caller => calls'[j] = calls[j]
<1>1. /\ UNCHANGED <<phase, messages, listed, round, attempt>>
      /\ Insert /\ ~Unlocked /\ Unlocked'
      /\ lastSave' = lastSave /\ nextRef' = nextRef
      /\ DOMAIN outputs' = DOMAIN outputs \cup {saving.ref}
      /\ Return(saving.caller, BoundedToolOutput(saving.callID, saving.len, saving.ref))
  <2>1. /\ UNCHANGED <<phase, messages, listed, round, attempt>> /\ Insert
        /\ Return(saving.caller, BoundedToolOutput(saving.callID, saving.len, saving.ref))
    BY DEF ToolSaved
  <2>2. ~Unlocked /\ Unlocked' /\ lastSave' = lastSave /\ nextRef' = nextRef
    BY <2>1 DEF Insert, Unlocked
  <2>3. PICK v : outputs' = With(outputs, saving.ref, v)
    BY <2>1 DEF Insert
  <2>4. DOMAIN outputs' = DOMAIN outputs \cup {saving.ref}
    BY <2>3 DEF With
  <2>5. QED
    BY <2>1, <2>2, <2>4
<1>2. StoreNext
  BY <1>1 DEF StoreNext
<1>3. TypeOK'
  BY <1>2, StepTypeOK DEF LoopInv, HistoryTypeOK
<1>4. /\ saving.caller \in DOMAIN calls /\ saving.callID \in CallIDs
      /\ saving.ref \in 0..MaxSaves /\ saving.len \in Nat /\ round \in Round
      /\ phase = "tools"
  BY <1>1, SaverCall
<1>5. PICK k \in DOMAIN calls : k = saving.caller
  BY <1>4
<1>6. PICK m \in ToolMessage : m = BoundedToolOutput(saving.callID, saving.len, saving.ref)
  BY <1>4, BoundedIsMessage
<1>7. calls \in Seq(Call) /\ Return(k, m)
  BY <1>1, <1>5, <1>6 DEF LoopInv, HistoryTypeOK
<1>8. /\ calls' \in Seq(Call)
      /\ DOMAIN calls' = DOMAIN calls
      /\ Len(calls') = Len(calls)
      /\ calls'[k].id = calls[k].id /\ calls'[k].state = "returned" /\ calls'[k].message = m
      /\ \A j \in DOMAIN calls : j # k => calls'[j] = calls[j]
  BY <1>7, CallReturns
<1>9. HistoryTypeOK'
  BY <1>1, <1>3, <1>8 DEF LoopInv, HistoryTypeOK
<1>10. CallsInv'
  BY <1>1, <1>4, <1>5, <1>8 DEF LoopInv, CallsInv
<1>11. QED
  BY <1>1, <1>2, <1>5, <1>6, <1>8, <1>9, <1>10 DEF LoopInv

\* A call ends without a save: a tool fails, or a page is read or is gone.
LEMMA OtherCallLoop ==
  ASSUME LoopInv, NEW i \in 1..MaxCalls, ToolFails(i) \/ PageReturns(i)
  PROVE  /\ UNCHANGED storeVars /\ LoopInv'
         /\ UNCHANGED <<phase, messages, listed, round, attempt>>
         /\ phase = "tools" /\ round \in Round
         /\ DOMAIN calls' = DOMAIN calls
         /\ i \in DOMAIN calls /\ calls'[i].id = calls[i].id
         /\ calls[i].state = "running"
         /\ calls'[i].state \in {"returned", "error"}
         /\ calls'[i].state = "returned" =>
              /\ calls'[i].message \in ToolMessage
              /\ calls'[i].message.call = calls[i].id /\ calls'[i].message.round = round
              /\ ~(calls'[i].message.len > MaxInline) /\ calls'[i].message.own = 0
              /\ calls'[i].message.ref = 0 /\ calls'[i].message.content = "verbatim"
         /\ \A j \in DOMAIN calls : j # i => calls'[j] = calls[j]
<1>1. /\ UNCHANGED storeVars /\ UNCHANGED <<phase, messages, listed, round, attempt>>
      /\ phase = "tools" /\ i \in DOMAIN calls /\ calls[i].state = "running"
  BY DEF ToolFails, PageReturns
<1>2. calls \in Seq(Call) /\ round \in Round /\ calls[i].id \in CallIDs
  BY <1>1, CallFields DEF LoopInv, HistoryTypeOK, CallsInv
<1>3. TypeOK' /\ nextRef' = nextRef /\ saving' = saving /\ (Unlocked' <=> Unlocked)
  BY <1>1, StoreAlone DEF LoopInv, HistoryTypeOK
<1>4. ASSUME NEW len \in PageLens, Return(i, Page(calls[i].id, len))
      PROVE  /\ calls' \in Seq(Call)
             /\ DOMAIN calls' = DOMAIN calls
             /\ Len(calls') = Len(calls)
             /\ calls'[i].id = calls[i].id
             /\ calls'[i].state = "returned"
             /\ calls'[i].message = Page(calls[i].id, len)
             /\ \A j \in DOMAIN calls : j # i => calls'[j] = calls[j]
  <2>1. PICK m \in ToolMessage : m = Page(calls[i].id, len)
    BY <1>2, <1>4, PageIsMessage
  <2>2. QED
    BY <1>1, <1>2, <1>4, <2>1, CallReturns
<1>5. ASSUME calls' = [calls EXCEPT ![i].state = "error"]
      PROVE  /\ calls' \in Seq(Call)
             /\ DOMAIN calls' = DOMAIN calls
             /\ Len(calls') = Len(calls)
             /\ calls'[i].id = calls[i].id
             /\ calls'[i].state = "error"
             /\ \A j \in DOMAIN calls : j # i => calls'[j] = calls[j]
  BY <1>1, <1>2, <1>5, StateChanges
<1>6. \/ \E len \in PageLens : Return(i, Page(calls[i].id, len))
      \/ calls' = [calls EXCEPT ![i].state = "error"]
  BY DEF ToolFails, PageReturns
<1>7. /\ calls' \in Seq(Call)
      /\ DOMAIN calls' = DOMAIN calls
      /\ Len(calls') = Len(calls)
      /\ calls'[i].id = calls[i].id
      /\ \/ /\ calls'[i].state = "returned"
            /\ \E len \in PageLens : calls'[i].message = Page(calls[i].id, len)
         \/ calls'[i].state = "error"
      /\ \A j \in DOMAIN calls : j # i => calls'[j] = calls[j]
  BY <1>4, <1>5, <1>6
<1>8. HistoryTypeOK'
  BY <1>1, <1>3, <1>7 DEF LoopInv, HistoryTypeOK
<1>9. CallsInv'
  BY <1>1, <1>3, <1>7 DEF LoopInv, CallsInv
<1>10. calls'[i].state = "returned" =>
        /\ calls'[i].message \in ToolMessage
        /\ calls'[i].message.call = calls[i].id /\ calls'[i].message.round = round
        /\ ~(calls'[i].message.len > MaxInline) /\ calls'[i].message.own = 0
        /\ calls'[i].message.ref = 0 /\ calls'[i].message.content = "verbatim"
  BY <1>2, <1>7, PageIsMessage
<1>11. QED
  BY <1>1, <1>2, <1>7, <1>8, <1>9, <1>10 DEF LoopInv

\* The round is over: its messages are appended in call order, or the run ends.
LEMMA RoundOverLoop ==
  ASSUME LoopInv, RoundOver
  PROVE  /\ UNCHANGED storeVars /\ LoopInv'
         /\ phase = "tools" /\ UNCHANGED round /\ calls' = << >>
         /\ \/ phase' = "failed" /\ UNCHANGED messages
            \/ /\ phase' = "rewrite"
               /\ \A i \in DOMAIN calls : calls[i].state = "returned"
               /\ Len(messages') = Len(messages) + Len(calls)
               /\ \A i \in 1..Len(messages) : messages'[i] = messages[i]
               /\ \A i \in 1..Len(calls) : messages'[Len(messages) + i] = calls[i].message
<1>1. /\ UNCHANGED storeVars /\ UNCHANGED <<listed, round, attempt>>
      /\ phase = "tools" /\ calls' = << >>
  BY DEF RoundOver
<1>2. TypeOK' /\ nextRef' = nextRef /\ saving' = saving /\ (Unlocked' <=> Unlocked)
  BY <1>1, StoreAlone DEF LoopInv, HistoryTypeOK
<1>3. \/ phase' = "failed" /\ UNCHANGED messages
      \/ /\ phase' = "rewrite"
         /\ \A i \in DOMAIN calls : calls[i].state = "returned"
         /\ messages' = messages \o [i \in DOMAIN calls |-> calls[i].message]
  BY DEF RoundOver
<1>4. messages \in Seq(ToolMessage \cup {Plain}) /\ calls \in Seq(Call)
  BY DEF LoopInv, HistoryTypeOK
<1>5. Unlocked
  <2>1. ~Unlocked => calls[saving.caller].state = "saving" /\ saving.caller \in DOMAIN calls
    BY SaverCall
  <2>2. QED
    BY <2>1 DEF RoundOver
<1>6. ASSUME \A i \in DOMAIN calls : calls[i].state = "returned",
             messages' = messages \o [i \in DOMAIN calls |-> calls[i].message]
      PROVE  /\ messages' \in Seq(ToolMessage \cup {Plain})
             /\ Len(messages') = Len(messages) + Len(calls)
             /\ \A i \in 1..Len(messages) : messages'[i] = messages[i]
             /\ \A i \in 1..Len(calls) : messages'[Len(messages) + i] = calls[i].message
  <2>1. PICK q : q = [i \in DOMAIN calls |-> calls[i].message]
    OBVIOUS
  <2>2. DOMAIN q = 1..Len(calls) /\ Len(calls) \in Nat /\ Len(messages) \in Nat
    BY <1>4, <2>1
  <2>3. \A i \in 1..Len(calls) : q[i] = calls[i].message /\ q[i] \in ToolMessage \cup {Plain}
    BY <1>4, <2>1, <2>2, CallFields
  <2>4. q \in Seq(ToolMessage \cup {Plain}) /\ Len(q) = Len(calls)
    BY <2>1, <2>2, <2>3
  <2>5. /\ messages \o q \in Seq(ToolMessage \cup {Plain})
        /\ Len(messages \o q) = Len(messages) + Len(q)
        /\ \A i \in 1..Len(messages) : (messages \o q)[i] = messages[i]
    BY <1>4, <2>4
  <2>6. ASSUME NEW i \in 1..Len(calls) PROVE (messages \o q)[Len(messages) + i] = q[i]
    BY <1>4, <2>2, <2>4
  <2>7. QED
    BY <1>6, <2>1, <2>3, <2>4, <2>5, <2>6
<1>7. messages' \in Seq(ToolMessage \cup {Plain}) /\ calls' \in Seq(Call) /\ Len(calls') = 0
      /\ DOMAIN calls' = {}
  <2>1. messages' \in Seq(ToolMessage \cup {Plain})
    <3>1. CASE messages' = messages
      BY <1>4, <3>1
    <3>2. QED
      BY <1>3, <1>6, <3>1
  <2>2. calls' \in Seq(Call) /\ Len(calls') = 0 /\ DOMAIN calls' = {}
    BY <1>1
  <2>3. QED
    BY <2>1, <2>2
<1>8. HistoryTypeOK'
  BY <1>1, <1>2, <1>3, <1>7 DEF LoopInv, HistoryTypeOK
<1>9. CallsInv'
  BY <1>1, <1>2, <1>3, <1>5, <1>7, HistoryAssumption DEF LoopInv, CallsInv
<1>10. QED
  BY <1>1, <1>3, <1>6, <1>8, <1>9 DEF LoopInv

\* The catalog of a new attempt lists refs the store has handed out.
LEMMA NextAttemptLoop ==
  ASSUME LoopInv, NextAttempt
  PROVE  UNCHANGED storeVars /\ LoopInv'
<1>1. /\ UNCHANGED storeVars /\ UNCHANGED <<calls, round>>
      /\ phase = "respond" /\ phase' = "rewrite" /\ messages' = <<Plain>>
      /\ attempt < MaxAttempts /\ attempt' = attempt + 1 /\ listed' = Catalog
  BY DEF NextAttempt, AttemptsLeft
<1>2. TypeOK' /\ nextRef' = nextRef /\ saving' = saving /\ (Unlocked' <=> Unlocked)
  BY <1>1, StoreAlone DEF LoopInv, HistoryTypeOK
<1>3. Catalog \subseteq 1..nextRef
  BY DEF Catalog, LoopInv, HistoryTypeOK, TypeOK
<1>4. messages' \in Seq(ToolMessage \cup {Plain})
  BY <1>1
<1>5. attempt' \in 1..MaxAttempts
  BY <1>1, HistoryAssumption DEF LoopInv, HistoryTypeOK
<1>6. HistoryTypeOK'
  BY <1>1, <1>2, <1>3, <1>4, <1>5 DEF LoopInv, HistoryTypeOK
<1>7. CallsInv'
  BY <1>1, <1>2 DEF LoopInv, CallsInv
<1>8. QED
  BY <1>1, <1>6, <1>7 DEF LoopInv

\* The answer is accepted, the run is over, or nothing happens.
LEMMA QuietLoop ==
  ASSUME LoopInv, Finish \/ Stopped \/ UNCHANGED vars
  PROVE  /\ UNCHANGED storeVars /\ UNCHANGED <<messages, calls, listed, round, attempt>>
         /\ phase' \in {phase, "done"} /\ (phase' # phase => phase = "respond")
         /\ LoopInv'
<1>1. /\ UNCHANGED storeVars /\ UNCHANGED <<messages, calls, listed, round, attempt>>
      /\ phase' \in {phase, "done"} /\ (phase' # phase => phase = "respond")
  BY DEF Finish, Stopped, vars, agentVars
<1>2. TypeOK' /\ nextRef' = nextRef /\ saving' = saving /\ (Unlocked' <=> Unlocked)
  BY <1>1, StoreAlone DEF LoopInv, HistoryTypeOK
<1>3. HistoryTypeOK'
  BY <1>1, <1>2 DEF LoopInv, HistoryTypeOK
<1>4. CallsInv'
  BY <1>1, <1>2 DEF LoopInv, CallsInv
<1>5. QED
  BY <1>1, <1>3, <1>4 DEF LoopInv

\* The first messages of a run: no call in flight, nothing listed.
LEMMA InitLoop == HistoryInit => LoopInv
<1> SUFFICES ASSUME HistoryInit PROVE LoopInv
  OBVIOUS
<1>1. TypeOK /\ Unlocked
  BY InitTypeOK DEF HistoryInit, StoreInit, Unlocked
<1>2. messages \in Seq(ToolMessage \cup {Plain}) /\ calls \in Seq(Call) /\ Len(calls) = 0
      /\ DOMAIN calls = {}
  BY DEF HistoryInit
<1>3. HistoryTypeOK
  BY <1>1, <1>2, HistoryAssumption DEF HistoryInit, HistoryTypeOK
<1>4. CallsInv
  BY <1>1, <1>2, HistoryAssumption DEF HistoryInit, CallsInv
<1>5. QED
  BY <1>3, <1>4 DEF LoopInv

\* Every step of the loop is a step of the store or leaves it alone, and keeps
\* the loop well-formed.
LEMMA LoopStep ==
  ASSUME LoopInv, [HistoryNext]_vars
  PROVE  [StoreNext]_storeVars /\ LoopInv'
<1>1. ASSUME NEW i \in 1..MaxCalls, NEW meta \in MetaLens, NEW len \in OutputLens,
             ToolReturns(i, meta, len)
      PROVE  [StoreNext]_storeVars /\ LoopInv'
  BY <1>1, ToolReturnsIsSave, ToolReturnsLoop
<1>2. ASSUME NEW i \in 1..MaxCalls, ToolFails(i) \/ PageReturns(i)
      PROVE  [StoreNext]_storeVars /\ LoopInv'
  BY <1>2, OtherCallLoop
<1>3. QED
  BY <1>1, <1>2, RewriteLoop, AskLoop, MakeRoomLoop, ToolSavedLoop, RoundOverLoop,
     NextAttemptLoop, QuietLoop DEF HistoryNext, ToolStep

\* Every state of the loop is well-formed, and the lock of the store is held
\* exactly by the tool call that is saving its output.
LEMMA LoopInvariant == HistorySpec => []LoopInv
<1>1. QED
  BY InitLoop, LoopStep, PTL DEF HistorySpec

\* The messages, calls and counters of a run stay well-formed for any number of
\* rounds, attempts and parallel calls.
THEOREM HistoryTypeCorrect == HistorySpec => []HistoryTypeOK
<1>1. LoopInv => HistoryTypeOK
  BY DEF LoopInv
<1>2. QED
  BY <1>1, LoopInvariant, PTL

\* So everything proved of the store holds while the agent uses it.
LEMMA LoopStoreInv == HistorySpec => []StoreInv
<1>1. HistoryInit => StoreInit
  BY DEF HistoryInit
<1>2. LoopInv /\ [HistoryNext]_vars => [StoreNext]_storeVars
  BY LoopStep
<1>3. QED
  BY <1>1, <1>2, LoopInvariant, StoreInvariant, PTL DEF HistorySpec, StoreSpec

-----------------------------------------------------------------------------
\* A step that neither saves nor starts a call leaves unused IDs unused.
LEMMA FreshKept ==
  ASSUME FreshInv, lastSave' = lastSave, round' = round,
         Unlocked' \/ (saving' = saving /\ ~Unlocked),
         \A i \in DOMAIN calls' :
           calls'[i].state = "running" =>
             /\ i \in DOMAIN calls /\ calls[i].state = "running"
             /\ calls'[i].id = calls[i].id
  PROVE  FreshInv'
BY DEF FreshInv

\* Before the first round nothing was saved.
LEMMA InitFresh == HistoryInit => FreshInv
<1> SUFFICES ASSUME HistoryInit PROVE FreshInv
  OBVIOUS
<1>1. Unlocked /\ DOMAIN calls = {}
  BY DEF HistoryInit, StoreInit, Unlocked
<1>2. \A r \in Round, i \in 1..MaxCalls : <<r, i>> \in CallIDs
  BY HistoryAssumption DEF Round
<1>3. \A c \in CallIDs : lastSave[c] = [ref |-> 0, len |-> 0]
  BY DEF HistoryInit, StoreInit
<1>4. QED
  BY <1>1, <1>2, <1>3 DEF FreshInv

\* Only the save of a call uses its ID, and a new round takes unused ones.
LEMMA FreshStep ==
  ASSUME LoopInv, LoopInv', FreshInv, [HistoryNext]_vars
  PROVE  FreshInv'
<1> USE DEF Round
<1>1. ASSUME Rewrite PROVE FreshInv'
  <2>1. UNCHANGED <<calls, round, lastSave, saving>>
    BY <1>1 DEF Rewrite, storeVars
  <2>2. QED
    BY <2>1, FreshKept DEF Unlocked
<1>2. ASSUME AskForTools PROVE FreshInv'
  <2>1. /\ \A i \in DOMAIN calls' : calls'[i].state = "running"
        /\ Unlocked'
    BY <1>2, AskLoop
  <2>2. round' = round + 1 /\ lastSave' = lastSave /\ round \in Nat
    BY <1>2 DEF AskForTools, storeVars, LoopInv, HistoryTypeOK
  <2>3. ASSUME NEW i \in DOMAIN calls'
        PROVE  lastSave'[calls'[i].id] = [ref |-> 0, len |-> 0]
    <3>1. calls'[i].id = <<round', i>> /\ round' \in Round /\ i \in 1..MaxCalls
      <4>1. /\ calls' \in Seq(Call) /\ Len(calls') <= MaxCalls /\ phase' = "tools"
            /\ calls'[i].id = <<round', i>> /\ round' \in Round
        BY <1>2, <2>3 DEF AskForTools, LoopInv, CallsInv, HistoryTypeOK
      <4>2. QED
        BY <4>1, <2>3, HistoryAssumption
    <3>2. round' > round
      BY <2>2
    <3>3. QED
      BY <2>2, <3>1, <3>2 DEF FreshInv
  <2>4. \A r \in Round : r > round' => r > round
    BY <2>2
  <2>5. QED
    BY <2>1, <2>2, <2>3, <2>4 DEF FreshInv
<1>3. ASSUME NEW i \in 1..MaxCalls, NEW meta \in MetaLens, NEW len \in OutputLens,
             ToolReturns(i, meta, len)
      PROVE  FreshInv'
  <2>1. /\ i \in DOMAIN calls /\ calls[i].id = <<round, i>> /\ calls[i].id \in CallIDs
        /\ round' = round /\ round \in Round
        /\ lastSave' = [lastSave EXCEPT ![calls[i].id] = [ref |-> nextRef + 1, len |-> len]]
        /\ \/ Unlocked'
           \/ /\ saving'.callID = calls[i].id
              /\ saving'.ref = nextRef + 1 /\ saving'.len = len
    BY <1>3, ToolReturnsIsSave
  <2>2. /\ DOMAIN calls' = DOMAIN calls
        /\ calls'[i].state \in {"returned", "saving"}
        /\ \A j \in DOMAIN calls : j # i => calls'[j] = calls[j]
    BY <1>3, ToolReturnsCall
  <2>3. lastSave \in [CallIDs -> [ref : 0..nextRef, len : Nat]]
    BY DEF LoopInv, HistoryTypeOK, TypeOK
  <2>4. /\ lastSave'[<<round, i>>] = [ref |-> nextRef + 1, len |-> len]
        /\ \A c \in CallIDs : c # <<round, i>> => lastSave'[c] = lastSave[c]
    BY <2>1, <2>3
  <2>5. \A r \in Round, j \in 1..MaxCalls :
          r > round' => lastSave'[<<r, j>>] = [ref |-> 0, len |-> 0]
    <3>1. \A r \in Round, j \in 1..MaxCalls : <<r, j>> \in CallIDs
      BY HistoryAssumption
    <3>2. \A r \in Round, j \in 1..MaxCalls : r > round' => <<r, j>> # <<round, i>>
      BY <2>1
    <3>3. QED
      BY <2>1, <2>4, <3>1, <3>2 DEF FreshInv
  <2>6. ASSUME NEW j \in DOMAIN calls', calls'[j].state = "running"
        PROVE  lastSave'[calls'[j].id] = [ref |-> 0, len |-> 0]
    <3>1. j # i /\ calls'[j] = calls[j] /\ j \in DOMAIN calls
      BY <2>2, <2>6
    <3>2. calls[j].id = <<round, j>>
      BY <3>1 DEF LoopInv, CallsInv
    <3>3. calls[j].id \in CallIDs
      BY <3>1, CallFields DEF LoopInv, HistoryTypeOK
    <3>4. lastSave[calls[j].id] = [ref |-> 0, len |-> 0]
      BY <2>6, <3>1 DEF FreshInv
    <3>5. QED
      BY <2>4, <3>1, <3>2, <3>3, <3>4
  <2>7. ~Unlocked' => lastSave'[saving'.callID] = [ref |-> saving'.ref, len |-> saving'.len]
    BY <2>1, <2>4
  <2>8. QED
    BY <2>5, <2>6, <2>7 DEF FreshInv
<1>4. ASSUME NEW i \in 1..MaxCalls, ToolFails(i) \/ PageReturns(i)
      PROVE  FreshInv'
  <2>1. /\ UNCHANGED storeVars /\ round' = round /\ DOMAIN calls' = DOMAIN calls
        /\ calls'[i].state \in {"returned", "error"}
        /\ \A j \in DOMAIN calls : j # i => calls'[j] = calls[j]
    BY <1>4, OtherCallLoop
  <2>2. lastSave' = lastSave /\ saving' = saving
    BY <2>1 DEF storeVars
  <2>3. QED
    BY <2>1, <2>2, FreshKept DEF Unlocked
<1>5. ASSUME MakeRoom PROVE FreshInv'
  <2>1. UNCHANGED <<calls, round, lastSave, saving>>
    BY <1>5, MakeRoomLoop DEF agentVars
  <2>2. QED
    BY <2>1, FreshKept DEF Unlocked
<1>6. ASSUME ToolSaved PROVE FreshInv'
  <2>1. /\ Unlocked' /\ lastSave' = lastSave /\ round' = round /\ DOMAIN calls' = DOMAIN calls
        /\ calls'[saving.caller].state = "returned"
        /\ \A j \in DOMAIN calls : j # saving.caller => calls'[j] = calls[j]
    BY <1>6, ToolSavedLoop
  <2>2. QED
    BY <2>1, FreshKept
<1>7. ASSUME RoundOver PROVE FreshInv'
  <2>1. UNCHANGED storeVars /\ calls' = << >> /\ round' = round
    BY <1>7, RoundOverLoop
  <2>2. QED
    BY <2>1, FreshKept DEF storeVars, Unlocked
<1>8. ASSUME NextAttempt \/ Finish \/ Stopped \/ UNCHANGED vars PROVE FreshInv'
  <2>1. UNCHANGED <<calls, round, lastSave, saving>>
    BY <1>8 DEF NextAttempt, Finish, Stopped, vars, agentVars, storeVars
  <2>2. QED
    BY <2>1, FreshKept DEF Unlocked
<1>9. QED
  BY <1>1, <1>2, <1>3, <1>4, <1>5, <1>6, <1>7, <1>8 DEF HistoryNext, ToolStep

-----------------------------------------------------------------------------
\* A message stays true while nothing else is saved under its call ID: eviction
\* can only make "discarded" more true.
LEMMA TruthKept ==
  ASSUME TypeOK', NEW m \in ToolMessage, Truthful(m),
         lastSave'[m.call] = lastSave[m.call],
         lastSave[m.call].ref \in DOMAIN outputs' => lastSave[m.call].ref \in DOMAIN outputs
  PROVE  Truthful(m)'
<1>1. 0 \notin DOMAIN outputs'
  BY DEF TypeOK
<1>2. m.content = "discarded" => m.own \notin DOMAIN outputs'
  BY <1>1 DEF Truthful, Retained
<1>3. QED
  BY <1>2 DEF Truthful, Retained

\* So the history and the calls keep their messages when the store is left alone.
LEMMA MessagesKept ==
  ASSUME MessagesInv, UNCHANGED storeVars, UNCHANGED <<messages, round>>,
         calls' = calls \/ calls' = << >>
  PROVE  MessagesInv'
<1>1. lastSave' = lastSave /\ outputs' = outputs
  BY DEF storeVars, storeState
<1>2. ASSUME NEW i \in DOMAIN calls', calls'[i].state = "returned"
      PROVE  Result(calls[i])'
  <2>1. calls' = calls
    BY <1>2
  <2>2. Result(calls[i])
    BY <1>2, <2>1 DEF MessagesInv
  <2>3. QED
    BY <1>1, <2>1, <2>2 DEF Result, Truthful, Retained
<1>3. ASSUME NEW i \in ToolMessages' PROVE Settled(messages[i])'
  <2>1. Settled(messages[i])
    BY <1>3 DEF MessagesInv, ToolMessages
  <2>2. QED
    BY <1>1, <2>1 DEF Settled, Truthful, Retained
<1>4. QED
  BY <1>2, <1>3 DEF MessagesInv

\* A step of tool call k touches no other call and nothing saved under another
\* call ID; the messages of older rounds and of the other calls stay true.
LEMMA CallStepMessages ==
  ASSUME LoopInv, LoopInv', MessagesInv, ShapeInv, phase = "tools",
         NEW k \in DOMAIN calls, calls[k].state # "returned",
         UNCHANGED <<messages, round>>, DOMAIN calls' = DOMAIN calls,
         \A j \in DOMAIN calls : j # k => calls'[j] = calls[j],
         \A c \in CallIDs : c # <<round, k>> =>
           /\ lastSave'[c] = lastSave[c]
           /\ lastSave[c].ref \in DOMAIN outputs' => lastSave[c].ref \in DOMAIN outputs,
         calls'[k].state = "returned" => Result(calls[k])'
  PROVE  MessagesInv'
<1>1. TypeOK'
  BY DEF LoopInv, HistoryTypeOK
<1>2. ASSUME NEW m \in ToolMessage, Truthful(m), m.call # <<round, k>>
      PROVE  Truthful(m)'
  BY <1>1, <1>2, MessageFields, TruthKept
<1>3. ASSUME NEW j \in DOMAIN calls', calls'[j].state = "returned"
      PROVE  Result(calls[j])'
  <2>1. CASE j = k
    BY <1>3, <2>1
  <2>2. CASE j # k
    <3>1. PICK c : c = calls[j]
      OBVIOUS
    <3>2. calls'[j] = c /\ c.state = "returned" /\ Result(c) /\ c.id = <<round, j>>
      BY <1>3, <2>2, <3>1 DEF MessagesInv, LoopInv, CallsInv
    <3>3. c.message \in ToolMessage /\ c.message.call = <<round, j>> /\ Truthful(c.message)
      BY <3>2 DEF Result
    <3>4. Truthful(c.message)'
      <4>1. PICK m \in ToolMessage : m = c.message
        BY <3>3
      <4>2. Truthful(m)'
        BY <1>2, <2>2, <3>3, <4>1
      <4>3. QED
        BY <4>1, <4>2
    <3>5. Result(c)'
      BY <3>2, <3>4 DEF Result
    <3>6. QED
      BY <3>2, <3>5 DEF Result, Truthful, Retained
  <2>3. QED
    BY <2>1, <2>2
<1>4. ASSUME NEW i \in ToolMessages' PROVE Settled(messages[i])'
  <2>1. i \in ToolMessages /\ i \in 1..Len(messages)
    BY <1>4 DEF ToolMessages
  <2>2. PICK m \in ToolMessage : m = messages[i]
    BY <2>1, MessageAt DEF ToolMessages, LoopInv, HistoryTypeOK
  <2>3. Settled(m) /\ m.round < round
    BY <2>1, <2>2 DEF MessagesInv, ShapeInv
  <2>4. m.round \in Nat /\ round \in Nat /\ \E j \in 1..MaxCalls : m.call = <<m.round, j>>
    BY <2>3, MessageFields DEF Settled, Truthful, LoopInv, HistoryTypeOK, Round
  <2>5. m.call # <<round, k>>
    BY <2>3, <2>4
  <2>6. Truthful(m)'
    BY <1>2, <2>3, <2>5 DEF Settled
  <2>7. Settled(m)'
    BY <2>3, <2>6 DEF Settled
  <2>8. QED
    BY <2>2, <2>7 DEF Settled, Truthful, Retained
<1>5. QED
  BY <1>3, <1>4 DEF MessagesInv

\* The message of a tool result says what was saved of it, or that nothing was.
LEMMA ToolReturnsMessages ==
  ASSUME LoopInv, LoopInv', FreshInv, MessagesInv, ShapeInv,
         NEW i \in 1..MaxCalls, NEW meta \in MetaLens, NEW len \in OutputLens,
         ToolReturns(i, meta, len)
  PROVE  MessagesInv'
<1>1. /\ i \in DOMAIN calls /\ calls[i].id = <<round, i>> /\ calls[i].id \in CallIDs
      /\ calls[i].state = "running" /\ phase = "tools"
      /\ UNCHANGED <<messages, round>> /\ round \in Round
      /\ nextRef \in Nat
      /\ lastSave' = [lastSave EXCEPT ![calls[i].id] = [ref |-> nextRef + 1, len |-> len]]
      /\ outputs' = outputs
  BY ToolReturnsIsSave
<1>2. /\ DOMAIN calls' = DOMAIN calls
      /\ calls'[i].id = calls[i].id
      /\ IF Unlocked'
         THEN /\ calls'[i].state = "returned"
              /\ calls'[i].message = BoundedToolOutput(calls[i].id, len, 0)
              /\ calls'[i].message \in ToolMessage
         ELSE calls'[i].state = "saving"
      /\ \A j \in DOMAIN calls : j # i => calls'[j] = calls[j]
  BY ToolReturnsCall
<1>3. lastSave \in [CallIDs -> [ref : 0..nextRef, len : Nat]] /\ DOMAIN outputs \subseteq 1..nextRef
  BY DEF LoopInv, HistoryTypeOK, TypeOK
<1>4. /\ lastSave'[<<round, i>>] = [ref |-> nextRef + 1, len |-> len]
      /\ \A c \in CallIDs : c # <<round, i>> => lastSave'[c] = lastSave[c]
  BY <1>1, <1>3
<1>5. ASSUME Unlocked' PROVE Result(calls[i])'
  <2>1. PICK m \in ToolMessage : m = BoundedToolOutput(calls[i].id, len, 0)
    BY <1>2, <1>5
  <2>2. /\ m.call = <<round, i>> /\ m.round = round /\ m.len = len /\ m.own = 0 /\ m.ref = 0
        /\ m.content = IF len > MaxInline THEN "preview" ELSE "verbatim"
    <3>1. len > MaxInline <=> ~(len <= MaxInline)
      BY StoreAssumption
    <3>2. QED
      BY <1>1, <2>1, <3>1 DEF BoundedToolOutput
  <2>3. Truthful(m)'
    <3>1. nextRef + 1 \notin DOMAIN outputs' /\ 0 \notin DOMAIN outputs'
      BY <1>1, <1>3
    <3>2. i \in 1..MaxCalls
      OBVIOUS
    <3>3. QED
      BY <1>1, <1>4, <2>2, <3>1, <3>2 DEF Truthful, Retained, Replaced
  <2>4. m.content \notin Replaced
    BY <2>2 DEF Replaced
  <2>5. PICK c : c = calls'[i]
    OBVIOUS
  <2>6. c.message = m /\ c.id = <<round, i>>
    BY <1>1, <1>2, <1>5, <2>1, <2>5
  <2>7. Result(c)'
    BY <1>1, <2>2, <2>3, <2>4, <2>6 DEF Result
  <2>8. QED
    BY <2>5, <2>7 DEF Result, Truthful, Retained
<1>6. calls'[i].state = "returned" => Result(calls[i])'
  BY <1>2, <1>5
<1>7. QED
  BY <1>1, <1>2, <1>4, <1>6, CallStepMessages

\* An eviction takes no message's word back.
LEMMA MakeRoomMessages ==
  ASSUME LoopInv, LoopInv', MessagesInv, ShapeInv, MakeRoom
  PROVE  MessagesInv'
<1>1. /\ UNCHANGED <<messages, round, calls>> /\ lastSave' = lastSave
      /\ DOMAIN outputs' \subseteq DOMAIN outputs
  BY MakeRoomLoop DEF agentVars
<1>2. ~Unlocked
  BY DEF MakeRoom, EvictOldest
<1>3. PICK k \in DOMAIN calls : k = saving.caller
  BY <1>2, SaverCall
<1>4. calls[k].state = "saving" /\ phase = "tools"
  BY <1>2, <1>3, SaverCall
<1>5. QED
  BY <1>1, <1>3, <1>4, CallStepMessages

\* The message of a saved output names the ref it was saved under, and the output
\* of no other call comes back.
LEMMA ToolSavedMessages ==
  ASSUME LoopInv, LoopInv', StoreInv, FreshInv, MessagesInv, ShapeInv, ToolSaved
  PROVE  MessagesInv'
<1>1. /\ UNCHANGED <<messages, round>> /\ ~Unlocked
      /\ lastSave' = lastSave
      /\ DOMAIN outputs' = DOMAIN outputs \cup {saving.ref}
      /\ DOMAIN calls' = DOMAIN calls
      /\ calls'[saving.caller].id = calls[saving.caller].id
      /\ calls'[saving.caller].message
           = BoundedToolOutput(saving.callID, saving.len, saving.ref)
      /\ calls'[saving.caller].message \in ToolMessage
      /\ \A j \in DOMAIN calls : j # saving.caller => calls'[j] = calls[j]
  BY ToolSavedLoop
<1>2. /\ saving.caller \in DOMAIN calls
      /\ calls[saving.caller].state = "saving"
      /\ saving.callID = calls[saving.caller].id
      /\ saving.callID = <<round, saving.caller>>
      /\ saving.callID \in CallIDs
      /\ saving.ref \in 1..MaxSaves
      /\ saving.len \in Nat
      /\ phase = "tools" /\ round \in Round
  BY <1>1, SaverCall
<1>3. PICK k \in DOMAIN calls : k = saving.caller
  BY <1>2
<1>4. ASSUME NEW c \in CallIDs, c # <<round, k>>
      PROVE  lastSave[c].ref \in DOMAIN outputs' => lastSave[c].ref \in DOMAIN outputs
  <2>1. lastSave[c].ref < saving.ref
    BY <1>1, <1>2, <1>3, <1>4 DEF StoreInv, IndexInv, IndexNamesLatest
  <2>2. lastSave[c].ref # saving.ref
    BY <1>2, <2>1 DEF StoreInv, TypeOK
  <2>3. QED
    BY <1>1, <2>2
<1>5. PICK m \in ToolMessage : m = BoundedToolOutput(saving.callID, saving.len, saving.ref)
  BY <1>1
<1>6. /\ m.call = <<round, k>> /\ m.round = round /\ m.len = saving.len /\ m.own = saving.ref
      /\ m.ref \in {0, saving.ref}
      /\ m.content = IF saving.len > MaxInline THEN "preview" ELSE "verbatim"
  <2>1. saving.len > MaxInline <=> ~(saving.len <= MaxInline)
    BY <1>2, StoreAssumption
  <2>2. QED
    BY <1>2, <1>3, <1>5, <2>1 DEF BoundedToolOutput
<1>7. Truthful(m)'
  <2>1. k \in 1..MaxCalls
    BY <1>3, HistoryAssumption DEF LoopInv, CallsInv, HistoryTypeOK
  <2>2. lastSave'[<<round, k>>] = [ref |-> saving.ref, len |-> saving.len]
    BY <1>1, <1>2, <1>3 DEF FreshInv
  <2>3. m.own # 0
    BY <1>2, <1>6
  <2>4. QED
    BY <1>1, <1>6, <2>1, <2>2, <2>3 DEF Truthful, Retained, Replaced
<1>8. Result(calls[k])'
  <2>1. calls'[k].message = m /\ calls'[k].id = <<round, k>>
    BY <1>1, <1>2, <1>3, <1>5
  <2>2. m.content \notin Replaced
    BY <1>6 DEF Replaced
  <2>3. QED
    BY <1>1, <1>6, <1>7, <2>1, <2>2 DEF Result, Truthful, Retained
<1>9. QED
  BY <1>1, <1>2, <1>3, <1>4, <1>8, CallStepMessages

\* A page is a short message about an output nobody saved.
LEMMA OtherCallMessages ==
  ASSUME LoopInv, LoopInv', FreshInv, MessagesInv, ShapeInv,
         NEW i \in 1..MaxCalls, ToolFails(i) \/ PageReturns(i)
  PROVE  MessagesInv'
<1>1. /\ UNCHANGED storeVars /\ UNCHANGED <<messages, round>>
      /\ phase = "tools" /\ round \in Round
      /\ DOMAIN calls' = DOMAIN calls
      /\ i \in DOMAIN calls /\ calls'[i].id = calls[i].id
      /\ calls[i].state = "running"
      /\ calls'[i].state = "returned" =>
           /\ calls'[i].message \in ToolMessage
           /\ calls'[i].message.call = calls[i].id /\ calls'[i].message.round = round
           /\ ~(calls'[i].message.len > MaxInline) /\ calls'[i].message.own = 0
           /\ calls'[i].message.ref = 0 /\ calls'[i].message.content = "verbatim"
      /\ \A j \in DOMAIN calls : j # i => calls'[j] = calls[j]
  BY OtherCallLoop
<1>2. lastSave' = lastSave /\ outputs' = outputs
  BY <1>1 DEF storeVars, storeState
<1>3. calls[i].id = <<round, i>> /\ lastSave[calls[i].id] = [ref |-> 0, len |-> 0]
  BY <1>1 DEF FreshInv, LoopInv, CallsInv
<1>4. ASSUME calls'[i].state = "returned" PROVE Result(calls[i])'
  <2>1. PICK m \in ToolMessage : m = calls'[i].message
    BY <1>1, <1>4
  <2>2. /\ m.call = <<round, i>> /\ m.round = round /\ m.own = 0 /\ m.ref = 0
        /\ m.content = "verbatim" /\ ~(m.len > MaxInline)
    BY <1>1, <1>3, <1>4, <2>1
  <2>3. 0 \notin DOMAIN outputs /\ ~(0 > MaxInline)
    <3>1. nextRef \in 0..MaxSaves /\ DOMAIN outputs \subseteq 1..nextRef
      BY DEF LoopInv, HistoryTypeOK, TypeOK
    <3>2. MaxSaves \in Nat /\ MaxInline \in Nat
      BY StoreAssumption
    <3>3. QED
      BY <3>1, <3>2
  <2>4. Truthful(m)'
    BY <1>1, <1>2, <1>3, <2>2, <2>3 DEF Truthful, Retained, Replaced
  <2>5. QED
    BY <1>1, <1>3, <2>1, <2>2, <2>4 DEF Result, Truthful, Retained, Replaced
<1>5. QED
  BY <1>1, <1>2, <1>4, CallStepMessages

\* The messages of a finished round are the newest of the history.
LEMMA RoundOverMessages ==
  ASSUME LoopInv, LoopInv', MessagesInv, ShapeInv, RoundOver
  PROVE  MessagesInv' /\ ShapeInv'
<1>1. /\ UNCHANGED storeVars /\ phase = "tools" /\ UNCHANGED round /\ calls' = << >>
      /\ \/ phase' = "failed" /\ UNCHANGED messages
         \/ /\ phase' = "rewrite"
            /\ \A i \in DOMAIN calls : calls[i].state = "returned"
            /\ Len(messages') = Len(messages) + Len(calls)
            /\ \A i \in 1..Len(messages) : messages'[i] = messages[i]
            /\ \A i \in 1..Len(calls) : messages'[Len(messages) + i] = calls[i].message
  BY RoundOverLoop
<1>2. CASE phase' = "failed" /\ UNCHANGED messages
  <2>1. MessagesInv'
    BY <1>1, <1>2, MessagesKept
  <2>2. ShapeInv'
    BY <1>2 DEF ShapeInv
  <2>3. QED
    BY <2>1, <2>2
<1>3. ASSUME phase' = "rewrite",
             \A i \in DOMAIN calls : calls[i].state = "returned",
             Len(messages') = Len(messages) + Len(calls),
             \A i \in 1..Len(messages) : messages'[i] = messages[i],
             \A i \in 1..Len(calls) : messages'[Len(messages) + i] = calls[i].message
      PROVE  MessagesInv' /\ ShapeInv'
  <2> DEFINE n == Len(messages)
  <2>1. /\ n \in Nat /\ Len(calls) \in Nat /\ DOMAIN calls = 1..Len(calls)
        /\ messages \in Seq(ToolMessage \cup {Plain}) /\ round \in Nat
    BY DEF LoopInv, HistoryTypeOK
  <2>2. lastSave' = lastSave /\ outputs' = outputs
    BY <1>1 DEF storeVars, storeState
  <2>3. ASSUME NEW i \in 1..n, messages[i].role = "tool"
        PROVE  /\ Settled(messages[i])' /\ messages'[i].round # round /\ i # n
    <3>1. i \in ToolMessages
      BY <2>3 DEF ToolMessages
    <3>2. PICK m \in ToolMessage : m = messages[i] /\ m = messages'[i]
      BY <1>3, <2>1, <2>3, MessageAt
    <3>3. Settled(m) /\ m.round < round /\ m.round \in Nat
      BY <1>1, <3>1, <3>2, MessageFields DEF MessagesInv, ShapeInv, Round
    <3>4. i # n
      BY <1>1, <2>3 DEF ShapeInv, Plain
    <3>5. Settled(messages[i])'
      BY <1>1, <2>2, <3>2, <3>3 DEF Settled, Truthful, Retained
    <3>6. QED
      BY <2>1, <3>2, <3>3, <3>4, <3>5
  <2>4. ASSUME NEW i \in 1..Len(messages'), ~(i \in 1..n)
        PROVE  /\ messages'[i].role = "tool" /\ messages'[i].round = round
               /\ Settled(messages[i])'
    <3>1. i - n \in 1..Len(calls) /\ i = n + (i - n)
      BY <1>3, <2>1, <2>4
    <3>2. PICK k \in 1..Len(calls) : i = n + k
      BY <3>1
    <3>3. messages'[i] = calls[k].message /\ Result(calls[k])
      BY <1>3, <2>1, <3>2 DEF MessagesInv
    <3>4. PICK m \in ToolMessage : m = messages'[i]
      BY <3>3 DEF Result
    <3>5. m.round = round /\ m.content \notin Replaced /\ Truthful(m)
      BY <3>3, <3>4 DEF Result
    <3>6. Settled(messages[i])'
      BY <1>1, <2>1, <2>2, <3>4, <3>5 DEF Settled, Truthful, Retained
    <3>7. QED
      BY <3>4, <3>5, <3>6, MessageFields
  <2>5. ASSUME NEW i \in ToolMessages' PROVE Settled(messages[i])'
    <3>1. i \in 1..Len(messages') /\ messages'[i].role = "tool"
      BY <2>5 DEF ToolMessages
    <3>2. CASE i \in 1..n
      BY <1>3, <2>3, <3>1, <3>2
    <3>3. QED
      BY <2>4, <3>1, <3>2
  <2>6. MessagesInv'
    BY <1>1, <2>5 DEF MessagesInv
  <2>7. ASSUME NEW i \in ToolMessages'
        PROVE  messages'[i].round = round' <=> InLatestRound(i)'
    <3>1. i \in 1..Len(messages') /\ messages'[i].role = "tool"
      BY <2>7 DEF ToolMessages
    <3>2. CASE i \in 1..n
      <4>1. messages'[i].round # round /\ i # n
        BY <1>3, <2>3, <3>1, <3>2
      <4>2. n \in 1..n /\ messages'[n] = Plain /\ n \in i..Len(messages')
        BY <1>1, <1>3, <2>1, <3>2 DEF ShapeInv
      <4>3. messages'[n].role # "tool"
        BY <4>2 DEF Plain
      <4>4. QED
        BY <1>1, <4>1, <4>2, <4>3 DEF InLatestRound
    <3>3. CASE ~(i \in 1..n)
      <4>1. messages'[i].round = round
        BY <2>4, <3>1, <3>3
      <4>2. \A j \in i..Len(messages') : j \in 1..Len(messages') /\ ~(j \in 1..n)
        BY <1>3, <2>1, <3>1, <3>3
      <4>3. \A j \in i..Len(messages') : messages'[j].role = "tool"
        BY <2>4, <4>2
      <4>4. QED
        BY <1>1, <4>1, <4>3 DEF InLatestRound
    <3>4. QED
      BY <3>2, <3>3
  <2>8. ShapeInv'
    BY <1>3, <2>7 DEF ShapeInv
  <2>9. QED
    BY <2>6, <2>8
<1>4. QED
  BY <1>1, <1>2, <1>3

\* With a new round every message so far becomes one of an older round.
LEMMA AskMessages ==
  ASSUME LoopInv, LoopInv', MessagesInv, AskForTools
  PROVE  MessagesInv' /\ ShapeInv'
<1>1. /\ UNCHANGED storeVars /\ phase' = "tools" /\ round' = round + 1
      /\ messages' = Append(messages, Plain)
      /\ messages \in Seq(ToolMessage \cup {Plain}) /\ round \in Nat
  BY DEF AskForTools, LoopInv, HistoryTypeOK
<1>2. /\ Len(messages) \in Nat /\ Len(messages') = Len(messages) + 1
      /\ messages'[Len(messages) + 1] = Plain /\ messages' # << >>
      /\ \A i \in 1..Len(messages) : messages'[i] = messages[i]
  BY <1>1
<1>3. lastSave' = lastSave /\ outputs' = outputs
  BY <1>1 DEF storeVars, storeState
<1>4. \A i \in DOMAIN calls' : calls'[i].state = "running"
  BY AskLoop
<1>5. ASSUME NEW i \in ToolMessages'
      PROVE  Settled(messages[i])' /\ messages'[i].round < round'
  <2>1. i \in 1..Len(messages') /\ messages'[i].role = "tool"
    BY <1>5 DEF ToolMessages
  <2>2. i \in 1..Len(messages) /\ messages'[i] = messages[i]
    <3>1. i # Len(messages) + 1
      BY <1>2, <2>1 DEF Plain
    <3>2. QED
      BY <1>2, <2>1, <3>1
  <2>3. PICK m \in ToolMessage : m = messages[i]
    BY <1>1, <2>1, <2>2, MessageAt
  <2>4. Settled(m) /\ m.round \in Nat
    BY <2>1, <2>2, <2>3, MessageFields DEF MessagesInv, ToolMessages, Round
  <2>5. m.round < round'
    BY <1>1, <2>4 DEF Settled
  <2>6. Settled(m)'
    BY <1>1, <1>3, <2>4, <2>5 DEF Settled, Truthful, Retained
  <2>7. QED
    BY <2>2, <2>3, <2>5, <2>6 DEF Settled, Truthful, Retained
<1>6. MessagesInv'
  BY <1>4, <1>5 DEF MessagesInv
<1>7. ShapeInv'
  BY <1>1, <1>2, <1>5 DEF ShapeInv
<1>8. QED
  BY <1>6, <1>7

\* What the rewriter makes of a true message is true, and it replaces exactly the
\* long ones.
LEMMA RewrittenTruthful ==
  ASSUME StoreInv, Unlocked, NEW m \in ToolMessage, Truthful(m)
  PROVE  LET r == Rewritten(m)
         IN  /\ Truthful(r) /\ r.round = m.round /\ r.len = m.len
             /\ r.len > MaxInline => r.content \in Replaced
<1> DEFINE a == CompactionForCall(m.call)
           last == lastSave[m.call]
<1>1. m.call \in CallIDs /\ m.len \in Nat /\ m.own \in Nat
      /\ m.content \in {"verbatim", "preview", "compacted", "discarded"}
  BY MessageFields, StoreAssumption
<1>2. /\ a.compactable <=> last.len > MaxInline
      /\ a.retained <=> last.len > MaxInline /\ Retained(last.ref)
      /\ a.retained => a.ref = last.ref
  <2>1. CompactionDescribesLatest
    BY IndexDescribesLatest
  <2>2. a = [ref         |-> IF last.len > MaxInline /\ Retained(last.ref) THEN last.ref ELSE 0,
             compactable |-> last.len > MaxInline,
             retained    |-> last.len > MaxInline /\ Retained(last.ref)]
    BY <1>1, <2>1, Zenon DEF CompactionDescribesLatest
  <2>3. PICK b, k, n : a = [ref |-> n, compactable |-> b, retained |-> k]
                       /\ b = (last.len > MaxInline)
                       /\ k = (last.len > MaxInline /\ Retained(last.ref))
                       /\ n = IF last.len > MaxInline /\ Retained(last.ref) THEN last.ref ELSE 0
    BY <2>2, Zenon
  <2>4. a.compactable = b /\ a.retained = k /\ a.ref = n
    BY <2>3
  <2>5. QED
    BY <2>3, <2>4, Zenon
<1>3. PICK r : r = Rewritten(m)
  OBVIOUS
<1>4. /\ r \in ToolMessage
      /\ r.call = m.call /\ r.len = m.len /\ r.own = m.own /\ r.round = m.round
      /\ IF m.content \notin Replaced /\ a.compactable
         THEN /\ r.content = IF a.retained THEN "compacted" ELSE "discarded"
              /\ r.ref = IF a.retained THEN a.ref ELSE 0
         ELSE r = m
  BY <1>3, RewrittenMessage DEF StoreInv
<1>5. 0 \notin DOMAIN outputs
  BY DEF StoreInv, TypeOK
<1>6. CASE ~(m.content \notin Replaced /\ a.compactable)
  <2>1. r = m
    BY <1>4, <1>6
  <2>2. m.len > MaxInline => m.content \in Replaced
    BY <1>2, <1>6 DEF Truthful
  <2>3. QED
    BY <1>3, <2>1, <2>2
<1>7. CASE m.content \notin Replaced /\ a.compactable
  <2>1. m.len > MaxInline
    BY <1>2, <1>7 DEF Truthful
  <2>2. CASE a.retained
    <3>1. r.content = "compacted" /\ r.ref = last.ref /\ m.own = last.ref
      BY <1>2, <1>4, <1>7, <2>2 DEF Truthful
    <3>2. Truthful(r)
      BY <1>4, <2>1, <3>1 DEF Truthful, Replaced
    <3>3. QED
      BY <1>3, <1>4, <3>1, <3>2 DEF Replaced
  <2>3. CASE ~a.retained
    <3>1. r.content = "discarded" /\ r.ref = 0
      BY <1>4, <1>7, <2>3
    <3>2. ~Retained(last.ref)
      BY <1>2, <1>7, <2>3
    <3>3. ~Retained(m.own)
      BY <1>5, <3>2 DEF Truthful, Retained
    <3>4. Truthful(r)
      BY <1>4, <2>1, <3>1, <3>3 DEF Truthful, Replaced
    <3>5. QED
      BY <1>3, <1>4, <3>1, <3>4 DEF Replaced
  <2>4. QED
    BY <2>2, <2>3
<1>8. QED
  BY <1>6, <1>7

\* newToolHistoryRewriter leaves the latest round alone, and afterwards every long
\* result of an older one is replaced.
LEMMA RewriteMessages ==
  ASSUME LoopInv, LoopInv', StoreInv, MessagesInv, ShapeInv, Rewrite
  PROVE  MessagesInv' /\ ShapeInv'
<1> DEFINE n == Len(messages)
<1>1. /\ UNCHANGED storeVars /\ UNCHANGED <<calls, round>>
      /\ phase = "rewrite" /\ phase' = "respond"
  BY DEF Rewrite
<1>2. /\ n \in Nat /\ Len(messages') = n
      /\ messages \in Seq(ToolMessage \cup {Plain})
      /\ messages' \in Seq(ToolMessage \cup {Plain})
      /\ \A i \in 1..n :
           messages'[i] = IF InLatestRound(i) THEN messages[i] ELSE Rewritten(messages[i])
  BY RewriteEffect DEF LoopInv, HistoryTypeOK
<1>3. lastSave' = lastSave /\ outputs' = outputs
  BY <1>1 DEF storeVars, storeState
<1>4. calls = << >> /\ calls' = << >> /\ Unlocked /\ round \in Nat
  BY <1>1 DEF LoopInv, CallsInv, HistoryTypeOK
<1>5. ASSUME NEW i \in 1..n
      PROVE  messages'[i].role = "tool" <=> messages[i].role = "tool"
  <2>1. PICK m \in ToolMessage \cup {Plain} : m = messages[i]
    BY <1>2, MessageAt
  <2>2. Rewritten(m).role = "tool" <=> m.role = "tool"
    <3>1. CASE m \in ToolMessage
      BY <3>1, RewrittenMessage, MessageFields DEF LoopInv, HistoryTypeOK
    <3>2. CASE m = Plain
      BY <3>2 DEF Rewritten, Plain
    <3>3. QED
      BY <3>1, <3>2
  <2>3. QED
    BY <1>2, <2>1, <2>2
<1>6. \A i \in 1..n : InLatestRound(i)' <=> InLatestRound(i)
  <2>1. \A i \in 1..n : \A j \in i..n : j \in 1..n
    BY <1>2
  <2>2. QED
    BY <1>2, <1>5, <2>1 DEF InLatestRound
<1>7. ASSUME NEW i \in ToolMessages'
      PROVE  /\ Settled(messages[i])'
             /\ messages'[i].round = round' <=> InLatestRound(i)'
             /\ messages'[i].round < round' /\ messages'[i].len > MaxInline
                  => messages'[i].content \in Replaced
  <2>1. i \in 1..n /\ messages'[i].role = "tool" /\ messages[i].role = "tool"
    BY <1>2, <1>5, <1>7 DEF ToolMessages
  <2>2. PICK m \in ToolMessage : m = messages[i]
    BY <1>2, <2>1, MessageAt
  <2>3. /\ Settled(m) /\ (m.round = round <=> InLatestRound(i)) /\ m.round \in Nat
    BY <1>1, <2>1, <2>2, MessageFields DEF MessagesInv, ShapeInv, ToolMessages, Round
  <2>4. CASE InLatestRound(i)
    <3>1. messages'[i] = m
      BY <1>2, <2>1, <2>2, <2>4
    <3>2. Settled(m)'
      BY <1>1, <1>3, <2>3 DEF Settled, Truthful, Retained
    <3>3. m.round = round
      BY <2>3, <2>4
    <3>4. Settled(messages[i])'
      BY <3>1, <3>2 DEF Settled, Truthful, Retained
    <3>5. QED
      BY <1>1, <1>4, <1>6, <2>1, <2>4, <3>1, <3>3, <3>4
  <2>5. CASE ~InLatestRound(i)
    <3>1. messages'[i] = Rewritten(m)
      BY <1>2, <2>1, <2>2, <2>5
    <3>2. PICK r : r = Rewritten(m)
      OBVIOUS
    <3>3. /\ Truthful(r) /\ r.round = m.round /\ r.len = m.len
          /\ r.len > MaxInline => r.content \in Replaced
      BY <1>4, <2>3, <3>2, RewrittenTruthful DEF Settled
    <3>4. r.round # round /\ r.round <= round
      BY <2>3, <2>5, <3>3 DEF Settled
    <3>5. Settled(r)'
      BY <1>1, <1>3, <3>3, <3>4 DEF Settled, Truthful, Retained
    <3>6. Settled(messages[i])'
      BY <3>1, <3>2, <3>5 DEF Settled, Truthful, Retained
    <3>7. messages'[i].round # round' /\ ~InLatestRound(i)'
      BY <1>1, <1>6, <2>1, <2>5, <3>1, <3>2, <3>4
    <3>8. QED
      BY <3>1, <3>2, <3>3, <3>6, <3>7
  <2>6. QED
    BY <2>4, <2>5
<1>8. MessagesInv'
  BY <1>4, <1>7 DEF MessagesInv
<1>9. ShapeInv'
  BY <1>1, <1>7 DEF ShapeInv
<1>10. QED
  BY <1>8, <1>9

-----------------------------------------------------------------------------
\* A tool call leaves the history before it where it is.
LEMMA ToolsShape ==
  ASSUME ShapeInv, UNCHANGED <<phase, messages, round>>, phase = "tools"
  PROVE  ShapeInv'
BY DEF ShapeInv, ToolMessages

\* The first attempt begins without a tool message.
LEMMA InitMessages == HistoryInit => MessagesInv /\ ShapeInv
<1> SUFFICES ASSUME HistoryInit PROVE MessagesInv /\ ShapeInv
  OBVIOUS
<1>1. DOMAIN calls = {} /\ phase = "rewrite"
  BY DEF HistoryInit
<1>2. ToolMessages = {}
  BY DEF HistoryInit, ToolMessages, Plain
<1>3. QED
  BY <1>1, <1>2 DEF MessagesInv, ShapeInv

\* Every step keeps the messages true and the latest round at the end.
LEMMA MessagesStep ==
  ASSUME LoopInv, LoopInv', StoreInv, FreshInv, MessagesInv, ShapeInv, [HistoryNext]_vars
  PROVE  MessagesInv' /\ ShapeInv'
<1>1. ASSUME NEW i \in 1..MaxCalls, NEW meta \in MetaLens, NEW len \in OutputLens,
             ToolReturns(i, meta, len)
      PROVE  MessagesInv' /\ ShapeInv'
  <2>1. MessagesInv'
    BY <1>1, ToolReturnsMessages
  <2>2. UNCHANGED <<phase, messages, round>> /\ phase = "tools"
    BY <1>1 DEF ToolReturns
  <2>3. QED
    BY <2>1, <2>2, ToolsShape
<1>2. ASSUME NEW i \in 1..MaxCalls, ToolFails(i) \/ PageReturns(i)
      PROVE  MessagesInv' /\ ShapeInv'
  <2>1. MessagesInv'
    BY <1>2, OtherCallMessages
  <2>2. UNCHANGED <<phase, messages, round>> /\ phase = "tools"
    BY <1>2 DEF ToolFails, PageReturns
  <2>3. QED
    BY <2>1, <2>2, ToolsShape
<1>3. ASSUME MakeRoom \/ ToolSaved PROVE MessagesInv' /\ ShapeInv'
  <2>1. MessagesInv'
    BY <1>3, MakeRoomMessages, ToolSavedMessages
  <2>2. UNCHANGED <<phase, messages, round>>
    BY <1>3 DEF MakeRoom, ToolSaved, agentVars
  <2>3. phase = "tools"
    BY <1>3, SaverCall DEF MakeRoom, ToolSaved, EvictOldest, Insert
  <2>4. QED
    BY <2>1, <2>2, <2>3, ToolsShape
<1>4. ASSUME NextAttempt PROVE MessagesInv' /\ ShapeInv'
  <2>1. /\ phase = "respond" /\ phase' = "rewrite" /\ messages' = <<Plain>> /\ calls' = calls
    BY <1>4 DEF NextAttempt
  <2>2. DOMAIN calls' = {}
    BY <2>1 DEF LoopInv, CallsInv
  <2>3. ToolMessages' = {}
    BY <2>1 DEF ToolMessages, Plain
  <2>4. QED
    BY <2>1, <2>2, <2>3 DEF MessagesInv, ShapeInv
<1>5. ASSUME Finish \/ Stopped \/ UNCHANGED vars PROVE MessagesInv' /\ ShapeInv'
  <2>1. /\ UNCHANGED storeVars /\ UNCHANGED <<messages, calls, round>>
        /\ phase' \in {phase, "done"}
    BY <1>5, QuietLoop
  <2>2. MessagesInv'
    BY <2>1, MessagesKept
  <2>3. ShapeInv'
    BY <2>1 DEF ShapeInv, ToolMessages, InLatestRound
  <2>4. QED
    BY <2>2, <2>3
<1>6. QED
  BY <1>1, <1>2, <1>3, <1>4, <1>5, RewriteMessages, AskMessages, RoundOverMessages
     DEF HistoryNext, ToolStep

\* The inductive invariant holds throughout a run.
LEMMA HistoryInvariant == HistorySpec => []HistoryInv
<1>1. HistoryInit => HistoryInv
  BY InitLoop, InitFresh, InitMessages DEF HistoryInv
<1>2. HistoryInv /\ StoreInv /\ [HistoryNext]_vars => HistoryInv'
  BY LoopStep, FreshStep, MessagesStep DEF HistoryInv
<1>3. QED
  BY <1>1, <1>2, LoopStoreInv, PTL DEF HistorySpec

\* When the model is asked, it sees the latest round as it was returned and every
\* long result of an older one replaced, whatever was evicted in between.
THEOREM HistoryContextBudgeted == HistorySpec => []ContextBudgeted
<1>1. HistoryInv => ContextBudgeted
  <2> SUFFICES ASSUME HistoryInv, phase = "respond", NEW i \in ToolMessages
               PROVE  LET long == messages[i].len > MaxInline
                      IN  IF messages[i].round = round
                          THEN messages[i].content = IF long THEN "preview" ELSE "verbatim"
                          ELSE /\ messages[i].content \in Replaced <=> long
                               /\ messages[i].content # "preview"
    BY DEF ContextBudgeted
  <2>1. i \in 1..Len(messages) /\ messages[i].role = "tool"
    BY DEF ToolMessages
  <2>2. PICK m \in ToolMessage : m = messages[i]
    BY <2>1, MessageAt DEF HistoryInv, LoopInv, HistoryTypeOK
  <2>3. /\ Settled(m) /\ m.round \in Nat /\ round \in Nat
        /\ m.round < round /\ m.len > MaxInline => m.content \in Replaced
    BY <2>2, MessageFields DEF HistoryInv, MessagesInv, ShapeInv, LoopInv, HistoryTypeOK, Round
  <2>4. CASE m.round = round
    BY <2>2, <2>3, <2>4 DEF Settled, Truthful
  <2>5. CASE m.round < round
    <3>1. m.content \in Replaced <=> m.len > MaxInline
      BY <2>3, <2>5 DEF Settled, Truthful
    <3>2. m.content # "preview"
      BY <2>3, <3>1 DEF Settled, Truthful, Replaced
    <3>3. QED
      BY <2>2, <2>3, <2>5, <3>1, <3>2
  <2>6. QED
    BY <2>3, <2>4, <2>5 DEF Settled
<1>2. QED
  BY <1>1, HistoryInvariant, PTL

\* No notice of the rewriter or the middleware ever names the output of another
\* call, or calls an output discarded that read_tool_output would still serve.
THEOREM HistoryNoticesTruthful == HistorySpec => []NoticesTruthful
<1>1. HistoryInv => NoticesTruthful
  BY DEF HistoryInv, MessagesInv, NoticesTruthful, Settled, Truthful
<1>2. QED
  BY <1>1, HistoryInvariant, PTL

-----------------------------------------------------------------------------
\* Only calls of other tools save.
SaversInv == \A i \in DOMAIN calls : calls[i].state = "saving" => calls[i].wants = 0

LEMMA SaversStep ==
  ASSUME LoopInv, SaversInv, [HistoryNext]_vars
  PROVE  SaversInv'
<1>1. ASSUME NEW i \in 1..MaxCalls, NEW meta \in MetaLens, NEW len \in OutputLens,
             ToolReturns(i, meta, len)
      PROVE  SaversInv'
  <2>1. /\ i \in DOMAIN calls /\ calls \in Seq(Call) /\ calls[i].wants = 0
        /\ DOMAIN calls' = DOMAIN calls
        /\ \A j \in DOMAIN calls : j # i => calls'[j] = calls[j]
    BY <1>1, ToolReturnsCall DEF ToolReturns, LoopInv, HistoryTypeOK
  <2>2. calls'[i].state = "saving" => calls'[i].wants = 0
    <3>1. CASE Unlocked'
      BY <1>1, <3>1, ToolReturnsCall
    <3>2. CASE ~Unlocked'
      <4>1. calls' = [calls EXCEPT ![i].state = "saving"]
        BY <1>1, <3>2 DEF ToolReturns, Unlocked
      <4>2. QED
        BY <2>1, <4>1, StateChanges
    <3>3. QED
      BY <3>1, <3>2
  <2>3. QED
    BY <2>1, <2>2 DEF SaversInv
<1>2. ASSUME NEW i \in 1..MaxCalls, ToolFails(i) \/ PageReturns(i)
      PROVE  SaversInv'
  <2>1. /\ DOMAIN calls' = DOMAIN calls
        /\ calls'[i].state \in {"returned", "error"}
        /\ \A j \in DOMAIN calls : j # i => calls'[j] = calls[j]
    BY <1>2, OtherCallLoop
  <2>2. QED
    BY <2>1 DEF SaversInv
<1>3. ASSUME ToolSaved PROVE SaversInv'
  <2>1. /\ ~Unlocked /\ Unlocked'
        /\ DOMAIN calls' = DOMAIN calls
        /\ \A j \in DOMAIN calls : j # saving.caller => calls'[j] = calls[j]
    BY <1>3, ToolSavedLoop DEF ToolSaved, Insert, Unlocked
  <2>2. LoopInv'
    BY LoopStep
  <2>3. QED
    BY <2>1, <2>2 DEF SaversInv, LoopInv, CallsInv
<1>4. ASSUME AskForTools PROVE SaversInv'
  <2>1. UNCHANGED saving
    BY <1>4 DEF AskForTools, storeVars
  <2>2. CASE ~Unlocked
    <3>1. phase = "tools"
      BY <2>2, SaverCall
    <3>2. QED
      BY <1>4, <3>1 DEF AskForTools
  <2>3. CASE Unlocked
    <3>1. Unlocked' /\ LoopInv'
      BY <2>1, <2>3, LoopStep DEF Unlocked
    <3>2. QED
      BY <3>1 DEF SaversInv, LoopInv, CallsInv
  <2>4. QED
    BY <2>2, <2>3
<1>5. CASE UNCHANGED calls
  BY <1>5 DEF SaversInv
<1>6. CASE RoundOver
  <2>1. calls' = << >>
    BY <1>6 DEF RoundOver
  <2>2. QED
    BY <2>1 DEF SaversInv
<1>7. QED
  BY <1>1, <1>2, <1>3, <1>4, <1>5, <1>6
     DEF HistoryNext, ToolStep, Rewrite, MakeRoom, NextAttempt, Finish, Stopped, vars, agentVars

\* An output that is gone after a step of the store was evicted for the one
\* being saved, which is newer.
LEMMA LostToNewer ==
  ASSUME StoreInv, [StoreNext]_storeVars, NEW ref \in DOMAIN outputs, ref \notin DOMAIN outputs'
  PROVE  ~Unlocked /\ ref < saving.ref
<1>1. ~Unlocked
  <2>1. CASE \E p \in Callers, c \in AnyID, meta \in MetaLens, len \in OutputLens :
               SaveCall(p, c, meta, len)
    BY <2>1 DEF SaveCall
  <2>2. CASE EvictOldest \/ Insert
    BY <2>2 DEF EvictOldest, Insert
  <2>3. CASE UNCHANGED storeVars
    BY <2>3 DEF storeVars, storeState
  <2>4. QED
    BY <2>1, <2>2, <2>3 DEF StoreNext
<1>2. PICK i \in 1..Len(order) : order[i] = ref
  BY DEF StoreInv, SuffixInv, RetainsSuffix
<1>3. ref = accepted[Evicted + i].ref
  BY <1>2 DEF StoreInv, SuffixInv, RetainsSuffix
<1>4. Evicted + i \in 1..Len(accepted)
  BY <1>2, Positions DEF StoreInv, SuffixInv
<1>5. QED
  BY <1>1, <1>3, <1>4 DEF StoreInv, SuffixInv, AcceptedInOrder

\* Neither a page, nor the rewriter, nor a new attempt costs the agent an output:
\* what it loses, it loses to a newer output of another tool.
THEOREM HistoryLostOnlyToOtherTools == HistorySpec => LostOnlyToOtherTools
<1>1. HistoryInit => SaversInv
  BY DEF HistoryInit, SaversInv
<1>2. LoopInv /\ SaversInv /\ [HistoryNext]_vars => SaversInv'
  BY SaversStep
<1>3. /\ LoopInv /\ SaversInv /\ StoreInv /\ FreshInv /\ [HistoryNext]_vars
      => [\A ref \in DOMAIN outputs \ DOMAIN outputs' :
            \E i \in DOMAIN calls :
              /\ calls[i].wants = 0
              /\ calls[i].state = "saving"
              /\ ref < lastSave[calls[i].id].ref]_vars
  <2> SUFFICES ASSUME LoopInv, SaversInv, StoreInv, FreshInv, [HistoryNext]_vars,
                      NEW ref \in DOMAIN outputs \ DOMAIN outputs'
               PROVE  \E i \in DOMAIN calls :
                        /\ calls[i].wants = 0
                        /\ calls[i].state = "saving"
                        /\ ref < lastSave[calls[i].id].ref
    OBVIOUS
  <2>1. ~Unlocked /\ ref < saving.ref
    BY LoopStep, LostToNewer
  <2>2. /\ saving.caller \in DOMAIN calls
        /\ calls[saving.caller].state = "saving"
        /\ saving.callID = calls[saving.caller].id
    BY <2>1, SaverCall
  <2>3. lastSave[saving.callID] = [ref |-> saving.ref, len |-> saving.len]
    BY <2>1 DEF FreshInv
  <2>4. QED
    BY <2>1, <2>2, <2>3 DEF SaversInv
<1>4. HistoryInv => LoopInv /\ FreshInv
  BY DEF HistoryInv
<1>5. QED
  BY <1>1, <1>2, <1>3, <1>4, HistoryInvariant, LoopStoreInv, PTL
     DEF HistorySpec, LostOnlyToOtherTools
=============================================================================
