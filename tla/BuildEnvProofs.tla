--------------------------- MODULE BuildEnvProofs ---------------------------
(***************************************************************************)
(* Proofs about Prepare, for every set of names, keys and words and for    *)
(* Dockerfiles of every length: each word and each script keeps its        *)
(* meaning, and only what an instruction asks to publish becomes a build   *)
(* argument.  EnvInv relates the two environments of a stage, the one the  *)
(* frontend has and the one that is meant, to Prepare's active keys.       *)
(***************************************************************************)
EXTENDS BuildEnv, TLAPS

\* A name is active exactly as long as it is meant to be the platform's, and
\* every other name means what the frontend finds.
ActiveInv ==
  /\ active \subseteq Names
  /\ \A n \in Names : n \in active <=> meantEnv[n] = "platform"
  /\ \A n \in Names \ active : env[n] = meantEnv[n]

\* What Prepare has declared in the stage is an ARG there with a value, and
\* every value was asked for.
DeclaredInv ==
  /\ declared = args
  /\ declared \subseteq buildArgs
  /\ buildArgs \ public \subseteq inFlags

EnvInv ==
  /\ values \subseteq Names
  /\ \A n \in Names : env[n] # "platform"
  /\ ActiveInv
  /\ DeclaredInv
  /\ misread = {}

-----------------------------------------------------------------------------
\* The aliases that Declare has dealt with are ARGs with a value from then on.
LEMMA DeclareInserts ==
  ASSUME NEW aliases, EnvInv, Declare(aliases), NEW a \in aliases
  PROVE  Inserted(a) = "platform"
BY DEF EnvInv, DeclaredInv, Declare, Inserted

\* A name that is active means the platform's value.
LEMMA ActiveMeansPlatform ==
  ASSUME EnvInv, NEW n \in active
  PROVE  Lookup(meantEnv, n) = "platform"
BY DEF EnvInv, ActiveInv, Lookup

\* Every other name means what the frontend finds.
LEMMA InactiveMeansSame ==
  ASSUME EnvInv, NEW n \in Names \ active
  PROVE  Lookup(env, n) = Lookup(meantEnv, n)
BY DEF EnvInv, ActiveInv, Lookup

\* The variables of a word that are meant to be the platform's are its active
\* ones.
LEMMA PlatformIsActive ==
  ASSUME EnvInv, NEW w \in Words
  PROVE  Platform(w) = w.refs \cap active /\ w.refs \subseteq Names /\ w.refs # {}
<1>1. w.refs \subseteq Names /\ w.refs # {}
  BY BuildEnvAssumption
<1>2. QED
  BY <1>1 DEF EnvInv, ActiveInv, Platform

\* No word is misread once the known words are replaced as a whole and the
\* needed keys of the others renamed.
LEMMA NoWordMisread ==
  ASSUME EnvInv, NEW words \in SUBSET Words, NEW whole \in SUBSET Expressions(words),
         Declare(whole \cup Needed(words, whole))
  PROVE  MisreadWords(words, whole, Needed(words, whole)) = {}
<1> DEFINE needed == Needed(words, whole)
<1> SUFFICES ASSUME NEW w \in words
             PROVE  Expansion(w, whole, needed) = Meaning(w)
  BY DEF MisreadWords
<1>1. w.refs \subseteq Names
  BY PlatformIsActive
<1>2. ASSUME NEW n \in w.refs
      PROVE  (IF w \in whole THEN Inserted(w)
              ELSE IF n \in needed THEN Inserted(n) ELSE Lookup(env, n)) = Lookup(meantEnv, n)
  <2>1. CASE w \in whole
    <3>1. n \in active
      BY <2>1 DEF Expressions
    <3>2. QED
      BY <2>1, <3>1, DeclareInserts, ActiveMeansPlatform
  <2>2. CASE w \notin whole /\ n \in needed
    <3>1. n \in active
      BY <2>2 DEF Needed
    <3>2. QED
      BY <2>2, <3>1, DeclareInserts, ActiveMeansPlatform
  <2>3. CASE w \notin whole /\ n \notin needed
    <3>1. n \in Names \ active
      BY <1>1, <2>3 DEF Needed
    <3>2. QED
      BY <2>3, <3>1, InactiveMeansSame
  <2>4. QED
    BY <2>1, <2>2, <2>3
<1>3. QED
  BY <1>2 DEF Expansion, Meaning

\* What Prepare declares is what the author asks for.
LEMMA AskedIsDeclared ==
  ASSUME EnvInv, NEW words \in SUBSET Words, NEW whole
  PROVE  Asked(words, whole) = whole \cup Needed(words, whole)
BY PlatformIsActive DEF Asked, Needed

\* A word counts as known to the author exactly when Prepare finds and
\* materializes it.
LEMMA KnownIsMaterialized ==
  ASSUME EnvInv, NEW words \in SUBSET Words
  PROVE  Known(words) = Materialized(Expressions(words))
BY PlatformIsActive DEF Known, Materialized, Expressions

\* Rewrite keeps what it touches of EnvInv.
LEMMA RewriteKeeps ==
  ASSUME EnvInv, NEW words \in SUBSET Words, Rewrite(words)
  PROVE  misread' = {} /\ DeclaredInv'
<1> DEFINE whole  == Materialized(Expressions(words))
           needed == Needed(words, whole)
<1>1. Declare(whole \cup needed)
  BY DEF Rewrite
<1>2. misread' = {}
  BY <1>1, NoWordMisread DEF Rewrite, Materialized, EnvInv
<1>3. public' = public \cup whole \cup needed /\ inFlags' = inFlags
  BY AskedIsDeclared, KnownIsMaterialized DEF Rewrite
<1>4. DeclaredInv'
  BY <1>1, <1>3 DEF Declare, EnvInv, DeclaredInv
<1>5. QED
  BY <1>2, <1>4

-----------------------------------------------------------------------------
\* EnvInv is inductive: every instruction, and both ends of Prepare, keep it.
LEMMA EnvInvariant == PrepareSpec => []EnvInv
<1>1. PrepareInit => EnvInv
  BY BuildEnvAssumption DEF PrepareInit, Nothing, EnvInv, ActiveInv, DeclaredInv
<1>2. EnvInv /\ [PrepareNext]_envVars => EnvInv'
  <2> SUFFICES ASSUME EnvInv, [PrepareNext]_envVars PROVE EnvInv'
    OBVIOUS
  <2>1. ASSUME NEW base \in SUBSET Names, From(base) PROVE EnvInv'
    <3>1. active' = values /\ values' = values /\ misread' = {} /\ DeclaredInv'
      BY <2>1 DEF From, EnvInv, DeclaredInv, seenVars
    <3>2. \A n \in Names : env'[n] = IF n \in base THEN "base" ELSE "unset"
      BY <2>1 DEF From
    <3>3. \A n \in Names : meantEnv'[n] = IF n \in values THEN "platform" ELSE env'[n]
      BY <2>1 DEF From
    <3>4. QED
      BY <3>1, <3>2, <3>3 DEF EnvInv, ActiveInv
  <2>2. ASSUME NEW words \in Lists, Use(words) PROVE EnvInv'
    BY <2>2, RewriteKeeps DEF Use, Lists, EnvInv, ActiveInv
  <2>3. ASSUME NEW words \in Lists, NEW name \in Names, Arg(name, words) PROVE EnvInv'
    BY <2>3, RewriteKeeps DEF Arg, Lists, EnvInv, ActiveInv
  <2>4. ASSUME NEW words \in Lists, NEW names \in (SUBSET Names) \ {{}}, Env(names, words) PROVE EnvInv'
    <3>1. misread' = {} /\ DeclaredInv' /\ values' = values /\ active' = active \ names
      BY <2>4, RewriteKeeps DEF Env, Lists
    <3>2. \A n \in Names : /\ env'[n] = IF n \in names THEN "author" ELSE env[n]
                           /\ meantEnv'[n] = IF n \in names THEN "author" ELSE meantEnv[n]
      BY <2>4 DEF Env
    <3>3. QED
      BY <3>1, <3>2 DEF EnvInv, ActiveInv
  <2>5. ASSUME NEW flags \in Lists, NEW explicit \in SUBSET Keys, Run(flags, explicit) PROVE EnvInv'
    <3> DEFINE mounted == active \ explicit
               needed  == Needed(flags, {})
    <3>1. Declare({} \cup needed) /\ flags \in SUBSET Words
      BY <2>5 DEF Run, Lists
    <3>2. MisreadWords(flags, {}, needed) = {}
      BY <3>1, NoWordMisread
    <3>3. MisreadNames(mounted, explicit) = {}
      <4> SUFFICES ASSUME NEW n \in Names
                   PROVE  IF n \in mounted
                          THEN n \in secrets' /\ n \notin explicit /\ Lookup(meantEnv, n) = "platform"
                          ELSE n \in explicit \/ Lookup(env, n) = Lookup(meantEnv, n)
        BY DEF MisreadNames
      <4>1. CASE n \in mounted
        BY <2>5, <4>1, ActiveMeansPlatform DEF Run
      <4>2. CASE n \notin mounted
        BY <4>2, InactiveMeansSame
      <4>3. QED
        BY <4>1, <4>2
    <3>4. misread' = {}
      BY <2>5, <3>2, <3>3 DEF Run, EnvInv
    <3>5. public' = public /\ inFlags' = inFlags \cup needed
      BY <2>5, <3>1, AskedIsDeclared DEF Run
    <3>6. DeclaredInv'
      BY <3>1, <3>5 DEF Declare, EnvInv, DeclaredInv
    <3>7. QED
      BY <2>5, <3>4, <3>6 DEF Run, EnvInv, ActiveInv
  <2>6. CASE Fail \/ Finish \/ UNCHANGED envVars
    BY <2>6 DEF Fail, Finish, envVars, prepareVars, frontendVars, seenVars, EnvInv, ActiveInv, DeclaredInv
  <2>7. QED
    BY <2>1, <2>2, <2>3, <2>4, <2>5, <2>6 DEF PrepareNext
<1>3. QED
  BY <1>1, <1>2, PTL DEF PrepareSpec

\* Every word of every instruction, and every script of a RUN, gets what it
\* means if each stage starts with the platform's variables (MeaningPreserved).
THEOREM PreparePreservesMeaning == PrepareSpec => []MeaningPreserved
<1>1. EnvInv => MeaningPreserved
  BY DEF EnvInv, MeaningPreserved
<1>2. QED
  BY <1>1, EnvInvariant, PTL

\* Only what an instruction other than RUN asks for, or the flags of a RUN, becomes
\* a build argument, and never the inputs of a known expression
\* (OnlyReferencedPublic).
THEOREM PreparePublishesOnlyReferenced == PrepareSpec => []OnlyReferencedPublic
<1>1. EnvInv => OnlyReferencedPublic
  BY DEF EnvInv, DeclaredInv, OnlyReferencedPublic
<1>2. QED
  BY <1>1, EnvInvariant, PTL
=============================================================================
