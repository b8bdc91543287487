------------------------------- MODULE BuildEnv -------------------------------
(***************************************************************************)
(* Prepare of pkg/buildenv/buildenv.go: how a Dockerfile is rewritten so   *)
(* that the platform's variables reach it without becoming defaults of the *)
(* image.  The Dockerfile is any sequence of instructions.  Each step      *)
(* prepares the next one, as the loop of Prepare does, lets BuildKit's     *)
(* frontend evaluate the result, and the same instruction as it was        *)
(* written be evaluated under the meaning Prepare promises: every stage    *)
(* starts with each variable set, as if by ENV.                            *)
(*                                                                         *)
(* Of a value only its origin is kept, and of a word (one argument of an   *)
(* instruction) the names it refers to and whether its text can be found   *)
(* as a word of the instruction's header, as that of a heredoc cannot.     *)
(* The lexer and the frontend are external.                                *)
(***************************************************************************)
EXTENDS Integers, FiniteSets

CONSTANTS
  Names,       \* names a Dockerfile refers to
  Keys,        \* those a platform may set
  ArgNames,    \* those that are names of an ARG
  Words,       \* words of instructions
  MaxWords     \* bound of the model: words of one instruction

ASSUME BuildEnvAssumption ==
  /\ Keys \subseteq Names
  /\ ArgNames \subseteq Names
  /\ Words \subseteq [refs : (SUBSET Names) \ {{}}, findable : BOOLEAN]
  /\ MaxWords \in Nat

VARIABLES
  values,      \* the keys the platform sets
  state,       \* "scanning", "failed" or "done"
  inStage,     \* has there been a FROM?
  active,      \* keys not overridden by an ENV of the stage
  declared,    \* keys and words with an ARG in the stage
  buildArgs,   \* keys and words with a build argument
  secrets,     \* keys given to the session as secrets
  args,        \* frontend: ARGs of the stage that Prepare has inserted
  authorArgs,  \* frontend: ARGs of the stage as written
  env,         \* frontend: the stage's environment, by origin
  meantEnv,    \* the same if every stage began with ENVs of the platform
  misread,     \* history: words and names that meant something else as written
  public,      \* history: keys and words an instruction other than RUN asks for
  inFlags      \* history: keys that the flags of a RUN ask for

prepareVars  == <<values, inStage, active, declared, buildArgs, secrets>>
frontendVars == <<args, authorArgs, env, meantEnv>>
seenVars     == <<misread, public, inFlags>>
envVars      == <<state, prepareVars, frontendVars, seenVars>>

Nothing == [n \in Names |-> "unset"]

\* Without variables the Dockerfile is left as it is.
PrepareInit ==
  /\ values \in SUBSET Keys
  /\ state = IF values = {} THEN "done" ELSE "scanning"
  /\ inStage = FALSE
  /\ active = {}
  /\ declared = {}
  /\ buildArgs = {}
  /\ secrets = {}
  /\ args = {}
  /\ authorArgs = {}
  /\ env = Nothing
  /\ meantEnv = Nothing
  /\ misread = {}
  /\ public = {}
  /\ inFlags = {}

-----------------------------------------------------------------------------
\* BuildKit: the environment beats an ARG, and a secret beats both.
Lookup(e, n) ==
  IF e[n] # "unset" THEN e[n] ELSE IF n \in authorArgs THEN "arg" ELSE "unset"

\* An inserted ARG has the value of its build argument, if it is declared.
Inserted(alias) ==
  IF alias \in args' /\ alias \in buildArgs' THEN "platform" ELSE "unset"

\* The words of an instruction that expand to something else than they mean,
\* after they were replaced as a whole, or the needed keys in them renamed.
Meaning(w) == [n \in w.refs |-> Lookup(meantEnv, n)]

Expansion(w, whole, needed) ==
  [n \in w.refs |-> IF w \in whole THEN Inserted(w)
                    ELSE IF n \in needed THEN Inserted(n) ELSE Lookup(env, n)]

MisreadWords(words, whole, needed) ==
  {w \in words : Expansion(w, whole, needed) # Meaning(w)}

\* The names under which the script of a RUN finds something else than it
\* should.  A secret that is mounted must be in the session, and only once.
MisreadNames(mounted, explicit) ==
  {n \in Names :
     IF n \in mounted
     THEN n \notin secrets' \/ n \in explicit \/ Lookup(meantEnv, n) # "platform"
     ELSE n \notin explicit /\ Lookup(env, n) # Lookup(meantEnv, n)}

\* What an instruction asks to publish: a word made only of variables and found
\* in the header as a whole, any other word by the variables in it.
Platform(w) == {n \in w.refs : meantEnv[n] = "platform"}

Asked(words, whole) == whole \cup UNION {Platform(w) : w \in words \ whole}

Known(words) == {w \in words : w.findable /\ Platform(w) = w.refs}

-----------------------------------------------------------------------------
\* The words that are fully known: each name in them is an active key.
Expressions(words) == {w \in words : w.refs \subseteq active}

\* Those of them that stand as a whole in the header are replaced by an ARG for
\* their value.
Materialized(expressions) == {w \in expressions : w.findable}

\* Mutant: the inputs of a fully known expression are needed as well.
Needed_OfExpressions(words, whole) == UNION {w.refs \cap active : w \in words}

\* The keys to replace by an ARG of their own, since they occur in other words.
Needed(words, whole) == UNION {w.refs \cap active : w \in words \ whole}

\* Inserts an ARG for every word and key that has none in this stage; an
\* instruction that needs a key which cannot name an ARG only fails.
Declare(aliases) ==
  LET new == aliases \ declared
  IN  /\ aliases \cap Names \subseteq ArgNames
      /\ declared' = declared \cup new
      /\ buildArgs' = buildArgs \cup new
      /\ args' = args \cup new

\* The variables or the Dockerfile are invalid, a word cannot be expanded, or
\* an instruction needs a key that Declare refuses.
Fail ==
  /\ state = "scanning"
  /\ state' = "failed"
  /\ UNCHANGED <<prepareVars, frontendVars, seenVars>>

\* The words of an instruction other than RUN.
Rewrite(words) ==
  LET whole  == Materialized(Expressions(words))
      needed == Needed(words, whole)
  IN  /\ state = "scanning"
      /\ Declare(whole \cup needed)
      /\ misread' = misread \cup MisreadWords(words, whole, needed)
      /\ public' = public \cup Asked(words, Known(words))
      /\ UNCHANGED inFlags

\* Mutant: the ARGs of the last stage count as declared.
From_KeepsDeclared(base) ==
  /\ state = "scanning"
  /\ inStage' = TRUE
  /\ active' = values
  /\ args' = {}
  /\ authorArgs' = {}
  /\ env' = [n \in Names |-> IF n \in base THEN "base" ELSE "unset"]
  /\ meantEnv' = [n \in Names |-> IF n \in values THEN "platform" ELSE env'[n]]
  /\ UNCHANGED <<state, values, declared, buildArgs, secrets, seenVars>>

\* FROM: a new stage, on an image or an earlier stage that sets some names.
From(base) ==
  /\ state = "scanning"
  /\ inStage' = TRUE
  /\ active' = values
  /\ declared' = {}
  /\ args' = {}
  /\ authorArgs' = {}
  /\ env' = [n \in Names |-> IF n \in base THEN "base" ELSE "unset"]
  /\ meantEnv' = [n \in Names |-> IF n \in values THEN "platform" ELSE env'[n]]
  /\ UNCHANGED <<state, values, buildArgs, secrets, seenVars>>

\* An instruction that only uses words: COPY, LABEL, WORKDIR, EXPOSE, ...
Use(words) ==
  /\ inStage
  /\ Rewrite(words)
  /\ UNCHANGED <<state, values, inStage, active, secrets, authorArgs, env, meantEnv>>

\* ARG, which may also precede the first FROM, where it is not of any stage.
Arg(name, words) ==
  /\ Rewrite(words)
  /\ authorArgs' = IF inStage THEN authorArgs \cup {name} ELSE authorArgs
  /\ UNCHANGED <<state, values, inStage, active, secrets, env, meantEnv>>

\* ENV: its words see the environment before it, and afterwards the names it
\* sets are no longer the platform's.
Env(names, words) ==
  /\ inStage
  /\ Rewrite(words)
  /\ active' = active \ names
  /\ env' = [n \in Names |-> IF n \in names THEN "author" ELSE env[n]]
  /\ meantEnv' = [n \in Names |-> IF n \in names THEN "author" ELSE meantEnv[n]]
  /\ UNCHANGED <<state, values, inStage, secrets, authorArgs>>

\* RUN: the words of its flags are rewritten, never as a whole; its script is
\* left alone and gets every active key as a secret, except those for which
\* the author mounts a secret.
Run(flags, explicit) ==
  LET mounted == active \ explicit
      needed  == Needed(flags, {})
  IN  /\ state = "scanning"
      /\ inStage
      /\ Declare(needed)
      /\ secrets' = secrets \cup mounted
      /\ misread' = misread \cup MisreadWords(flags, {}, needed) \cup MisreadNames(mounted, explicit)
      /\ inFlags' = inFlags \cup Asked(flags, {})
      /\ UNCHANGED <<state, values, inStage, active, authorArgs, env, meantEnv, public>>

Finish ==
  /\ state = "scanning"
  /\ state' = "done"
  /\ UNCHANGED <<prepareVars, frontendVars, seenVars>>

-----------------------------------------------------------------------------
\* The words of an instruction.
Lists == {words \in SUBSET Words : Cardinality(words) <= MaxWords}

PrepareNext ==
  \/ \E base \in SUBSET Names : From(base)
  \/ \E words \in Lists :
       \/ Use(words)
       \/ \E name \in Names : Arg(name, words)
       \/ \E names \in (SUBSET Names) \ {{}} : Env(names, words)
       \/ \E explicit \in SUBSET Keys : Run(words, explicit)
  \/ Fail
  \/ Finish

PrepareSpec == PrepareInit /\ [][PrepareNext]_envVars

-----------------------------------------------------------------------------
\* The comment of Prepare: the variables of the platform hold until an ENV of
\* the stage overrides them, whatever the base image, earlier stages and ARGs
\* set.  Every word, and every script of a RUN, gets what it means.
MeaningPreserved == misread = {}

\* What becomes a public build argument is referred to by an instruction other
\* than RUN, and of a fully known expression only the value is, not its inputs
\* ("Materialize a fully known configuration expression, not its private inputs",
\* buildenv.go:139).  What goes beyond that, and beyond the comment of
\* Prepared.BuildArgs, by which RUN-only inputs never go there (buildenv.go:42-44),
\* comes from the flags of a RUN, which are rewritten like other words.  What
\* only scripts use stays secret, over any number of stages.
OnlyReferencedPublic == buildArgs \ public \subseteq inFlags
=============================================================================
