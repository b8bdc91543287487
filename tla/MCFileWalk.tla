----------------------------- MODULE MCFileWalk -----------------------------
(***************************************************************************)
(* A project with a default-ignored directory, a directory and a file of   *)
(* one name, and a directory and a file with a secret's name; every        *)
(* .gitignore of up to three lines, every tool, every place to start, and  *)
(* patterns with and without a literal part, wildcards and **.             *)
(***************************************************************************)
EXTENDS FileWalk, TLC

MCEntries ==
  (<< >>           :> <<"dist", "main", "secret", "src">>) @@
  (<<"dist">>      :> <<"keep", "out">>) @@
  (<<"secret">>    :> <<"keep">>) @@
  (<<"src">>       :> <<"deps", "dist", "secret">>) @@
  (<<"src", "deps">> :> <<"lib">>)

Rule(negated, anchored, names) ==
  [kind |-> "rule", negated |-> negated, anchored |-> anchored, names |-> names]

MCLines ==
  { [kind |-> "skipped", negated |-> FALSE, anchored |-> FALSE, names |-> <<"">>],
    Rule(FALSE, FALSE, <<"dist">>), Rule(FALSE, TRUE, <<"dist">>),
    Rule(TRUE, FALSE, <<"dist", "keep">>), Rule(TRUE, FALSE, <<"secret">>),
    Rule(FALSE, FALSE, <<"src", "deps", "lib">>), Rule(TRUE, FALSE, <<"deps">>) }

MCSize == [f \in Files |-> IF f = <<"main">> THEN 3 ELSE 1]
MCHits == [f \in Files |-> IF Base(f) = "out" THEN 0 ELSE IF Base(f) = "lib" THEN 2 ELSE 1]

MCWildcard ==
  "*" :> {".", "dist", "main", "secret", "src", "keep", "out", "deps", "lib"} @@
  "d*" :> {"dist", "deps"}

MCGlobs == {<<"**">>, <<"*">>, <<"src", "**">>, <<"**", "d*", "*">>, <<"src", "dist">>,
            <<"*", "keep">>, <<"secret", "keep">>, <<"lost", "*">>,
            <<".", "**">>}
MCDefaults   == <<"deps">>
=============================================================================
