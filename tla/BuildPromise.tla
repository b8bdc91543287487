----------------------------- MODULE BuildPromise -----------------------------
(***************************************************************************)
(* What Build and BuildOCI of pkg/builder/builder.go promise the code that *)
(* calls them, without BuildKit, channels or goroutines: an image reaches  *)
(* the caller's writer piece by piece, the writer is closed exactly once,  *)
(* before the build returns and never written to afterwards, and nil means *)
(* that nothing went wrong and the whole image was written and closed.     *)
(* PlanRun relies on this; Solve is shown to implement it.                 *)
(***************************************************************************)
EXTENDS Integers

VARIABLES
  export,   \* does the caller want the image?
  image,    \* what its writer has got: "none", "partial" or "whole"
  closes,   \* how often its writer was closed
  broken,   \* has any part of the build failed?
  result    \* "running", "nil" or "error"

promiseVars == <<export, image, closes, broken, result>>

PromiseInit ==
  /\ export \in BOOLEAN
  /\ image = "none"
  /\ closes = 0
  /\ broken = FALSE
  /\ result = "running"

Running == result = "running" /\ UNCHANGED <<export, result>>

Write ==
  /\ Running
  /\ export /\ closes = 0
  /\ \/ image = "none" /\ image' = "partial"
     \/ image = "partial" /\ image' = "whole"
  /\ UNCHANGED <<closes, broken>>

Break ==
  /\ Running
  /\ broken' = TRUE
  /\ UNCHANGED <<image, closes>>

\* Close may fail, as any other part may.
Close ==
  /\ Running
  /\ export /\ closes = 0
  /\ closes' = 1
  /\ broken' \in {broken, TRUE}
  /\ UNCHANGED image

ReturnNil ==
  /\ result = "running"
  /\ ~broken
  /\ export => image = "whole" /\ closes = 1
  /\ result' = "nil"
  /\ UNCHANGED <<export, image, closes, broken>>

\* An error may come with the Close that nobody did before.
ReturnError ==
  /\ result = "running"
  /\ closes' = IF export THEN 1 ELSE 0
  /\ broken' \in {broken, TRUE}
  /\ result' = "error"
  /\ UNCHANGED <<export, image>>

PromiseNext == Write \/ Break \/ Close \/ ReturnNil \/ ReturnError

PromiseSpec == PromiseInit /\ [][PromiseNext]_promiseVars
=============================================================================
