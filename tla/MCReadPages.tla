----------------------------- MODULE MCReadPages -----------------------------
(***************************************************************************)
(* Files of up to three lines: empty, short, wide runes, and lines longer  *)
(* than a page and than two; first calls at every place, inside a rune and *)
(* beyond the end too.                                                     *)
(***************************************************************************)
EXTENDS ReadPages

MCLines ==
  { [len |-> 0, starts |-> {}],
    [len |-> 3, starts |-> {0, 1, 2}],
    [len |-> 9, starts |-> {0, 3, 6}],
    [len |-> 17, starts |-> {0, 1, 4, 8, 10, 13, 16}] }
=============================================================================
