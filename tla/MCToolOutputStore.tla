------------------------- MODULE MCToolOutputStore -------------------------
(***************************************************************************)
(* A small instance of the store: two call IDs that are reused, outputs    *)
(* below and above the inline limit and one that can never be kept, and a  *)
(* budget that two to four entries fill.  Refs get longer ("out-9" and     *)
(* "out-10"), so that a later entry may be larger for that reason alone.   *)
(***************************************************************************)
EXTENDS ToolOutputStore

MCRefLen(n) == IF n < 4 THEN 1 ELSE 2
=============================================================================
