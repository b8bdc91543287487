----------------------------- MODULE MCTagFinder -----------------------------
(***************************************************************************)
(* Two concurrent calls of Tags for one repository, whose list of tags     *)
(* changes once: one tag matches at first, then three do, of which the     *)
(* limit leaves two.                                                       *)
(***************************************************************************)
EXTENDS TagFinder

CONSTANTS t1, t2, t3

MoreMatch == <<<<t1>>, <<t1, t2, t3>>>>
=============================================================================
