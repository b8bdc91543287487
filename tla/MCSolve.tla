------------------------------- MODULE MCSolve -------------------------------
(***************************************************************************)
(* A build with up to three status messages: one more than the channel and *)
(* the display hold between them, so that a send can block.                *)
(***************************************************************************)
EXTENDS Solve
=============================================================================
