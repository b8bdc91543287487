------------------------------ MODULE MCPlanRun ------------------------------
(***************************************************************************)
(* Run with every combination of output and caller's Dockerfile, and an    *)
(* attempt limit that is negative, zero, one or two; the default is three. *)
(***************************************************************************)
EXTENDS PlanRun

MCAttemptSettings == {-1, 0, 1, 2}
=============================================================================
