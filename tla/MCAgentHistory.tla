--------------------------- MODULE MCAgentHistory ---------------------------
(***************************************************************************)
(* Small instances of the agent loop: two parallel calls a round, three    *)
(* rounds over two attempts, outputs that are short, truncated and kept,   *)
(* and too large to keep, in a store that two truncated outputs overflow.  *)
(***************************************************************************)
EXTENDS AgentHistory

MCRefLen(n) == 1

MCCallIDs == (1..MaxRounds) \X (1..MaxCalls)
=============================================================================
