------------------------------ MODULE MCBuildEnv ------------------------------
(***************************************************************************)
(* Dockerfiles of any length over two variables of the platform, one of    *)
(* which cannot name an ARG, and a name of their own; with words that      *)
(* refer to one variable, to both, and to one beside the other name.       *)
(***************************************************************************)
EXTENDS BuildEnv

CONSTANTS port, token, own

SomeWords == {[refs |-> {port}, findable |-> TRUE],
              [refs |-> {port}, findable |-> FALSE],
              [refs |-> {port, token}, findable |-> TRUE],
              [refs |-> {port, own}, findable |-> TRUE],
              [refs |-> {token, own}, findable |-> TRUE]}
=============================================================================
