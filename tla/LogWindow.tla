------------------------------ MODULE LogWindow ------------------------------
(***************************************************************************)
(* What the build log of a failed attempt promises its reader: the whole   *)
(* log while it fits the limit, and from then on its beginning and its     *)
(* end, limit bytes together, with a notice where bytes are missing.       *)
(*                                                                         *)
(* A byte is its position in the log.                                      *)
(***************************************************************************)
EXTENDS Integers, Sequences

CONSTANTS
  Limits,     \* possible limits
  MaxTotal,   \* bound of the model: bytes of a log
  Cut         \* the notice

VARIABLES
  limit,  \* the limit of this log
  total,  \* bytes written
  view    \* what the reader would be shown

windowVars == <<limit, total, view>>

\* The bytes after position a, up to position b.
Bytes(a, b) == [i \in 1..(b - a) |-> a + i]

\* The part of the limit that is for the beginning of the log.
HeadCap == limit \div 3
TailCap == limit - HeadCap

\* The log of n bytes as its reader sees it.
Shown(n) ==
  IF n <= limit THEN Bytes(0, n)
  ELSE Bytes(0, HeadCap) \o <<Cut>> \o Bytes(n - TailCap, n)

WindowInit ==
  /\ limit \in Limits
  /\ total = 0
  /\ view = << >>

Extend(n) ==
  /\ total + n <= MaxTotal
  /\ total' = total + n
  /\ view' = Shown(total + n)
  /\ UNCHANGED limit

WindowSpec == WindowInit /\ [][\E n \in 0..MaxTotal : Extend(n)]_windowVars
=============================================================================
