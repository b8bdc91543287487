------------------------------ MODULE LogBuffer ------------------------------
(***************************************************************************)
(* boundedLogBuffer of internal/plantools/bounded_buffer.go, which keeps   *)
(* the build log of one attempt: the first bytes in head, the newest in    *)
(* tail.  Both methods run under its mutex, so each call is one step.      *)
(* A byte is its position in the log.                                      *)
(***************************************************************************)
EXTENDS Integers, Sequences

CONSTANTS
  Limits,    \* possible limits of a buffer
  MaxTotal,  \* bound of the model: bytes of a log
  Cut        \* the notice of String

ASSUME BufferAssumption ==
  /\ Limits \subseteq Nat
  /\ MaxTotal \in Nat

VARIABLES limit, total, head, tail

bufferVars == <<limit, total, head, tail>>

\* newBoundedLogBuffer splits the limit.
HeadCap == limit \div 3
TailCap == limit - HeadCap

\* head and tail hold log positions and never more than their capacities,
\* which they were allocated with.
BufferTypeOK ==
  /\ limit \in Limits
  /\ total \in 0..MaxTotal
  /\ head \in Seq(1..total) /\ Len(head) <= HeadCap
  /\ tail \in Seq(1..total) /\ Len(tail) <= TailCap

BufferInit ==
  /\ limit \in Limits
  /\ total = 0
  /\ head = << >>
  /\ tail = << >>

\* The bytes after position a, up to position b.
Bytes(a, b) == [i \in 1..(b - a) |-> a + i]

\* How many of n new bytes still go to head.
Take(n) ==
  LET remaining == HeadCap - Len(head)
  IN  IF remaining <= 0 THEN 0 ELSE IF remaining < n THEN remaining ELSE n

\* Mutant: a byte too few is dropped from the tail.
NewTail_OffByOne(p) ==
  LET overflow == Len(tail) + Len(p) - TailCap
  IN  IF p = << >> \/ TailCap = 0 THEN tail
      ELSE IF Len(p) >= TailCap THEN SubSeq(p, Len(p) - TailCap + 1, Len(p))
      ELSE IF overflow > 1 THEN SubSeq(tail, overflow, Len(tail)) \o p
      ELSE tail \o p

\* What tail becomes when the bytes p are written behind it.
NewTail(p) ==
  LET overflow == Len(tail) + Len(p) - TailCap
  IN  IF p = << >> \/ TailCap = 0 THEN tail
      ELSE IF Len(p) >= TailCap THEN SubSeq(p, Len(p) - TailCap + 1, Len(p))
      ELSE IF overflow > 0 THEN SubSeq(tail, overflow + 1, Len(tail)) \o p
      ELSE tail \o p

\* Write of n bytes.
Write(n) ==
  LET p    == Bytes(total, total + n)
      take == Take(n)
  IN  /\ total + n <= MaxTotal
      /\ total' = total + n
      /\ head' = head \o SubSeq(p, 1, take)
      /\ tail' = NewTail(SubSeq(p, take + 1, n))
      /\ UNCHANGED limit

BufferNext == \E n \in 0..MaxTotal : Write(n)

BufferSpec == BufferInit /\ [][BufferNext]_bufferVars

\* Mutant: the notice is left out.
String_NoNotice == head \o tail

\* String: what the retry prompt is made of.
String == IF total <= limit THEN head \o tail ELSE head \o <<Cut>> \o tail

-----------------------------------------------------------------------------
\* Where tail starts: behind head, and at most its capacity from the end.
TailStart ==
  IF total <= HeadCap THEN total
  ELSE IF total - TailCap <= HeadCap THEN HeadCap ELSE total - TailCap

\* However the log is cut into writes, head is its beginning and tail its end
\* (for zero-length, exactly fitting and oversized writes alike).
KeepsBothEnds ==
  /\ head = Bytes(0, IF total <= HeadCap THEN total ELSE HeadCap)
  /\ tail = Bytes(TailStart, total)

\* The buffer keeps the promise of LogWindow: String loses nothing while the
\* log fits, and never loses anything without the notice.
Window == INSTANCE LogWindow WITH view <- String
KeepsPromise == Window!WindowSpec
=============================================================================
