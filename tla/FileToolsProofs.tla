--------------------------- MODULE FileToolsProofs ---------------------------
(***************************************************************************)
(* Proofs about the file tools.                                            *)
(*                                                                         *)
(* Paging through a file or an output, for every text, every first call    *)
(* and every sequence of limits: the pages put together are the text from  *)
(* where the first call began, cut only between runes, and every page      *)
(* takes the reader further.                                               *)
(*                                                                         *)
(* The walks over a project, for every tree, .gitignore and call: none     *)
(* shows a sensitive file, the walk of the build context shows what        *)
(* BuildKit can open, and a tool that reports no truncation has shown all  *)
(* it was asked for.  matchGlob accepts exactly what a pattern covers.     *)
(***************************************************************************)
EXTENDS ReadPages, FileWalk, WellFoundedInduction, SequenceTheorems, TLAPS

\* A rune of the line starts at b, or the line ends there.
Boundary(line, b) == b \in 0..line.len /\ (b = line.len \/ b \in line.starts)

\* A piece is of the file, and cut between runes.
Whole(p) ==
  /\ p.line \in 1..Len(file)
  /\ Boundary(file[p.line], p.from)
  /\ Boundary(file[p.line], p.to)

\* Where the page under way begins in its first line.
PageFrom ==
  IF call.column > 0 THEN StartColumn(file[call.offset + 1], call.column) ELSE 0

\* Piece i of the page is of the i-th line behind the offset.  It begins at the
\* start of the line unless the page begins within it, and ends at its end unless
\* the page does.
PieceOfPage(i) ==
  LET p == call.lines[i]
  IN  /\ p.line = call.offset + i
      /\ p.from = IF i = 1 THEN PageFrom ELSE 0
      /\ p.to = IF i = Len(call.lines) /\ call.splitColumn >= 0
                THEN call.splitColumn ELSE file[p.line].len
      /\ Whole(p)

\* The lines behind the offset that the scan has passed.
Passed == IF call.lineNum > call.offset THEN call.lineNum - call.offset ELSE 0

\* What the read tool has collected.
PageInv ==
  call.tool = "read" =>
    /\ call.limit > 0
    /\ \A i \in 1..Len(call.lines) : PieceOfPage(i)
    /\ call.splitColumn >= 0 =>
         /\ call.hasMore
         /\ call.lines # << >>
         /\ call.splitColumn > call.lines[Len(call.lines)].from
         /\ Len(call.lines) = 1 => call.splitColumn > call.column
    /\ call.step = "scan" => ~call.hasMore
    /\ ~call.hasMore => Len(call.lines) = Passed
    /\ call.lines = << >> => call.contentBytes = 0
    /\ call.step = "returned" /\ status.kind # "error" =>
         IF call.hasMore THEN call.lines # << >> ELSE call.lineNum = Len(file)

\* What read_tool_output starts from.
OutputInv ==
  call.tool = "output" =>
    /\ Len(file) = 1
    /\ call.offset = 0
    /\ call.step = "scan" => call.lines = << >>
    /\ call.step = "returned" => status.kind # "none"
    /\ status.kind = "next" => status.offset = 0

\* The reader is at byte "column" of the line behind "offset".
At(offset, column) ==
  seen # << >> =>
    LET last == seen[Len(seen)]
    IN  \/ last.line = offset + 1 /\ last.to = column /\ column > 0
        \/ last.line = offset /\ last.to = file[last.line].len /\ column = 0

\* A call goes on where the last one ended, and a result names where it ended.
CursorInv ==
  /\ call.step = "scan" => status.kind = "none"
  /\ status.kind = "none" => At(call.offset, call.column)
  /\ status.kind = "next" => At(status.offset, status.column)

\* Piece r goes on where piece p ends.
Follows(p, r) ==
  \/ r.line = p.line /\ r.from = p.to
  \/ r.line = p.line + 1 /\ r.from = 0 /\ p.to = file[p.line].len

SeenInv == \A i \in 1..Len(seen) : Whole(seen[i])

ReadInv ==
  /\ ReadTypeOK /\ PageInv /\ OutputInv /\ CursorInv /\ SeenInv
  /\ NothingSkipped /\ CompleteIsComplete /\ CursorAdvances

-----------------------------------------------------------------------------
\* A set of numbers that is not empty has a least element.
LEMMA MinIsLeast ==
  ASSUME NEW T, T \subseteq Nat, T # {}
  PROVE  Min(T) \in T /\ \A y \in T : Min(T) <= y
<1>1. PICK x \in T : \A y \in T : ~(<<y, x>> \in OpToRel(<, Nat))
  BY NatLessThanWellFounded, WFMin, Zenon
<1>2. \A y \in T : ~(y < x)
  BY <1>1 DEF OpToRel
<1>3. \A y \in T : x <= y
  BY <1>2
<1>4. QED
  BY <1>3 DEF Min

\* A bounded set of numbers that is not empty has a greatest element.
LEMMA MaxIsGreatest ==
  ASSUME NEW n \in Nat, NEW T, T \subseteq 0..n, T # {}
  PROVE  Max(T) \in T /\ \A y \in T : Max(T) >= y
<1> DEFINE U == {n - x : x \in T}
<1>1. U \subseteq Nat /\ U # {}
  <2>1. PICK t : t \in T
    OBVIOUS
  <2>2. n - t \in U
    BY <2>1
  <2>3. \A t1 \in T : n - t1 \in Nat
    OBVIOUS
  <2>4. QED
    BY <2>2, <2>3
<1>2. Min(U) \in U /\ \A y \in U : Min(U) <= y
  BY <1>1, MinIsLeast
<1>3. PICK x \in T : Min(U) = n - x
  BY <1>2
<1>4. \A y \in T : x >= y
  BY <1>2, <1>3
<1>5. QED
  BY <1>4 DEF Max

\* The loop that looks for the next rune start stops at one, or at the end of the
\* line, and does not move if it is at one.
LEMMA StartColumnIsBoundary ==
  ASSUME NEW line \in Lines, NEW column \in 0..line.len
  PROVE  LET b == StartColumn(line, column)
         IN  /\ Boundary(line, b)
             /\ b >= column
             /\ Boundary(line, column) => b = column
<1> DEFINE T == {c \in column..line.len : c = line.len \/ c \in line.starts}
           b == Min(T)
<1>1. line.len \in Nat
  BY ReadAssumption
<1>2. T \subseteq Nat /\ line.len \in T
  BY <1>1
<1>3. b \in T /\ \A y \in T : b <= y
  BY <1>2, MinIsLeast
<1>4. Boundary(line, b) /\ b >= column
  BY <1>1, <1>3 DEF Boundary
<1>5. Boundary(line, column) => column \in T
  BY <1>1 DEF Boundary
<1>6. Boundary(line, column) => b = column
  BY <1>3, <1>4, <1>5
<1>7. QED
  BY <1>4, <1>6 DEF StartColumn

\* safeTextPrefix keeps whole runes, no more than asked for, and at least one if
\* four bytes are.
LEMMA SafeTextPrefixKeepsRunes ==
  ASSUME NEW line \in Lines, NEW from, Boundary(line, from), NEW maxBytes \in Nat
  PROVE  LET e == SafeTextPrefix(line, from, maxBytes)
         IN  /\ e \in 0..maxBytes
             /\ Boundary(line, from + e)
             /\ maxBytes >= 4 /\ from < line.len => e > 0
             /\ from = line.len => e = 0
<1> DEFINE T == {e \in 0..maxBytes : e = 0 \/ from + e \in line.starts}
<1>1. line.len \in Nat /\ line.starts \subseteq 0..(line.len - 1) /\ from \in 0..line.len
  BY ReadAssumption DEF Boundary
<1>2. CASE line.len - from <= maxBytes
  BY <1>1, <1>2 DEF SafeTextPrefix, Boundary
<1>3. CASE ~(line.len - from <= maxBytes)
  <2>1. T \subseteq 0..maxBytes /\ 0 \in T
    OBVIOUS
  <2>2. Max(T) \in T /\ \A y \in T : Max(T) >= y
    BY <2>1, MaxIsGreatest
  <2>3. PICK m \in T : m = Max(T)
    BY <2>2
  <2>4. SafeTextPrefix(line, from, maxBytes) = m
    BY <1>3, <2>3 DEF SafeTextPrefix
  <2>5. m \in 0..maxBytes /\ Boundary(line, from + m)
    BY <1>1, <2>3 DEF Boundary
  <2>6. ASSUME maxBytes >= 4 PROVE m > 0
    <3>1. from \in line.starts
      BY <1>1, <1>3, <2>6 DEF Boundary
    <3>2. PICK e \in 1..4 : from + e = line.len \/ from + e \in line.starts
      BY <3>1, ReadAssumption
    <3>3. e \in T
      BY <1>1, <1>3, <2>6, <3>2
    <3>4. QED
      BY <2>2, <2>3, <3>3
  <2>7. from # line.len
    BY <1>1, <1>3
  <2>8. QED
    BY <2>4, <2>5, <2>6, <2>7
<1>4. QED
  BY <1>2, <1>3

\* A page of an output is not empty unless nothing is left, and ends between two
\* runes.
LEMMA PageEndIsBoundary ==
  ASSUME NEW line \in Lines, NEW start, Boundary(line, start), NEW limit \in Nat
  PROVE  LET end == PageEnd(line, start, limit)
         IN  /\ Boundary(line, end)
             /\ start < line.len => end > start
             /\ start = line.len => end = line.len
<1> DEFINE e == SafeTextPrefix(line, start, limit)
           T == {x \in (start + 1)..line.len : x = line.len \/ x \in line.starts}
<1>1. line.len \in Nat /\ start \in 0..line.len
  BY ReadAssumption DEF Boundary
<1>2. e \in 0..limit /\ Boundary(line, start + e) /\ (start = line.len => e = 0)
  BY SafeTextPrefixKeepsRunes
<1>3. CASE start + e > start \/ start = line.len
  <2>1. PageEnd(line, start, limit) = start + e
    BY <1>3 DEF PageEnd
  <2>2. QED
    BY <1>1, <1>2, <1>3, <2>1
<1>4. CASE ~(start + e > start \/ start = line.len)
  <2>1. PageEnd(line, start, limit) = Min(T)
    BY <1>4 DEF PageEnd
  <2>2. T \subseteq Nat /\ line.len \in T
    BY <1>1, <1>4
  <2>3. Min(T) \in T
    BY <2>2, MinIsLeast
  <2>4. QED
    BY <1>1, <1>4, <2>1, <2>3 DEF Boundary
<1>5. QED
  BY <1>3, <1>4

\* The locals of a call, as a record.
CallOf(tool, step, offset, column, limit, n, bytes, lines, more, split) ==
  [tool |-> tool, step |-> step, offset |-> offset, column |-> column, limit |-> limit,
   lineNum |-> n, contentBytes |-> bytes, lines |-> lines, hasMore |-> more,
   splitColumn |-> split]

\* The types of the locals, one by one.
LEMMA CallFields ==
  ASSUME ReadTypeOK
  PROVE  /\ call = CallOf(call.tool, call.step, call.offset, call.column, call.limit,
                          call.lineNum, call.contentBytes, call.lines, call.hasMore,
                          call.splitColumn)
         /\ call.tool \in {"read", "output"} /\ call.step \in {"scan", "returned"}
         /\ call.offset \in Nat /\ call.column \in Nat /\ call.limit \in Nat
         /\ call.lineNum \in 0..Len(file) /\ call.contentBytes \in 0..MaxReadBytes
         /\ call.lines \in Seq(Piece) /\ call.hasMore \in BOOLEAN
         /\ call.splitColumn \in {-1} \cup Nat
BY DEF ReadTypeOK, ReadCall, CallOf

\* A page that ends before line n is shown in full.
LEMMA StoppedFields ==
  ASSUME ReadTypeOK, NEW n
  PROVE  Stopped(n) = CallOf(call.tool, "returned", call.offset, call.column, call.limit,
                             n, call.contentBytes, call.lines, TRUE, call.splitColumn)
<1>1. PICK t, s, o, c, l, k, b, q, m, x :
        /\ call = CallOf(t, s, o, c, l, k, b, q, m, x)
        /\ t = call.tool /\ o = call.offset /\ c = call.column /\ l = call.limit
        /\ b = call.contentBytes /\ q = call.lines /\ x = call.splitColumn
  BY CallFields, Zenon
<1>2. Stopped(n) = [[[call EXCEPT !.lineNum = n] EXCEPT !.step = "returned"]
                      EXCEPT !.hasMore = TRUE]
  BY DEF Stopped
<1>3. PICK d : d = CallOf(t, s, o, c, l, n, b, q, m, x)
  OBVIOUS
<1>4. [call EXCEPT !.lineNum = n] = d
  BY <1>1, <1>3 DEF CallOf
<1>5. PICK e : e = CallOf(t, "returned", o, c, l, n, b, q, m, x)
  OBVIOUS
<1>6. [d EXCEPT !.step = "returned"] = e
  BY <1>3, <1>5 DEF CallOf
<1>7. PICK yes : yes = TRUE
  OBVIOUS
<1>8. [e EXCEPT !.hasMore = yes] = CallOf(t, "returned", o, c, l, n, b, q, yes, x)
  BY <1>5 DEF CallOf
<1>9. QED
  BY <1>1, <1>2, <1>4, <1>6, <1>7, <1>8, Zenon

\* The arithmetic of a cut: the mark behind it is within the budget.
LEMMA CutFits ==
  ASSUME NEW k \in Nat, NEW prefix \in Nat, NEW part \in Nat, NEW mark \in Nat,
         NEW max \in Nat, part <= max - k - prefix - mark - 1
  PROVE  k + prefix + part + mark \in 0..max
OBVIOUS

\* A line of the file, and the place where a page begins in it.
LEMMA LineOfFile ==
  ASSUME ReadTypeOK, NEW n \in 1..Len(file)
  PROVE  /\ file[n] \in Lines /\ file[n].len \in Nat
         /\ Boundary(file[n], 0) /\ Boundary(file[n], file[n].len)
BY ReadAssumption DEF ReadTypeOK, Boundary

\* One more line of the page: it is shown to its end, or cut between two runes at
\* the end of the page, or left for the next page, but not the first one.
LEMMA ShowLineEffect ==
  ASSUME ReadTypeOK, PageInv, Reading("read"), ShowLine,
         call.lineNum + 1 \in 1..Len(file), call.lineNum + 1 > call.offset,
         call.lineNum + 1 = call.offset + 1 => call.column <= file[call.lineNum + 1].len
  PROVE  LET n    == call.lineNum + 1
             from == IF n = call.offset + 1 THEN PageFrom ELSE 0
         IN  /\ call'.tool = call.tool /\ call'.offset = call.offset
             /\ call'.column = call.column /\ call'.limit = call.limit
             /\ call'.lineNum = n
             /\ Boundary(file[n], from)
             /\ call' \in ReadCall
             /\ \/ /\ call'.step = "scan" /\ ~call'.hasMore
                   /\ call'.splitColumn = -1
                   /\ call'.lines
                        = Append(call.lines, [line |-> n, from |-> from, to |-> file[n].len])
                \/ /\ call'.step = "returned" /\ call'.hasMore
                   /\ call'.splitColumn > from /\ Boundary(file[n], call'.splitColumn)
                   /\ n = call.offset + 1 => call'.splitColumn > call.column
                   /\ call'.lines
                        = Append(call.lines, [line |-> n, from |-> from, to |-> call'.splitColumn])
                \/ /\ call'.step = "returned" /\ call'.hasMore
                   /\ call'.splitColumn = -1
                   /\ call'.lines = call.lines /\ call.lines # << >>
<1>1. PICK n \in 1..Len(file) : n = call.lineNum + 1
  OBVIOUS
<1>2. PICK line \in Lines : line = file[n]
  BY <1>1, LineOfFile
<1>3. line.len \in Nat /\ Boundary(line, 0)
  BY <1>2, LineOfFile
<1>4. PICK c : c = call
  OBVIOUS
<1>5. c = CallOf(c.tool, c.step, c.offset, c.column, c.limit, c.lineNum, c.contentBytes,
                 c.lines, c.hasMore, c.splitColumn)
  BY <1>4, CallFields, Zenon
<1>0. /\ c.tool = "read" /\ c.step = "scan"
      /\ c.offset \in Nat /\ c.column \in Nat /\ c.limit \in Nat
      /\ c.lineNum \in 0..Len(file) /\ c.contentBytes \in 0..MaxReadBytes
      /\ c.lines \in Seq(Piece) /\ c.hasMore = FALSE
      /\ c.splitColumn = -1
      /\ c.lines = << >> => c.contentBytes = 0
  <2>1. c.hasMore = FALSE /\ ~(c.splitColumn >= 0) /\ c.tool = "read" /\ c.step = "scan"
        /\ (c.lines = << >> => c.contentBytes = 0)
    BY <1>4, CallFields DEF PageInv, Reading
  <2>2. QED
    BY <1>4, <2>1, CallFields
<1> DEFINE resumed == n = c.offset + 1 /\ c.column > 0
<1>7. PICK from : from = IF resumed THEN StartColumn(line, c.column) ELSE 0
  OBVIOUS
<1>8. /\ Boundary(line, from) /\ from \in 0..line.len
      /\ n = c.offset + 1 => from >= c.column
  <2>1. CASE resumed
    <3>1. c.column \in 0..line.len
      BY <1>0, <1>1, <1>2, <1>3, <1>4, <2>1
    <3>2. QED
      BY <1>7, <2>1, <3>1, StartColumnIsBoundary DEF Boundary
  <2>2. CASE ~resumed
    BY <1>0, <1>3, <1>7, <2>2 DEF Boundary
  <2>3. QED
    BY <2>1, <2>2
<1>9. from = IF n = call.offset + 1 THEN PageFrom ELSE 0
  <2>1. n = c.offset + 1 => file[call.offset + 1] = line
    BY <1>2, <1>4
  <2>2. QED
    BY <1>4, <1>7, <2>1 DEF PageFrom
<1>10. PICK prefix : prefix = IF resumed THEN PrefixBytes + EllipsisBytes ELSE PrefixBytes
  OBVIOUS
<1>11. /\ prefix \in Nat
       /\ MaxReadBytes - prefix - EllipsisBytes - 1 >= 4
       /\ EllipsisBytes \in Nat /\ MaxReadBytes \in Nat
  BY <1>10, ReadAssumption
<1>12. PICK size \in Nat : size = prefix + (line.len - from) + 1
  BY <1>3, <1>8, <1>11
<1>13. PICK room \in Int : room = MaxReadBytes - c.contentBytes - prefix - EllipsisBytes - 1
  BY <1>0, <1>11
<1>14. PICK most \in Nat : most = IF room > 0 THEN room ELSE 0
  BY <1>13
<1>15. PICK part : part = SafeTextPrefix(line, from, most)
  OBVIOUS
<1>16. /\ part \in 0..most /\ Boundary(line, from + part)
       /\ most >= 4 /\ from < line.len => part > 0
  BY <1>8, <1>14, <1>15, SafeTextPrefixKeepsRunes
<1>17. call' =
         IF c.contentBytes + size <= MaxReadBytes
         THEN [c EXCEPT !.lineNum = n, !.contentBytes = @ + size,
                 !.lines = Append(@, [line |-> n, from |-> from, to |-> line.len])]
         ELSE [Stopped(n) EXCEPT
                 !.contentBytes =
                    IF part > 0 THEN @ + prefix + part + EllipsisBytes ELSE @,
                 !.lines =
                    IF part > 0
                    THEN Append(@, [line |-> n, from |-> from, to |-> from + part])
                    ELSE @,
                 !.splitColumn = IF part > 0 THEN from + part ELSE @]
  BY <1>1, <1>2, <1>4, <1>7, <1>10, <1>12, <1>13, <1>14, <1>15, ZenonT(40)
     DEF ShowLine, Remaining

<1>18. CASE c.contentBytes + size <= MaxReadBytes
  <2>1. PICK p \in Piece : p = [line |-> n, from |-> from, to |-> line.len]
    <3>1. n \in Nat /\ from \in Nat /\ line.len \in Nat
      BY <1>1, <1>3, <1>8
    <3>2. QED
      BY <3>1 DEF Piece
  <2> DEFINE Now(bytes, q) == CallOf(c.tool, c.step, c.offset, c.column, c.limit, n, bytes, q,
                                     c.hasMore, c.splitColumn)
  <2>2. call' = Now(c.contentBytes + size, Append(c.lines, p))
    BY <1>5, <1>17, <1>18, <2>1 DEF CallOf
  <2>3. c.contentBytes + size \in 0..MaxReadBytes /\ n \in 0..Len(file)
        /\ Append(c.lines, p) \in Seq(Piece)
    BY <1>0, <1>1, <1>12, <1>18, <2>1
  <2>4. call' \in ReadCall
    BY <1>0, <2>2, <2>3 DEF ReadCall, CallOf
  <2>5. QED
    BY <1>0, <1>1, <1>2, <1>4, <1>8, <1>9, <2>1, <2>2, <2>4 DEF CallOf
<1>19. CASE ~(c.contentBytes + size <= MaxReadBytes) /\ part > 0
  <2>0. PICK yes : yes = TRUE
    OBVIOUS
  <2> DEFINE Now(bytes, q, split) == CallOf(c.tool, "returned", c.offset, c.column, c.limit, n,
                                            bytes, q, yes, split)
  <2>1. /\ from + part \in Nat /\ from + part > from
        /\ n = c.offset + 1 => from + part > c.column
    <3>1. from \in Nat /\ c.column \in Nat
      BY <1>0, <1>3, <1>8
    <3>2. part \in Nat /\ part > 0
      BY <1>14, <1>16, <1>19
    <3>3. n = c.offset + 1 => from >= c.column
      BY <1>8
    <3>4. QED
      BY <3>1, <3>2, <3>3
  <2>2. PICK p \in Piece : p = [line |-> n, from |-> from, to |-> from + part]
    <3>1. n \in Nat /\ from \in Nat
      BY <1>1, <1>3, <1>8
    <3>2. QED
      BY <2>1, <3>1 DEF Piece
  <2>3. PICK bytes : bytes = c.contentBytes + prefix + part + EllipsisBytes
    OBVIOUS
  <2>4. Stopped(n) = Now(c.contentBytes, c.lines, c.splitColumn)
    BY <1>4, <2>0, StoppedFields, Zenon
  <2>5. call' = Now(bytes, Append(c.lines, p), from + part)
    <3>0. PICK q, to : q = Append(c.lines, p) /\ to = from + part
      OBVIOUS
    <3>1. PICK d : d = Now(c.contentBytes, c.lines, c.splitColumn)
      OBVIOUS
    <3>2. d.contentBytes = c.contentBytes /\ d.lines = c.lines
      BY <3>1 DEF CallOf
    <3>3. call' = [d EXCEPT !.contentBytes = @ + prefix + part + EllipsisBytes,
                            !.lines = Append(@, p), !.splitColumn = from + part]
      BY <1>17, <1>19, <2>2, <2>4, <3>1
    <3>4. call' = [[[d EXCEPT !.contentBytes = bytes] EXCEPT !.lines = q]
                     EXCEPT !.splitColumn = to]
      BY <2>3, <3>0, <3>2, <3>3
    <3>5. PICK e : e = Now(bytes, c.lines, c.splitColumn)
      OBVIOUS
    <3>6. [d EXCEPT !.contentBytes = bytes] = e
      BY <3>1, <3>5 DEF CallOf
    <3>7. PICK g : g = Now(bytes, q, c.splitColumn)
      OBVIOUS
    <3>8. [e EXCEPT !.lines = q] = g
      BY <3>5, <3>7 DEF CallOf
    <3>9. [g EXCEPT !.splitColumn = to] = Now(bytes, q, to)
      BY <3>7 DEF CallOf
    <3>10. QED
      BY <3>0, <3>4, <3>6, <3>8, <3>9
  <2>6. bytes \in 0..MaxReadBytes /\ n \in 0..Len(file) /\ Append(c.lines, p) \in Seq(Piece)
    <3>1. part \in Nat /\ part <= room
      BY <1>14, <1>16, <1>19
    <3>2. bytes \in 0..MaxReadBytes
      <4>1. c.contentBytes \in Nat /\ prefix \in Nat /\ EllipsisBytes \in Nat
            /\ MaxReadBytes \in Nat
        BY <1>0, <1>11
      <4>2. part <= MaxReadBytes - c.contentBytes - prefix - EllipsisBytes - 1
        BY <1>13, <3>1
      <4>3. QED
        BY <2>3, <3>1, <4>1, <4>2, CutFits
    <3>3. QED
      BY <1>0, <1>1, <2>2, <3>2
  <2>7. call' \in ReadCall
    BY <1>0, <2>0, <2>1, <2>5, <2>6 DEF ReadCall, CallOf
  <2>8. QED
    BY <1>0, <1>1, <1>2, <1>4, <1>8, <1>9, <1>16, <2>0, <2>1, <2>2, <2>5, <2>7 DEF CallOf
<1>20. CASE ~(c.contentBytes + size <= MaxReadBytes) /\ ~(part > 0)
  <2> DEFINE Now(bytes, q, split) == CallOf(c.tool, "returned", c.offset, c.column, c.limit, n,
                                            bytes, q, TRUE, split)
  <2>1. Stopped(n) = Now(c.contentBytes, c.lines, c.splitColumn)
    BY <1>4, StoppedFields, Zenon
  <2>2. call' = Now(c.contentBytes, c.lines, c.splitColumn)
    BY <1>17, <1>20, <2>1 DEF CallOf
  <2>3. c.lines # << >>
    <3>1. ASSUME c.contentBytes = 0 PROVE FALSE
      <4>1. room >= 4 /\ most >= 4
        BY <1>11, <1>13, <1>14, <3>1
      <4>2. from < line.len
        BY <1>3, <1>8, <1>11, <1>12, <1>20, <3>1
      <4>3. QED
        BY <1>16, <1>20, <4>1, <4>2
    <3>2. QED
      BY <1>0, <3>1
  <2>4. call' \in ReadCall
    BY <1>0, <1>1, <2>2 DEF ReadCall, CallOf
  <2>5. QED
    BY <1>0, <1>1, <1>2, <1>4, <1>8, <1>9, <2>2, <2>3, <2>4 DEF CallOf
<1>21. QED
  BY <1>18, <1>19, <1>20

-----------------------------------------------------------------------------
\* The pieces of a page are its lines in order, also after one more is added.
LEMMA PieceAdded ==
  ASSUME ReadTypeOK, PageInv, call.tool = "read", ~call.hasMore,
         call.lineNum >= call.offset, call.lineNum + 1 \in 1..Len(file),
         NEW from, NEW to, from = IF call.lineNum = call.offset THEN PageFrom ELSE 0,
         Boundary(file[call.lineNum + 1], from), Boundary(file[call.lineNum + 1], to),
         call'.lines = Append(call.lines, [line |-> call.lineNum + 1, from |-> from, to |-> to]),
         \/ call'.splitColumn = -1 /\ to = file[call.lineNum + 1].len
         \/ call'.splitColumn = to,
         call'.offset = call.offset, call'.column = call.column, file' = file
  PROVE  /\ \A i \in 1..Len(call'.lines) : PieceOfPage(i)'
         /\ Len(call'.lines) = call.lineNum + 1 - call.offset
         /\ call'.lines # << >>
         /\ call'.lines[Len(call'.lines)].from = from
<1>1. PICK q : q = call.lines
  OBVIOUS
<1>2. PICK n : n = call.lineNum + 1
  OBVIOUS
<1>3. PICK p : p = [line |-> n, from |-> from, to |-> to]
  OBVIOUS
<1>4. /\ q \in Seq(Piece) /\ Len(q) \in Nat
      /\ call.offset \in Nat /\ call.lineNum \in Nat /\ n \in Nat
      /\ call.splitColumn \in {-1} \cup Nat
  BY <1>1, <1>2, CallFields
<1>5. call'.lines = Append(q, p)
  BY <1>1, <1>2, <1>3
<1>6. Len(q) = call.lineNum - call.offset /\ call.splitColumn = -1
      /\ \A i \in 1..Len(q) : PieceOfPage(i)
  <2>1. Len(q) = Passed /\ ~(call.splitColumn >= 0) /\ \A i \in 1..Len(q) : PieceOfPage(i)
    BY <1>1 DEF PageInv
  <2>2. QED
    BY <1>4, <2>1 DEF Passed
<1>7. /\ Len(call'.lines) = Len(q) + 1
      /\ call'.lines[Len(q) + 1] = p
      /\ \A i \in 1..Len(q) : call'.lines[i] = q[i]
  <2>1. from \in Nat /\ to \in Nat
    BY LineOfFile DEF Boundary
  <2>2. p \in Piece
    BY <1>3, <1>4, <2>1 DEF Piece
  <2>3. /\ Len(Append(q, p)) = Len(q) + 1 /\ Append(q, p)[Len(q) + 1] = p
        /\ \A i \in 1..Len(q) : Append(q, p)[i] = q[i]
    BY <1>4, <2>2, AppendProperties
  <2>4. QED
    BY <1>5, <2>3, Zenon
<1>8. PageFrom' = PageFrom
  BY DEF PageFrom
<1>9. ASSUME NEW i \in 1..Len(q) PROVE PieceOfPage(i)'
  <2>1. PICK r : r = q[i]
    OBVIOUS
  <2>2. /\ r.line = call.offset + i
        /\ r.from = IF i = 1 THEN PageFrom ELSE 0
        /\ r.to = file[r.line].len
        /\ Whole(r)
    BY <1>1, <1>6, <2>1 DEF PieceOfPage
  <2>3. Whole(r)'
    BY <2>2 DEF Whole
  <2>4. i # Len(call'.lines) /\ call'.lines[i] = r
    BY <1>4, <1>7, <2>1
  <2>5. QED
    BY <1>8, <2>2, <2>3, <2>4 DEF PieceOfPage, Whole
<1>10. PieceOfPage(Len(q) + 1)'
  <2>1. p.line = call.offset + (Len(q) + 1) /\ p.from = from /\ p.to = to /\ p.line = n
    BY <1>2, <1>3, <1>4, <1>6
  <2>2. from = IF Len(q) + 1 = 1 THEN PageFrom ELSE 0
    BY <1>4, <1>6
  <2>3. Whole(p)'
    BY <1>2, <2>1 DEF Whole
  <2>4. to = IF call'.splitColumn >= 0 THEN call'.splitColumn ELSE file[p.line].len
    <3>1. to \in Nat
      BY <1>2, LineOfFile DEF Boundary
    <3>2. QED
      BY <1>2, <2>1, <3>1
  <2>5. QED
    BY <1>7, <1>8, <2>1, <2>2, <2>3, <2>4 DEF PieceOfPage, Whole
<1>11. \A i \in 1..Len(call'.lines) : PieceOfPage(i)'
  <2>1. \A i \in 1..Len(call'.lines) : i \in 1..Len(q) \/ i = Len(q) + 1
    BY <1>4, <1>7
  <2>2. QED
    BY <1>9, <1>10, <2>1
<1>12. QED
  BY <1>2, <1>3, <1>4, <1>5, <1>6, <1>7, <1>11, SMTT(30)

\* A turn of the scan loop leaves what has been reported alone.
LEMMA ScanKeeps ==
  ASSUME ReadInv, UNCHANGED <<file, status, seen>>, call.tool = "read", call.step = "scan",
         call'.tool = call.tool, call'.offset = call.offset, call'.column = call.column,
         call' \in ReadCall, PageInv'
  PROVE  ReadInv'
<1>1. status.kind = "none"
  BY DEF ReadInv, CursorInv
<1>2. ReadTypeOK'
  BY DEF ReadInv, ReadTypeOK, ReadCall
<1>3. OutputInv'
  BY DEF OutputInv
<1>4. CursorInv'
  BY <1>1 DEF ReadInv, CursorInv, At
<1>5. SeenInv' /\ NothingSkipped'
  BY DEF ReadInv, SeenInv, NothingSkipped, Whole
<1>6. CompleteIsComplete' /\ CursorAdvances'
  BY <1>1 DEF CompleteIsComplete, CursorAdvances
<1>7. QED
  BY <1>2, <1>3, <1>4, <1>5, <1>6 DEF ReadInv

\* The pages of a call that has gathered nothing new are as they were.
LEMMA PiecesKept ==
  ASSUME PageInv, call.tool = "read", UNCHANGED file,
         call'.lines = call.lines, call'.offset = call.offset, call'.column = call.column,
         call'.splitColumn = call.splitColumn
  PROVE  \A i \in 1..Len(call'.lines) : PieceOfPage(i)'
<1>1. PageFrom' = PageFrom
  BY DEF PageFrom
<1>2. \A i \in 1..Len(call.lines) : PieceOfPage(i)
  BY DEF PageInv
<1>3. QED
  BY <1>1, <1>2 DEF PieceOfPage, Whole

\* The loop of the read tool keeps the page consistent with the file.
LEMMA ScanStep ==
  ASSUME ReadInv, Scan
  PROVE  ReadInv'
<1>1. /\ UNCHANGED <<file, status, seen>>
      /\ call.tool = "read" /\ call.step = "scan"
      /\ call.lineNum + 1 <= Len(file)
  BY DEF Scan, Reading
<1>2. PICK c : c = call
  OBVIOUS
<1>3. /\ c = CallOf(c.tool, c.step, c.offset, c.column, c.limit, c.lineNum, c.contentBytes,
                    c.lines, c.hasMore, c.splitColumn)
      /\ c.tool \in {"read", "output"} /\ c.step \in {"scan", "returned"}
      /\ c.offset \in Nat /\ c.column \in Nat /\ c.limit \in Nat
      /\ c.lineNum \in 0..Len(file) /\ c.contentBytes \in 0..MaxReadBytes
      /\ c.lines \in Seq(Piece) /\ c.hasMore \in BOOLEAN
      /\ c.splitColumn \in {-1} \cup Nat
  BY <1>2, CallFields DEF ReadInv
<1>4. Len(file) \in Nat /\ c.lineNum \in Nat /\ c.lineNum + 1 \in 1..Len(file)
  BY <1>1, <1>2, <1>3 DEF ReadInv, ReadTypeOK
<1>5. /\ c.limit > 0 /\ ~c.hasMore /\ ~(c.splitColumn >= 0) /\ Len(c.lines) = Passed
      /\ (c.lines = << >> => c.contentBytes = 0)
  BY <1>1, <1>2 DEF ReadInv, PageInv
<1>6. CASE c.lineNum + 1 <= c.offset /\ call' = [call EXCEPT !.lineNum = c.lineNum + 1]
  <2>1. PICK n \in 0..Len(file) : n = c.lineNum + 1
    BY <1>4
  <2>2. call' = CallOf(c.tool, c.step, c.offset, c.column, c.limit, n, c.contentBytes,
                       c.lines, c.hasMore, c.splitColumn)
    <3>1. call' = [c EXCEPT !.lineNum = n]
      BY <1>2, <1>6, <2>1
    <3>2. QED
      BY <1>3, <3>1 DEF CallOf
  <2>3. /\ call' \in ReadCall
        /\ call'.tool = c.tool /\ call'.offset = c.offset /\ call'.column = c.column
        /\ call'.step = c.step /\ call'.limit = c.limit /\ call'.lines = c.lines
        /\ call'.hasMore = c.hasMore /\ call'.splitColumn = c.splitColumn
        /\ call'.contentBytes = c.contentBytes /\ call'.lineNum = n
    BY <1>3, <2>2 DEF ReadCall, CallOf
  <2>4. \A i \in 1..Len(call'.lines) : PieceOfPage(i)'
    BY <1>1, <1>2, <2>3, PiecesKept DEF ReadInv
  <2>5. Len(call'.lines) = Passed'
    BY <1>2, <1>3, <1>4, <1>5, <1>6, <2>1, <2>3 DEF Passed
  <2>6. PageInv'
    BY <1>1, <1>2, <1>5, <2>3, <2>4, <2>5 DEF PageInv
  <2>7. QED
    BY <1>1, <1>2, <2>3, <2>6, ScanKeeps
<1>7. CASE /\ c.lineNum + 1 > c.offset /\ Len(c.lines) >= c.limit
           /\ call' = Stopped(c.lineNum + 1)
  <2>1. PICK n \in 0..Len(file) : n = c.lineNum + 1
    BY <1>4
  <2>2. call' = CallOf(c.tool, "returned", c.offset, c.column, c.limit, n, c.contentBytes,
                       c.lines, TRUE, c.splitColumn)
    BY <1>2, <1>7, <2>1, StoppedFields, Zenon DEF ReadInv
  <2>3. /\ call' \in ReadCall
        /\ call'.tool = c.tool /\ call'.offset = c.offset /\ call'.column = c.column
        /\ call'.step = "returned" /\ call'.limit = c.limit /\ call'.lines = c.lines
        /\ call'.hasMore /\ call'.splitColumn = c.splitColumn
        /\ call'.contentBytes = c.contentBytes
    BY <1>3, <2>2 DEF ReadCall, CallOf
  <2>4. \A i \in 1..Len(call'.lines) : PieceOfPage(i)'
    BY <1>1, <1>2, <2>3, PiecesKept DEF ReadInv
  <2>5. c.lines # << >>
    BY <1>3, <1>5, <1>7
  <2>6. PageInv'
    BY <1>5, <2>3, <2>4, <2>5 DEF PageInv
  <2>7. QED
    BY <1>1, <1>2, <2>3, <2>6, ScanKeeps
<1>8. CASE /\ c.lineNum + 1 > c.offset
           /\ c.lineNum + 1 = c.offset + 1 => c.column <= file[c.lineNum + 1].len
           /\ ShowLine
  <2>1. PICK from : from = IF c.lineNum + 1 = c.offset + 1 THEN PageFrom ELSE 0
    OBVIOUS
  <2>2. /\ call'.tool = c.tool /\ call'.offset = c.offset
        /\ call'.column = c.column /\ call'.limit = c.limit
        /\ call'.lineNum = c.lineNum + 1
        /\ Boundary(file[c.lineNum + 1], from)
        /\ call' \in ReadCall
        /\ \/ /\ call'.step = "scan" /\ ~call'.hasMore
              /\ call'.splitColumn = -1
              /\ call'.lines = Append(c.lines, [line |-> c.lineNum + 1, from |-> from,
                                                to |-> file[c.lineNum + 1].len])
           \/ /\ call'.step = "returned" /\ call'.hasMore
              /\ call'.splitColumn > from /\ Boundary(file[c.lineNum + 1], call'.splitColumn)
              /\ c.lineNum + 1 = c.offset + 1 => call'.splitColumn > c.column
              /\ call'.lines = Append(c.lines, [line |-> c.lineNum + 1, from |-> from,
                                                to |-> call'.splitColumn])
           \/ /\ call'.step = "returned" /\ call'.hasMore
              /\ call'.splitColumn = -1
              /\ call'.lines = c.lines /\ c.lines # << >>
    <3>1. Reading("read")
      BY <1>1 DEF Reading
    <3>2. QED
      BY <1>2, <1>4, <1>8, <2>1, <3>1, ShowLineEffect DEF ReadInv
  <2>3. c.lineNum >= c.offset /\ (c.lineNum + 1 = c.offset + 1 <=> c.lineNum = c.offset)
    BY <1>3, <1>4, <1>8
  <2>4. CASE /\ call'.step = "scan" /\ ~call'.hasMore /\ call'.splitColumn = -1
             /\ call'.lines = Append(c.lines, [line |-> c.lineNum + 1, from |-> from,
                                               to |-> file[c.lineNum + 1].len])
    <3>1. Boundary(file[c.lineNum + 1], file[c.lineNum + 1].len)
      BY <1>4, LineOfFile DEF ReadInv
    <3>2. /\ \A i \in 1..Len(call'.lines) : PieceOfPage(i)'
          /\ Len(call'.lines) = c.lineNum + 1 - c.offset
          /\ call'.lines # << >>
      BY <1>1, <1>2, <1>4, <1>5, <2>1, <2>2, <2>3, <2>4, <3>1, PieceAdded DEF ReadInv
    <3>3. Len(call'.lines) = Passed'
      BY <1>3, <1>4, <2>2, <2>3, <3>2 DEF Passed
    <3>4. PageInv'
      BY <1>5, <2>2, <2>4, <3>2, <3>3 DEF PageInv
    <3>5. QED
      BY <1>1, <1>2, <2>2, <3>4, ScanKeeps
  <2>5. CASE /\ call'.step = "returned" /\ call'.hasMore
             /\ call'.splitColumn > from /\ Boundary(file[c.lineNum + 1], call'.splitColumn)
             /\ c.lineNum + 1 = c.offset + 1 => call'.splitColumn > c.column
             /\ call'.lines = Append(c.lines, [line |-> c.lineNum + 1, from |-> from,
                                               to |-> call'.splitColumn])
    <3>1. PICK to : to = call'.splitColumn
      OBVIOUS
    <3>2. /\ \A i \in 1..Len(call'.lines) : PieceOfPage(i)'
          /\ call'.lines # << >>
          /\ Len(call'.lines) = c.lineNum + 1 - c.offset
          /\ call'.lines[Len(call'.lines)].from = from
      BY <1>1, <1>2, <1>4, <1>5, <2>1, <2>2, <2>3, <2>5, <3>1, PieceAdded DEF ReadInv
    <3>3. Len(call'.lines) = 1 => call'.splitColumn > c.column
      BY <1>3, <1>4, <2>5, <3>2
    <3>4. PageInv'
      BY <1>5, <2>2, <2>5, <3>2, <3>3 DEF PageInv
    <3>5. QED
      BY <1>1, <1>2, <2>2, <3>4, ScanKeeps
  <2>6. CASE /\ call'.step = "returned" /\ call'.hasMore /\ call'.splitColumn = -1
             /\ call'.lines = c.lines /\ c.lines # << >>
    <3>1. c.splitColumn = -1
      BY <1>3, <1>5
    <3>2. \A i \in 1..Len(call'.lines) : PieceOfPage(i)'
      BY <1>1, <1>2, <2>2, <2>6, <3>1, PiecesKept DEF ReadInv
    <3>3. PageInv'
      BY <1>5, <2>2, <2>6, <3>2 DEF PageInv
    <3>4. QED
      BY <1>1, <1>2, <2>2, <3>3, ScanKeeps
  <2>7. QED
    BY <2>2, <2>4, <2>5, <2>6
<1>9. QED
  BY <1>2, <1>6, <1>7, <1>8 DEF Scan

-----------------------------------------------------------------------------
\* Pieces that go on where the last one ended may be shown next.
LEMMA SeenGrows ==
  ASSUME seen \in Seq(Piece), SeenInv, NothingSkipped,
         NEW q \in Seq(Piece), seen' = seen \o q, UNCHANGED file,
         \A j \in 1..Len(q) : Whole(q[j]),
         \A j \in 1..(Len(q) - 1) : Follows(q[j], q[j + 1]),
         seen # << >> /\ q # << >> => Follows(seen[Len(seen)], q[1])
  PROVE  /\ seen' \in Seq(Piece)
         /\ SeenInv' /\ NothingSkipped'
         /\ q # << >> => seen' # << >> /\ seen'[Len(seen')] = q[Len(q)]
         /\ q = << >> => seen' = seen
<1> DEFINE m == Len(seen)
           k == Len(q)
<1>1. /\ m \in Nat /\ k \in Nat
      /\ seen' \in Seq(Piece) /\ Len(seen') = m + k
      /\ \A i \in 1..m : seen'[i] = seen[i]
  OBVIOUS
<1>2. \A j \in 1..k : seen'[m + j] = q[j]
  <2>1. ASSUME NEW j \in 1..k PROVE (seen \o q)[m + j] = q[j]
    BY <1>1
  <2>2. QED
    BY <2>1
<1>3. ASSUME NEW i \in 1..(m + k), ~(i \in 1..m)
      PROVE  \E j \in 1..k : i = m + j
  <2>1. i - m \in 1..k /\ i = m + (i - m)
    BY <1>1, <1>3
  <2>2. QED
    BY <2>1
<1>4. ASSUME NEW i \in 1..(m + k) PROVE Whole(seen[i])'
  <2>1. PICK p : p = seen'[i]
    OBVIOUS
  <2>2. Whole(p)
    <3>1. CASE i \in 1..m
      BY <1>1, <2>1, <3>1 DEF SeenInv
    <3>2. CASE ~(i \in 1..m)
      <4>1. PICK j \in 1..k : i = m + j
        BY <1>3, <3>2
      <4>2. QED
        BY <1>2, <2>1, <4>1
    <3>3. QED
      BY <3>1, <3>2
  <2>3. QED
    BY <2>1, <2>2 DEF Whole
<1>5. SeenInv'
  BY <1>1, <1>4 DEF SeenInv
<1>6. ASSUME NEW i \in 1..(m + k - 1) PROVE Follows(seen'[i], seen'[i + 1])
  <2>1. CASE i < m
    <3>1. i \in 1..m /\ i + 1 \in 1..m /\ i \in 1..(m - 1)
      BY <1>1, <2>1
    <3>2. QED
      BY <1>1, <3>1 DEF NothingSkipped, Follows
  <2>2. CASE i = m
    <3>1. m \in 1..m /\ 1 \in 1..k /\ seen # << >> /\ q # << >>
      BY <1>1, <2>2
    <3>2. seen'[i] = seen[m] /\ seen'[i + 1] = q[1]
      BY <1>1, <1>2, <2>2, <3>1
    <3>3. QED
      BY <3>1, <3>2
  <2>3. CASE i > m
    <3>0. i \in 1..(m + k) /\ ~(i \in 1..m)
      BY <1>1, <2>3
    <3>1. PICK j \in 1..k : i = m + j
      BY <1>3, <3>0
    <3>2. j \in 1..(k - 1) /\ j + 1 \in 1..k /\ i + 1 = m + (j + 1)
      BY <1>1, <3>1
    <3>3. seen'[i] = q[j] /\ seen'[i + 1] = q[j + 1]
      BY <1>2, <3>1, <3>2
    <3>4. QED
      BY <3>2, <3>3
  <2>4. QED
    BY <1>1, <2>1, <2>2, <2>3
<1>7. NothingSkipped'
  BY <1>1, <1>6 DEF NothingSkipped, Follows
<1>8. q # << >> => seen' # << >> /\ seen'[Len(seen')] = q[Len(q)]
  <2>1. q # << >> => k \in 1..k
    BY <1>1
  <2>2. QED
    BY <1>1, <1>2, <2>1
<1>9. q = << >> => seen' = seen
  OBVIOUS
<1>10. QED
  BY <1>1, <1>5, <1>7, <1>8, <1>9

\* The first piece of a page goes on where the last page ended.
LEMMA PageFollows ==
  ASSUME ReadTypeOK, SeenInv, At(call.offset, call.column), seen # << >>,
         NEW p, p.line = call.offset + 1, p.line \in 1..Len(file), p.from = PageFrom
  PROVE  Follows(seen[Len(seen)], p)
<1>1. Len(seen) \in Nat /\ Len(seen) \in 1..Len(seen)
  BY DEF ReadTypeOK
<1>2. PICK last : last = seen[Len(seen)]
  OBVIOUS
<1>3. Whole(last) /\ call.column \in Nat /\ call.offset \in Nat
  BY <1>1, <1>2, CallFields DEF SeenInv
<1>4. CASE last.line = call.offset + 1 /\ last.to = call.column /\ call.column > 0
  <2>1. PICK line \in Lines : line = file[call.offset + 1]
    BY LineOfFile
  <2>2. Boundary(line, call.column) /\ call.column \in 0..line.len
    BY <1>3, <1>4, <2>1 DEF Whole, Boundary
  <2>3. StartColumn(line, call.column) = call.column
    BY <2>2, StartColumnIsBoundary
  <2>4. QED
    BY <1>2, <1>4, <2>1, <2>3 DEF Follows, PageFrom
<1>5. CASE last.line = call.offset /\ last.to = file[last.line].len /\ call.column = 0
  BY <1>2, <1>5 DEF Follows, PageFrom
<1>6. QED
  BY <1>2, <1>4, <1>5 DEF At

\* A new call starts where it was told to, and has gathered nothing.
LEMMA NewCallFields ==
  ASSUME NEW offset \in Nat, NEW column \in Nat, NEW limit \in Nat, file \in Seq(Lines)
  PROVE  /\ NewCall(offset, column, limit)
              = CallOf("read", "scan", offset, column, limit, 0, 0, << >>, FALSE, -1)
         /\ NewCall(offset, column, limit) \in ReadCall
<1>1. NewCall(offset, column, limit)
        = CallOf("read", "scan", offset, column, limit, 0, 0, << >>, FALSE, -1)
  BY DEF NewCall, CallOf
<1>2. 0 \in 0..Len(file) /\ 0 \in 0..MaxReadBytes
  BY ReadAssumption
<1>3. QED
  BY <1>1, <1>2 DEF ReadCall, CallOf

\* The same for a call of read_tool_output.
LEMMA NewOutputCallFields ==
  ASSUME NEW column \in Nat, NEW limit \in Nat, file \in Seq(Lines)
  PROVE  LET r == NewOutputCall(column, limit)
         IN  /\ r \in ReadCall
             /\ r.tool = "output" /\ r.step = "scan" /\ r.offset = 0 /\ r.column = column
             /\ r.lines = << >>
<1>1. PICK l \in Nat : l = IF limit = 0 \/ limit > MaxOutputRead THEN MaxOutputRead ELSE limit
  BY ReadAssumption
<1>2. PICK no : no = FALSE
  OBVIOUS
<1>3. PICK c : c = NewCall(0, column, l)
  OBVIOUS
<1>4. c = CallOf("read", "scan", 0, column, l, 0, 0, << >>, no, -1) /\ c \in ReadCall
  BY <1>2, <1>3, NewCallFields, Zenon
<1>5. NewOutputCall(column, limit) = [c EXCEPT !.tool = "output"]
  BY <1>1, <1>3 DEF NewOutputCall
<1>6. [c EXCEPT !.tool = "output"]
        = CallOf("output", "scan", 0, column, l, 0, 0, << >>, no, -1)
  BY <1>4 DEF CallOf
<1>7. [c EXCEPT !.tool = "output"] \in ReadCall
  BY <1>4 DEF ReadCall
<1>8. QED
  BY <1>5, <1>6, <1>7 DEF CallOf

-----------------------------------------------------------------------------
\* A call that returns is otherwise as it was.
LEMMA ReturnedFields ==
  ASSUME ReadTypeOK
  PROVE  LET r == [call EXCEPT !.step = "returned"]
         IN  /\ r \in ReadCall
             /\ r.step = "returned" /\ r.tool = call.tool /\ r.offset = call.offset
             /\ r.column = call.column /\ r.limit = call.limit /\ r.lineNum = call.lineNum
             /\ r.contentBytes = call.contentBytes /\ r.lines = call.lines
             /\ r.hasMore = call.hasMore /\ r.splitColumn = call.splitColumn
<1>1. call \in ReadCall
  BY DEF ReadTypeOK
<1>2. QED
  BY <1>1 DEF ReadCall

\* The page of a call that returns is as it was, and the call is over.
LEMMA ReturnedPage ==
  ASSUME ReadInv, call.tool = "read", call.step = "scan", UNCHANGED file,
         call' = [call EXCEPT !.step = "returned"],
         status'.kind = "error" \/ call.lineNum = Len(file)
  PROVE  PageInv' /\ call' \in ReadCall /\ call'.tool = "read" /\ call'.step = "returned"
         /\ call'.offset = call.offset /\ call'.column = call.column
<1>1. PICK c : c = call
  OBVIOUS
<1>2. /\ call' \in ReadCall
      /\ call'.step = "returned" /\ call'.tool = c.tool /\ call'.offset = c.offset
      /\ call'.column = c.column /\ call'.limit = c.limit /\ call'.lineNum = c.lineNum
      /\ call'.contentBytes = c.contentBytes /\ call'.lines = c.lines
      /\ call'.hasMore = c.hasMore /\ call'.splitColumn = c.splitColumn
  BY <1>1, ReturnedFields DEF ReadInv
<1>3. \A i \in 1..Len(call'.lines) : PieceOfPage(i)'
  BY <1>1, <1>2, PiecesKept DEF ReadInv
<1>4. /\ c.limit > 0 /\ ~c.hasMore /\ ~(c.splitColumn >= 0) /\ Len(c.lines) = Passed
      /\ (c.lines = << >> => c.contentBytes = 0)
  BY <1>1 DEF ReadInv, PageInv
<1>5. Passed' = Passed
  BY <1>1, <1>2 DEF Passed
<1>6. PageInv'
  BY <1>1, <1>2, <1>3, <1>4, <1>5 DEF PageInv
<1>7. QED
  BY <1>1, <1>2, <1>6

\* A read that fails shows nothing.
LEMMA FailedRead ==
  ASSUME ReadInv, ColumnExceeds \/ CtxDone
  PROVE  ReadInv'
<1>1. /\ call.tool = "read" /\ call.step = "scan" /\ UNCHANGED <<file, seen>>
      /\ call' = [call EXCEPT !.step = "returned"]
      /\ status' = [kind |-> "error", offset |-> 0, column |-> 0]
  BY DEF ColumnExceeds, CtxDone, Reading, Return
<1>2. status'.kind = "error" /\ status' \in [kind : {"none", "complete", "next", "nolines", "error"},
                                            offset : Nat, column : Nat]
  BY <1>1
<1>3. PageInv' /\ call' \in ReadCall /\ call'.tool = "read" /\ call'.step = "returned"
  BY <1>1, <1>2, ReturnedPage
<1>4. ReadTypeOK'
  BY <1>1, <1>2, <1>3 DEF ReadInv, ReadTypeOK, ReadCall
<1>5. OutputInv' /\ CursorInv' /\ CompleteIsComplete' /\ CursorAdvances'
  BY <1>2, <1>3 DEF OutputInv, CursorInv, CompleteIsComplete, CursorAdvances
<1>6. SeenInv' /\ NothingSkipped'
  BY <1>1 DEF ReadInv, SeenInv, NothingSkipped, Whole
<1>7. QED
  BY <1>3, <1>4, <1>5, <1>6 DEF ReadInv

\* At the end of the file, every line behind the offset is on the page.
LEMMA EndOfFileStep ==
  ASSUME ReadInv, EndOfFile
  PROVE  ReadInv'
<1>1. /\ call.tool = "read" /\ call.step = "scan" /\ UNCHANGED <<file, status, seen>>
      /\ call' = [call EXCEPT !.step = "returned"] /\ call.lineNum = Len(file)
  BY DEF EndOfFile, Reading
<1>2. PageInv' /\ call' \in ReadCall /\ call'.tool = call.tool
      /\ call'.offset = call.offset /\ call'.column = call.column
  BY <1>1, ReturnedPage
<1>3. QED
  BY <1>1, <1>2, ScanKeeps

\* The pieces of a page go on from each other.
LEMMA PagePieces ==
  ASSUME ReadInv, call.tool = "read"
  PROVE  /\ \A j \in 1..Len(call.lines) : Whole(call.lines[j])
         /\ \A j \in 1..(Len(call.lines) - 1) : Follows(call.lines[j], call.lines[j + 1])
<1>1. PICK q : q = call.lines
  OBVIOUS
<1>2. q \in Seq(Piece) /\ Len(q) \in Nat /\ call.offset \in Nat
  BY <1>1, CallFields DEF ReadInv
<1>3. \A j \in 1..Len(q) : PieceOfPage(j)
  BY <1>1 DEF ReadInv, PageInv
<1>4. \A j \in 1..Len(q) : Whole(q[j])
  BY <1>1, <1>3 DEF PieceOfPage
<1>5. ASSUME NEW j \in 1..(Len(q) - 1) PROVE Follows(q[j], q[j + 1])
  <2>1. j \in 1..Len(q) /\ j + 1 \in 1..Len(q) /\ j # Len(q) /\ j + 1 # 1
    BY <1>2
  <2>2. PieceOfPage(j) /\ PieceOfPage(j + 1)
    BY <1>3, <2>1
  <2>3. q[j].line = call.offset + j /\ q[j].to = file[q[j].line].len
    BY <1>1, <2>1, <2>2 DEF PieceOfPage
  <2>4. q[j + 1].line = call.offset + (j + 1) /\ q[j + 1].from = 0
    BY <1>1, <2>1, <2>2 DEF PieceOfPage
  <2>5. q[j + 1].line = q[j].line + 1
    BY <1>2, <2>3, <2>4
  <2>6. QED
    BY <2>3, <2>4, <2>5 DEF Follows
<1>6. QED
  BY <1>1, <1>4, <1>5

\* The page that a call reports goes on from what has been shown.
LEMMA PageShown ==
  ASSUME ReadInv, call.tool = "read", status.kind = "none", UNCHANGED file,
         seen' = seen \o call.lines
  PROVE  /\ seen' \in Seq(Piece) /\ SeenInv' /\ NothingSkipped'
         /\ call.lines # << >>
              => seen' # << >> /\ seen'[Len(seen')] = call.lines[Len(call.lines)]
         /\ call.lines = << >> => seen' = seen
<1>1. PICK q \in Seq(Piece) : q = call.lines
  BY CallFields DEF ReadInv
<1>2. /\ \A j \in 1..Len(q) : Whole(q[j])
      /\ \A j \in 1..(Len(q) - 1) : Follows(q[j], q[j + 1])
  BY <1>1, PagePieces
<1>3. ASSUME seen # << >>, q # << >> PROVE Follows(seen[Len(seen)], q[1])
  <2>1. 1 \in 1..Len(q)
    BY <1>3
  <2>2. PieceOfPage(1)
    BY <1>1, <2>1 DEF ReadInv, PageInv
  <2>3. PICK p : p = q[1]
    OBVIOUS
  <2>4. p.line = call.offset + 1 /\ p.from = PageFrom /\ p.line \in 1..Len(file)
    BY <1>1, <2>2, <2>3 DEF PieceOfPage, Whole
  <2>5. At(call.offset, call.column)
    BY DEF ReadInv, CursorInv
  <2>6. QED
    BY <1>3, <2>3, <2>4, <2>5, PageFollows DEF ReadInv
<1>4. seen \in Seq(Piece) /\ SeenInv /\ NothingSkipped
  BY DEF ReadInv, ReadTypeOK
<1>5. QED
  BY <1>1, <1>2, <1>3, <1>4, SeenGrows

\* A header that names the right place keeps the rest.
LEMMA ReportKeeps ==
  ASSUME ReadInv, call.tool = "read", call.step = "returned", status.kind = "none",
         UNCHANGED <<file, call>>,
         NEW kind \in {"complete", "next", "nolines"}, NEW o \in Nat, NEW c \in Nat,
         Return(kind, o, c), kind = "next" => At(o, c)',
         CompleteIsComplete', CursorAdvances'
  PROVE  ReadInv'
<1>1. status' = [kind |-> kind, offset |-> o, column |-> c] /\ seen' = seen \o call.lines
  BY DEF Return
<1>2. status'.kind = kind /\ status'.offset = o /\ status'.column = c
      /\ status' \in [kind : {"none", "complete", "next", "nolines", "error"},
                      offset : Nat, column : Nat]
  BY <1>1
<1>3. seen' \in Seq(Piece) /\ SeenInv' /\ NothingSkipped'
  BY <1>1, PageShown
<1>4. ReadTypeOK'
  BY <1>2, <1>3 DEF ReadInv, ReadTypeOK, ReadCall
<1>5. PageInv'
  <2>1. PageFrom' = PageFrom /\ Passed' = Passed
    BY DEF PageFrom, Passed
  <2>2. \A i \in 1..Len(call'.lines) : PieceOfPage(i)'
    BY PiecesKept DEF ReadInv
  <2>3. QED
    BY <2>1, <2>2 DEF ReadInv, PageInv
<1>6. OutputInv'
  BY DEF OutputInv
<1>7. CursorInv'
  BY <1>2 DEF CursorInv, At
<1>8. QED
  BY <1>3, <1>4, <1>5, <1>6, <1>7 DEF ReadInv

\* The header of a page names the byte behind it.
LEMMA ReportStep ==
  ASSUME ReadInv, Report
  PROVE  ReadInv'
<1>1. /\ call.step = "returned" /\ status.kind = "none" /\ UNCHANGED <<file, call>>
      /\ call.tool = "read"
  BY CallFields DEF Report, ReadInv, OutputInv
<1>2. PICK q \in Seq(Piece) : q = call.lines
  BY CallFields DEF ReadInv
<1>3. /\ call.offset \in Nat /\ call.column \in Nat /\ Len(q) \in Nat
      /\ call.splitColumn \in {-1} \cup Nat /\ call.hasMore \in BOOLEAN
      /\ call.lineNum \in 0..Len(file) /\ Len(file) \in Nat
  BY <1>2, CallFields DEF ReadInv, ReadTypeOK
<1>4. IF call.hasMore THEN q # << >> ELSE call.lineNum = Len(file) /\ Len(q) = Passed
  BY <1>1, <1>2 DEF ReadInv, PageInv
<1>5. q # << >> => PieceOfPage(Len(q))
  BY <1>1, <1>2, <1>3 DEF ReadInv, PageInv
<1>6. CASE q = << >>
  <2>1. Return("nolines", 0, 0)
    BY <1>2, <1>6 DEF Report
  <2>2. status'.kind = "nolines"
    BY <2>1 DEF Return
  <2>3. call.offset >= Len(file)
    BY <1>3, <1>4, <1>6 DEF Passed
  <2>4. CompleteIsComplete' /\ CursorAdvances'
    BY <1>1, <2>2, <2>3 DEF CompleteIsComplete, CursorAdvances
  <2>5. QED
    BY <1>1, <2>1, <2>4, ReportKeeps
<1>7. ASSUME q # << >>, NEW kind \in {"complete", "next"}, NEW o, NEW c, Return(kind, o, c)
      PROVE  /\ seen' # << >> /\ seen'[Len(seen')] = q[Len(q)]
             /\ status'.kind = kind /\ status'.offset = o /\ status'.column = c
  <2>1. status' = [kind |-> kind, offset |-> o, column |-> c] /\ seen' = seen \o call.lines
    BY <1>1, <1>7 DEF Return
  <2>2. QED
    BY <1>1, <1>2, <1>7, <2>1, PageShown
<1>8. CASE q # << >> /\ call.splitColumn >= 0
  <2>1. PICK split \in Nat : split = call.splitColumn
    BY <1>3, <1>8
  <2>2. PICK o : o = call.offset + Len(q) - 1
    OBVIOUS
  <2>3. Return("next", o, split)
    <3>1. SplitOffset(call.offset + Len(call.lines)) = o
      BY <1>2, <1>3, <2>2 DEF SplitOffset
    <3>2. Return("next", SplitOffset(call.offset + Len(call.lines)), call.splitColumn)
      BY <1>2, <1>8 DEF Report
    <3>3. QED
      BY <2>1, <3>1, <3>2
  <2>4. PICK p : p = q[Len(q)]
    OBVIOUS
  <2>5. p.line = call.offset + Len(q) /\ p.to = split /\ Whole(p)
    BY <1>2, <1>5, <1>8, <2>1, <2>4 DEF PieceOfPage
  <2>6. o \in Nat /\ p.line = o + 1
    BY <1>3, <1>8, <2>2, <2>5
  <2>7. split > p.from /\ (Len(q) = 1 => split > call.column)
    BY <1>1, <1>2, <1>8, <2>1, <2>4 DEF ReadInv, PageInv
  <2>8. split > 0
    <3>1. p.from \in 0..file[p.line].len
      BY <2>5 DEF Whole, Boundary
    <3>2. QED
      BY <2>1, <2>7, <3>1
  <2>9. /\ seen' # << >> /\ seen'[Len(seen')] = p
        /\ status'.kind = "next" /\ status'.offset = o /\ status'.column = split
    BY <1>7, <1>8, <2>3, <2>4
  <2>10. At(o, split)'
    BY <2>5, <2>6, <2>8, <2>9 DEF At
  <2>11. CompleteIsComplete'
    BY <2>9 DEF CompleteIsComplete
  <2>12. o > call.offset \/ (o = call.offset /\ Len(q) = 1)
    <3>1. PICK k \in Nat \ {0} : k = Len(q)
      BY <1>3, <1>8
    <3>2. QED
      BY <1>3, <2>2, <3>1
  <2>13. CursorAdvances'
    BY <1>1, <2>7, <2>9, <2>12 DEF CursorAdvances
  <2>14. QED
    BY <1>1, <2>1, <2>3, <2>6, <2>10, <2>11, <2>13, ReportKeeps
<1>9. CASE q # << >> /\ ~(call.splitColumn >= 0)
  <2>1. PICK o \in Nat : o = call.offset + Len(q)
    BY <1>3
  <2>2. PICK p : p = q[Len(q)]
    OBVIOUS
  <2>3. p.line = o /\ p.to = file[p.line].len /\ Whole(p)
    BY <1>2, <1>5, <1>9, <2>1, <2>2 DEF PieceOfPage
  <2>4. CASE call.hasMore
    <3>1. Return("next", o, 0)
      BY <1>2, <1>9, <2>1, <2>4 DEF Report
    <3>2. /\ seen' # << >> /\ seen'[Len(seen')] = p
          /\ status'.kind = "next" /\ status'.offset = o /\ status'.column = 0
      BY <1>7, <1>9, <2>2, <3>1
    <3>3. At(o, 0)'
      BY <1>1, <2>3, <3>2 DEF At
    <3>4. o > call.offset
      BY <1>3, <1>9, <2>1
    <3>5. CompleteIsComplete' /\ CursorAdvances'
      BY <1>1, <3>2, <3>4 DEF CompleteIsComplete, CursorAdvances
    <3>6. QED
      BY <1>1, <3>1, <3>3, <3>5, ReportKeeps
  <2>5. CASE ~call.hasMore
    <3>1. Return("complete", 0, 0)
      BY <1>2, <1>9, <2>1, <2>5 DEF Report
    <3>2. /\ seen' # << >> /\ seen'[Len(seen')] = p /\ status'.kind = "complete"
      BY <1>7, <1>9, <2>2, <3>1
    <3>3. o = Len(file)
      BY <1>3, <1>4, <1>9, <2>1, <2>5 DEF Passed
    <3>4. CompleteIsComplete' /\ CursorAdvances'
      BY <1>1, <2>3, <3>2, <3>3 DEF CompleteIsComplete, CursorAdvances
    <3>5. QED
      BY <1>1, <3>1, <3>4, ReportKeeps
  <2>6. QED
    BY <2>4, <2>5
<1>10. QED
  BY <1>6, <1>8, <1>9

\* A page of one piece.
LEMMA SinglePiece ==
  ASSUME NEW p \in Piece
  PROVE  <<p>> \in Seq(Piece)
OBVIOUS

\* A page of an output begins where the last one ended and ends between two runes,
\* or there is nothing left.
LEMMA ReadOutputStep ==
  ASSUME ReadInv, ReadOutput
  PROVE  ReadInv'
<1>1. /\ call.tool = "output" /\ call.step = "scan" /\ UNCHANGED file
      /\ status.kind = "none" /\ At(call.offset, call.column)
      /\ Len(file) = 1 /\ call.offset = 0 /\ call.lines = << >>
  BY DEF ReadOutput, Reading, ReadInv, OutputInv, CursorInv
<1>2. PICK line \in Lines : line = file[1]
  BY <1>1, LineOfFile DEF ReadInv
<1>3. line.len \in Nat /\ Boundary(line, 0) /\ call.column \in Nat /\ call.limit \in Nat
  BY <1>1, <1>2, LineOfFile, CallFields DEF ReadInv
<1>4. PICK c : c = call
  OBVIOUS
<1>5. c \in ReadCall /\ c.tool = "output" /\ c.offset = 0 /\ c.lines = << >>
  BY <1>1, <1>4 DEF ReadInv, ReadTypeOK
<1>6. seen \in Seq(Piece) /\ SeenInv /\ NothingSkipped
  BY DEF ReadInv, ReadTypeOK
<1>7. CASE c.column >= line.len
  <2>1. /\ call' = [c EXCEPT !.step = "returned"]
        /\ status' = [kind |-> "nolines", offset |-> 0, column |-> 0]
        /\ seen' = seen \o call'.lines
    BY <1>2, <1>4, <1>7 DEF ReadOutput, Return
  <2>2. /\ call' \in ReadCall /\ call'.tool = "output" /\ call'.step = "returned"
        /\ call'.offset = 0 /\ call'.column = c.column /\ call'.lines = << >>
    BY <1>4, <1>5, <2>1, ReturnedFields DEF ReadInv
  <2>3. status'.kind = "nolines" /\ status' \in [kind : {"none", "complete", "next", "nolines", "error"},
                                                offset : Nat, column : Nat]
    BY <2>1
  <2>4. seen' = seen
    BY <1>6, <2>1, <2>2
  <2>5. ReadTypeOK'
    BY <1>1, <2>2, <2>3, <2>4 DEF ReadInv, ReadTypeOK, ReadCall
  <2>6. PageInv' /\ OutputInv' /\ CursorInv'
    BY <1>1, <2>2, <2>3 DEF PageInv, OutputInv, CursorInv
  <2>7. SeenInv' /\ NothingSkipped'
    BY <1>1, <1>6, <2>4 DEF SeenInv, NothingSkipped, Whole
  <2>8. CompleteIsComplete' /\ CursorAdvances'
    BY <1>1, <1>2, <1>7, <2>2, <2>3 DEF CompleteIsComplete, CursorAdvances
  <2>9. QED
    BY <2>5, <2>6, <2>7, <2>8 DEF ReadInv
<1>8. CASE ~(c.column >= line.len)
  <2>1. PICK start : start = StartColumn(line, c.column)
    OBVIOUS
  <2>2. /\ Boundary(line, start) /\ start >= c.column /\ start \in 0..line.len
        /\ Boundary(line, c.column) => start = c.column
    <3>1. c.column \in 0..line.len
      BY <1>3, <1>4, <1>8
    <3>2. QED
      BY <2>1, <3>1, StartColumnIsBoundary DEF Boundary
  <2>3. PICK end : end = PageEnd(line, start, c.limit)
    OBVIOUS
  <2>4. /\ Boundary(line, end) /\ end \in 0..line.len
        /\ start < line.len => end > start
        /\ start = line.len => end = line.len
    BY <1>3, <1>4, <2>2, <2>3, PageEndIsBoundary DEF Boundary
  <2>5. PICK p \in Piece : p = [line |-> 1, from |-> start, to |-> end]
    <3>1. 1 \in Nat /\ start \in Nat /\ end \in Nat
      BY <1>3, <2>2, <2>4
    <3>2. QED
      BY <3>1 DEF Piece
  <2>6. PICK kind : kind = IF end = line.len THEN "complete" ELSE "next"
    OBVIOUS
  <2>7. /\ call' = [[c EXCEPT !.step = "returned"] EXCEPT !.lines = <<p>>]
        /\ status' = [kind |-> kind, offset |-> 0, column |-> end]
        /\ seen' = seen \o call'.lines
    BY <1>2, <1>4, <1>8, <2>1, <2>3, <2>5, <2>6 DEF ReadOutput, Return
  <2>8. /\ call' \in ReadCall /\ call'.tool = "output" /\ call'.step = "returned"
        /\ call'.offset = 0 /\ call'.column = c.column /\ call'.lines = <<p>>
    <3>1. PICK d : d = [c EXCEPT !.step = "returned"]
      OBVIOUS
    <3>2. d \in ReadCall /\ d.tool = "output" /\ d.step = "returned" /\ d.offset = 0
          /\ d.column = c.column
      BY <1>4, <1>5, <3>1, ReturnedFields DEF ReadInv
    <3>3. PICK q \in Seq(Piece) : q = <<p>>
      BY SinglePiece
    <3>4. call' = [d EXCEPT !.lines = q]
      BY <2>7, <3>1, <3>3
    <3>5. QED
      BY <3>2, <3>3, <3>4 DEF ReadCall
  <2>9. /\ status'.kind = kind /\ status'.offset = 0 /\ status'.column = end
        /\ status' \in [kind : {"none", "complete", "next", "nolines", "error"},
                        offset : Nat, column : Nat]
    BY <2>4, <2>6, <2>7
  <2>10. start = PageFrom
    <3>1. c.column > 0 => start = PageFrom
      BY <1>1, <1>2, <1>4, <2>1 DEF PageFrom
    <3>2. ~(c.column > 0) => c.column = 0 /\ PageFrom = 0
      BY <1>3, <1>4 DEF PageFrom
    <3>3. QED
      BY <1>3, <2>2, <3>1, <3>2
  <2>11. seen # << >> => Follows(seen[Len(seen)], p)
    <3>1. p.line = call.offset + 1 /\ p.line \in 1..Len(file) /\ p.from = PageFrom
      BY <1>1, <2>5, <2>10
    <3>2. QED
      BY <1>1, <3>1, PageFollows DEF ReadInv
  <2>12. Whole(p)
    BY <1>1, <1>2, <2>2, <2>4, <2>5 DEF Whole
  <2>13. /\ seen' \in Seq(Piece) /\ SeenInv' /\ NothingSkipped'
         /\ seen' # << >> /\ seen'[Len(seen')] = p
    <3>1. PICK q \in Seq(Piece) : q = <<p>>
      BY SinglePiece
    <3>2. /\ \A j \in 1..Len(q) : Whole(q[j])
          /\ \A j \in 1..(Len(q) - 1) : Follows(q[j], q[j + 1])
          /\ seen # << >> /\ q # << >> => Follows(seen[Len(seen)], q[1])
          /\ q # << >> /\ q[Len(q)] = p
      <4>1. Len(q) = 1 /\ q[1] = p
        BY <3>1
      <4>2. QED
        BY <2>11, <2>12, <4>1
    <3>3. seen' = seen \o q
      BY <2>7, <2>8, <3>1
    <3>4. QED
      BY <1>1, <1>6, <3>2, <3>3, SeenGrows
  <2>14. ReadTypeOK'
    BY <1>1, <2>8, <2>9, <2>13 DEF ReadInv, ReadTypeOK, ReadCall
  <2>15. PageInv' /\ OutputInv'
    BY <1>1, <2>6, <2>8, <2>9 DEF PageInv, OutputInv
  <2>16. kind = "next" => end > c.column /\ end > 0
    BY <1>3, <1>4, <2>2, <2>4, <2>6
  <2>17. kind = "next" => At(0, end)'
    BY <2>5, <2>13, <2>16 DEF At
  <2>18. CursorInv'
    BY <2>6, <2>8, <2>9, <2>17 DEF CursorInv, At
  <2>19. CompleteIsComplete'
    BY <1>1, <1>2, <2>5, <2>6, <2>9, <2>13 DEF CompleteIsComplete
  <2>20. CursorAdvances'
    BY <2>6, <2>8, <2>9, <2>16 DEF CursorAdvances
  <2>21. QED
    BY <2>13, <2>14, <2>15, <2>18, <2>19, <2>20 DEF ReadInv
<1>9. QED
  BY <1>7, <1>8

\* A call of either tool has just begun, by a reader who is at its cursor.
Begun(offset, column, limit) ==
  /\ file \in Seq(Lines)
  /\ \/ limit > 0 /\ call = NewCall(offset, column, limit)
     \/ /\ call = NewOutputCall(column, limit)
        /\ Len(file) = 1 /\ offset = 0
  /\ status = [kind |-> "none", offset |-> 0, column |-> 0]
  /\ At(offset, column)

\* What the invariant says of the call under way.
UnderWay ==
  /\ call \in ReadCall /\ PageInv /\ OutputInv /\ CursorInv
  /\ CompleteIsComplete /\ CursorAdvances

\* A call that has just begun has gathered nothing, and claims nothing.
BegunIsUnderWay ==
  \A offset, column, limit \in Nat : Begun(offset, column, limit) => UnderWay

\* This holds of every new call.
LEMMA NewCallKeeps == BegunIsUnderWay
<1> SUFFICES ASSUME NEW offset \in Nat, NEW column \in Nat, NEW limit \in Nat,
                    Begun(offset, column, limit)
             PROVE  UnderWay
  BY DEF BegunIsUnderWay
<1> USE DEF Begun, UnderWay
<1>1. status.kind = "none"
  OBVIOUS
<1>2. CASE limit > 0 /\ call = NewCall(offset, column, limit)
  <2>1. call = CallOf("read", "scan", offset, column, limit, 0, 0, << >>, FALSE, -1)
        /\ call \in ReadCall
    BY <1>2, NewCallFields, Zenon
  <2>2. /\ call.tool = "read" /\ call.step = "scan" /\ call.offset = offset
        /\ call.column = column /\ call.limit = limit /\ call.lineNum = 0
        /\ call.contentBytes = 0 /\ call.lines = << >> /\ ~call.hasMore
        /\ call.splitColumn = -1
    BY <2>1 DEF CallOf
  <2>3. Len(call.lines) = 0 /\ Passed = 0
    BY <2>2 DEF Passed
  <2>4. PageInv
    BY <1>2, <2>2, <2>3 DEF PageInv
  <2>5. QED
    BY <1>1, <2>1, <2>2, <2>4 DEF OutputInv, CursorInv, CompleteIsComplete, CursorAdvances
<1>3. CASE call = NewOutputCall(column, limit) /\ Len(file) = 1 /\ offset = 0
  <2>1. /\ call \in ReadCall
        /\ call.tool = "output" /\ call.step = "scan" /\ call.offset = 0
        /\ call.column = column /\ call.lines = << >>
    BY <1>3, NewOutputCallFields
  <2>2. QED
    BY <1>1, <1>3, <2>1
       DEF PageInv, OutputInv, CursorInv, CompleteIsComplete, CursorAdvances
<1>4. QED
  BY <1>2, <1>3

\* The first call: nothing has been shown.
LEMMA ReadInitially ==
  ASSUME ReadInit
  PROVE  ReadInv
<1>1. /\ status = [kind |-> "none", offset |-> 0, column |-> 0]
      /\ seen = << >> /\ seen \in Seq(Piece) /\ Len(seen) = 0
  BY DEF ReadInit
<1>2. SeenInv /\ NothingSkipped /\ \A o, c : At(o, c)
  BY <1>1 DEF SeenInv, NothingSkipped, At
<1>3. /\ file \in Seq(Lines) /\ Len(file) <= MaxFileLines
      /\ \E offset, column, limit \in Nat :
           \/ limit > 0 /\ call = NewCall(offset, column, limit)
           \/ /\ call = NewOutputCall(column, limit)
              /\ Len(file) = 1 /\ offset = 0
  <2>1. CASE /\ \E n \in 0..MaxFileLines : file \in [1..n -> Lines]
             /\ \E offset, column \in Offsets, limit \in LineLimits :
                  call = NewCall(offset, column, limit)
    <3>1. PICK n \in 0..MaxFileLines : file \in [1..n -> Lines]
      BY <2>1
    <3>2. file \in Seq(Lines) /\ Len(file) = n
      BY <3>1, ReadAssumption
    <3>3. PICK offset \in Offsets, column \in Offsets, limit \in LineLimits :
            call = NewCall(offset, column, limit)
      BY <2>1
    <3>4. offset \in Nat /\ column \in Nat /\ limit \in Nat /\ limit > 0
      BY <3>3, ReadAssumption
    <3>5. Len(file) <= MaxFileLines
      BY <3>1, <3>2, ReadAssumption
    <3>6. QED
      BY <3>2, <3>3, <3>4, <3>5, Zenon
  <2>2. CASE /\ file \in [1..1 -> Lines]
             /\ \E column \in Offsets, limit \in ByteLimits : call = NewOutputCall(column, limit)
    <3>0. PICK n \in 0..MaxFileLines : n = 1
      BY ReadAssumption
    <3>1. file \in Seq(Lines) /\ Len(file) = n
      <4>1. file \in [1..n -> Lines]
        BY <2>2, <3>0, Zenon
      <4>2. n \in Nat
        BY <3>0, ReadAssumption
      <4>3. QED
        BY <4>1, <4>2
    <3>2. PICK column \in Offsets, limit \in ByteLimits : call = NewOutputCall(column, limit)
      BY <2>2
    <3>3. column \in Nat /\ limit \in Nat
      BY <3>2, ReadAssumption
    <3>4. 0 \in Nat /\ Len(file) <= MaxFileLines
      BY <3>0, <3>1, ReadAssumption
    <3>5. QED
      BY <3>0, <3>1, <3>2, <3>3, <3>4, Zenon
  <2>3. QED
    BY <2>1, <2>2 DEF ReadInit
<1>4. PICK offset \in Nat, column \in Nat, limit \in Nat :
        \/ limit > 0 /\ call = NewCall(offset, column, limit)
        \/ /\ call = NewOutputCall(column, limit)
           /\ Len(file) = 1 /\ offset = 0
  BY <1>3
<1>5. UnderWay
  BY <1>1, <1>2, <1>3, <1>4, NewCallKeeps DEF Begun, BegunIsUnderWay
<1>6. ReadTypeOK
  BY <1>1, <1>3, <1>5 DEF ReadTypeOK, UnderWay
<1>7. QED
  BY <1>2, <1>5, <1>6 DEF ReadInv, UnderWay

\* A reader who asks for what the last result named goes on from there.
LEMMA ContinueStep ==
  ASSUME ReadInv, Continue
  PROVE  ReadInv'
<1>1. /\ UNCHANGED <<file, seen>> /\ status.kind = "next"
      /\ status' = [kind |-> "none", offset |-> 0, column |-> 0]
      /\ file \in Seq(Lines) /\ status.offset \in Nat /\ status.column \in Nat
  BY DEF Continue, ReadInv, ReadTypeOK
<1>2. PICK offset \in Nat, column \in Nat : offset = status.offset /\ column = status.column
  BY <1>1
<1>3. At(offset, column)'
  BY <1>1, <1>2 DEF ReadInv, CursorInv, At
<1>4. \E limit \in Nat :
        \/ limit > 0 /\ call' = NewCall(offset, column, limit)
        \/ /\ call' = NewOutputCall(column, limit)
           /\ Len(file) = 1 /\ offset = 0
  <2>1. CASE call.tool = "read" /\ \E limit \in LineLimits : call' = NewCall(offset, column, limit)
    BY <2>1, ReadAssumption
  <2>2. CASE call.tool = "output" /\ \E limit \in ByteLimits : call' = NewOutputCall(column, limit)
    <3>1. Len(file) = 1 /\ offset = 0
      BY <1>1, <1>2, <2>2 DEF ReadInv, OutputInv
    <3>2. QED
      BY <2>2, <3>1, ReadAssumption
  <2>3. QED
    BY <1>2, <2>1, <2>2 DEF Continue
<1>5. PICK limit \in Nat : Begun(offset, column, limit)'
  BY <1>1, <1>3, <1>4 DEF Begun, NewCall, NewOutputCall
<1>6. BegunIsUnderWay'
  BY NewCallKeeps, PTL
<1>7. UnderWay'
  BY <1>5, <1>6 DEF BegunIsUnderWay
<1>8. ReadTypeOK'
  BY <1>1, <1>7 DEF ReadInv, ReadTypeOK, UnderWay
<1>9. SeenInv' /\ NothingSkipped'
  BY <1>1 DEF ReadInv, SeenInv, NothingSkipped, Whole
<1>10. QED
  BY <1>7, <1>8, <1>9 DEF ReadInv, UnderWay

-----------------------------------------------------------------------------
\* The inductive invariant of paging.
LEMMA ReadInvariant == ReadSpec => []ReadInv
<1>1. ReadInit => ReadInv
  BY ReadInitially
<1>2. ReadInv /\ [ReadNext]_readVars => ReadInv'
  <2>1. ASSUME ReadInv, UNCHANGED readVars PROVE ReadInv'
    <3>1. UNCHANGED <<file, call, status, seen>>
      BY <2>1 DEF readVars
    <3>2. ReadTypeOK' /\ OutputInv' /\ CursorInv'
      BY <2>1, <3>1 DEF ReadInv, ReadTypeOK, ReadCall, OutputInv, CursorInv, At
    <3>3. PageInv'
      <4>1. PageFrom' = PageFrom /\ Passed' = Passed
        BY <3>1 DEF PageFrom, Passed
      <4>2. call.tool = "read" => \A i \in 1..Len(call'.lines) : PieceOfPage(i)'
        BY <2>1, <3>1, PiecesKept DEF ReadInv
      <4>3. QED
        BY <2>1, <3>1, <4>1, <4>2 DEF ReadInv, PageInv
    <3>4. SeenInv' /\ NothingSkipped' /\ CompleteIsComplete' /\ CursorAdvances'
      BY <2>1, <3>1 DEF ReadInv, SeenInv, NothingSkipped, CompleteIsComplete, CursorAdvances, Whole
    <3>5. QED
      BY <3>2, <3>3, <3>4 DEF ReadInv
  <2>2. QED
    BY <2>1, ScanStep, FailedRead, EndOfFileStep, ReportStep, ReadOutputStep, ContinueStep
       DEF ReadNext
<1>3. QED
  BY <1>1, <1>2, PTL DEF ReadSpec

\* A page of the read tool never exceeds maxReadBytes, the marks of cut lines
\* included, and file, call and result stay well-formed.
THEOREM ReadTypeCorrect == ReadSpec => []ReadTypeOK
<1>1. ReadInv => ReadTypeOK
  BY DEF ReadInv
<1>2. QED
  BY <1>1, ReadInvariant, PTL

\* The pages put together skip and repeat nothing, whatever the limits of the calls:
\* a line that did not fit is continued at the byte behind its shown part.
THEOREM ReadSkipsNothing == ReadSpec => []NothingSkipped
<1>1. ReadInv => NothingSkipped
  BY DEF ReadInv
<1>2. QED
  BY <1>1, ReadInvariant, PTL

\* The header says that the file is complete only when its last byte has been shown,
\* and that there are no lines only when none is behind the offset.
THEOREM ReadCompleteIsComplete == ReadSpec => []CompleteIsComplete
<1>1. ReadInv => CompleteIsComplete
  BY DEF ReadInv
<1>2. QED
  BY <1>1, ReadInvariant, PTL

\* Neither safeTextPrefix nor the loops that look for the next utf8.RuneStart ever
\* leave half a rune at an end of a piece.
THEOREM ReadKeepsRunes == ReadSpec => []RunesWhole
<1>1. ReadInv => RunesWhole
  <2>1. ASSUME ReadInv, NEW i \in DOMAIN seen
        PROVE  LET line == file[seen[i].line]
               IN  \A b \in {seen[i].from, seen[i].to} : b = line.len \/ b \in line.starts
    <3>1. i \in 1..Len(seen)
      BY <2>1 DEF ReadInv, ReadTypeOK
    <3>2. Whole(seen[i])
      BY <2>1, <3>1 DEF ReadInv, SeenInv
    <3>3. QED
      BY <3>2 DEF Whole, Boundary
  <2>2. QED
    BY <2>1 DEF RunesWhole
<1>2. QED
  BY <1>1, ReadInvariant, PTL

\* A result never sends the reader back to a place it has been at: a page that could
\* not show one whole line still takes it some bytes further.
THEOREM ReadCursorAdvances == ReadSpec => []CursorAdvances
<1>1. ReadInv => CursorAdvances
  BY DEF ReadInv
<1>2. QED
  BY <1>1, ReadInvariant, PTL

-----------------------------------------------------------------------------
\* What is put behind a path does not change what is above it.
LEMMA PrefixOfAppend ==
  ASSUME NEW S, NEW d \in Seq(S), NEW e \in S, NEW i \in 0..Len(d)
  PROVE  SubSeq(Append(d, e), 1, i) = SubSeq(d, 1, i)
<1>1. /\ Append(d, e) \in Seq(S) /\ Len(Append(d, e)) = Len(d) + 1
      /\ \A k \in 1..Len(d) : Append(d, e)[k] = d[k]
  OBVIOUS
<1>2. PICK s : s = SubSeq(Append(d, e), 1, i)
  OBVIOUS
<1>3. PICK t : t = SubSeq(d, 1, i)
  OBVIOUS
<1>4. /\ s \in Seq(S) /\ Len(s) = i /\ t \in Seq(S) /\ Len(t) = i
      /\ \A k \in 1..i : s[k] = Append(d, e)[k] /\ t[k] = d[k]
  BY <1>1, <1>2, <1>3
<1>5. \A k \in 1..Len(s) : s[k] = t[k]
  BY <1>1, <1>4
<1>6. s = t
  BY <1>4, <1>5, SeqEqual
<1>7. QED
  BY <1>2, <1>3, <1>6

\* A path is an entry of a directory, which is a path itself.
LEMMA PathOfEntry ==
  /\ Root \in Paths /\ Root \in Seq(STRING)
  /\ \A p \in Paths \ {Root} : \E d \in Dirs : \E i \in DOMAIN Entries[d] :
       /\ p = Append(d, Entries[d][i]) /\ d \in Paths
       /\ d \in Seq(STRING) /\ Entries[d] \in Seq(STRING) /\ Entries[d][i] \in STRING
       /\ p \in Seq(STRING) /\ Len(p) = Len(d) + 1
<1>1. Root \in Paths /\ Root \in Seq(STRING)
  BY DEF Root, Paths
<1>2. ASSUME NEW p \in Paths, p # Root
      PROVE  \E d \in Dirs : \E i \in DOMAIN Entries[d] :
               /\ p = Append(d, Entries[d][i]) /\ d \in Paths
               /\ d \in Seq(STRING) /\ Entries[d] \in Seq(STRING) /\ Entries[d][i] \in STRING
               /\ p \in Seq(STRING) /\ Len(p) = Len(d) + 1
  <2>1. PICK d \in Dirs : \E i \in DOMAIN Entries[d] : p = Append(d, Entries[d][i])
    BY <1>2 DEF Paths
  <2>2. PICK i \in DOMAIN Entries[d] : p = Append(d, Entries[d][i])
    BY <2>1
  <2>3. d \in Paths /\ d \in Seq(STRING) /\ Entries[d] \in Seq(STRING)
    BY <1>1, <2>1, WalkAssumption
  <2>4. Entries[d][i] \in STRING
    BY <2>2, <2>3
  <2>5. p \in Seq(STRING) /\ Len(p) = Len(d) + 1
    BY <2>2, <2>3, <2>4
  <2>6. QED
    BY <2>2, <2>3, <2>4, <2>5
<1>3. QED
  BY <1>1, <1>2

\* The directories above a path are paths.
LEMMA PrefixClosed ==
  \A p \in Paths : \A i \in 0..Len(p) : SubSeq(p, 1, i) \in Paths
<1> DEFINE T == {n \in Nat : \E p \in Paths : Len(p) = n /\ \E i \in 0..n : SubSeq(p, 1, i) \notin Paths}
<1>1. ASSUME T # {} PROVE FALSE
  <2>1. PICK n \in T : \A m \in T : n <= m
    <3>1. T \subseteq Nat
      OBVIOUS
    <3>2. QED
      BY <1>1, <3>1, MinIsLeast
  <2>2. PICK p \in Paths, i \in 0..n : n \in Nat /\ Len(p) = n /\ SubSeq(p, 1, i) \notin Paths
    BY <2>1
  <2>3. p # Root
    <3>1. ASSUME p = Root PROVE FALSE
      <4>1. Len(p) = 0 /\ p \in Seq(STRING)
        BY <3>1, PathOfEntry DEF Root
      <4>2. i = Len(p)
        BY <2>2, <4>1
      <4>3. SubSeq(p, 1, i) = p
        BY <4>1, <4>2, SubSeqFull
      <4>4. QED
        BY <2>2, <4>3
    <3>2. QED
      BY <3>1
  <2>4. PICK d \in Dirs : \E k \in DOMAIN Entries[d] :
          /\ p = Append(d, Entries[d][k]) /\ d \in Paths
          /\ d \in Seq(STRING) /\ Entries[d] \in Seq(STRING) /\ Entries[d][k] \in STRING
          /\ p \in Seq(STRING) /\ Len(p) = Len(d) + 1
    BY <2>3, PathOfEntry
  <2>5. PICK k \in DOMAIN Entries[d] :
          /\ p = Append(d, Entries[d][k]) /\ d \in Paths
          /\ d \in Seq(STRING) /\ Entries[d] \in Seq(STRING) /\ Entries[d][k] \in STRING
          /\ p \in Seq(STRING) /\ Len(p) = Len(d) + 1
    BY <2>4
  <2>6. i # n
    BY <2>2, <2>5, SubSeqFull
  <2>7. Len(d) \in Nat /\ Len(d) = n - 1 /\ i \in 0..Len(d)
    BY <2>2, <2>5, <2>6
  <2>8. SubSeq(p, 1, i) = SubSeq(d, 1, i)
    BY <2>5, <2>7, PrefixOfAppend
  <2>9. Len(d) \in T
    BY <2>2, <2>5, <2>7, <2>8
  <2>10. n <= Len(d)
    BY <2>1, <2>9
  <2>11. QED
    BY <2>2, <2>7, <2>10
<1>2. ASSUME NEW p \in Paths, NEW i \in 0..Len(p), SubSeq(p, 1, i) \notin Paths
      PROVE  FALSE
  <2>1. p \in Seq(STRING)
    BY PathOfEntry
  <2>2. Len(p) \in T
    BY <1>2, <2>1
  <2>3. QED
    BY <1>1, <2>2
<1>3. QED
  BY <1>2

\* What is above an entry of p is p and what is above p.
LEMMA UpwardOfEntry ==
  ASSUME NEW S, NEW p \in Seq(S), NEW e \in S
  PROVE  Upward(Append(p, e)) = Upward(p) \cup {Append(p, e)}
<1>1. PICK c : c = Append(p, e)
  OBVIOUS
<1>2. c \in Seq(S) /\ Len(c) = Len(p) + 1 /\ Len(p) \in Nat
  BY <1>1
<1>3. SubSeq(c, 1, Len(c)) = c
  BY <1>2, SubSeqFull
<1>4. \A i \in 1..Len(p) : SubSeq(c, 1, i) = SubSeq(p, 1, i)
  BY <1>1, <1>2, PrefixOfAppend
<1>5. \A i \in 1..Len(c) : i \in 1..Len(p) \/ i = Len(c)
  BY <1>2
<1>6. Len(c) \in 1..Len(c) /\ \A i \in 1..Len(p) : i \in 1..Len(c)
  BY <1>2
<1>7. QED
  BY <1>1, <1>3, <1>4, <1>5, <1>6 DEF Upward

\* A path is above itself, unless it is the root, which is above nothing.
LEMMA UpwardOfPath ==
  ASSUME NEW p \in Paths
  PROVE  /\ p \in Seq(STRING)
         /\ p # Root => p \in Upward(p)
         /\ Upward(p) \subseteq Paths
         /\ Upward(Root) = {}
<1>1. p \in Seq(STRING) /\ Len(p) \in Nat
  BY PathOfEntry
<1>2. p # Root => Len(p) \in 1..Len(p)
  BY <1>1 DEF Root
<1>3. SubSeq(p, 1, Len(p)) = p
  BY <1>1, SubSeqFull
<1>4. \A i \in 1..Len(p) : SubSeq(p, 1, i) \in Paths
  BY <1>1, PrefixClosed
<1>5. Upward(Root) = {}
  <2>1. Len(Root) = 0
    BY DEF Root
  <2>2. \A i \in 1..Len(Root) : FALSE
    BY <2>1
  <2>3. QED
    BY <2>2 DEF Upward
<1>6. QED
  BY <1>1, <1>2, <1>3, <1>4, <1>5 DEF Upward

-----------------------------------------------------------------------------
\* The glob language: the recursion of matchGlob, and Covers.

\* Part i of a pattern takes the names from a to b.
Takes(pattern, path, i, a, b) ==
  IF pattern[i] = "**" THEN b >= a
  ELSE b = a + 1 /\ MatchPart(pattern[i], path[b])

\* The parts from pi on share out the names from si on.
CoversFrom(pattern, path, pi, si) ==
  \E cut \in [(pi - 1)..Len(pattern) -> 0..Len(path)] :
    /\ cut[pi - 1] = si - 1
    /\ cut[Len(pattern)] = Len(path)
    /\ \A i \in pi..Len(pattern) : Takes(pattern, path, i, cut[i - 1], cut[i])

\* A pattern covers a path if all its parts share out all the names.
LEMMA CoversIsFrom ==
  ASSUME NEW S, NEW pattern \in Seq(S), NEW path
  PROVE  Covers(pattern, path) <=> CoversFrom(pattern, path, 1, 1)
BY DEF Covers, CoversFrom, Takes

\* No part is left, so no name may be.
LEMMA CoversEnd ==
  ASSUME NEW S, NEW pattern \in Seq(S), NEW path \in Seq(S), NEW si \in 1..(Len(path) + 1)
  PROVE  CoversFrom(pattern, path, Len(pattern) + 1, si) <=> si > Len(path)
<1> DEFINE n == Len(pattern)
<1>1. n \in Nat /\ Len(path) \in Nat /\ n + 1 - 1 = n
  OBVIOUS
<1>2. ASSUME CoversFrom(pattern, path, n + 1, si) PROVE si > Len(path)
  <2>1. PICK k \in Nat : k = n + 1 /\ k - 1 = n
    BY <1>1
  <2>2. PICK cut \in [(k - 1)..n -> 0..Len(path)] : cut[k - 1] = si - 1 /\ cut[n] = Len(path)
    <3>1. CoversFrom(pattern, path, k, si)
      BY <1>2, <2>1, Zenon
    <3>2. QED
      BY <3>1 DEF CoversFrom
  <2>3. QED
    BY <1>1, <2>1, <2>2
<1>3. ASSUME si > Len(path) PROVE CoversFrom(pattern, path, n + 1, si)
  <2>1. PICK cut : cut = [i \in n..n |-> Len(path)]
    OBVIOUS
  <2>2. cut \in [n..n -> 0..Len(path)] /\ cut[n] = Len(path)
    BY <1>1, <2>1
  <2>3. Len(path) = si - 1
    BY <1>1, <1>3
  <2>4. \A i \in (n + 1)..n : FALSE
    BY <1>1
  <2>5. QED
    BY <1>1, <2>2, <2>3, <2>4 DEF CoversFrom
<1>4. QED
  BY <1>2, <1>3

\* Part pi takes names up to some b, and the others share out the rest.
LEMMA CoversStep ==
  ASSUME NEW S, NEW pattern \in Seq(S), NEW path \in Seq(S),
         NEW pi \in 1..Len(pattern), NEW si \in 1..(Len(path) + 1)
  PROVE  CoversFrom(pattern, path, pi, si) <=>
           \E b \in 0..Len(path) : /\ Takes(pattern, path, pi, si - 1, b)
                                   /\ CoversFrom(pattern, path, pi + 1, b + 1)
<1> DEFINE n == Len(pattern)
<1>1. /\ n \in Nat /\ Len(path) \in Nat /\ pi + 1 - 1 = pi /\ si - 1 \in 0..Len(path)
      /\ pi \in (pi - 1)..n /\ n \in pi..n /\ n \in (pi - 1)..n
      /\ \A i \in pi..n : i \in (pi - 1)..n
      /\ \A i \in (pi + 1)..n : i \in pi..n /\ i - 1 \in pi..n
  OBVIOUS
<1>2. ASSUME CoversFrom(pattern, path, pi, si)
      PROVE  \E b \in 0..Len(path) : /\ Takes(pattern, path, pi, si - 1, b)
                                     /\ CoversFrom(pattern, path, pi + 1, b + 1)
  <2>1. PICK cut \in [(pi - 1)..n -> 0..Len(path)] :
          /\ cut[pi - 1] = si - 1
          /\ cut[n] = Len(path)
          /\ \A i \in pi..n : Takes(pattern, path, i, cut[i - 1], cut[i])
    BY <1>2 DEF CoversFrom
  <2>2. PICK rest : rest = [i \in pi..n |-> cut[i]]
    OBVIOUS
  <2>3. cut[pi] \in 0..Len(path) /\ cut[pi] = cut[pi] + 1 - 1
    BY <1>1, <2>1
  <2>4. /\ rest \in [pi..n -> 0..Len(path)] /\ rest[pi] = cut[pi] /\ rest[n] = Len(path)
        /\ \A i \in (pi + 1)..n : rest[i] = cut[i] /\ rest[i - 1] = cut[i - 1]
    BY <1>1, <2>1, <2>2
  <2>5. \A i \in (pi + 1)..n : Takes(pattern, path, i, rest[i - 1], rest[i])
    BY <1>1, <2>1, <2>4
  <2>6. CoversFrom(pattern, path, pi + 1, cut[pi] + 1)
    BY <1>1, <2>3, <2>4, <2>5, SMTT(30) DEF CoversFrom
  <2>7. Takes(pattern, path, pi, si - 1, cut[pi])
    BY <1>1, <2>1
  <2>8. QED
    BY <2>3, <2>6, <2>7
<1>3. ASSUME NEW b \in 0..Len(path), Takes(pattern, path, pi, si - 1, b),
             CoversFrom(pattern, path, pi + 1, b + 1)
      PROVE  CoversFrom(pattern, path, pi, si)
  <2>1. PICK rest \in [pi..n -> 0..Len(path)] :
          /\ rest[pi] = b
          /\ rest[n] = Len(path)
          /\ \A i \in (pi + 1)..n : Takes(pattern, path, i, rest[i - 1], rest[i])
    BY <1>1, <1>3, SMTT(30) DEF CoversFrom
  <2>2. PICK cut : cut = [i \in (pi - 1)..n |-> IF i = pi - 1 THEN si - 1 ELSE rest[i]]
    OBVIOUS
  <2>3. /\ cut \in [(pi - 1)..n -> 0..Len(path)] /\ cut[pi - 1] = si - 1
        /\ \A i \in pi..n : cut[i] = rest[i]
    BY <1>1, <2>1, <2>2
  <2>4. ASSUME NEW i \in pi..n PROVE Takes(pattern, path, i, cut[i - 1], cut[i])
    <3>1. CASE i = pi
      BY <1>1, <1>3, <2>1, <2>3, <3>1
    <3>2. CASE i # pi
      <4>1. i \in (pi + 1)..n
        BY <1>1, <3>2
      <4>2. QED
        BY <1>1, <2>1, <2>3, <4>1
    <3>3. QED
      BY <3>1, <3>2
  <2>5. QED
    BY <1>1, <2>1, <2>3, <2>4 DEF CoversFrom
<1>4. QED
  BY <1>2, <1>3


\* What the function that matchGlob builds has to satisfy.
IsMatch(match, pattern, path) ==
  match = [pi \in 1..(Len(pattern) + 1) |->
             [si \in 1..(Len(path) + 1) |->
                IF pi > Len(pattern) THEN si > Len(path)
                ELSE IF pattern[pi] = "**"
                THEN match[pi + 1][si] \/ (si <= Len(path) /\ match[pi][si + 1])
                ELSE si <= Len(path) /\ MatchPart(pattern[pi], path[si]) /\ match[pi + 1][si + 1]]]

\* matchGlob looks at one of these functions, if there is one.
LEMMA MatchGlobIs ==
  ASSUME NEW pattern, NEW path, NEW some, IsMatch(some, pattern, path)
  PROVE  \E match : IsMatch(match, pattern, path) /\ MatchGlob(pattern, path) = match[1][1]
<1>1. MatchGlob(pattern, path) = (CHOOSE match : IsMatch(match, pattern, path))[1][1]
  BY Zenon DEF MatchGlob, IsMatch
<1>2. IsMatch(CHOOSE match : IsMatch(match, pattern, path), pattern, path)
  OBVIOUS
<1>3. QED
  BY <1>1, <1>2, Zenon

\* ** takes nothing, or a name and then as before.
LEMMA CoversStars ==
  ASSUME NEW S, NEW pattern \in Seq(S), NEW path \in Seq(S),
         NEW pi \in 1..Len(pattern), NEW si \in 1..(Len(path) + 1), pattern[pi] = "**"
  PROVE  CoversFrom(pattern, path, pi, si) <=>
           \/ CoversFrom(pattern, path, pi + 1, si)
           \/ si <= Len(path) /\ CoversFrom(pattern, path, pi, si + 1)
<1>1. \A a, b : Takes(pattern, path, pi, a, b) <=> b >= a
  BY DEF Takes
<1>2. Len(path) \in Nat /\ si - 1 \in 0..Len(path) /\ si - 1 + 1 = si /\ si + 1 - 1 = si
  OBVIOUS
<1>3. CoversFrom(pattern, path, pi, si) <=>
        \E b \in 0..Len(path) : b >= si - 1 /\ CoversFrom(pattern, path, pi + 1, b + 1)
  BY <1>1, CoversStep
<1>4. ASSUME si <= Len(path)
      PROVE  CoversFrom(pattern, path, pi, si + 1) <=>
               \E b \in 0..Len(path) : b >= si /\ CoversFrom(pattern, path, pi + 1, b + 1)
  <2>1. PICK sj \in 1..(Len(path) + 1) : sj = si + 1 /\ sj - 1 = si
    BY <1>2, <1>4
  <2>2. CoversFrom(pattern, path, pi, sj) <=>
          \E b \in 0..Len(path) : b >= sj - 1 /\ CoversFrom(pattern, path, pi + 1, b + 1)
    BY <1>1, CoversStep
  <2>3. QED
    BY <2>1, <2>2
<1>5. ASSUME CoversFrom(pattern, path, pi, si)
      PROVE  \/ CoversFrom(pattern, path, pi + 1, si)
             \/ si <= Len(path) /\ CoversFrom(pattern, path, pi, si + 1)
  <2>1. PICK b \in 0..Len(path) : b >= si - 1 /\ CoversFrom(pattern, path, pi + 1, b + 1)
    BY <1>3, <1>5
  <2>2. CASE b = si - 1
    <3>1. b + 1 = si
      BY <1>2, <2>2
    <3>2. QED
      BY <2>1, <3>1
  <2>3. CASE b # si - 1
    <3>1. b >= si /\ si <= Len(path)
      BY <1>2, <2>1, <2>3
    <3>2. QED
      BY <1>4, <2>1, <3>1
  <2>4. QED
    BY <2>2, <2>3
<1>6. ASSUME CoversFrom(pattern, path, pi + 1, si) PROVE CoversFrom(pattern, path, pi, si)
  <2>1. si - 1 >= si - 1 /\ CoversFrom(pattern, path, pi + 1, (si - 1) + 1)
    BY <1>2, <1>6
  <2>2. QED
    BY <1>2, <1>3, <2>1
<1>7. ASSUME si <= Len(path), CoversFrom(pattern, path, pi, si + 1)
      PROVE  CoversFrom(pattern, path, pi, si)
  <2>1. PICK b \in 0..Len(path) : b >= si /\ CoversFrom(pattern, path, pi + 1, b + 1)
    BY <1>4, <1>7
  <2>2. b >= si - 1
    BY <1>2, <2>1
  <2>3. QED
    BY <1>3, <2>1, <2>2
<1>8. QED
  BY <1>5, <1>6, <1>7

\* Any other part takes one name.
LEMMA CoversOne ==
  ASSUME NEW S, NEW pattern \in Seq(S), NEW path \in Seq(S),
         NEW pi \in 1..Len(pattern), NEW si \in 1..(Len(path) + 1), pattern[pi] # "**"
  PROVE  CoversFrom(pattern, path, pi, si) <=>
           /\ si <= Len(path)
           /\ MatchPart(pattern[pi], path[si])
           /\ CoversFrom(pattern, path, pi + 1, si + 1)
<1>1. Len(path) \in Nat /\ si - 1 + 1 = si
  OBVIOUS
<1>2. \A b : Takes(pattern, path, pi, si - 1, b) <=> b = si /\ MatchPart(pattern[pi], path[b])
  BY <1>1 DEF Takes
<1>3. CoversFrom(pattern, path, pi, si) <=>
        \E b \in 0..Len(path) : /\ b = si /\ MatchPart(pattern[pi], path[b])
                                /\ CoversFrom(pattern, path, pi + 1, b + 1)
  BY <1>2, CoversStep
<1>4. si \in 0..Len(path) <=> si <= Len(path)
  BY <1>1
<1>5. QED
  BY <1>3, <1>4

\* So a cover is what matchGlob asks for.
LEMMA CoversIsMatch ==
  ASSUME NEW S, NEW pattern \in Seq(S), NEW path \in Seq(S)
  PROVE  IsMatch([pi \in 1..(Len(pattern) + 1) |->
                    [si \in 1..(Len(path) + 1) |-> CoversFrom(pattern, path, pi, si)]],
                 pattern, path)
<1> DEFINE m == Len(pattern)
           n == Len(path)
<1>1. m \in Nat /\ n \in Nat
  OBVIOUS
<1>2. PICK c : c = [pi \in 1..(m + 1) |-> [si \in 1..(n + 1) |-> CoversFrom(pattern, path, pi, si)]]
  OBVIOUS
<1>3. \A pi \in 1..(m + 1), si \in 1..(n + 1) : c[pi][si] = CoversFrom(pattern, path, pi, si)
  BY <1>2
<1>4. ASSUME NEW pi \in 1..(m + 1), NEW si \in 1..(n + 1)
      PROVE  CoversFrom(pattern, path, pi, si) =
               IF pi > m THEN si > n
               ELSE IF pattern[pi] = "**"
               THEN c[pi + 1][si] \/ (si <= n /\ c[pi][si + 1])
               ELSE si <= n /\ MatchPart(pattern[pi], path[si]) /\ c[pi + 1][si + 1]
  <2>1. CoversFrom(pattern, path, pi, si) \in BOOLEAN
    BY Zenon DEF CoversFrom
  <2>2. CASE pi = m + 1
    <3>1. pi > m /\ (si > n) \in BOOLEAN
      BY <1>1, <2>2
    <3>2. CoversFrom(pattern, path, pi, si) <=> si > n
      BY <2>2, CoversEnd
    <3>3. QED
      BY <2>1, <3>1, <3>2
  <2>3. CASE pi # m + 1
    <3>1. pi \in 1..m /\ pi + 1 \in 1..(m + 1) /\ ~(pi > m)
      BY <1>1, <2>3
    <3>2. si <= n => si + 1 \in 1..(n + 1)
      BY <1>1
    <3>3. CASE pattern[pi] = "**"
      <4>1. CoversFrom(pattern, path, pi, si) <=>
              \/ CoversFrom(pattern, path, pi + 1, si)
              \/ si <= n /\ CoversFrom(pattern, path, pi, si + 1)
        BY <3>1, <3>3, CoversStars
      <4>2. CoversFrom(pattern, path, pi, si) <=> c[pi + 1][si] \/ (si <= n /\ c[pi][si + 1])
        BY <1>3, <3>1, <3>2, <4>1
      <4>3. QED
        BY <2>1, <3>1, <3>3, <4>2
    <3>4. CASE pattern[pi] # "**"
      <4>1. CoversFrom(pattern, path, pi, si) <=>
              /\ si <= n /\ MatchPart(pattern[pi], path[si])
              /\ CoversFrom(pattern, path, pi + 1, si + 1)
        BY <3>1, <3>4, CoversOne
      <4>2. CoversFrom(pattern, path, pi, si) <=>
              si <= n /\ MatchPart(pattern[pi], path[si]) /\ c[pi + 1][si + 1]
        BY <1>3, <3>1, <3>2, <4>1
      <4>3. QED
        BY <2>1, <3>1, <3>4, <4>2
    <3>5. QED
      BY <3>3, <3>4
  <2>4. QED
    BY <2>2, <2>3
<1>5. c = [pi \in 1..(m + 1) |->
             [si \in 1..(n + 1) |->
               IF pi > m THEN si > n
               ELSE IF pattern[pi] = "**"
               THEN c[pi + 1][si] \/ (si <= n /\ c[pi][si + 1])
               ELSE si <= n /\ MatchPart(pattern[pi], path[si]) /\ c[pi + 1][si + 1]]]
  BY <1>2, <1>4
<1>6. IsMatch(c, pattern, path)
  BY <1>5 DEF IsMatch
<1>7. QED
  BY <1>2, <1>6, Zenon


\* What is left to share out gets less with every turn of the recursion, so that
\* only one function does what matchGlob asks for.
LEMMA MatchIsCovers ==
  ASSUME NEW S, NEW pattern \in Seq(S), NEW path \in Seq(S), NEW match,
         IsMatch(match, pattern, path)
  PROVE  \A pi \in 1..(Len(pattern) + 1), si \in 1..(Len(path) + 1) :
           match[pi][si] = CoversFrom(pattern, path, pi, si)
<1> DEFINE m == Len(pattern)
           n == Len(path)
           c == [pi \in 1..(m + 1) |-> [si \in 1..(n + 1) |-> CoversFrom(pattern, path, pi, si)]]
           left(pi, si) == (m + 1 - pi) + (n + 1 - si)
           T == {k \in Nat : \E pi \in 1..(m + 1), si \in 1..(n + 1) :
                               k = left(pi, si) /\ match[pi][si] # c[pi][si]}
<1>1. m \in Nat /\ n \in Nat
  OBVIOUS
<1>2. IsMatch(c, pattern, path)
  BY CoversIsMatch
<1>3. \A f : IsMatch(f, pattern, path) =>
        \A pi \in 1..(m + 1), si \in 1..(n + 1) :
          f[pi][si] = IF pi > m THEN si > n
                      ELSE IF pattern[pi] = "**"
                      THEN f[pi + 1][si] \/ (si <= n /\ f[pi][si + 1])
                      ELSE si <= n /\ MatchPart(pattern[pi], path[si]) /\ f[pi + 1][si + 1]
  <2>1. SUFFICES ASSUME NEW f, IsMatch(f, pattern, path), NEW pi \in 1..(m + 1), NEW si \in 1..(n + 1)
                 PROVE  f[pi][si] = IF pi > m THEN si > n
                          ELSE IF pattern[pi] = "**"
                          THEN f[pi + 1][si] \/ (si <= n /\ f[pi][si + 1])
                          ELSE si <= n /\ MatchPart(pattern[pi], path[si]) /\ f[pi + 1][si + 1]
    OBVIOUS
  <2>2. f[pi] = [sj \in 1..(n + 1) |->
                   IF pi > m THEN sj > n
                   ELSE IF pattern[pi] = "**"
                   THEN f[pi + 1][sj] \/ (sj <= n /\ f[pi][sj + 1])
                   ELSE sj <= n /\ MatchPart(pattern[pi], path[sj]) /\ f[pi + 1][sj + 1]]
    BY <2>1, Zenon DEF IsMatch
  <2>3. QED
    BY <2>2, Zenon
<1>4. ASSUME T # {} PROVE FALSE
  <2>1. PICK k \in T : \A j \in T : k <= j
    <3>1. T \subseteq Nat
      OBVIOUS
    <3>2. QED
      BY <1>4, <3>1, MinIsLeast
  <2>2. PICK pi \in 1..(m + 1), si \in 1..(n + 1) : k = left(pi, si) /\ match[pi][si] # c[pi][si]
    BY <2>1
  <2>3. ASSUME NEW pj \in 1..(m + 1), NEW sj \in 1..(n + 1), left(pj, sj) < k
        PROVE  match[pj][sj] = c[pj][sj]
    <3>1. left(pj, sj) \in Nat /\ k \in Nat
      BY <1>1, <2>2
    <3>2. left(pj, sj) \in T => k <= left(pj, sj)
      BY <2>1
    <3>3. left(pj, sj) \notin T
      BY <2>3, <3>1, <3>2
    <3>4. QED
      BY <3>1, <3>3
  <2>4. CASE pi > m
    BY <1>2, <1>3, <2>2, <2>4
  <2>5. CASE ~(pi > m)
    <3>1. /\ pi + 1 \in 1..(m + 1) /\ left(pi + 1, si) < k
          /\ si <= n => /\ si + 1 \in 1..(n + 1)
                        /\ left(pi, si + 1) < k /\ left(pi + 1, si + 1) < k
      BY <1>1, <2>2, <2>5
    <3>2. /\ match[pi + 1][si] = c[pi + 1][si]
          /\ si <= n => /\ match[pi][si + 1] = c[pi][si + 1]
                        /\ match[pi + 1][si + 1] = c[pi + 1][si + 1]
      BY <2>3, <3>1
    <3> HIDE DEF c
    <3>3. match[pi][si] = IF pattern[pi] = "**"
                          THEN match[pi + 1][si] \/ (si <= n /\ match[pi][si + 1])
                          ELSE si <= n /\ MatchPart(pattern[pi], path[si]) /\ match[pi + 1][si + 1]
      BY <1>3, <2>5
    <3>4. c[pi][si] = IF pattern[pi] = "**"
                      THEN c[pi + 1][si] \/ (si <= n /\ c[pi][si + 1])
                      ELSE si <= n /\ MatchPart(pattern[pi], path[si]) /\ c[pi + 1][si + 1]
      BY <1>2, <1>3, <2>5
    <3>5. match[pi][si] = c[pi][si]
      BY <3>2, <3>3, <3>4, Zenon
    <3>6. QED
      BY <2>2, <3>5
  <2>6. QED
    BY <2>4, <2>5
<1>5. ASSUME NEW pi \in 1..(m + 1), NEW si \in 1..(n + 1), match[pi][si] # c[pi][si]
      PROVE  FALSE
  <2>1. left(pi, si) \in Nat
    BY <1>1
  <2>2. left(pi, si) \in T
    BY <1>5, <2>1
  <2>3. QED
    BY <1>4, <2>2
<1>6. QED
  BY <1>5

\* The memoized recursion of matchGlob, which tries for a ** first no name and then
\* one more, accepts a path exactly if the parts of the pattern can share out its names.
THEOREM GlobIsCovers ==
  ASSUME NEW S, NEW pattern \in Seq(S), NEW path \in Seq(S)
  PROVE  MatchGlob(pattern, path) <=> Covers(pattern, path)
<1>1. PICK match : IsMatch(match, pattern, path) /\ MatchGlob(pattern, path) = match[1][1]
  BY CoversIsMatch, MatchGlobIs, Zenon
<1>2. 1 \in 1..(Len(pattern) + 1) /\ 1 \in 1..(Len(path) + 1)
  OBVIOUS
<1>3. match[1][1] = CoversFrom(pattern, path, 1, 1)
  BY <1>1, <1>2, MatchIsCovers
<1>4. QED
  BY <1>1, <1>3, CoversIsFrom, Zenon

-----------------------------------------------------------------------------
\* Two states of the walk of one call.
SameCall(v, w) ==
  /\ v.tool = w.tool /\ v.root = w.root /\ v.glob = w.glob /\ v.limit = w.limit
  /\ v.step = w.step

\* The locals of a walk, one by one.
LEMMA WalkFields ==
  ASSUME NEW w \in Walk
  PROVE  /\ w.tool \in Tools /\ w.root \in Seq(STRING) /\ w.glob \in Globs \cup {NoGlob}
         /\ w.limit \in Limits /\ w.pending \in Seq(Paths)
         /\ w.visited \in 0..(MaxVisited + 1) /\ w.scanned \in SUBSET Files
         /\ w.results \in Nat /\ w.shown \in SUBSET Paths
         /\ w.truncated \in BOOLEAN
         /\ w.step \in {"walking", "done", "failed"}
BY DEF Walk

\* The walk goes on with the rest.
LEMMA GotoFields ==
  ASSUME walk \in Walk, NEW rest \in Seq(Paths)
  PROVE  LET w == Goto(rest)
         IN  /\ w \in Walk /\ SameCall(w, walk) /\ w.pending = rest /\ w.shown = walk.shown
             /\ w.visited = walk.visited /\ w.results = walk.results
             /\ w.scanned = walk.scanned /\ w.truncated = walk.truncated
BY DEF Walk, Goto, SameCall

\* The same with a path that is shown.
LEMMA ShowFields ==
  ASSUME walk \in Walk, NEW p \in Paths, NEW rest \in Seq(Paths)
  PROVE  LET w == Show(p, rest)
         IN  /\ w \in Walk /\ SameCall(w, walk) /\ w.pending = rest
             /\ w.shown = walk.shown \cup {p}
             /\ w.visited = walk.visited /\ w.truncated = walk.truncated
<1>1. PICK T \in SUBSET Paths : T = walk.shown \cup {p}
  BY WalkFields
<1>2. Show(p, rest) = [walk EXCEPT !.pending = rest, !.shown = T]
  BY <1>1 DEF Show
<1>3. QED
  BY <1>1, <1>2 DEF Walk, SameCall

\* A walk that stops short has nothing left to visit.
LEMMA StopFields ==
  ASSUME NEW v \in Walk
  PROVE  LET w == StopTruncated(v)
         IN  /\ w \in Walk /\ SameCall(w, v) /\ w.pending = << >> /\ w.shown = v.shown
             /\ w.visited = v.visited /\ w.truncated
<1>0. PICK none \in Seq(Paths) : none = << >>
  BY EmptySeq, Zenon
<1>1. PICK yes \in BOOLEAN : yes = TRUE
  BY Zenon
<1>2. StopTruncated(v) = [[v EXCEPT !.pending = none] EXCEPT !.truncated = yes]
  BY <1>0, <1>1 DEF StopTruncated
<1>3. PICK u : u = [v EXCEPT !.pending = none]
  OBVIOUS
<1>4. /\ u \in Walk /\ SameCall(u, v) /\ u.pending = none /\ u.shown = v.shown
      /\ u.visited = v.visited
  BY <1>3 DEF Walk, SameCall
<1>5. PICK w : w = [u EXCEPT !.truncated = yes]
  OBVIOUS
<1>6. /\ w \in Walk /\ SameCall(w, u) /\ w.pending = u.pending /\ w.shown = u.shown
      /\ w.visited = u.visited
  BY <1>4, <1>5 DEF Walk, SameCall
<1>7. w.truncated = yes
  BY <1>4, <1>5 DEF Walk
<1>8. SameCall(w, v)
  BY <1>4, <1>6 DEF SameCall
<1>9. QED
  BY <1>0, <1>1, <1>2, <1>3, <1>4, <1>5, <1>6, <1>7, <1>8

\* An entry is counted while the limit is not exceeded.
LEMMA CountedFields ==
  ASSUME NEW v \in Walk, v.visited <= MaxVisited
  PROVE  LET w == Counted(v)
         IN  /\ w \in Walk /\ SameCall(w, v) /\ w.pending = v.pending /\ w.shown = v.shown
             /\ w.visited = v.visited + 1 /\ w.results = v.results
             /\ w.scanned = v.scanned /\ w.truncated = v.truncated
<1>1. MaxVisited \in Nat
  BY WalkAssumption
<1>2. v.visited + 1 \in 0..(MaxVisited + 1)
  BY <1>1 DEF Walk
<1>3. QED
  BY <1>2 DEF Walk, Counted, SameCall

\* The entries of a directory are paths.
LEMMA ChildrenArePaths ==
  ASSUME NEW p \in Dirs
  PROVE  /\ Children(p) \in Seq(Paths)
         /\ \A j \in 1..Len(Children(p)) : \E e \in STRING : Children(p)[j] = Append(p, e)
<1>1. Entries[p] \in Seq(STRING)
  BY WalkAssumption
<1>2. PICK n \in Nat : DOMAIN Entries[p] = 1..n
  BY <1>1
<1>3. \A i \in 1..n : Append(p, Entries[p][i]) \in Paths /\ Entries[p][i] \in STRING
  BY <1>1, <1>2 DEF Paths
<1>4. /\ Children(p) \in [1..n -> Paths]
      /\ \A i \in 1..n : Children(p)[i] = Append(p, Entries[p][i])
  BY <1>2, <1>3 DEF Children
<1>5. Children(p) \in Seq(Paths) /\ Len(Children(p)) = n
  BY <1>4
<1>6. QED
  BY <1>3, <1>4, <1>5

\* The paths behind the first pending one, and the entries of a directory.
LEMMA RestOfWalk ==
  ASSUME walk \in Walk, walk.pending # << >>
  PROVE  LET p == Head(walk.pending)
         IN  p \in Paths /\ Past \in Seq(Paths) /\ Into(p) \in Seq(Paths)
<1>1. PICK p : p = Head(walk.pending)
  OBVIOUS
<1>2. PICK q \in Seq(Paths) : q = walk.pending /\ q # << >>
  BY WalkFields
<1>3. p \in Paths /\ Tail(q) \in Seq(Paths)
  BY <1>1, <1>2
<1>4. ASSUME p \in Dirs PROVE Children(p) \in Seq(Paths)
  BY <1>4, ChildrenArePaths
<1>5. Into(p) \in Seq(Paths)
  BY <1>2, <1>3, <1>4 DEF Into
<1>6. QED
  BY <1>1, <1>2, <1>3, <1>5 DEF Past

\* An entry that p leads to is one of p's entries, or p itself.
LEMMA BelowPath ==
  ASSUME NEW p \in Paths, NEW t \in Paths, p \in Upward(t) \cup {Root}, t # p
  PROVE  p \in Dirs /\ \E i \in 1..Len(Children(p)) : Children(p)[i] \in Upward(t)
<1>1. t \in Seq(STRING) /\ p \in Seq(STRING) /\ Len(t) \in Nat
  BY UpwardOfPath
<1>2. PICK n \in 0..Len(t) : p = SubSeq(t, 1, n)
  <2>1. CASE p \in Upward(t)
    <3>1. PICK n \in 1..Len(t) : p = SubSeq(t, 1, n)
      BY <2>1 DEF Upward
    <3>2. n \in 0..Len(t)
      BY <1>1
    <3>3. QED
      BY <3>1, <3>2
  <2>2. CASE p = Root
    <3>1. SubSeq(t, 1, 0) = << >>
      BY SubSeqEmpty
    <3>2. 0 \in 0..Len(t)
      BY <1>1
    <3>3. QED
      BY <2>2, <3>1, <3>2 DEF Root
  <2>3. QED
    BY <2>1, <2>2
<1>3. n # Len(t)
  BY <1>1, <1>2, SubSeqFull
<1>4. n + 1 \in 1..Len(t) /\ n + 1 \in 0..Len(t) /\ n \in Nat
  BY <1>1, <1>3
<1>5. PICK c : c = SubSeq(t, 1, n + 1)
  OBVIOUS
<1>6. c \in Upward(t) /\ c \in Paths
  BY <1>4, <1>5, PrefixClosed DEF Upward
<1>7. c \in Seq(STRING) /\ Len(c) = n + 1 /\ \A k \in 1..(n + 1) : c[k] = t[k]
  BY <1>1, <1>4, <1>5
<1>8. c # Root
  BY <1>4, <1>7 DEF Root
<1>9. PICK d \in Dirs : \E i \in DOMAIN Entries[d] :
        /\ c = Append(d, Entries[d][i])
        /\ d \in Seq(STRING) /\ Entries[d] \in Seq(STRING) /\ Entries[d][i] \in STRING
        /\ Len(c) = Len(d) + 1
  BY <1>6, <1>8, PathOfEntry
<1>10. PICK i \in DOMAIN Entries[d] :
         /\ c = Append(d, Entries[d][i])
         /\ d \in Seq(STRING) /\ Entries[d] \in Seq(STRING) /\ Entries[d][i] \in STRING
         /\ Len(c) = Len(d) + 1
  BY <1>9
<1>11. d = p
  <2>1. Len(d) = n /\ Len(p) = n /\ \A k \in 1..n : p[k] = t[k]
    BY <1>1, <1>2, <1>4, <1>7, <1>10
  <2>2. \A k \in 1..Len(d) : c[k] = d[k]
    BY <1>10, AppendProperties
  <2>3. \A k \in 1..Len(d) : d[k] = p[k]
    BY <1>4, <1>7, <2>1, <2>2
  <2>4. QED
    BY <1>1, <1>10, <2>1, <2>3, SeqEqual
<1>12. DOMAIN Children(p) = DOMAIN Entries[p] /\ Children(p)[i] = c
  BY <1>10, <1>11 DEF Children
<1>13. i \in 1..Len(Children(p))
  <2>1. PICK m \in Nat : DOMAIN Entries[p] = 1..m
    BY <1>10, <1>11
  <2>2. Len(Children(p)) = m
    BY <2>1 DEF Children
  <2>3. QED
    BY <1>11, <2>1, <2>2
<1>14. QED
  BY <1>6, <1>11, <1>12, <1>13

\* The rest of a walk, piece by piece.
LEMMA RestPending ==
  ASSUME walk \in Walk, walk.pending # << >>
  PROVE  /\ \A i \in 1..Len(Past) : \E j \in 1..Len(walk.pending) : Past[i] = walk.pending[j]
         /\ \A j \in 1..Len(walk.pending) :
              walk.pending[j] = Head(walk.pending) \/ \E i \in 1..Len(Past) : Past[i] = walk.pending[j]
         /\ \E j \in 1..Len(walk.pending) : Head(walk.pending) = walk.pending[j]
<1>1. PICK q \in Seq(Paths) : q = walk.pending /\ q # << >>
  BY WalkFields
<1>2. Len(q) \in Nat \ {0} /\ Len(Tail(q)) = Len(q) - 1 /\ Head(q) = q[1]
      /\ \A i \in 1..(Len(q) - 1) : Tail(q)[i] = q[i + 1]
  BY <1>1
<1>3. ASSUME NEW i \in 1..Len(Tail(q)) PROVE \E j \in 1..Len(q) : Tail(q)[i] = q[j]
  <2>1. i + 1 \in 1..Len(q) /\ Tail(q)[i] = q[i + 1]
    BY <1>2
  <2>2. QED
    BY <2>1
<1>4. ASSUME NEW j \in 1..Len(q), j # 1 PROVE \E i \in 1..Len(Tail(q)) : Tail(q)[i] = q[j]
  <2>1. j - 1 \in 1..Len(Tail(q)) /\ Tail(q)[j - 1] = q[j - 1 + 1] /\ j - 1 + 1 = j
    BY <1>2, <1>4
  <2>2. QED
    BY <2>1
<1>5. 1 \in 1..Len(q)
  BY <1>2
<1>6. QED
  BY <1>1, <1>2, <1>3, <1>4, <1>5 DEF Past

\* What is ahead once p's entries are put in front of the rest.
LEMMA IntoPending ==
  ASSUME walk \in Walk, walk.pending # << >>, NEW p \in Paths
  PROVE  LET r == Into(p)
         IN  /\ \A i \in 1..Len(r) :
                  \/ \E j \in 1..Len(Past) : r[i] = Past[j]
                  \/ p \in Dirs /\ \E j \in 1..Len(Children(p)) : r[i] = Children(p)[j]
             /\ \A j \in 1..Len(Past) : \E i \in 1..Len(r) : r[i] = Past[j]
             /\ p \in Dirs => \A j \in 1..Len(Children(p)) : \E i \in 1..Len(r) : r[i] = Children(p)[j]
<1>1. PICK s \in Seq(Paths) : s = Past
  BY RestOfWalk
<1>2. PICK c : c = IF p \in Dirs THEN Children(p) ELSE << >>
  OBVIOUS
<1>3. c \in Seq(Paths)
  <2>1. ASSUME p \in Dirs PROVE Children(p) \in Seq(Paths)
    BY <2>1, ChildrenArePaths
  <2>2. QED
    BY <1>2, <2>1, EmptySeq
<1>4. PICK r : r = c \o s
  OBVIOUS
<1>5. /\ Len(c) \in Nat /\ Len(s) \in Nat /\ Len(r) = Len(c) + Len(s)
      /\ \A i \in 1..Len(c) : r[i] = c[i]
  BY <1>1, <1>3, <1>4
<1>6. \A j \in 1..Len(s) : r[Len(c) + j] = s[j]
  BY <1>1, <1>3, <1>4
<1>7. ASSUME NEW i \in 1..Len(r)
      PROVE  (\E j \in 1..Len(s) : r[i] = s[j]) \/ \E j \in 1..Len(c) : r[i] = c[j]
  <2>1. CASE i <= Len(c)
    <3>1. i \in 1..Len(c)
      BY <1>5, <2>1
    <3>2. QED
      BY <1>5, <3>1
  <2>2. CASE i > Len(c)
    <3>1. PICK j \in 1..Len(s) : i = Len(c) + j
      <4>1. i - Len(c) \in 1..Len(s) /\ i = Len(c) + (i - Len(c))
        BY <1>5, <2>2
      <4>2. QED
        BY <4>1
    <3>2. QED
      BY <1>6, <3>1
  <2>3. QED
    BY <1>5, <2>1, <2>2
<1>8. \A j \in 1..Len(s) : \E i \in 1..Len(r) : r[i] = s[j]
  <2>1. \A j \in 1..Len(s) : Len(c) + j \in 1..Len(r)
    BY <1>5
  <2>2. QED
    BY <1>6, <2>1
<1>9. \A j \in 1..Len(c) : \E i \in 1..Len(r) : r[i] = c[j]
  <2>1. \A j \in 1..Len(c) : j \in 1..Len(r)
    BY <1>5
  <2>2. QED
    BY <1>5, <2>1
<1>10. Into(p) = r
  BY <1>1, <1>2, <1>4 DEF Into, Past
<1>11. p \in Dirs => c = Children(p)
  BY <1>2
<1>12. p \notin Dirs => Len(c) = 0
  BY <1>2
<1>13. p \notin Dirs => ~ \E j \in 1..Len(c) : TRUE
  BY <1>12
<1>14. \A i \in 1..Len(r) :
         \/ \E j \in 1..Len(s) : r[i] = s[j]
         \/ p \in Dirs /\ \E j \in 1..Len(Children(p)) : r[i] = Children(p)[j]
  BY <1>7, <1>11, <1>13, Zenon
<1>15. p \in Dirs => \A j \in 1..Len(Children(p)) : \E i \in 1..Len(r) : r[i] = Children(p)[j]
  BY <1>9, <1>11, Zenon
<1>16. QED
  BY <1>1, <1>8, <1>10, <1>14, <1>15, Zenon

-----------------------------------------------------------------------------
\* A walk that is not over has visited no more than it may.
VisitedInv == walk.pending # << >> => walk.visited <= MaxVisited

\* What is shown was looked at.
ShownInv == \A p \in walk.shown : ~IsHidden(p)

\* p is a pending path, or lies below one.
Ahead(p) == \E i \in 1..Len(walk.pending) : walk.pending[i] \in Upward(p) \cup {Root}

\* The way from the root of the walk to q leads through no hidden directory.
OnTheWay(q) ==
  /\ IsPrefix(walk.root, q)
  /\ \A t \in Upward(q) : IsPrefix(walk.root, t) => t = q \/ ~IsHidden(t)
  /\ walk.tool = "list" => Len(q) = Len(walk.root) + 1

\* What is shown is in reach, and what is in reach is shown, or ahead of the walk,
\* unless the tool reports truncation.
ReachInv ==
  /\ walk.step = "done" => walk.pending = << >>
  /\ walk.tool \in {"context", "grep"} => walk.root = Root
  /\ walk.tool = "context" => ~walk.truncated
  /\ \A i \in 1..Len(walk.pending) : OnTheWay(walk.pending[i])
  /\ \A p \in walk.shown : InReach(p)
  /\ walk.truncated \/ \A p \in Paths : InReach(p) => p \in walk.shown \/ Ahead(p)

WalkInv == WalkTypeOK /\ VisitedInv /\ ShownInv /\ ReachInv

\* HiddenMatcher is made once for a walk, and a walk does not change its call.
LEMMA ReachStays ==
  ASSUME UNCHANGED gitignore, walk'.tool = walk.tool, walk'.root = walk.root,
         walk'.glob = walk.glob, walk'.limit = walk.limit
  PROVE  \A p : /\ IsHidden(p)' = IsHidden(p)
                /\ InReach(p)' = InReach(p)
                /\ OnTheWay(p)' = OnTheWay(p)
<1>1. \A p : IsHidden(p)' = IsHidden(p)
  BY DEF IsHidden
<1>2. \A p : OnTheWay(p)' = OnTheWay(p)
  BY <1>1 DEF OnTheWay
<1>3. \A p : Filtered(p)' = Filtered(p) /\ Depth(p)' = Depth(p)
  BY DEF Filtered, Depth
<1>4. \A p : InReach(p)' = InReach(p)
  BY <1>1, <1>3 DEF InReach
<1>5. QED
  BY <1>1, <1>2, <1>4

\* A hidden directory of the walk hides what lies below it.
LEMMA HiddenOutOfReach ==
  ASSUME NEW p, OnTheWay(p), IsHidden(p), NEW t, p \in Upward(t) \cup {Root}
  PROVE  ~InReach(t)
BY DEF OnTheWay, InReach, IsHidden

\* No directory hides what the walk looks at and finds visible.
LEMMA SeenIsClear ==
  ASSUME NEW p, OnTheWay(p), ~IsHidden(p)
  PROVE  \A t \in Upward(p) : IsPrefix(walk.root, t) => ~IsHidden(t)
BY DEF OnTheWay

\* An entry of a visible directory is on the way too.
LEMMA EntryOnTheWay ==
  ASSUME walk \in Walk, NEW p \in Paths, OnTheWay(p), ~IsHidden(p), walk.tool # "list",
         NEW e \in STRING
  PROVE  OnTheWay(Append(p, e))
<1>1. p \in Seq(STRING) /\ walk.root \in Seq(STRING)
  BY UpwardOfPath, WalkFields
<1>2. PICK c : c = Append(p, e)
  OBVIOUS
<1>3. Upward(c) = Upward(p) \cup {c}
  BY <1>1, <1>2, UpwardOfEntry, Zenon
<1>4. IsPrefix(walk.root, c)
  <2>1. Len(walk.root) <= Len(p) /\ SubSeq(walk.root, 1, Len(walk.root)) = SubSeq(p, 1, Len(walk.root))
    BY DEF OnTheWay, IsPrefix
  <2>2. Len(walk.root) \in 0..Len(p) /\ Len(c) = Len(p) + 1 /\ Len(p) \in Nat /\ Len(walk.root) \in Nat
    BY <1>1, <1>2, <2>1
  <2>3. SubSeq(c, 1, Len(walk.root)) = SubSeq(p, 1, Len(walk.root))
    BY <1>1, <1>2, <2>2, PrefixOfAppend
  <2>4. Len(walk.root) <= Len(c)
    BY <2>1, <2>2
  <2>5. QED
    BY <2>1, <2>3, <2>4 DEF IsPrefix
<1>5. QED
  BY <1>2, <1>3, <1>4 DEF OnTheWay

\* A step of the walk at the pending path p: it goes past p, into it, or stops, and
\* what it leaves behind in reach is shown or the truncation is reported.
Passes(p) ==
  /\ walk' \in Walk /\ SameCall(walk', walk) /\ UNCHANGED gitignore
  /\ walk'.pending = << >> \/ walk'.visited <= MaxVisited
  /\ walk.truncated => walk'.truncated
  /\ walk.tool = "context" => walk'.truncated = walk.truncated
  /\ \/ walk'.shown = walk.shown
     \/ walk'.shown = walk.shown \cup {p} /\ ~IsHidden(p) /\ InReach(p)
  /\ \/ walk'.pending = << >> /\ walk'.truncated
     \/ /\ walk'.pending = Past
        /\ \/ walk'.truncated
           \/ \A t \in Paths : InReach(t) /\ p \in Upward(t) \cup {Root} => t \in walk'.shown
     \/ /\ walk'.pending = Into(p) /\ ~IsHidden(p) /\ walk.tool # "list"
        /\ walk'.truncated \/ (InReach(p) => p \in walk'.shown)

\* Such a step keeps the invariant.
LEMMA StepKeeps ==
  ASSUME WalkInv, walk.pending # << >>, walk.step = "walking",
         NEW p, p = Head(walk.pending), Passes(p)
  PROVE  WalkInv'
<1>1. /\ walk \in Walk /\ walk'.step = "walking" /\ walk'.tool = walk.tool /\ walk'.root = walk.root
      /\ walk'.glob = walk.glob /\ walk'.limit = walk.limit /\ UNCHANGED gitignore
      /\ walk.pending # << >>
  BY DEF Passes, SameCall, WalkInv, WalkTypeOK
<1>2. WalkTypeOK' /\ VisitedInv'
  BY DEF Passes, WalkInv, WalkTypeOK, VisitedInv
<1>3. ShownInv'
  <2>1. \A q \in walk'.shown : ~IsHidden(q)
    BY DEF Passes, WalkInv, ShownInv
  <2>2. QED
    BY <1>1, <2>1, ReachStays DEF ShownInv
<1>4. p \in Paths /\ Past \in Seq(Paths) /\ Into(p) \in Seq(Paths)
  BY <1>1, RestOfWalk
<1>5. /\ walk.tool \in {"context", "grep"} => walk.root = Root
      /\ walk.tool = "context" => ~walk.truncated
      /\ \A i \in 1..Len(walk.pending) : OnTheWay(walk.pending[i])
      /\ \A q \in walk.shown : InReach(q)
      /\ walk.truncated \/ \A t \in Paths : InReach(t) => t \in walk.shown \/ Ahead(t)
  BY DEF WalkInv, ReachInv
<1>6. OnTheWay(p) /\ \A i \in 1..Len(Past) : OnTheWay(Past[i])
  BY <1>1, <1>5, RestPending
<1>7. walk.shown \subseteq walk'.shown /\ \A q \in walk'.shown : InReach(q)
  BY <1>5 DEF Passes
<1>8. PICK r \in Seq(Paths) : r = walk'.pending
  BY WalkFields DEF Passes
<1>9. \A i \in 1..Len(r) : OnTheWay(r[i])
  <2>1. CASE r = << >>
    BY <2>1
  <2>2. CASE r = Past
    BY <1>6, <2>2
  <2>3. CASE r = Into(p) /\ ~IsHidden(p) /\ walk.tool # "list"
    <3>1. SUFFICES ASSUME NEW i \in 1..Len(r) PROVE OnTheWay(r[i])
      OBVIOUS
    <3>2. CASE \E j \in 1..Len(Past) : r[i] = Past[j]
      BY <1>6, <3>2
    <3>3. CASE p \in Dirs /\ \E j \in 1..Len(Children(p)) : r[i] = Children(p)[j]
      <4>1. PICK e \in STRING : r[i] = Append(p, e)
        BY <3>3, ChildrenArePaths
      <4>2. QED
        BY <1>1, <1>4, <1>6, <2>3, <4>1, EntryOnTheWay
    <3>4. QED
      <4>1. \/ \E j \in 1..Len(Past) : r[i] = Past[j]
            \/ p \in Dirs /\ \E j \in 1..Len(Children(p)) : r[i] = Children(p)[j]
        BY <1>1, <1>4, <2>3, <3>1, IntoPending, Zenon
      <4>2. QED
        BY <3>2, <3>3, <4>1
  <2>4. QED
    BY <1>8, <2>1, <2>2, <2>3 DEF Passes
<1>10. ASSUME ~walk'.truncated, NEW t \in Paths, InReach(t)
       PROVE  t \in walk'.shown \/ \E i \in 1..Len(r) : r[i] \in Upward(t) \cup {Root}
  <2>1. CASE t \in walk.shown
    BY <1>7, <2>1
  <2>2. CASE t \notin walk.shown
    <3>1. PICK j \in 1..Len(walk.pending) : walk.pending[j] \in Upward(t) \cup {Root}
      BY <1>5, <1>10, <2>2 DEF Ahead, Passes
    <3>2. walk.pending[j] = p \/ \E i \in 1..Len(Past) : Past[i] = walk.pending[j]
      BY <1>1, <3>1, RestPending
    <3>3. CASE /\ r = Past
               /\ \A q \in Paths : InReach(q) /\ p \in Upward(q) \cup {Root} => q \in walk'.shown
      BY <1>10, <3>1, <3>2, <3>3
    <3>4. CASE r = Into(p) /\ (InReach(p) => p \in walk'.shown)
      <4>1. CASE \E i \in 1..Len(Past) : Past[i] = walk.pending[j]
        <5>1. \A k \in 1..Len(Past) : \E i \in 1..Len(r) : r[i] = Past[k]
          BY <1>1, <1>4, <3>4, IntoPending, Zenon
        <5>2. QED
          BY <3>1, <4>1, <5>1, Zenon
      <4>2. CASE walk.pending[j] = p /\ t = p
        BY <1>10, <3>4, <4>2
      <4>3. CASE walk.pending[j] = p /\ t # p
        <5>1. PICK k \in 1..Len(Children(p)) : p \in Dirs /\ Children(p)[k] \in Upward(t)
          BY <1>4, <3>1, <4>3, BelowPath
        <5>2. p \in Dirs => \A m \in 1..Len(Children(p)) : \E i \in 1..Len(r) : r[i] = Children(p)[m]
          BY <1>1, <1>4, <3>4, IntoPending, Zenon
        <5>3. PICK i \in 1..Len(r) : r[i] = Children(p)[k]
          BY <5>1, <5>2, Zenon
        <5>4. QED
          BY <5>1, <5>3, Zenon
      <4>4. QED
        BY <3>2, <4>1, <4>2, <4>3
    <3>5. QED
      BY <1>8, <1>10, <3>3, <3>4 DEF Passes
  <2>3. QED
    BY <2>1, <2>2
<1>11. ReachInv'
  <2>1. \A i \in 1..Len(r) : \A t \in Upward(r[i]) :
          IsPrefix(walk'.root, t) => t = r[i] \/ ~IsHidden(t)'
    BY <1>1, <1>9, ReachStays DEF OnTheWay
  <2>2. \A i \in 1..Len(r) : /\ IsPrefix(walk'.root, r[i])
                             /\ walk'.tool = "list" => Len(r[i]) = Len(walk'.root) + 1
    BY <1>1, <1>9 DEF OnTheWay
  <2>3. \A q \in walk'.shown : InReach(q)'
    BY <1>1, <1>7, ReachStays
  <2>4. walk'.truncated \/ \A q \in Paths : InReach(q)' => q \in walk'.shown \/ Ahead(q)'
    BY <1>1, <1>8, <1>10, ReachStays DEF Ahead
  <2>5. walk'.tool = "context" => ~walk'.truncated
    BY <1>1, <1>5 DEF Passes
  <2>6. QED
    BY <1>1, <1>5, <1>8, <2>1, <2>2, <2>3, <2>4, <2>5 DEF ReachInv, OnTheWay
<1>12. QED
  BY <1>2, <1>3, <1>11 DEF WalkInv

-----------------------------------------------------------------------------
\* What a tool knows at the first pending path.
LEMMA AtPending ==
  ASSUME WalkInv, walk.pending # << >>
  PROVE  LET p == Head(walk.pending)
         IN  /\ walk \in Walk /\ p \in Paths /\ Past \in Seq(Paths) /\ Into(p) \in Seq(Paths)
             /\ walk.visited <= MaxVisited /\ walk.visited \in Nat /\ MaxVisited \in Nat
             /\ OnTheWay(p)
             /\ IsHidden(p) => \A t \in Paths : p \in Upward(t) \cup {Root} => ~InReach(t)
             /\ ~IsHidden(p) => \A t \in Upward(p) : IsPrefix(walk.root, t) => ~IsHidden(t)
<1>1. PICK p : p = Head(walk.pending)
  OBVIOUS
<1>2. /\ walk \in Walk /\ walk.visited <= MaxVisited /\ walk.visited \in Nat /\ MaxVisited \in Nat
  BY WalkFields, WalkAssumption DEF WalkInv, WalkTypeOK, VisitedInv
<1>3. p \in Paths /\ Past \in Seq(Paths) /\ Into(p) \in Seq(Paths)
  BY <1>1, <1>2, RestOfWalk
<1>4. OnTheWay(p)
  BY <1>1, <1>2, RestPending DEF WalkInv, ReachInv
<1>5. IsHidden(p) => \A t \in Paths : p \in Upward(t) \cup {Root} => ~InReach(t)
  BY <1>4, HiddenOutOfReach
<1>6. ~IsHidden(p) => \A t \in Upward(p) : IsPrefix(walk.root, t) => ~IsHidden(t)
  BY <1>4, SeenIsClear
<1>7. QED
  BY <1>1, <1>2, <1>3, <1>4, <1>5, <1>6

\* The names of paths, and of the project directory.
Names == STRING \cup {"."}

\* A sequence of some elements is one of more elements.
LEMMA SeqOfMore ==
  ASSUME NEW S, NEW T, S \subseteq T, NEW s \in Seq(S)
  PROVE  s \in Seq(T)
OBVIOUS

\* The path a pattern is compared with.
LEMMA RelIsPath ==
  ASSUME NEW p \in Paths
  PROVE  p \in Seq(Names) /\ Rel(p) \in Seq(Names)
<1>1. <<".">> \in Seq(Names)
  <2>1. \A S : \A x \in S : <<x>> \in Seq(S)
    OBVIOUS
  <2>2. "." \in Names
    BY Zenon DEF Names
  <2>3. QED
    BY <2>1, <2>2, Zenon
<1>2. p \in Seq(STRING) /\ STRING \subseteq Names
  BY UpwardOfPath DEF Names
<1>3. p \in Seq(Names)
  BY <1>2, SeqOfMore, Zenon
<1>4. QED
  BY <1>1, <1>3, Zenon DEF Rel

\* A pattern, or none.
LEMMA GlobIsPath ==
  ASSUME NEW glob \in Globs \cup {NoGlob}
  PROVE  glob \in Seq(STRING) /\ glob \in Seq(Names)
<1>1. glob \in Seq(STRING)
  BY WalkAssumption, EmptySeq, Zenon DEF NoGlob
<1>2. STRING \subseteq Names
  BY DEF Names
<1>3. QED
  BY <1>1, <1>2, SeqOfMore, Zenon

\* filteredFS.Walk.
LEMMA VisitContextStep == ASSUME WalkInv, VisitContext PROVE WalkInv'
<1>1. PICK p : p = Head(walk.pending)
  OBVIOUS
<1>2. /\ walk.tool = "context" /\ walk.pending # << >> /\ walk.step = "walking"
      /\ UNCHANGED gitignore
      /\ walk' = IF IsHidden(p) THEN Goto(Past) ELSE Show(p, Into(p))
  BY <1>1 DEF VisitContext, Visiting
<1>3. /\ walk \in Walk /\ p \in Paths /\ Past \in Seq(Paths) /\ Into(p) \in Seq(Paths)
      /\ walk.visited <= MaxVisited
      /\ IsHidden(p) => \A t \in Paths : p \in Upward(t) \cup {Root} => ~InReach(t)
      /\ ~IsHidden(p) => \A t \in Upward(p) : IsPrefix(walk.root, t) => ~IsHidden(t)
  BY <1>1, <1>2, AtPending
<1>4. Passes(p)
  <2>1. CASE IsHidden(p)
    BY <1>2, <1>3, <2>1, GotoFields DEF Passes
  <2>2. CASE ~IsHidden(p)
    <3>1. InReach(p)
      BY <1>2, <1>3, <2>2 DEF InReach
    <3>2. QED
      BY <1>2, <1>3, <2>2, <3>1, ShowFields DEF Passes
  <2>3. QED
    BY <2>1, <2>2
<1>5. QED
  BY <1>1, <1>2, <1>4, StepKeeps

\* glob: what matchGlob accepts is what the pattern covers.
LEMMA VisitGlobStep == ASSUME WalkInv, VisitGlob PROVE WalkInv'
<1>1. PICK p : p = Head(walk.pending)
  OBVIOUS
<1>2. /\ walk.tool = "glob" /\ walk.pending # << >> /\ walk.step = "walking"
      /\ UNCHANGED gitignore
  BY DEF VisitGlob, Visiting
<1>3. /\ walk \in Walk /\ p \in Paths /\ Past \in Seq(Paths) /\ Into(p) \in Seq(Paths)
      /\ walk.visited <= MaxVisited /\ walk.visited \in Nat /\ MaxVisited \in Nat
      /\ IsHidden(p) => \A t \in Paths : p \in Upward(t) \cup {Root} => ~InReach(t)
      /\ ~IsHidden(p) => \A t \in Upward(p) : IsPrefix(walk.root, t) => ~IsHidden(t)
  BY <1>1, <1>2, AtPending
<1>4. ~IsHidden(p) => (InReach(p) <=> MatchGlob(walk.glob, Rel(p)))
  <2>1. walk.glob \in Seq(Names)
    BY <1>3, WalkFields, GlobIsPath
  <2>2. Rel(p) \in Seq(Names)
    BY <1>3, RelIsPath
  <2>3. MatchGlob(walk.glob, Rel(p)) <=> Covers(walk.glob, Rel(p))
    BY <2>1, <2>2, GlobIsCovers
  <2>4. QED
    BY <1>2, <1>3, <2>3 DEF InReach
<1>5. Passes(p)
  <2>1. CASE TooMany
    <3>1. walk' = StopTruncated(Counted(walk))
      BY <2>1 DEF VisitGlob
    <3>2. QED
      BY <1>2, <1>3, <3>1, CountedFields, StopFields DEF Passes, SameCall
  <2>2. ~TooMany => walk.visited + 1 <= MaxVisited
    BY <1>3 DEF TooMany
  <2>3. CASE ~TooMany /\ IsHidden(p)
    <3>1. walk' = Counted(Goto(Past))
      BY <1>1, <2>3 DEF VisitGlob
    <3>2. QED
      BY <1>2, <1>3, <2>2, <2>3, <3>1, GotoFields, CountedFields DEF Passes, SameCall
  <2>4. CASE ~TooMany /\ ~IsHidden(p) /\ ~MatchGlob(walk.glob, Rel(p))
    <3>1. walk' = Counted(Goto(Into(p)))
      BY <1>1, <2>4 DEF VisitGlob
    <3>2. QED
      BY <1>2, <1>3, <1>4, <2>2, <2>4, <3>1, GotoFields, CountedFields DEF Passes, SameCall
  <2>5. CASE ~TooMany /\ ~IsHidden(p) /\ MatchGlob(walk.glob, Rel(p))
    <3>1. PICK v : v = Counted(Show(p, Into(p)))
      OBVIOUS
    <3>2. /\ v \in Walk /\ SameCall(v, walk) /\ v.shown = walk.shown \cup {p}
          /\ v.pending = Into(p) /\ v.visited <= MaxVisited /\ v.truncated = walk.truncated
      BY <1>3, <2>2, <2>5, <3>1, ShowFields, CountedFields DEF SameCall
    <3>3. walk' = StopTruncated(v) \/ walk' = v
      BY <1>1, <2>5, <3>1 DEF VisitGlob
    <3>4. CASE walk' = v
      BY <1>2, <1>4, <2>5, <3>2, <3>4 DEF Passes
    <3>5. CASE walk' = StopTruncated(v)
      BY <1>2, <1>4, <2>5, <3>2, <3>5, StopFields DEF Passes, SameCall
    <3>6. QED
      BY <3>3, <3>4, <3>5
  <2>6. QED
    BY <2>1, <2>3, <2>4, <2>5
<1>6. QED
  BY <1>1, <1>2, <1>5, StepKeeps

\* What is above a path is no longer than it, and shorter unless it is the path.
LEMMA UpwardShorter ==
  ASSUME NEW t \in Paths, NEW p \in Paths, p \in Upward(t) \cup {Root}
  PROVE  Len(p) \in Nat /\ Len(t) \in Nat /\ Len(p) <= Len(t) /\ (p # t => Len(p) < Len(t))
<1>1. t \in Seq(STRING) /\ p \in Seq(STRING) /\ Len(t) \in Nat /\ Len(p) \in Nat
  BY UpwardOfPath
<1>2. CASE p = Root
  <2>1. Len(p) = 0 /\ (Len(t) = 0 => t = << >>)
    BY <1>1, <1>2 DEF Root
  <2>2. QED
    BY <1>1, <1>2, <2>1 DEF Root
<1>3. CASE p \in Upward(t)
  <2>1. PICK i \in 1..Len(t) : p = SubSeq(t, 1, i)
    BY <1>3 DEF Upward
  <2>2. Len(p) = i
    BY <1>1, <2>1
  <2>3. i = Len(t) => p = t
    BY <1>1, <2>1, SubSeqFull
  <2>4. QED
    BY <1>1, <2>1, <2>2, <2>3
<1>4. QED
  BY <1>2, <1>3

\* tree: nothing below an entry at the depth is in reach.
LEMMA VisitTreeStep == ASSUME WalkInv, VisitTree PROVE WalkInv'
<1>1. PICK p : p = Head(walk.pending)
  OBVIOUS
<1>2. /\ walk.tool = "tree" /\ walk.pending # << >> /\ walk.step = "walking"
      /\ UNCHANGED gitignore
      /\ walk' = IF IsHidden(p) THEN Goto(Past)
                 ELSE IF p = walk.root THEN Goto(Into(p))
                 ELSE IF Depth(p) >= walk.limit THEN Goto(Past)
                 ELSE IF Cardinality(walk.shown) >= MaxTreeEntries THEN StopTruncated(walk)
                 ELSE Show(p, Into(p))
  BY <1>1 DEF VisitTree, Visiting
<1>3. /\ walk \in Walk /\ p \in Paths /\ Past \in Seq(Paths) /\ Into(p) \in Seq(Paths)
      /\ walk.visited <= MaxVisited /\ IsPrefix(walk.root, p)
      /\ IsHidden(p) => \A t \in Paths : p \in Upward(t) \cup {Root} => ~InReach(t)
      /\ ~IsHidden(p) => \A t \in Upward(p) : IsPrefix(walk.root, t) => ~IsHidden(t)
  BY <1>1, <1>2, AtPending DEF OnTheWay
<1>4. Len(p) \in Nat /\ Len(walk.root) \in Nat /\ walk.limit \in Nat
  <2>1. p \in Seq(STRING) /\ walk.root \in Seq(STRING) /\ walk.limit \in Limits
    BY <1>3, UpwardOfPath, WalkFields, Zenon
  <2>2. walk.limit \in Nat
    BY <2>1, WalkAssumption, Zenon
  <2>3. Len(p) \in Nat /\ Len(walk.root) \in Nat
    BY <2>1
  <2>4. QED
    BY <2>2, <2>3
<1>5. Passes(p)
  <2>1. CASE IsHidden(p)
    BY <1>2, <1>3, <2>1, GotoFields DEF Passes
  <2>2. CASE ~IsHidden(p) /\ p = walk.root
    <3>1. ~InReach(p)
      BY <1>2, <2>2 DEF InReach, IsStrictPrefix
    <3>2. QED
      BY <1>2, <1>3, <2>2, <3>1, GotoFields DEF Passes
  <2>3. CASE ~IsHidden(p) /\ p # walk.root /\ Depth(p) >= walk.limit
    <3>1. \A t \in Paths : p \in Upward(t) \cup {Root} => ~InReach(t)
      <4>1. SUFFICES ASSUME NEW t \in Paths, p \in Upward(t) \cup {Root} PROVE ~InReach(t)
        OBVIOUS
      <4>2. Len(t) \in Nat /\ Len(p) <= Len(t)
        BY <1>3, <4>1, UpwardShorter
      <4>3. ~(Depth(t) < walk.limit)
        BY <1>4, <2>3, <4>2 DEF Depth
      <4>4. QED
        BY <1>2, <4>3 DEF InReach
    <3>2. QED
      BY <1>2, <1>3, <2>3, <3>1, GotoFields DEF Passes
  <2>4. CASE ~IsHidden(p) /\ p # walk.root /\ ~(Depth(p) >= walk.limit)
    <3>1. Depth(p) < walk.limit
      BY <1>4, <2>4 DEF Depth
    <3>2. InReach(p)
      BY <1>2, <1>3, <2>4, <3>1 DEF InReach, IsStrictPrefix
    <3>3. CASE walk' = StopTruncated(walk)
      BY <1>2, <1>3, <3>3, StopFields DEF Passes
    <3>4. CASE walk' = Show(p, Into(p))
      BY <1>2, <1>3, <2>4, <3>2, <3>4, ShowFields DEF Passes
    <3>5. QED
      BY <1>2, <2>4, <3>3, <3>4
  <2>5. QED
    BY <2>1, <2>2, <2>3, <2>4
<1>6. QED
  BY <1>1, <1>2, <1>5, StepKeeps

\* list: nothing below an entry is in reach.
LEMMA VisitListStep == ASSUME WalkInv, VisitList PROVE WalkInv'
<1>1. PICK p : p = Head(walk.pending)
  OBVIOUS
<1>2. /\ walk.tool = "list" /\ walk.pending # << >> /\ walk.step = "walking"
      /\ UNCHANGED gitignore
  BY DEF VisitList, Visiting
<1>3. /\ walk \in Walk /\ p \in Paths /\ Past \in Seq(Paths)
      /\ walk.visited <= MaxVisited /\ IsPrefix(walk.root, p) /\ Len(p) = Len(walk.root) + 1
      /\ IsHidden(p) => \A t \in Paths : p \in Upward(t) \cup {Root} => ~InReach(t)
      /\ ~IsHidden(p) => \A t \in Upward(p) : IsPrefix(walk.root, t) => ~IsHidden(t)
  BY <1>1, <1>2, AtPending DEF OnTheWay
<1>4. Len(p) \in Nat /\ Len(walk.root) \in Nat
  BY <1>3, UpwardOfPath, WalkFields
<1>5. \A t \in Paths : InReach(t) /\ p \in Upward(t) \cup {Root} => t = p
  <2>1. SUFFICES ASSUME NEW t \in Paths, InReach(t), p \in Upward(t) \cup {Root}, t # p PROVE FALSE
    OBVIOUS
  <2>2. Len(t) \in Nat /\ Len(p) < Len(t)
    BY <1>3, <2>1, UpwardShorter
  <2>3. Depth(t) = 0
    BY <1>2, <2>1 DEF InReach
  <2>4. QED
    BY <1>3, <1>4, <2>2, <2>3 DEF Depth
<1>6. PICK v : v = Show(p, Past)
  OBVIOUS
<1>7. /\ v \in Walk /\ SameCall(v, walk) /\ v.shown = walk.shown \cup {p} /\ v.pending = Past
      /\ v.visited = walk.visited /\ v.truncated = walk.truncated
  BY <1>3, <1>6, ShowFields
<1>8. Passes(p)
  <2>1. CASE IsHidden(p)
    <3>1. walk' = Goto(Past)
      BY <1>1, <2>1 DEF VisitList
    <3>2. QED
      BY <1>2, <1>3, <2>1, <3>1, GotoFields DEF Passes
  <2>2. CASE ~IsHidden(p)
    <3>1. InReach(p)
      <4>1. Depth(p) = 0 /\ p # walk.root
        BY <1>3, <1>4 DEF Depth
      <4>2. QED
        BY <1>2, <1>3, <2>2, <4>1 DEF InReach, IsStrictPrefix
    <3>2. walk' = StopTruncated(v) \/ walk' = v
      BY <1>1, <1>6, <2>2 DEF VisitList
    <3>3. CASE walk' = v
      BY <1>2, <1>3, <1>5, <1>7, <2>2, <3>1, <3>3 DEF Passes
    <3>4. CASE walk' = StopTruncated(v)
      BY <1>2, <1>7, <2>2, <3>1, <3>4, StopFields DEF Passes, SameCall
    <3>5. QED
      BY <3>2, <3>3, <3>4
  <2>3. QED
    BY <2>1, <2>2
<1>9. QED
  BY <1>1, <1>2, <1>8, StepKeeps

\* searchFile of grep: the file counts as scanned, and is shown if a line matches.
LEMMA SearchFileFields ==
  ASSUME walk \in Walk, walk.pending # << >>, walk.visited <= MaxVisited,
         walk.results < walk.limit, NEW p \in Files
  PROVE  LET w == SearchFile(p)
         IN  /\ w \in Walk /\ SameCall(w, walk)
             /\ w.shown = IF Hits[p] > 0 THEN walk.shown \cup {p} ELSE walk.shown
             /\ \/ w.pending = << >> /\ w.truncated
                \/ /\ w.pending = Past /\ w.visited = walk.visited + 1
                   /\ w.truncated = walk.truncated
<1>1. PICK v : v = Counted(Goto(Past))
  OBVIOUS
<1>2. /\ v \in Walk /\ SameCall(v, walk) /\ v.shown = walk.shown /\ v.visited = walk.visited + 1
      /\ v.results = walk.results /\ v.scanned = walk.scanned /\ v.pending = Past
      /\ v.truncated = walk.truncated
  BY <1>1, RestOfWalk, GotoFields, CountedFields DEF SameCall
<1>3. /\ walk.limit \in Nat /\ walk.results \in Nat /\ Hits[p] \in Nat /\ p \in Paths
      /\ walk.scanned \in SUBSET Files /\ walk.shown \in SUBSET Paths
  BY WalkFields, WalkAssumption DEF Files
<1>4. PICK n \in Nat : n = walk.results
                          + (IF Hits[p] < walk.limit - walk.results THEN Hits[p]
                             ELSE walk.limit - walk.results)
  BY <1>3
<1>5. PICK T \in SUBSET Files : T = walk.scanned \cup {p}
  BY <1>3
<1>6. PICK U \in SUBSET Paths : U = IF Hits[p] > 0 THEN walk.shown \cup {p} ELSE walk.shown
  BY <1>3
<1>7. PICK found : found = [v EXCEPT !.scanned = T, !.results = n, !.shown = U]
  OBVIOUS
<1>8. SearchFile(p) = IF found.results >= walk.limit THEN StopTruncated(found) ELSE found
  <2>1. found = [Counted(Goto(Past)) EXCEPT
                   !.scanned = @ \cup {p},
                   !.results = @ + (IF Hits[p] < walk.limit - walk.results THEN Hits[p]
                                    ELSE walk.limit - walk.results),
                   !.shown   = IF Hits[p] > 0 THEN @ \cup {p} ELSE @]
    BY <1>1, <1>2, <1>4, <1>5, <1>6, <1>7
  <2>2. QED
    BY <2>1 DEF SearchFile
<1>9. /\ found \in Walk /\ SameCall(found, v) /\ found.shown = U
      /\ found.visited = v.visited /\ found.pending = v.pending
      /\ found.truncated = v.truncated
  BY <1>2, <1>7 DEF Walk, SameCall
<1>10. PICK w : w = SearchFile(p)
  OBVIOUS
<1>11. CASE w = found
  BY <1>2, <1>6, <1>9, <1>10, <1>11 DEF SameCall
<1>12. CASE w = StopTruncated(found)
  <2>1. w \in Walk /\ SameCall(w, found) /\ w.shown = found.shown /\ w.pending = << >> /\ w.truncated
    BY <1>9, <1>12, StopFields
  <2>2. QED
    BY <1>2, <1>6, <1>9, <1>10, <2>1 DEF SameCall
<1>13. QED
  BY <1>8, <1>10, <1>11, <1>12

\* grep: a file has nothing below it, and one that is not read for its size is told of.
LEMMA VisitGrepStep == ASSUME WalkInv, VisitGrep PROVE WalkInv'
<1>1. PICK p : p = Head(walk.pending)
  OBVIOUS
<1>2. /\ walk.tool = "grep" /\ walk.pending # << >> /\ walk.step = "walking"
      /\ UNCHANGED gitignore
      /\ walk' = IF TooMany THEN StopTruncated(Counted(walk))
                 ELSE IF IsHidden(p) THEN Counted(Goto(Past))
                 ELSE IF p \in Dirs THEN Counted(Goto(Into(p)))
                 ELSE IF Enough THEN StopTruncated(Counted(walk))
                 ELSE IF ~Filtered(p) THEN Counted(Goto(Past))
                 ELSE IF TooLarge(p) THEN [Counted(Goto(Past)) EXCEPT !.truncated = TRUE]
                 ELSE SearchFile(p)
  BY <1>1 DEF VisitGrep, Visiting
<1>3. /\ walk \in Walk /\ p \in Paths /\ Past \in Seq(Paths) /\ Into(p) \in Seq(Paths)
      /\ walk.visited <= MaxVisited /\ walk.visited \in Nat /\ MaxVisited \in Nat
      /\ IsHidden(p) => \A t \in Paths : p \in Upward(t) \cup {Root} => ~InReach(t)
      /\ ~IsHidden(p) => \A t \in Upward(p) : IsPrefix(walk.root, t) => ~IsHidden(t)
  BY <1>1, <1>2, AtPending
<1>4. PICK v : v = Counted(Goto(Past))
  OBVIOUS
<1>5. /\ v \in Walk /\ SameCall(v, walk) /\ v.shown = walk.shown /\ v.pending = Past
      /\ v.visited = walk.visited + 1 /\ v.truncated = walk.truncated
  BY <1>3, <1>4, GotoFields, CountedFields DEF SameCall
<1>6. ~TooMany => walk.visited + 1 <= MaxVisited
  BY <1>3 DEF TooMany
<1>7. p \notin Dirs => \A t \in Paths : p \in Upward(t) \cup {Root} => t = p
  BY <1>3, BelowPath
<1>8. CASE walk' = StopTruncated(Counted(walk))
  <2>1. PICK u : u = Counted(walk)
    OBVIOUS
  <2>2. u \in Walk /\ SameCall(u, walk) /\ u.shown = walk.shown
    BY <1>3, <2>1, CountedFields
  <2>3. /\ walk' \in Walk /\ SameCall(walk', u) /\ walk'.shown = u.shown
        /\ walk'.pending = << >> /\ walk'.truncated
    BY <1>8, <2>1, <2>2, StopFields
  <2>4. Passes(p)
    BY <1>2, <2>2, <2>3 DEF Passes, SameCall
  <2>5. QED
    BY <1>1, <1>2, <2>4, StepKeeps
<1>9. CASE ~TooMany /\ IsHidden(p)
  <2>1. Passes(p)
    BY <1>2, <1>3, <1>4, <1>5, <1>6, <1>9 DEF Passes
  <2>2. QED
    BY <1>1, <1>2, <2>1, StepKeeps
<1>10. CASE ~TooMany /\ ~IsHidden(p) /\ p \in Dirs
  <2>1. walk' = Counted(Goto(Into(p)))
    BY <1>2, <1>10
  <2>2. ~InReach(p)
    BY <1>2, <1>10 DEF InReach, Files
  <2>3. Passes(p)
    BY <1>2, <1>3, <1>6, <1>10, <2>1, <2>2, GotoFields, CountedFields DEF Passes, SameCall
  <2>4. QED
    BY <1>1, <1>2, <2>3, StepKeeps
<1>11. CASE ~TooMany /\ ~IsHidden(p) /\ p \notin Dirs /\ ~Filtered(p) /\ walk' = v
  <2>1. ~InReach(p)
    BY <1>2, <1>11 DEF InReach
  <2>2. Passes(p)
    BY <1>2, <1>3, <1>5, <1>6, <1>7, <1>11, <2>1 DEF Passes
  <2>3. QED
    BY <1>1, <1>2, <2>2, StepKeeps
<1>12. CASE ~TooMany /\ walk' = [Counted(Goto(Past)) EXCEPT !.truncated = TRUE]
  <2>1. PICK yes \in BOOLEAN : yes = TRUE
    BY Zenon
  <2>2. walk' = [v EXCEPT !.truncated = yes]
    BY <1>4, <1>12, <2>1
  <2>3. /\ walk' \in Walk /\ SameCall(walk', v) /\ walk'.shown = v.shown
        /\ walk'.visited = v.visited /\ walk'.pending = v.pending /\ walk'.truncated = yes
    BY <1>5, <2>2 DEF Walk, SameCall
  <2>4. walk'.truncated
    BY <2>1, <2>3, Zenon
  <2>5. Passes(p)
    BY <1>2, <1>5, <1>6, <1>12, <2>3, <2>4 DEF Passes, SameCall
  <2>6. QED
    BY <1>1, <1>2, <2>5, StepKeeps
<1>13. CASE /\ ~TooMany /\ ~IsHidden(p) /\ p \notin Dirs /\ ~Enough /\ Filtered(p)
            /\ walk' = SearchFile(p)
  <2>1. p \in Files /\ walk.results \in Nat /\ walk.limit \in Nat
    BY <1>3, <1>13, WalkFields, WalkAssumption DEF Files
  <2>2. walk.results < walk.limit
    BY <1>13, <2>1 DEF Enough
  <2>3. /\ walk' \in Walk /\ SameCall(walk', walk)
        /\ walk'.shown = IF Hits[p] > 0 THEN walk.shown \cup {p} ELSE walk.shown
        /\ \/ walk'.pending = << >> /\ walk'.truncated
           \/ /\ walk'.pending = Past /\ walk'.visited = walk.visited + 1
              /\ walk'.truncated = walk.truncated
    BY <1>2, <1>3, <1>13, <2>1, <2>2, SearchFileFields
  <2>4. InReach(p) <=> Hits[p] > 0
    BY <1>2, <1>3, <1>13, <2>1 DEF InReach
  <2>5. Passes(p)
    BY <1>2, <1>6, <1>7, <1>13, <2>3, <2>4 DEF Passes
  <2>6. QED
    BY <1>1, <1>2, <2>5, StepKeeps
<1>14. QED
  BY <1>2, <1>4, <1>8, <1>9, <1>10, <1>11, <1>12, <1>13

-----------------------------------------------------------------------------
\* The walk is over, or its tool fails.
LEMMA EndStep == ASSUME WalkInv, Done \/ CtxEnds PROVE WalkInv'
<1>1. walk \in Walk /\ UNCHANGED gitignore
  BY DEF WalkInv, WalkTypeOK, Done, CtxEnds
<1>2. PICK s \in {"done", "failed"} :
        /\ walk' = [walk EXCEPT !.step = s]
        /\ s = "done" => walk.pending = << >>
  BY DEF Done, CtxEnds
<1>3. /\ walk' \in Walk /\ walk'.tool = walk.tool /\ walk'.pending = walk.pending
      /\ walk'.shown = walk.shown /\ walk'.visited = walk.visited /\ walk'.root = walk.root
      /\ walk'.glob = walk.glob /\ walk'.limit = walk.limit /\ walk'.truncated = walk.truncated
      /\ walk'.step = s
  BY <1>1, <1>2 DEF Walk
<1>4. WalkTypeOK' /\ VisitedInv'
  BY <1>1, <1>3 DEF WalkInv, WalkTypeOK, VisitedInv
<1>5. ShownInv'
  BY <1>1, <1>3, ReachStays DEF WalkInv, ShownInv
<1>6. ReachInv'
  BY <1>1, <1>2, <1>3, ReachStays DEF WalkInv, ReachInv, OnTheWay, Ahead
<1>7. QED
  BY <1>4, <1>5, <1>6 DEF WalkInv

\* Nothing happens.
LEMMA WalkStutter == ASSUME WalkInv, UNCHANGED walkVars PROVE WalkInv'
<1>1. UNCHANGED gitignore /\ walk' = walk
  BY DEF walkVars
<1>2. WalkTypeOK' /\ VisitedInv'
  BY <1>1 DEF WalkInv, WalkTypeOK, VisitedInv
<1>3. ShownInv'
  BY <1>1, ReachStays DEF WalkInv, ShownInv
<1>4. ReachInv'
  BY <1>1, ReachStays DEF WalkInv, ReachInv, OnTheWay, Ahead
<1>5. QED
  BY <1>2, <1>3, <1>4 DEF WalkInv

\* A walk that has just started.
Started(w, tool, root, glob) ==
  /\ w \in Walk /\ w.tool = tool /\ w.root = root /\ w.glob = glob
  /\ w.shown = {} /\ w.visited = 0 /\ w.step = "walking" /\ ~w.truncated
  /\ w.pending = IF root \in Paths THEN <<root>> ELSE << >>

\* A call that starts a walk.
LEMMA StartFields ==
  ASSUME NEW tool \in Tools, NEW root \in Seq(STRING), NEW glob \in Globs \cup {NoGlob},
         NEW limit \in Limits
  PROVE  Started(StartWalk(tool, root, glob, limit), tool, root, glob)
<1>1. PICK q \in Seq(Paths) : q = IF root \in Paths THEN <<root>> ELSE << >>
  <2>1. root \in Paths => <<root>> \in Seq(Paths)
    OBVIOUS
  <2>2. QED
    BY <2>1, EmptySeq, Zenon
<1>2. PICK no \in BOOLEAN : no = FALSE
  BY Zenon
<1>3. 0 \in 0..(MaxVisited + 1)
  BY WalkAssumption
<1>4. StartWalk(tool, root, glob, limit) =
        [tool |-> tool, root |-> root, glob |-> glob, limit |-> limit, pending |-> q,
         visited |-> 0, scanned |-> {}, results |-> 0, shown |-> {}, truncated |-> no,
         step |-> "walking"]
  BY <1>1, <1>2 DEF StartWalk
<1>5. PICK w : w = StartWalk(tool, root, glob, limit)
  OBVIOUS
<1>6. /\ w \in Walk /\ w.tool = tool /\ w.root = root /\ w.glob = glob
      /\ w.shown = {} /\ w.visited = 0 /\ w.step = "walking" /\ w.pending = q
      /\ w.truncated = no
  BY <1>1, <1>3, <1>4, <1>5 DEF Walk
<1>7. QED
  BY <1>1, <1>2, <1>5, <1>6, Zenon DEF Started

\* The prefixes of a path are what is above it.
LEMMA PrefixIsAbove ==
  ASSUME NEW S, NEW r \in Seq(S), NEW t \in Seq(S), IsPrefix(r, t)
  PROVE  r \in Upward(t) \cup {Root} /\ (t \in Upward(r) => t = r)
<1>1. Len(r) \in Nat /\ Len(t) \in Nat /\ Len(r) <= Len(t)
  BY DEF IsPrefix
<1>2. SubSeq(r, 1, Len(r)) = r /\ r = SubSeq(t, 1, Len(r))
  BY SubSeqFull DEF IsPrefix
<1>3. CASE Len(r) = 0
  BY <1>1, <1>3 DEF Root, Upward
<1>4. CASE Len(r) # 0
  <2>1. Len(r) \in 1..Len(t)
    BY <1>1, <1>4
  <2>2. r \in Upward(t)
    BY <1>2, <2>1 DEF Upward
  <2>3. ASSUME t \in Upward(r) PROVE t = r
    <3>1. PICK i \in 1..Len(r) : t = SubSeq(r, 1, i)
      BY <2>3 DEF Upward
    <3>2. Len(t) = i
      BY <1>1, <3>1
    <3>3. i \in Nat /\ i <= Len(r) /\ Len(r) <= i
      BY <1>1, <3>2
    <3>4. i = Len(r)
      BY <1>1, <3>3
    <3>5. QED
      BY <1>2, <3>1, <3>4
  <2>4. QED
    BY <2>2, <2>3
<1>5. QED
  BY <1>3, <1>4

\* Where a glob starts: the parts before the first wildcard, or the project directory.
LEMMA GlobWalkRootIs ==
  ASSUME NEW S, NEW pattern \in Seq(S)
  PROVE  \E k \in 0..Len(pattern) :
           /\ \A i \in 1..k : pattern[i] # "**" /\ pattern[i] \notin DOMAIN Wildcard
           /\ GlobWalkRoot(pattern) =
                IF SubSeq(pattern, 1, k) = <<".">> THEN Root ELSE SubSeq(pattern, 1, k)
<1>1. PICK n \in Nat : n = Len(pattern)
  OBVIOUS
<1>2. PICK T : T = {i \in 1..n : pattern[i] = "**" \/ pattern[i] \in DOMAIN Wildcard}
  OBVIOUS
<1>3. PICK wild : wild = IF T = {} THEN 0 ELSE Min(T)
  OBVIOUS
<1>4. PICK literal : literal = IF wild = 0 THEN pattern ELSE SubSeq(pattern, 1, wild - 1)
  OBVIOUS
<1>5. GlobWalkRoot(pattern) = IF literal = <<".">> THEN Root ELSE literal
  BY <1>1, <1>2, <1>3, <1>4 DEF GlobWalkRoot, SelectInSeq
<1>6. T \subseteq Nat
  BY <1>2
<1>7. CASE T = {}
  <2>1. literal = SubSeq(pattern, 1, n)
    BY <1>1, <1>3, <1>4, <1>7, SubSeqFull
  <2>2. \A i \in 1..n : pattern[i] # "**" /\ pattern[i] \notin DOMAIN Wildcard
    BY <1>2, <1>7
  <2>3. n \in 0..n
    OBVIOUS
  <2>4. QED
    BY <1>1, <1>5, <2>1, <2>2, <2>3
<1>8. CASE T # {}
  <2>1. Min(T) \in T /\ \A m \in T : Min(T) <= m
    BY <1>6, <1>8, MinIsLeast
  <2>2. wild = Min(T) /\ wild \in 1..n
    BY <1>2, <1>3, <1>8, <2>1
  <2>3. PICK k \in 0..n : k = wild - 1
    BY <2>2
  <2>4. literal = SubSeq(pattern, 1, k)
    BY <1>4, <2>2, <2>3
  <2>5. \A i \in 1..k : i \in 1..n /\ i < wild
    BY <2>2, <2>3
  <2>6. \A i \in 1..k : pattern[i] # "**" /\ pattern[i] \notin DOMAIN Wildcard
    <3>1. \A i \in 1..k : i \notin T
      BY <2>1, <2>2, <2>5
    <3>2. QED
      BY <1>2, <2>5, <3>1
  <2>7. QED
    BY <1>1, <1>5, <2>4, <2>6
<1>9. QED
  BY <1>7, <1>8

\* It is a path of names.
LEMMA GlobWalkRootIsPath ==
  ASSUME NEW pattern \in Globs
  PROVE  GlobWalkRoot(pattern) \in Seq(STRING)
<1>1. pattern \in Seq(STRING)
  BY GlobIsPath
<1>2. PICK k \in 0..Len(pattern) :
        GlobWalkRoot(pattern) = IF SubSeq(pattern, 1, k) = <<".">> THEN Root ELSE SubSeq(pattern, 1, k)
  BY <1>1, GlobWalkRootIs
<1>3. SubSeq(pattern, 1, k) \in Seq(STRING)
  BY <1>1
<1>4. QED
  BY <1>2, <1>3, PathOfEntry

\* The literal parts that a pattern begins with cover as many names, the same ones.
LEMMA LiteralParts ==
  ASSUME NEW S, NEW pattern \in Seq(S), NEW path \in Seq(S), Covers(pattern, path),
         NEW k \in 0..Len(pattern),
         \A i \in 1..k : pattern[i] # "**" /\ pattern[i] \notin DOMAIN Wildcard
  PROVE  k <= Len(path) /\ SubSeq(pattern, 1, k) = SubSeq(path, 1, k)
<1>1. PICK m \in Nat, n \in Nat : m = Len(pattern) /\ n = Len(path)
  OBVIOUS
<1>2. PICK cut \in [0..m -> 0..n] :
        /\ cut[0] = 0
        /\ \A i \in 1..m :
             IF pattern[i] = "**" THEN cut[i] >= cut[i - 1]
             ELSE cut[i] = cut[i - 1] + 1 /\ MatchPart(pattern[i], path[cut[i]])
  BY <1>1 DEF Covers
<1>3. k \in 0..m /\ k \in Nat
  BY <1>1
<1>4. \A i \in 1..k : cut[i] = cut[i - 1] + 1 /\ pattern[i] = path[cut[i]]
  <2>1. SUFFICES ASSUME NEW i \in 1..k PROVE cut[i] = cut[i - 1] + 1 /\ pattern[i] = path[cut[i]]
    OBVIOUS
  <2>2. i \in 1..m
    BY <1>3
  <2>3. pattern[i] # "**" /\ pattern[i] \notin DOMAIN Wildcard
    BY <2>1
  <2>4. cut[i] = cut[i - 1] + 1 /\ MatchPart(pattern[i], path[cut[i]])
    BY <1>2, <2>2, <2>3
  <2>5. QED
    BY <2>3, <2>4 DEF MatchPart
<1>5. ASSUME {i \in 0..k : cut[i] # i} # {} PROVE FALSE
  <2>1. PICK T : T = {i \in 0..k : cut[i] # i}
    OBVIOUS
  <2>2. T \subseteq Nat
    BY <1>3, <2>1
  <2>3. PICK i \in T : \A j \in T : i <= j
    BY <1>5, <2>1, <2>2, MinIsLeast
  <2>4. i \in 0..k /\ cut[i] # i /\ i # 0
    BY <1>2, <2>1, <2>3
  <2>5. PICK j \in 0..k : j = i - 1 /\ i \in 1..k
    BY <1>3, <2>4
  <2>6. cut[j] = j
    <3>1. j \notin T
      BY <2>3, <2>5
    <3>2. QED
      BY <2>1, <3>1
  <2>7. cut[i] = cut[j] + 1
    BY <1>4, <2>5
  <2>8. QED
    BY <2>4, <2>5, <2>6, <2>7
<1>6. \A i \in 0..k : cut[i] = i
  BY <1>5
<1>7. k <= n
  BY <1>2, <1>3, <1>6
<1>8. \A i \in 1..k : pattern[i] = path[i]
  <2>1. \A i \in 1..k : i \in 0..k
    BY <1>3
  <2>2. QED
    BY <1>4, <1>6, <2>1
<1>9. PICK a \in Seq(S) : a = SubSeq(pattern, 1, k)
  BY <1>1, <1>3
<1>10. k \in 0..Len(path)
  BY <1>1, <1>3, <1>7
<1>11. SubSeq(path, 1, k) \in Seq(S)
  BY <1>10
<1>12. PICK b \in Seq(S) : b = SubSeq(path, 1, k)
  BY <1>11, Zenon
<1>13. /\ Len(a) = k /\ \A i \in 1..k : a[i] = pattern[i]
       /\ Len(b) = k /\ \A i \in 1..k : b[i] = path[i]
  BY <1>10, <1>3, <1>9, <1>12
<1>14. a = b
  BY <1>8, <1>13, SeqEqual
<1>15. QED
  BY <1>1, <1>7, <1>9, <1>12, <1>14

\* Whatever a pattern covers lies below the place where its glob starts.
LEMMA GlobStartsAbove ==
  ASSUME NEW pattern \in Globs, NEW t \in Paths, Covers(pattern, Rel(t))
  PROVE  GlobWalkRoot(pattern) \in Upward(t) \cup {Root}
<1>1. pattern \in Seq(Names) /\ Rel(t) \in Seq(Names) /\ t \in Seq(Names)
  BY GlobIsPath, RelIsPath
<1>2. PICK k \in 0..Len(pattern) :
        /\ \A i \in 1..k : pattern[i] # "**" /\ pattern[i] \notin DOMAIN Wildcard
        /\ GlobWalkRoot(pattern) =
             IF SubSeq(pattern, 1, k) = <<".">> THEN Root ELSE SubSeq(pattern, 1, k)
  BY <1>1, GlobWalkRootIs
<1>3. k <= Len(Rel(t)) /\ SubSeq(pattern, 1, k) = SubSeq(Rel(t), 1, k)
  BY <1>1, <1>2, LiteralParts
<1>4. k \in Nat /\ Len(t) \in Nat
  BY <1>1, <1>2
<1>5. CASE k = 0
  <2>1. SubSeq(pattern, 1, k) = << >>
    BY <1>5, SubSeqEmpty
  <2>2. QED
    BY <1>2, <2>1 DEF Root
<1>6. CASE k # 0 /\ t # Root
  <2>1. Rel(t) = t
    BY <1>6 DEF Rel
  <2>2. k \in 1..Len(t)
    BY <1>3, <1>4, <1>6, <2>1
  <2>3. SubSeq(t, 1, k) \in Upward(t)
    BY <2>2 DEF Upward
  <2>4. SubSeq(pattern, 1, k) = SubSeq(t, 1, k)
    BY <1>3, <2>1, Zenon
  <2>5. QED
    BY <1>2, <2>3, <2>4
<1>7. CASE k # 0 /\ t = Root
  <2>1. PICK dot \in Seq(Names) : dot = <<".">> /\ dot = Rel(t)
    BY <1>1, <1>7 DEF Rel
  <2>2. Len(dot) = 1
    BY <2>1
  <2>3. k = 1
    BY <1>3, <1>4, <1>7, <2>1, <2>2
  <2>4. SubSeq(dot, 1, k) = dot
    BY <2>2, <2>3, SubSeqFull
  <2>5. SubSeq(pattern, 1, k) = <<".">>
    BY <1>3, <2>1, <2>4, Zenon
  <2>6. QED
    BY <1>2, <2>5
<1>8. QED
  BY <1>5, <1>6, <1>7

\* A call of list.
LEMMA ListFields ==
  ASSUME NEW d \in Dirs, NEW entries \in Seq(Paths), NEW limit \in Limits
  PROVE  LET w == StartList(d, entries, limit)
         IN  /\ w \in Walk /\ w.tool = "list" /\ w.root = d /\ w.shown = {} /\ w.visited = 0
             /\ w.step = "walking" /\ w.pending = entries
             /\ ~w.truncated => Len(Children(d)) <= MaxDirectoryScan
<1>1. d \in Seq(STRING) /\ Children(d) \in Seq(Paths) /\ MaxDirectoryScan \in Nat
  BY WalkAssumption, ChildrenArePaths
<1>2. PICK v : v = StartWalk("list", d, NoGlob, limit)
  OBVIOUS
<1>3. v \in Walk /\ v.tool = "list" /\ v.root = d /\ v.shown = {} /\ v.visited = 0 /\ v.step = "walking"
  <2>1. PICK tool \in Tools : tool = "list"
    BY DEF Tools
  <2>2. PICK none \in Globs \cup {NoGlob} : none = NoGlob
    BY Zenon
  <2>3. PICK root \in Seq(STRING) : root = d
    BY <1>1, Zenon
  <2>4. v = StartWalk(tool, root, none, limit)
    BY <1>2, <2>1, <2>2, <2>3, Zenon
  <2>5. Started(v, tool, root, none)
    BY <2>4, StartFields, Zenon
  <2>6. QED
    BY <2>1, <2>3, <2>5, Zenon DEF Started
<1>4. PICK n \in Nat : n = Len(Children(d))
  BY <1>1
<1>5. PICK cut \in BOOLEAN : cut = (n > MaxDirectoryScan)
  <2>1. (n > MaxDirectoryScan) \in BOOLEAN
    BY <1>1
  <2>2. QED
    BY <2>1, Zenon
<1>6. StartList(d, entries, limit) = [v EXCEPT !.pending = entries, !.truncated = cut]
  BY <1>2, <1>4, <1>5 DEF StartList
<1>7. PICK w : w = [v EXCEPT !.pending = entries, !.truncated = cut]
  OBVIOUS
<1>8. /\ w \in Walk /\ w.tool = "list" /\ w.root = d /\ w.shown = {} /\ w.visited = 0
      /\ w.step = "walking" /\ w.pending = entries /\ w.truncated = cut
  BY <1>3, <1>5, <1>7 DEF Walk
<1>9. ~cut => n <= MaxDirectoryScan
  <2>1. n > MaxDirectoryScan \/ n <= MaxDirectoryScan
    BY <1>1
  <2>2. QED
    BY <1>5, <2>1, Zenon
<1>10. QED
  BY <1>4, <1>6, <1>7, <1>8, <1>9

\* As many sorted picks as there are places are all of them.
LEMMA SortedPicksAll ==
  ASSUME NEW n \in Nat, NEW at \in [1..n -> 1..n],
         \A i, j \in 1..n : i < j => at[i] < at[j]
  PROVE  \A i \in 1..n : at[i] = i
<1>1. ASSUME {i \in 1..n : at[i] < i} # {} PROVE FALSE
  <2>1. PICK T : T = {i \in 1..n : at[i] < i}
    OBVIOUS
  <2>2. T \subseteq Nat
    BY <2>1
  <2>3. PICK i \in T : \A j \in T : i <= j
    BY <1>1, <2>1, <2>2, MinIsLeast
  <2>4. i \in 1..n /\ at[i] \in 1..n /\ at[i] < i
    BY <2>1, <2>3
  <2>5. PICK j \in 1..n : j = i - 1
    BY <2>4
  <2>6. j \notin T
    BY <2>3, <2>4, <2>5
  <2>7. at[j] \in 1..n /\ ~(at[j] < j) /\ at[j] < at[i]
    BY <2>1, <2>4, <2>5, <2>6
  <2>8. QED
    BY <2>4, <2>5, <2>7
<1>2. ASSUME {i \in 1..n : at[i] > i} # {} PROVE FALSE
  <2>1. PICK T : T = {n - i : i \in {j \in 1..n : at[j] > j}}
    OBVIOUS
  <2>2. T \subseteq Nat /\ T # {}
    BY <1>2, <2>1, SMTT(30)
  <2>3. PICK m \in T : \A k \in T : m <= k
    BY <2>2, MinIsLeast
  <2>4. PICK i \in 1..n : at[i] > i /\ m = n - i
    BY <2>1, <2>3
  <2>5. at[i] \in 1..n
    OBVIOUS
  <2>6. PICK j \in 1..n : j = i + 1
    BY <2>4, <2>5
  <2>7. ~(at[j] > j)
    <3>1. ASSUME at[j] > j PROVE FALSE
      <4>1. n - j \in T
        BY <2>1, <3>1
      <4>2. m <= n - j
        BY <2>3, <4>1
      <4>3. QED
        BY <2>4, <2>6, <4>2
    <3>2. QED
      BY <3>1
  <2>8. at[j] \in 1..n /\ at[i] < at[j]
    BY <2>4, <2>6
  <2>9. QED
    BY <2>4, <2>5, <2>6, <2>7, <2>8
<1>3. ASSUME NEW i \in 1..n PROVE at[i] = i
  <2>1. at[i] \in 1..n /\ ~(at[i] < i) /\ ~(at[i] > i)
    BY <1>1, <1>2
  <2>2. QED
    BY <2>1
<1>4. QED
  BY <1>3

\* What ReadDir returns: entries of the directory, and all of them unless there are
\* more than it is asked for.
LEMMA ScannedEntries ==
  ASSUME NEW d \in Dirs, NEW entries \in Scanned(d)
  PROVE  /\ entries \in Seq(Paths)
         /\ \A i \in 1..Len(entries) : \E j \in 1..Len(Children(d)) : entries[i] = Children(d)[j]
         /\ Len(Children(d)) <= MaxDirectoryScan =>
              \A j \in 1..Len(Children(d)) : \E i \in 1..Len(entries) : entries[i] = Children(d)[j]
<1>1. Children(d) \in Seq(Paths) /\ MaxDirectoryScan \in Nat
  BY WalkAssumption, ChildrenArePaths
<1>2. PICK n \in Nat : n = Len(Children(d))
  BY <1>1
<1>3. PICK count \in Nat : count = IF n > MaxDirectoryScan THEN MaxDirectoryScan ELSE n
  BY <1>1, <1>2
<1>4. PICK at \in [1..count -> 1..n] :
        /\ entries = [i \in 1..count |-> Children(d)[at[i]]]
        /\ \A i, j \in 1..count : i < j => at[i] < at[j]
  BY <1>2, <1>3 DEF Scanned
<1>5. \A i \in 1..count : Children(d)[at[i]] \in Paths
  BY <1>1, <1>2, <1>4
<1>6. entries \in [1..count -> Paths]
  BY <1>4, <1>5
<1>7. entries \in Seq(Paths) /\ Len(entries) = count
  BY <1>3, <1>6
<1>8. \A i \in 1..count : entries[i] = Children(d)[at[i]] /\ at[i] \in 1..n
  BY <1>4
<1>9. ASSUME n <= MaxDirectoryScan
      PROVE  \A j \in 1..n : \E i \in 1..count : entries[i] = Children(d)[j]
  <2>1. count = n
    BY <1>1, <1>3, <1>9
  <2>2. at \in [1..n -> 1..n] /\ \A i, j \in 1..n : i < j => at[i] < at[j]
    BY <1>4, <2>1
  <2>3. \A i \in 1..n : at[i] = i
    BY <2>2, SortedPicksAll
  <2>4. QED
    BY <1>8, <2>1, <2>3
<1>10. QED
  BY <1>2, <1>7, <1>8, <1>9

\* A walk that has just started has shown nothing, and what is in reach is ahead.
LEMMA InitReach ==
  ASSUME NEW tool \in Tools \ {"list"}, NEW root \in Seq(STRING), NEW glob,
         Started(walk, tool, root, glob), tool \in {"context", "grep"} => root = Root,
         \A t \in Paths : InReach(t) => root \in Upward(t) \cup {Root}
  PROVE  walk \in Walk /\ VisitedInv /\ ShownInv /\ ReachInv
<1>1. walk \in Walk /\ VisitedInv /\ ShownInv
  BY WalkAssumption DEF VisitedInv, ShownInv, Started
<1>2. PICK r \in Seq(STRING) : r = root
  OBVIOUS
<1>3. /\ walk.tool = tool /\ walk.root = r /\ walk.shown = {} /\ walk.step = "walking"
      /\ ~walk.truncated
      /\ walk.pending = IF r \in Paths THEN <<r>> ELSE << >>
  BY <1>2, Zenon DEF Started
<1>4. CASE r \in Paths
  <2>1. Len(walk.pending) = 1 /\ walk.pending[1] = r
    BY <1>3, <1>4
  <2>2. \A i \in 1..Len(walk.pending) : walk.pending[i] = r
    BY <2>1
  <2>3. OnTheWay(r)
    <3>1. IsPrefix(walk.root, r)
      <4>1. Len(r) <= Len(r)
        OBVIOUS
      <4>2. QED
        BY <1>3, <4>1 DEF IsPrefix
    <3>2. \A t \in Upward(r) : IsPrefix(r, t) => t = r
      <4>1. \A t \in Upward(r) : t \in Seq(STRING)
        BY <1>4, UpwardOfPath
      <4>2. QED
        BY <1>2, <4>1, PrefixIsAbove
    <3>3. QED
      BY <1>3, <3>1, <3>2 DEF OnTheWay
  <2>4. 1 \in 1..Len(walk.pending)
    BY <2>1
  <2>5. \A t \in Paths : InReach(t) => Ahead(t)
    BY <1>2, <2>1, <2>4 DEF Ahead
  <2>6. QED
    BY <1>3, <1>1, <1>2, <2>2, <2>3, <2>5 DEF ReachInv
<1>5. CASE r \notin Paths
  <2>1. \A t \in Paths : ~InReach(t)
    BY <1>2, <1>5, UpwardOfPath, PathOfEntry
  <2>2. Len(walk.pending) = 0
    BY <1>3, <1>5
  <2>3. \A i \in 1..Len(walk.pending) : FALSE
    BY <2>2
  <2>4. QED
    BY <1>3, <1>1, <1>2, <2>1, <2>3 DEF ReachInv
<1>6. QED
  BY <1>4, <1>5

\* A call of list begins with the entries of its directory.
LEMMA InitList ==
  ASSUME NEW d \in Dirs, ~IsHidden(d), NEW entries \in Scanned(d), NEW limit \in Limits,
         walk = StartList(d, entries, limit)
  PROVE  walk \in Walk /\ VisitedInv /\ ShownInv /\ ReachInv
<1>1. /\ entries \in Seq(Paths)
      /\ \A i \in 1..Len(entries) : \E j \in 1..Len(Children(d)) : entries[i] = Children(d)[j]
      /\ Len(Children(d)) <= MaxDirectoryScan =>
           \A j \in 1..Len(Children(d)) : \E i \in 1..Len(entries) : entries[i] = Children(d)[j]
  BY ScannedEntries
<1>2. /\ walk \in Walk /\ walk.tool = "list" /\ walk.root = d /\ walk.shown = {} /\ walk.visited = 0
      /\ walk.step = "walking" /\ walk.pending = entries
      /\ ~walk.truncated => Len(Children(d)) <= MaxDirectoryScan
  BY <1>1, ListFields
<1>3. VisitedInv /\ ShownInv
  BY <1>2, WalkAssumption DEF VisitedInv, ShownInv
<1>4. d \in Paths /\ d \in Seq(STRING) /\ Len(d) \in Nat
  BY WalkAssumption, PathOfEntry
<1>5. ASSUME NEW i \in 1..Len(entries) PROVE OnTheWay(entries[i])
  <2>1. PICK e \in STRING : entries[i] = Append(d, e)
    BY <1>1, <1>5, ChildrenArePaths, ZenonT(60)
  <2>2. PICK c : c = Append(d, e)
    OBVIOUS
  <2>3. Len(c) = Len(d) + 1
    BY <1>4, <2>2, AppendProperties
  <2>4. Upward(c) = Upward(d) \cup {c}
    BY <1>4, <2>2, UpwardOfEntry, Zenon
  <2>5. IsPrefix(d, c)
    <3>1. Len(d) \in 0..Len(d) /\ Len(d) <= Len(c)
      BY <1>4, <2>3
    <3>2. SubSeq(c, 1, Len(d)) = SubSeq(d, 1, Len(d))
      BY <1>4, <2>2, <3>1, PrefixOfAppend
    <3>3. QED
      BY <3>1, <3>2 DEF IsPrefix
  <2>6. \A t \in Upward(d) : IsPrefix(d, t) => t = d
    <3>1. \A t \in Upward(d) : t \in Seq(STRING)
      BY <1>4, UpwardOfPath
    <3>2. QED
      BY <1>4, <3>1, PrefixIsAbove
  <2>7. QED
    BY <1>2, <2>1, <2>2, <2>3, <2>4, <2>5, <2>6 DEF OnTheWay
<1>6. ASSUME ~walk.truncated, NEW t \in Paths, InReach(t) PROVE Ahead(t)
  <2>1. IsPrefix(d, t) /\ d # t /\ Len(t) - Len(d) - 1 = 0
    BY <1>2, <1>6 DEF InReach, IsStrictPrefix, Depth
  <2>2. t \in Seq(STRING) /\ Len(t) \in Nat
    BY UpwardOfPath
  <2>3. d \in Upward(t) \cup {Root}
    BY <1>4, <2>1, <2>2, PrefixIsAbove
  <2>4. PICK j \in 1..Len(Children(d)) : Children(d)[j] \in Upward(t)
    BY <1>4, <2>1, <2>3, BelowPath
  <2>5. PICK i \in 1..Len(entries) : entries[i] = Children(d)[j]
    BY <1>1, <1>2, <1>6
  <2>6. QED
    BY <1>2, <2>4, <2>5 DEF Ahead
<1>7. ReachInv
  BY <1>2, <1>5, <1>6 DEF ReachInv
<1>8. QED
  BY <1>2, <1>3, <1>7

\* The invariant holds in every initial state.
LEMMA InitWalk == WalkInit => WalkInv
<1>1. SUFFICES ASSUME WalkInit PROVE walk \in Walk /\ VisitedInv /\ ShownInv /\ ReachInv
  BY DEF WalkInit, WalkInv, WalkTypeOK
<1>2. PICK limit \in Limits :
       \/ walk = StartWalk("context", Root, NoGlob, limit)
       \/ \E pattern \in Globs : walk = StartWalk("glob", GlobWalkRoot(pattern), pattern, limit)
       \/ \E filter \in Globs \cup {NoGlob} : walk = StartWalk("grep", Root, filter, limit)
       \/ \E root \in Paths : walk = StartWalk("tree", root, NoGlob, limit)
       \/ \E d \in Dirs : ~IsHidden(d) /\ \E entries \in Scanned(d) : walk = StartList(d, entries, limit)
  BY <1>1 DEF WalkInit
<1>3. Root \in Seq(STRING)
  BY PathOfEntry
<1>4. "context" \in Tools /\ "glob" \in Tools /\ "grep" \in Tools /\ "tree" \in Tools
  BY DEF Tools
<1>5. /\ \A tool \in {"context", "grep"} : tool \in Tools \ {"list"}
      /\ "glob" \in Tools \ {"list"} /\ ~("glob" \in {"context", "grep"})
      /\ "tree" \in Tools \ {"list"} /\ ~("tree" \in {"context", "grep"})
  BY DEF Tools
<1>6. ASSUME NEW tool \in {"context", "grep"}, NEW glob \in Globs \cup {NoGlob},
             walk = StartWalk(tool, Root, glob, limit)
      PROVE  walk \in Walk /\ VisitedInv /\ ShownInv /\ ReachInv
  <2>1. tool \in Tools
    BY <1>4
  <2>2. Started(walk, tool, Root, glob)
    BY <1>3, <1>6, <2>1, StartFields, Zenon
  <2>3. QED
    BY <1>3, <1>5, <2>2, InitReach, Zenon
<1>7. ASSUME NEW pattern \in Globs, walk = StartWalk("glob", GlobWalkRoot(pattern), pattern, limit)
      PROVE  walk \in Walk /\ VisitedInv /\ ShownInv /\ ReachInv
  <2>1. PICK root \in Seq(STRING) : root = GlobWalkRoot(pattern)
    BY GlobWalkRootIsPath
  <2>2. pattern \in Globs \cup {NoGlob}
    OBVIOUS
  <2>3. Started(walk, "glob", root, pattern)
    BY <1>4, <1>7, <2>1, <2>2, StartFields, Zenon
  <2>4. walk.tool = "glob" /\ walk.glob = pattern /\ walk.root = root
    BY <2>3 DEF Started
  <2>5. \A t \in Paths : InReach(t) => root \in Upward(t) \cup {Root}
    BY <2>1, <2>4, GlobStartsAbove DEF InReach
  <2>6. QED
    BY <1>5, <2>3, <2>5, InitReach, Zenon
<1>8. ASSUME NEW root \in Paths, walk = StartWalk("tree", root, NoGlob, limit)
      PROVE  walk \in Walk /\ VisitedInv /\ ShownInv /\ ReachInv
  <2>1. root \in Seq(STRING) /\ NoGlob \in Globs \cup {NoGlob}
    BY UpwardOfPath, Zenon
  <2>2. Started(walk, "tree", root, NoGlob)
    BY <1>4, <1>8, <2>1, StartFields, Zenon
  <2>3. walk.tool = "tree" /\ walk.root = root
    BY <2>2 DEF Started
  <2>4. ASSUME NEW t \in Paths, InReach(t) PROVE root \in Upward(t) \cup {Root}
    <3>1. IsPrefix(root, t) /\ t \in Seq(STRING)
      BY <2>3, <2>4, UpwardOfPath DEF InReach, IsStrictPrefix
    <3>2. QED
      BY <2>1, <3>1, PrefixIsAbove
  <2>5. QED
    BY <1>5, <2>1, <2>2, <2>4, InitReach, Zenon
<1>9. QED
  BY <1>2, <1>6, <1>7, <1>8, InitList

-----------------------------------------------------------------------------
\* The inductive invariant holds of every walk.
LEMMA WalkInvariant == WalkSpec => []WalkInv
<1>1. ASSUME WalkInv, [WalkNext]_walkVars PROVE WalkInv'
  <2>1. CASE VisitContext
    BY <1>1, <2>1, VisitContextStep
  <2>2. CASE VisitGlob
    BY <1>1, <2>2, VisitGlobStep
  <2>3. CASE VisitGrep
    BY <1>1, <2>3, VisitGrepStep
  <2>4. CASE VisitTree
    BY <1>1, <2>4, VisitTreeStep
  <2>5. CASE VisitList
    BY <1>1, <2>5, VisitListStep
  <2>6. CASE Done \/ CtxEnds
    BY <1>1, <2>6, EndStep
  <2>7. CASE UNCHANGED walkVars
    BY <1>1, <2>7, WalkStutter
  <2>8. QED
    BY <1>1, <2>1, <2>2, <2>3, <2>4, <2>5, <2>6, <2>7 DEF WalkNext
<1>2. QED
  BY <1>1, InitWalk, PTL DEF WalkSpec

\* The locals of the walks of files.go and of filteredFS keep their types, and no
\* walk counts more than one entry beyond maxGlobVisited.
THEOREM WalkTypeCorrect == WalkSpec => []WalkTypeOK
<1>1. WalkInv => WalkTypeOK
  BY DEF WalkInv
<1>2. QED
  BY <1>1, WalkInvariant, PTL

\* Neither the build context nor a tool shows what IsSensitive names, nor what
\* lies below it, whatever the lines of .gitignore include again.
THEOREM WalkHidesSensitive == WalkSpec => []SensitiveNeverShown
<1>1. ASSUME WalkInv PROVE SensitiveNeverShown
  <2>1. SUFFICES ASSUME NEW p \in walk.shown, NEW q \in Upward(p) PROVE Base(q) \notin SensitiveNames
    BY DEF SensitiveNeverShown
  <2>2. p \in Paths /\ ~IsHidden(p)
    BY <1>1, WalkFields DEF WalkInv, WalkTypeOK, ShownInv
  <2>3. p # Root
    BY <2>1, <2>2, UpwardOfPath
  <2>4. QED
    BY <2>1, <2>2, <2>3 DEF IsHidden
<1>2. QED
  BY <1>1, WalkInvariant, PTL

\* A walk that is over has shown what is in reach, or reports truncation.
LEMMA WalkOver ==
  ASSUME WalkInv, walk.step = "done"
  PROVE  /\ \A p \in walk.shown : p \in Paths /\ InReach(p)
         /\ walk.truncated \/ \A p \in Paths : InReach(p) => p \in walk.shown
<1>1. /\ walk.pending = << >>
      /\ \A p \in walk.shown : InReach(p)
      /\ walk.truncated \/ \A p \in Paths : InReach(p) => p \in walk.shown \/ Ahead(p)
  BY DEF WalkInv, ReachInv
<1>2. Len(walk.pending) = 0
  BY <1>1
<1>3. \A p : ~Ahead(p)
  <2>1. \A i \in 1..Len(walk.pending) : FALSE
    BY <1>2
  <2>2. QED
    BY <2>1 DEF Ahead
<1>4. \A p \in walk.shown : p \in Paths
  BY WalkFields DEF WalkInv, WalkTypeOK
<1>5. QED
  BY <1>1, <1>3, <1>4

\* glob, grep, tree and list show everything they are asked for that no directory
\* hides, and nothing else, unless they report truncation.
THEOREM WalkTellsTruncation == WalkSpec => []TruncationTold
<1>1. ASSUME WalkInv, walk.step = "done", ~walk.truncated
      PROVE  walk.shown = {p \in Paths : InReach(p)}
  BY <1>1, WalkOver
<1>2. WalkInv => TruncationTold
  BY <1>1 DEF TruncationTold
<1>3. QED
  BY <1>2, WalkInvariant, PTL

\* filteredFS.Open lets BuildKit open exactly the files filteredFS.Walk told it of.
THEOREM ContextOpensWhatItLists == WalkSpec => []OpenAgreesWithWalk
<1>1. ASSUME WalkInv, walk.tool = "context", walk.step = "done"
      PROVE  walk.shown \cap Files = {p \in Files : Open(p)}
  <2>1. walk.root = Root /\ ~walk.truncated
    BY <1>1 DEF WalkInv, ReachInv
  <2>2. ASSUME NEW p \in Files, NEW q \in Upward(p) PROVE IsPrefix(Root, q)
    <3>1. q \in Seq(STRING)
      BY <2>2, UpwardOfPath DEF Files
    <3>2. Len(Root) = 0 /\ Len(q) \in Nat
      BY <3>1 DEF Root
    <3>3. SubSeq(Root, 1, 0) = << >> /\ SubSeq(q, 1, 0) = << >>
      BY SubSeqEmpty
    <3>4. QED
      BY <3>2, <3>3 DEF IsPrefix
  <2>3. \A p \in Files : p \in Paths /\ (Open(p) <=> InReach(p))
    BY <1>1, <2>1, <2>2 DEF Files, Open, InReach
  <2>4. QED
    BY <1>1, <2>1, <2>3, WalkOver
<1>2. WalkInv => OpenAgreesWithWalk
  BY <1>1 DEF OpenAgreesWithWalk
<1>3. QED
  BY <1>2, WalkInvariant, PTL
=============================================================================
