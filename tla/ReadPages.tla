------------------------------ MODULE ReadPages ------------------------------
(***************************************************************************)
(* The read tool of internal/plantools/files.go and read_tool_output of    *)
(* pkg/zbplan/tool_output.go, and an agent that pages through a file, or   *)
(* the output of a tool, by them: every call asks for what the last result *)
(* named.  An output is one line, whose bytes read_tool_output counts.     *)
(*                                                                         *)
(* Text is valid UTF-8, abstracted to where its runes start: a line is the *)
(* number of its bytes and the set of the positions at which               *)
(* utf8.RuneStart holds.                                                   *)
(***************************************************************************)
EXTENDS Integers, Sequences, FiniteSetsExt

CONSTANTS
  Lines,          \* lines a file may have
  MaxFileLines,   \* bound of the model: lines of a file
  LineLimits,     \* values of the limit argument
  Offsets,        \* offset and column arguments of the first call
  ByteLimits,     \* values of the limit argument of read_tool_output
  MaxOutputRead,  \* maxToolOutputReadBytes
  MaxReadBytes,   \* maxReadBytes
  PrefixBytes,    \* bytes of the line number in front of a line
  EllipsisBytes   \* bytes of the mark for a cut line

ASSUME ReadAssumption ==
  /\ \A line \in Lines :
       /\ line.len \in Nat
       /\ line.starts \subseteq 0..(line.len - 1)
       /\ line.len > 0 => 0 \in line.starts
       \* A rune has at most four bytes.
       /\ \A c \in line.starts : \E e \in 1..4 : c + e = line.len \/ c + e \in line.starts
  /\ MaxFileLines \in Nat \ {0}
  /\ LineLimits \subseteq Nat \ {0}
  /\ Offsets \subseteq Nat
  /\ ByteLimits \subseteq Nat
  /\ MaxOutputRead \in Nat \ {0}
  /\ MaxReadBytes \in Nat /\ PrefixBytes \in Nat /\ EllipsisBytes \in Nat
  \* The first rune of a line always fits an empty page.
  /\ MaxReadBytes > PrefixBytes + 2 * EllipsisBytes + 4

VARIABLES
  file,    \* the lines of the file
  call,    \* the call under way, or the last one
  status,  \* what the last result says
  seen     \* history: the pieces of lines the agent has been shown, in order

readVars == <<file, call, status, seen>>

\* A piece of a line.
Piece == [line : Nat, from : Nat, to : Nat]

\* The locals of a call, among them the budget of a page: it includes the
\* marks of cut lines.
ReadCall ==
  [tool : {"read", "output"}, step : {"scan", "returned"}, offset : Nat, column : Nat,
   limit : Nat, lineNum : 0..Len(file), contentBytes : 0..MaxReadBytes,
   lines : Seq(Piece), hasMore : BOOLEAN, splitColumn : {-1} \cup Nat]

\* File, call and result are well-formed, and a page keeps its budget.
ReadTypeOK ==
  /\ file \in Seq(Lines) /\ Len(file) <= MaxFileLines
  /\ call \in ReadCall
  /\ status \in [kind : {"none", "complete", "next", "nolines", "error"},
                 offset : Nat, column : Nat]
  /\ seen \in Seq(Piece)

-----------------------------------------------------------------------------
\* A call with valid arguments, for a file that is visible and not too large.
NewCall(offset, column, limit) ==
  [tool |-> "read", step |-> "scan", offset |-> offset, column |-> column, limit |-> limit,
   lineNum |-> 0, contentBytes |-> 0, lines |-> << >>, hasMore |-> FALSE,
   splitColumn |-> -1]

\* A call of read_tool_output, whose offset is a column of the only line.
\* The limit is a default or a maximum when it is 0 or larger than that.
NewOutputCall(column, limit) ==
  [NewCall(0, column, IF limit = 0 \/ limit > MaxOutputRead THEN MaxOutputRead ELSE limit)
     EXCEPT !.tool = "output"]

ReadInit ==
  /\ \/ /\ \E n \in 0..MaxFileLines : file \in [1..n -> Lines]
        /\ \E offset, column \in Offsets, limit \in LineLimits :
             call = NewCall(offset, column, limit)
     \/ /\ file \in [1..1 -> Lines]
        /\ \E column \in Offsets, limit \in ByteLimits : call = NewOutputCall(column, limit)
  /\ status = [kind |-> "none", offset |-> 0, column |-> 0]
  /\ seen = << >>

Reading(tool) == call.tool = tool /\ call.step = "scan"

\* Where text that is wanted from a column on starts: not inside a rune.
StartColumn(line, column) ==
  Min({c \in column..line.len : c = line.len \/ c \in line.starts})

\* Mutant: the line is cut after any byte.
SafeTextPrefix_AnyByte(line, from, maxBytes) ==
  IF line.len - from <= maxBytes THEN line.len - from ELSE maxBytes

\* How many bytes of the line, behind from, safeTextPrefix keeps.
SafeTextPrefix(line, from, maxBytes) ==
  IF line.len - from <= maxBytes THEN line.len - from
  ELSE Max({e \in 0..maxBytes : e = 0 \/ from + e \in line.starts})

\* The call returns, and says what it says.
Return(kind, offset, column) ==
  /\ status' = [kind |-> kind, offset |-> offset, column |-> column]
  /\ seen' = IF kind = "error" THEN seen ELSE seen \o call'.lines

\* Mutant: the page does not say that there is more.
Stopped_Silent(n) == [call EXCEPT !.lineNum = n, !.step = "returned"]

\* The loop ends before line n is shown in full.
Stopped(n) == [call EXCEPT !.lineNum = n, !.step = "returned", !.hasMore = TRUE]

\* Mutant: the mark of the cut is not counted.
Remaining_NoMark(prefix) == MaxReadBytes - call.contentBytes - prefix - 1

\* Bytes left for a line that does not fit.
Remaining(prefix) == MaxReadBytes - call.contentBytes - prefix - EllipsisBytes - 1

\* The next line is shown: all of it if it fits the page, or as much as does.
ShowLine ==
  LET n       == call.lineNum + 1
      line    == file[n]
      resumed == n = call.offset + 1 /\ call.column > 0
      from    == IF resumed THEN StartColumn(line, call.column) ELSE 0
      prefix  == IF resumed THEN PrefixBytes + EllipsisBytes ELSE PrefixBytes
      size    == prefix + (line.len - from) + 1
      room    == Remaining(prefix)
      part    == SafeTextPrefix(line, from, IF room > 0 THEN room ELSE 0)
  IN  call' =
        IF call.contentBytes + size <= MaxReadBytes
        THEN [call EXCEPT !.lineNum = n, !.contentBytes = @ + size,
                !.lines = Append(@, [line |-> n, from |-> from, to |-> line.len])]
        ELSE [Stopped(n) EXCEPT
                !.contentBytes =
                   IF part > 0 THEN @ + prefix + part + EllipsisBytes ELSE @,
                !.lines =
                   IF part > 0
                   THEN Append(@, [line |-> n, from |-> from, to |-> from + part])
                   ELSE @,
                !.splitColumn = IF part > 0 THEN from + part ELSE @]

\* One turn of the scan loop that neither fails nor ends it at the end of file.
Scan ==
  LET n == call.lineNum + 1
  IN  /\ Reading("read")
      /\ n <= Len(file)
      /\ \/ n <= call.offset /\ call' = [call EXCEPT !.lineNum = n]
         \/ /\ n > call.offset
            /\ Len(call.lines) >= call.limit
            /\ call' = Stopped(n)
         \/ /\ n > call.offset
            /\ Len(call.lines) < call.limit
            /\ n = call.offset + 1 => call.column <= file[n].len
            /\ ShowLine
      /\ UNCHANGED <<file, status, seen>>

\* The requested column is beyond the end of its line.
ColumnExceeds ==
  LET n == call.lineNum + 1
  IN  /\ Reading("read")
      /\ n <= Len(file)
      /\ n = call.offset + 1
      /\ call.column > file[n].len
      /\ call' = [call EXCEPT !.step = "returned"]
      /\ Return("error", 0, 0)
      /\ UNCHANGED file

\* The context ends while a line is scanned.
CtxDone ==
  /\ Reading("read")
  /\ call.lineNum < Len(file)
  /\ call' = [call EXCEPT !.step = "returned"]
  /\ Return("error", 0, 0)
  /\ UNCHANGED file

EndOfFile ==
  /\ Reading("read")
  /\ call.lineNum = Len(file)
  /\ call' = [call EXCEPT !.step = "returned"]
  /\ UNCHANGED <<file, status, seen>>

\* Mutant: a split line counts as shown.
SplitOffset_Skips(endLine) == endLine

\* The offset a split line is continued from.
SplitOffset(endLine) == endLine - 1

\* The end of InvokableRun: the header of the page.
Report ==
  LET endLine == call.offset + Len(call.lines)
  IN  /\ call.step = "returned"
      /\ status.kind = "none"
      /\ UNCHANGED <<file, call>>
      /\ IF call.lines = << >> THEN Return("nolines", 0, 0)
         ELSE IF call.splitColumn >= 0
         THEN Return("next", SplitOffset(endLine), call.splitColumn)
         ELSE IF call.hasMore THEN Return("next", endLine, 0)
         ELSE Return("complete", 0, 0)

\* Mutant: a page holds as many bytes as fit the limit, if none is a rune.
PageEnd_MayBeEmpty(line, start, limit) == start + SafeTextPrefix(line, start, limit)

\* Where a page of an output ends: at a boundary within the limit, or after
\* one rune if even that is longer.
PageEnd(line, start, limit) ==
  LET end == start + SafeTextPrefix(line, start, limit)
  IN  IF end > start \/ start = line.len THEN end
      ELSE Min({e \in (start + 1)..line.len : e = line.len \/ e \in line.starts})

\* read_tool_output, for an output that is still in the store.
ReadOutput ==
  LET line  == file[1]
      start == StartColumn(line, call.column)
      end   == PageEnd(line, start, call.limit)
  IN  /\ Reading("output")
      /\ UNCHANGED file
      /\ IF call.column >= line.len
         THEN /\ call' = [call EXCEPT !.step = "returned"]
              /\ Return("nolines", 0, 0)
         ELSE /\ call' = [call EXCEPT !.step = "returned",
                             !.lines = <<[line |-> 1, from |-> start, to |-> end]>>]
              /\ Return(IF end = line.len THEN "complete" ELSE "next", 0, end)

\* The agent asks for the next page, as the result told it to.
Continue ==
  /\ status.kind = "next"
  /\ \/ /\ call.tool = "read"
        /\ \E limit \in LineLimits : call' = NewCall(status.offset, status.column, limit)
     \/ /\ call.tool = "output"
        /\ \E limit \in ByteLimits : call' = NewOutputCall(status.column, limit)
  /\ status' = [kind |-> "none", offset |-> 0, column |-> 0]
  /\ UNCHANGED <<file, seen>>

ReadNext ==
  Scan \/ ColumnExceeds \/ CtxDone \/ EndOfFile \/ Report \/ ReadOutput \/ Continue

ReadSpec == ReadInit /\ [][ReadNext]_readVars

-----------------------------------------------------------------------------
\* Each piece starts where the last one ended: "pagination never skips the
\* undisclosed suffix of a long line" (files.go:556), and repeats nothing.
NothingSkipped ==
  \A i \in 1..(Len(seen) - 1) :
    \/ /\ seen[i + 1].line = seen[i].line
       /\ seen[i + 1].from = seen[i].to
    \/ /\ seen[i + 1].line = seen[i].line + 1
       /\ seen[i + 1].from = 0
       /\ seen[i].to = file[seen[i].line].len

\* "complete" is said only when the last byte of the file has been shown, and
\* "empty file" or "no lines" only when there are none.
CompleteIsComplete ==
  /\ status.kind = "complete"
       => /\ seen[Len(seen)].line = Len(file)
          /\ seen[Len(seen)].to = file[Len(file)].len
  /\ status.kind = "nolines"
       => IF call.tool = "read" THEN call.offset >= Len(file) ELSE call.column >= file[1].len

\* A piece starts and ends at the boundary of a rune.
RunesWhole ==
  \A i \in DOMAIN seen :
    LET line == file[seen[i].line]
    IN  \A b \in {seen[i].from, seen[i].to} : b = line.len \/ b \in line.starts

\* Every page takes the agent further, so paging comes to an end.
CursorAdvances ==
  status.kind = "next"
    => \/ status.offset > call.offset
       \/ status.offset = call.offset /\ status.column > call.column
=============================================================================
