------------------------------ MODULE FileWalk ------------------------------
(***************************************************************************)
(* Which files of a project the agent's tools and a build get to see: the  *)
(* visibility rule of internal/workspace, the filtered build context of    *)
(* pkg/builder, and the walks of the glob, grep, tree and list tools of    *)
(* internal/plantools.                                                     *)
(*                                                                         *)
(* A path is the sequence of its names below the project directory, and a  *)
(* glob pattern the sequence of its parts.  A line of .gitignore is a      *)
(* record.  Wildcards within its names, and symbolic links, are left out.  *)
(***************************************************************************)
EXTENDS Integers, Sequences, SequencesExt, FiniteSets, FiniteSetsExt

CONSTANTS
  Entries,             \* Entries[d]: the names in directory d, in order
  Size,                \* Size[f]: the bytes of file f
  Hits,                \* Hits[f]: the lines of file f that a grep looks for
  DefaultIgnoredDirs,  \* names ignored without a .gitignore
  SensitiveNames,      \* base names IsSensitive knows
  GitignoreLines,      \* lines a .gitignore may have
  MaxLines,            \* bound of the model: lines of a .gitignore
  MaxIgnorePatterns,   \* maxIgnorePatterns
  Globs,               \* patterns of glob, and filters of grep
  Wildcard,            \* Wildcard[w]: the names that part w of a pattern matches
  MaxVisited,          \* maxGlobVisited
  MaxFileBytes,        \* maxReadableFileBytes
  MaxGrepFiles,        \* maxGrepFiles
  MaxGrepBytes,        \* maxGrepBytes
  MaxDirectoryScan,    \* maxDirectoryScan
  MaxTreeEntries,      \* maxEntries of the tree tool
  Limits               \* limit or depth a tool is called with

Root  == << >>
Dirs  == DOMAIN Entries
Paths == {Root} \cup UNION {{Append(d, Entries[d][i]) : i \in DOMAIN Entries[d]} : d \in Dirs}
Files == Paths \ Dirs

Base(p) == p[Len(p)]
Dir(p)  == SubSeq(p, 1, Len(p) - 1)

\* p and its parent directories, without the root.
Upward(p) == {SubSeq(p, 1, i) : i \in 1..Len(p)}

ASSUME WalkAssumption ==
  /\ Root \in Dirs
  /\ \A d \in Dirs \ {Root} : d \in Paths
  /\ \A d \in Dirs : d \in Seq(STRING) /\ Entries[d] \in Seq(STRING)
  /\ Size \in [Files -> Nat]
  /\ Hits \in [Files -> Nat]
  /\ Globs \subseteq Seq(STRING) \ {<< >>}
  /\ \A line \in GitignoreLines :
       line.kind \in {"rule", "skipped"} /\ line.negated \in BOOLEAN
       /\ line.anchored \in BOOLEAN /\ line.names \in Seq(STRING)
  /\ Limits \subseteq Nat \ {0}
  /\ MaxVisited \in Nat
  /\ MaxDirectoryScan \in Nat

NoGlob == << >>

Tools == {"context", "glob", "grep", "tree", "list"}

VARIABLES
  gitignore,  \* the lines of the project's .gitignore
  walk        \* the walk under way

walkVars == <<gitignore, walk>>

\* The locals of a walk.
Walk ==
  [tool : Tools, root : Seq(STRING), glob : Globs \cup {NoGlob}, limit : Limits,
   pending : Seq(Paths), visited : 0..(MaxVisited + 1), scanned : SUBSET Files,
   results : Nat, shown : SUBSET Paths, truncated : BOOLEAN,
   step : {"walking", "done", "failed"}]

WalkTypeOK ==
  /\ gitignore \in SeqOf(GitignoreLines, MaxLines)
  /\ walk \in Walk

-----------------------------------------------------------------------------
\* gitignorePattern: without a slash before its end, a line matches at any depth.
GitignorePattern(line) ==
  [exclusion |-> line.negated,
   anyDepth  |-> ~line.anchored /\ Len(line.names) = 1,
   names     |-> line.names]

DefaultPatterns ==
  [i \in DOMAIN DefaultIgnoredDirs |->
     [exclusion |-> FALSE, anyDepth |-> TRUE, names |-> <<DefaultIgnoredDirs[i]>>]]

\* The patterns IgnoreMatcher compiles of the lines of a .gitignore.  Blank,
\* comment and invalid ones are skipped, and what is beyond the bound is left out.
Patterns(lines) ==
  LET rules == SelectSeq(lines, LAMBDA line : line.kind = "rule")
      room  == MaxIgnorePatterns - Len(DefaultPatterns)
      kept  == IF room < 1 THEN 1 ELSE room
  IN  DefaultPatterns \o
      [i \in 1..(IF Len(rules) < kept THEN Len(rules) ELSE kept) |->
         GitignorePattern(rules[i])]

\* A pattern matches a path, and patternmatcher tries its parents too.
Matches(pattern, p) ==
  \E q \in Upward(p) :
    IF pattern.anyDepth THEN Base(q) = pattern.names[1] ELSE q = pattern.names

\* MatchesOrParentMatches: the last pattern that matches decides.
MatchesOrParentMatches(patterns, p) ==
  FoldLeft(LAMBDA matched, pattern :
             IF pattern.exclusion = matched /\ Matches(pattern, p)
             THEN ~matched ELSE matched,
           FALSE, patterns)

\* Mutant: the names of the parent directories are not looked at.
IsHidden_OwnName(p) ==
  /\ p # Root
  /\ MatchesOrParentMatches(Patterns(gitignore), p) \/ Base(p) \in SensitiveNames

\* HiddenMatcher.
IsHidden(p) ==
  /\ p # Root
  /\ \/ MatchesOrParentMatches(Patterns(gitignore), p)
     \/ \E q \in Upward(p) : Base(q) \in SensitiveNames

\* The read tool and the list tool refuse what unavailableExistingToolPath
\* says is hidden.
Readable(p) == p \in Files /\ ~IsHidden(p)

\* Mutant: only the path itself is checked.
Open_OwnPath(p) == p \in Files /\ ~IsHidden(p)

\* filteredFS.Open refuses a path when it or a directory above it is excluded.
Open(p) == p \in Files /\ \A q \in Upward(p) : ~IsHidden(q)

-----------------------------------------------------------------------------
\* filepath.Match of one part of a pattern.
MatchPart(part, name) ==
  IF part \in DOMAIN Wildcard THEN name \in Wildcard[part] ELSE part = name

\* Where a glob starts: where the literal part of its pattern ends.  filepath.Join
\* drops a ".", and if there are other parts, nothing below matches the pattern.
GlobWalkRoot(pattern) ==
  LET wild    == SelectInSeq(pattern, LAMBDA part : part = "**" \/ part \in DOMAIN Wildcard)
      literal == IF wild = 0 THEN pattern ELSE SubSeq(pattern, 1, wild - 1)
  IN  IF literal = <<".">> THEN Root ELSE literal

\* Mutant: ** stands for at least one name.
MatchGlob_OneOrMore(pattern, path) ==
  LET match[pi \in 1..(Len(pattern) + 1)] ==
        [si \in 1..(Len(path) + 1) |->
           IF pi > Len(pattern) THEN si > Len(path)
           ELSE IF si > Len(path) THEN FALSE
           ELSE IF pattern[pi] = "**" THEN match[pi + 1][si + 1] \/ match[pi][si + 1]
           ELSE MatchPart(pattern[pi], path[si]) /\ match[pi + 1][si + 1]]
  IN  match[1][1]

\* match of matchGlob, from part pi of the pattern and name si of the path on.
MatchGlob(pattern, path) ==
  LET match[pi \in 1..(Len(pattern) + 1)] ==
        [si \in 1..(Len(path) + 1) |->
           IF pi > Len(pattern) THEN si > Len(path)
           ELSE IF pattern[pi] = "**"
           THEN match[pi + 1][si] \/ (si <= Len(path) /\ match[pi][si + 1])
           ELSE si <= Len(path) /\ MatchPart(pattern[pi], path[si]) /\ match[pi + 1][si + 1]]
  IN  match[1][1]

\* The path a pattern is compared with; the project directory is ".".
Rel(p) == IF p = Root THEN <<".">> ELSE p

\* The filter of grep: it may also match the name of a file alone.
Filtered(p) ==
  \/ walk.glob = NoGlob
  \/ MatchGlob(walk.glob, Rel(p))
  \/ Len(walk.glob) = 1 /\ MatchPart(walk.glob[1], Base(p))

-----------------------------------------------------------------------------
Children(d) == [i \in DOMAIN Entries[d] |-> Append(d, Entries[d][i])]

\* The rest of a walk once p is passed, with p's entries or without.
Into(p)  == (IF p \in Dirs THEN Children(p) ELSE << >>) \o Tail(walk.pending)
Past     == Tail(walk.pending)

\* A walk from a root; one that does not exist has nothing to show.
StartWalk(tool, root, glob, limit) ==
  [tool |-> tool, root |-> root, glob |-> glob, limit |-> limit,
   pending |-> IF root \in Paths THEN <<root>> ELSE << >>,
   visited |-> 0, scanned |-> {}, results |-> 0, shown |-> {}, truncated |-> FALSE,
   step |-> "walking"]

\* listDirectory looks at some entries of a directory, in order.
StartList(d, entries, limit) ==
  [StartWalk("list", d, NoGlob, limit) EXCEPT
     !.pending   = entries,
     !.truncated = Len(Children(d)) > MaxDirectoryScan]

\* The entries ReadDir may return, sorted: any of them when it is limited.
Scanned(d) ==
  LET n      == Len(Children(d))
      count  == IF n > MaxDirectoryScan THEN MaxDirectoryScan ELSE n
      picked == {at \in [1..count -> 1..n] : \A i, j \in 1..count : i < j => at[i] < at[j]}
  IN  {[i \in 1..count |-> Children(d)[at[i]]] : at \in picked}

\* Any .gitignore, and any call.  list refuses a directory that is hidden.
WalkInit ==
  /\ gitignore \in SeqOf(GitignoreLines, MaxLines)
  /\ \E limit \in Limits :
       \/ walk = StartWalk("context", Root, NoGlob, limit)
       \/ \E pattern \in Globs : walk = StartWalk("glob", GlobWalkRoot(pattern), pattern, limit)
       \/ \E filter \in Globs \cup {NoGlob} : walk = StartWalk("grep", Root, filter, limit)
       \/ \E root \in Paths : walk = StartWalk("tree", root, NoGlob, limit)
       \/ \E d \in Dirs : /\ ~IsHidden(d)
                          /\ \E entries \in Scanned(d) : walk = StartList(d, entries, limit)

Visiting(tool) == walk.tool = tool /\ walk.step = "walking" /\ walk.pending # << >>

Goto(rest)       == [walk EXCEPT !.pending = rest]
Show(p, rest)    == [walk EXCEPT !.pending = rest, !.shown = @ \cup {p}]
StopTruncated(w) == [w EXCEPT !.pending = << >>, !.truncated = TRUE]
Counted(w)       == [w EXCEPT !.visited = @ + 1]

\* filteredFS.Walk: an excluded directory is skipped with everything in it.
VisitContext ==
  LET p == Head(walk.pending)
  IN  /\ Visiting("context")
      /\ walk' = IF IsHidden(p) THEN Goto(Past) ELSE Show(p, Into(p))
      /\ UNCHANGED gitignore

\* The walk has visited as many entries as it may.
TooMany == walk.visited + 1 > MaxVisited

VisitGlob ==
  LET p     == Head(walk.pending)
      shown == Counted(Show(p, Into(p)))
  IN  /\ Visiting("glob")
      /\ walk' = IF TooMany THEN StopTruncated(Counted(walk))
                 ELSE IF IsHidden(p) THEN Counted(Goto(Past))
                 ELSE IF ~MatchGlob(walk.glob, Rel(p)) THEN Counted(Goto(Into(p)))
                 ELSE IF Cardinality(shown.shown) >= walk.limit THEN StopTruncated(shown)
                 ELSE shown
      /\ UNCHANGED gitignore

\* The bytes of the files grep has read.
BytesScanned == MapThenSumSet(LAMBDA f : Size[f], walk.scanned)

\* grep has as many lines, files or bytes as it may have.
Enough ==
  \/ walk.results >= walk.limit
  \/ Cardinality(walk.scanned) >= MaxGrepFiles
  \/ BytesScanned >= MaxGrepBytes

\* A file that is too large, or too large for the bytes left.
TooLarge(p) == Size[p] > MaxFileBytes \/ BytesScanned + Size[p] > MaxGrepBytes

\* The lines of a file are searched, until there are as many as asked for.
SearchFile(p) ==
  LET left  == walk.limit - walk.results
      found == [Counted(Goto(Past)) EXCEPT
                  !.scanned = @ \cup {p},
                  !.results = @ + (IF Hits[p] < left THEN Hits[p] ELSE left),
                  !.shown   = IF Hits[p] > 0 THEN @ \cup {p} ELSE @]
  IN  IF found.results >= walk.limit THEN StopTruncated(found) ELSE found

VisitGrep ==
  LET p == Head(walk.pending)
  IN  /\ Visiting("grep")
      /\ walk' = IF TooMany THEN StopTruncated(Counted(walk))
                 ELSE IF IsHidden(p) THEN Counted(Goto(Past))
                 ELSE IF p \in Dirs THEN Counted(Goto(Into(p)))
                 ELSE IF Enough THEN StopTruncated(Counted(walk))
                 ELSE IF ~Filtered(p) THEN Counted(Goto(Past))
                 ELSE IF TooLarge(p) THEN [Counted(Goto(Past)) EXCEPT !.truncated = TRUE]
                 ELSE SearchFile(p)
      /\ UNCHANGED gitignore

\* Names between the root of the walk and p.
Depth(p) == Len(p) - Len(walk.root) - 1

\* tree: the root is not shown, and nothing below the depth is.
VisitTree ==
  LET p == Head(walk.pending)
  IN  /\ Visiting("tree")
      /\ walk' = IF IsHidden(p) THEN Goto(Past)
                 ELSE IF p = walk.root THEN Goto(Into(p))
                 ELSE IF Depth(p) >= walk.limit THEN Goto(Past)
                 ELSE IF Cardinality(walk.shown) >= MaxTreeEntries THEN StopTruncated(walk)
                 ELSE Show(p, Into(p))
      /\ UNCHANGED gitignore

\* listDirectory.
VisitList ==
  LET p     == Head(walk.pending)
      shown == Show(p, Past)
  IN  /\ Visiting("list")
      /\ walk' = IF IsHidden(p) THEN Goto(Past)
                 ELSE IF Cardinality(shown.shown) >= walk.limit THEN StopTruncated(shown)
                 ELSE shown
      /\ UNCHANGED gitignore

\* The walk is over.
Done ==
  /\ walk.step = "walking"
  /\ walk.pending = << >>
  /\ walk' = [walk EXCEPT !.step = "done"]
  /\ UNCHANGED gitignore

\* A tool returns the error of its context, or of its pattern, at an entry.
CtxEnds ==
  /\ walk.step = "walking"
  /\ walk.pending # << >>
  /\ walk.tool # "context"
  /\ walk' = [walk EXCEPT !.step = "failed"]
  /\ UNCHANGED gitignore

WalkNext ==
  VisitContext \/ VisitGlob \/ VisitGrep \/ VisitTree \/ VisitList \/ Done \/ CtxEnds

WalkSpec == WalkInit /\ [][WalkNext]_walkVars

-----------------------------------------------------------------------------
\* BuildKit can open exactly the files of the context it was told of: the check
\* of every parent in Open agrees with the directories Walk skips.
OpenAgreesWithWalk ==
  walk.tool = "context" /\ walk.step = "done"
    => walk.shown \cap Files = {p \in Files : Open(p)}

\* No walk shows a sensitive file, or anything in a sensitive directory, even if
\* a line of .gitignore includes it again.
SensitiveNeverShown ==
  \A p \in walk.shown : \A q \in Upward(p) : Base(q) \notin SensitiveNames

\* A pattern covers a path: the parts share its names out, in order, one name
\* to every part but **, which gets any number.
Covers(pattern, path) ==
  \E cut \in [0..Len(pattern) -> 0..Len(path)] :
    /\ cut[0] = 0
    /\ cut[Len(pattern)] = Len(path)
    /\ \A i \in 1..Len(pattern) :
         IF pattern[i] = "**" THEN cut[i] >= cut[i - 1]
         ELSE cut[i] = cut[i - 1] + 1 /\ MatchPart(pattern[i], path[cut[i]])

\* What a tool could show: what it is asked for and no directory hides.  The
\* depth of a tree belongs to what was asked, so stopping there need not be told.
InReach(p) ==
  /\ \A q \in Upward(p) : IsPrefix(walk.root, q) => ~IsHidden(q)
  /\ walk.tool = "glob" => Covers(walk.glob, Rel(p))
  /\ walk.tool = "grep" => p \in Files /\ Hits[p] > 0 /\ Filtered(p)
  /\ walk.tool \in {"tree", "list"} => IsStrictPrefix(walk.root, p)
  /\ walk.tool = "tree" => Depth(p) < walk.limit
  /\ walk.tool = "list" => Depth(p) = 0

\* A tool that does not report truncation has shown everything it could.
TruncationTold ==
  walk.step = "done" /\ ~walk.truncated
    => walk.shown = {p \in Paths : InReach(p)}

\* "The build sees exactly the files the agent's tools may read"
\* (internal/plantools/builder.go:75).
ExactlyWhatToolsRead ==
  walk.tool = "context" /\ walk.step = "done"
    => walk.shown \cap Files = {p \in Files : Readable(p)}
=============================================================================
