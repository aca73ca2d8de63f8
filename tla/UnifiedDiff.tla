---------------------------- MODULE UnifiedDiff ----------------------------
(***************************************************************************)
(* apply_diff (diff.go, tools_diff.go): the reading of a unified diff line *)
(* by line, the search for the place each hunk belongs at, and the running *)
(* picture of the workspace that the sections of one patch are applied to. *)
(* Requests reach it one at a time here; how its reads and writes meet     *)
(* those of other calls is the subject of FileChanges.                     *)
(*                                                                         *)
(* A path is the sequence of its components, a line of a file the sequence *)
(* of its words with " " for an indent, and a line of a diff a record      *)
(* whose field "is" names what the line starts with.                       *)
(***************************************************************************)
EXTENDS Integers, Sequences
LOCAL INSTANCE SequencesExt
LOCAL INSTANCE FiniteSetsExt

CONSTANTS Patches \* the calls of apply_diff there may be, each with its workspace

NoPath == <<>>
DevNull == <<"/dev/null">>
Present(lines, final) == [gone |-> FALSE, lines |-> lines, final |-> final]
Deleted == [gone |-> TRUE, lines |-> <<>>, final |-> FALSE]

NoSection == [old |-> NoPath, new |-> NoPath, isNew |-> FALSE, isDelete |-> FALSE,
              hunks |-> <<>>, git |-> FALSE, open |-> FALSE]
NoHunk == [start |-> 0, olds |-> 0, news |-> 0, lines |-> <<>>, open |-> FALSE]
NoDraft == [section |-> NoSection, old |-> <<>>, out |-> <<>>, final |-> FALSE,
            consumed |-> 0, offset |-> 0, open |-> FALSE]

VARIABLES request,  \* the call: its diff, its options, the author's intent
          line,     \* the line of the diff to be read next
          section,  \* parseUnifiedDiff: current
          sections, \* parseUnifiedDiff: files; then what planDiff has left
          renames,  \* parseUnifiedDiff: pendingRenameFrom, pendingRenameTo
          hunk,     \* the hunk being read
          seen,     \* old and new lines of it so far
          draft,    \* applyHunks: the section being applied
          picture,  \* diffPlan: path -> what the patch has made of it
          tree,     \* the workspace: path -> file
          outcome   \* "reading", "planning", "applied" or "refused"

parser == <<line, section, sections, renames, hunk, seen>>
patchVars == <<request, line, section, sections, renames, hunk, seen,
               draft, picture, tree, outcome>>

PatchStart(r) ==
    /\ request = r
    /\ tree = request.tree
    /\ line = 1 /\ section = NoSection /\ sections = <<>>
    /\ renames = <<NoPath, NoPath>>
    /\ hunk = NoHunk /\ seen = <<0, 0>>
    /\ draft = NoDraft /\ picture = <<>>
    /\ outcome = "reading"
PatchInit == \E r \in Patches : PatchStart(r)

-----------------------------------------------------------------------------
(* Reading the diff *)

Starts(i, mark) == i <= Len(request.diff) /\ request.diff[i].is = mark
Cur == request.diff[line]

\* Only a pair of --- and +++ is a header: a lone "--- " is a removed line.
Pair(i) == Starts(i, "---") /\ Starts(i + 1, "+++")
IsSectionBoundary(i) ==
    \/ i > Len(request.diff)
    \/ Starts(i, "@@")
    \/ Starts(i, "diff --git") \/ Starts(i, "Index:")
    \/ Pair(i)

StripPath(path) ==
    IF path = DevNull THEN path
    ELSE SubSeq(path, 1 + Min({request.strip, Len(path) - 1}), Len(path))

Flushed ==
    IF section.open /\ (section.hunks # <<>> \/ section.isNew \/ section.isDelete)
    THEN Append(sections, section) ELSE sections

Headers == outcome = "reading" /\ ~hunk.open /\ line <= Len(request.diff)
Body == outcome = "reading" /\ hunk.open
Read(n) == line' = line + n /\ UNCHANGED <<request, draft, picture, tree, outcome>>
RefusePatch == outcome' = "refused" /\ UNCHANGED <<request, parser, draft, picture, tree>>

\* A "diff --git" line whose paths cannot be told apart opens no section.
ReadGitHeader ==
    /\ Headers /\ Cur.is = "diff --git"
    /\ sections' = Flushed
    /\ renames' = <<NoPath, NoPath>>
    /\ section' = IF Cur.old = NoPath THEN NoSection
                  ELSE [NoSection EXCEPT !.old = StripPath(Cur.old), !.new = StripPath(Cur.new),
                                         !.git = TRUE, !.open = TRUE]
    /\ Read(1) /\ UNCHANGED <<hunk, seen>>

ReadNewMode ==
    /\ Headers /\ Cur.is = "new file mode" /\ section.open
    /\ section' = [section EXCEPT !.isNew = TRUE, !.old = NoPath]
    /\ Read(1) /\ UNCHANGED <<sections, renames, hunk, seen>>

ReadDeletedMode ==
    /\ Headers /\ Cur.is = "deleted file mode" /\ section.open
    /\ section' = [section EXCEPT !.isDelete = TRUE, !.new = NoPath]
    /\ Read(1) /\ UNCHANGED <<sections, renames, hunk, seen>>

\* Rename headers carry bare paths, which are not stripped.
ReadRename ==
    /\ Headers /\ Cur.is \in {"rename from", "rename to"}
    /\ renames' = [renames EXCEPT ![IF Cur.is = "rename from" THEN 1 ELSE 2] = Cur.path]
    /\ Read(1) /\ UNCHANGED <<section, sections, hunk, seen>>

ReadPair ==
    /\ Headers /\ Pair(line)
    /\ LET from == Cur.path
           to == request.diff[line + 1].path
           same == section.open /\ section.git /\ section.hunks = <<>>
           base == IF same THEN section ELSE NoSection
           named == [base EXCEPT !.open = TRUE, !.git = FALSE,
                                 !.isNew = from = DevNull, !.isDelete = to = DevNull,
                                 !.old = IF from = DevNull THEN @ ELSE StripPath(from),
                                 !.new = IF to = DevNull THEN @ ELSE StripPath(to)]
       IN /\ sections' = IF same THEN sections ELSE Flushed
          /\ section' = IF NoPath \in {renames[1], renames[2]} THEN named
                        ELSE [named EXCEPT !.old = renames[1], !.new = renames[2],
                                           !.isNew = FALSE, !.isDelete = FALSE]
    /\ Read(2) /\ UNCHANGED <<renames, hunk, seen>>

\* Prose, an index line, a mode with no section, "---" on its own, and what is
\* left of a hunk that ended before its body did.
SkipLine ==
    /\ Headers /\ ~Pair(line)
    /\ Cur.is \notin {"diff --git", "rename from", "rename to", "@@"}
    /\ Cur.is \in {"new file mode", "deleted file mode"} => ~section.open
    /\ Read(1) /\ UNCHANGED <<section, sections, renames, hunk, seen>>

OpenHunk ==
    /\ Headers /\ Cur.is = "@@" /\ section.open /\ Cur.ok
    /\ hunk' = [start |-> Cur.start, olds |-> Cur.olds, news |-> Cur.news,
                lines |-> <<>>, open |-> TRUE]
    /\ seen' = <<0, 0>>
    /\ Read(1) /\ UNCHANGED <<section, sections, renames>>

RefuseHunkHeader ==
    /\ Headers /\ Cur.is = "@@" /\ ~(section.open /\ Cur.ok)
    /\ RefusePatch

-----------------------------------------------------------------------------
(* Reading the body of a hunk: the counts steer the read, they do not bound *)
(* it.                                                                      *)

Full == seen[1] >= hunk.olds /\ seen[2] >= hunk.news

BodyEndsByCounts == IsSectionBoundary(line) \/ Full  \* mutant: the counts bound the body

\* An empty line is a context line that lost its space, unless the hunk has
\* all that its header promised or the diff ends here.
BodyEnds ==
    \/ IsSectionBoundary(line)
    \/ Cur.is = "" /\ (Full \/ line = Len(request.diff))

Taken(op, text) == [op |-> op, text |-> text, bare |-> FALSE]

\* What a line is when it is read as part of a hunk: a removed "-- x" has the
\* look of a header.
BodyLine(l) ==
    CASE l.is \in {" ", "-", "+"} -> {Taken(l.is, l.text)}
      [] l.is = "" -> {Taken(" ", <<>>)}
      [] l.is = "---" -> {Taken("-", <<"--">> \o l.path)}
      [] l.is = "+++" -> {Taken("+", <<"++">> \o l.path)}
      [] OTHER -> {}

Stray == ~BodyEnds /\ BodyLine(Cur) = {} /\ Cur.is # "\\"

ReadBodyLine ==
    /\ Body /\ ~BodyEnds
    /\ \E l \in BodyLine(Cur) :
          /\ hunk' = [hunk EXCEPT !.lines = Append(@, l)]
          /\ seen' = <<seen[1] + (IF l.op = "+" THEN 0 ELSE 1), seen[2] + (IF l.op = "-" THEN 0 ELSE 1)>>
    /\ Read(1) /\ UNCHANGED <<section, sections, renames>>

\* "\ No newline at end of file" describes the line above.
ReadNoNewline ==
    /\ Body /\ ~BodyEnds /\ Cur.is = "\\"
    /\ hunk' = IF hunk.lines = <<>> THEN hunk
               ELSE [hunk EXCEPT !.lines[Len(hunk.lines)].bare = TRUE]
    /\ Read(1) /\ UNCHANGED <<section, sections, renames, seen>>

\* The body is trusted over the counts.
CloseHunk ==
    /\ Body /\ hunk.lines # <<>> /\ (BodyEnds \/ (Stray /\ Full))
    /\ section' = [section EXCEPT !.hunks = Append(@,
                      [start |-> hunk.start, olds |-> seen[1], lines |-> hunk.lines])]
    /\ hunk' = NoHunk
    /\ Read(0) /\ UNCHANGED <<sections, renames, seen>>

RefuseHunkBody ==
    /\ Body /\ (BodyEnds \/ Stray)
    /\ hunk.lines = <<>> \/ (Stray /\ ~Full)
    /\ RefusePatch

PathOf(s) == IF s.new # NoPath THEN s.new ELSE s.old
IsRename(s) == s.old # NoPath /\ s.new # NoPath /\ s.old # s.new

EndOfDiff ==
    /\ outcome = "reading" /\ ~hunk.open /\ line > Len(request.diff)
    /\ sections' = Flushed
    /\ section' = NoSection
    /\ outcome' = IF Flushed = <<>> \/ \E i \in DOMAIN Flushed : PathOf(Flushed[i]) = NoPath
                  THEN "refused" ELSE "planning"
    /\ UNCHANGED <<request, line, renames, hunk, seen, draft, picture, tree>>

-----------------------------------------------------------------------------
(* Placing a hunk: positions count from 0 *)

OldSide(h) == SelectSeq(h.lines, LAMBDA l : l.op # "+")
\* Old lines among the first k lines of a hunk.
OldsUpTo(h, k) == Len(SelectSeq(SubSeq(h.lines, 1, k), LAMBDA l : l.op # "+"))

TrimSpace(text) == SelectSeq(text, LAMBDA w : w # " ")
LinesEqual(a, b) == a = b \/ (request.blanks /\ TrimSpace(a) = TrimSpace(b))

HunkMatchesAt(lines, h, pos) ==
    LET olds == OldSide(h)
    IN pos + Len(olds) <= Len(lines) /\ \A i \in DOMAIN olds : LinesEqual(lines[pos + i], olds[i].text)

\* sort.SliceStable by the line the header names.
SortHunks(hunks) ==
    LET before(i, j) == \/ hunks[i].start < hunks[j].start
                        \/ hunks[i].start = hunks[j].start /\ i < j
    IN [k \in DOMAIN hunks |->
           hunks[CHOOSE i \in DOMAIN hunks : Quantify(DOMAIN hunks, LAMBDA j : before(j, i)) = k - 1]]

\* The line a hunk is looked for at first: a pure insertion names the line it
\* goes after.
Expected(h, offset) == (IF h.olds = 0 THEN h.start ELSE h.start - 1) + offset

\* The search goes outward from a position, a step back before the step
\* forward, and never behind the lines that earlier hunks have passed.
Nearest(lines, h, from, min) ==
    LET reach == IF request.reach > 0 THEN request.reach ELSE Len(lines)
        far(p) == IF p < from THEN from - p ELSE p - from
        found == {p \in min..Len(lines) : far(p) <= reach /\ HunkMatchesAt(lines, h, p)}
    IN {p \in found : \A q \in found : far(p) < far(q) \/ (far(p) = far(q) /\ p <= q)}

Places(lines, h, want, min) == Nearest(lines, h, Min({Max({want, min}), Len(lines)}), min)

\* What the hunk puts there: context keeps the text of the file.
NewSide(lines, h, pos) ==
    FlattenSeq([k \in DOMAIN h.lines |->
        CASE h.lines[k].op = "+" -> <<h.lines[k].text>>
          [] h.lines[k].op = " " -> <<lines[pos + OldsUpTo(h, k)]>>
          [] OTHER -> <<>>])

\* The last marker decides how the file ends; on a removed line it counts only
\* at the end of the old file, which then gains its newline.
FinalNewline(lines, h, pos, final) ==
    LET marks == {k \in DOMAIN h.lines :
                    h.lines[k].bare /\ (h.lines[k].op = "-" => pos + OldsUpTo(h, k) >= Len(lines))}
    IN IF marks = {} THEN final ELSE h.lines[Max(marks)].op = "-"

\* The text that lines joined make, split again: no lines are no text, and an
\* empty last line is the newline of the one before it.
JoinLines(lines, final) ==
    IF lines = <<>> THEN Present(<<>>, FALSE)
    ELSE IF ~final /\ lines[Len(lines)] = <<>>
         THEN Present(Front(lines), Len(lines) > 1)
         ELSE Present(lines, final)

-----------------------------------------------------------------------------
(* Applying the sections in order to the running picture *)

Drafting == outcome = "planning"

Touched(path) == path \in DOMAIN picture
There(path) == IF Touched(path) THEN ~picture[path].gone ELSE path \in DOMAIN tree
Contents(path) == IF Touched(path) THEN picture[path] ELSE tree[path]

\* ResolveForRead: a path that is not there means the only file of its name,
\* when workspace.exact_path_not_required says so.
Meant(path) ==
    LET namesakes == {q \in DOMAIN tree : q[Len(q)] = path[Len(path)]}
    IN IF request.loose /\ path \notin DOMAIN tree /\ \E q \in namesakes : namesakes = {q}
       THEN CHOOSE q \in namesakes : TRUE ELSE path

Corrected(s) ==
    LET path == IF s.old # NoPath THEN s.old ELSE PathOf(s)
    IN IF s.isNew \/ IsRename(s) \/ Touched(path) \/ Meant(path) = path THEN s
       ELSE [s EXCEPT !.old = Meant(path), !.new = Meant(path)]

SourceOf(s) == IF s.old # NoPath THEN s.old ELSE PathOf(s)
Readable(s) == IF s.isNew THEN ~There(PathOf(s)) ELSE There(SourceOf(s))

\* A file being created ends with a newline unless the diff says otherwise.
OpenSection ==
    /\ Drafting /\ ~draft.open /\ sections # <<>>
    /\ LET s == Corrected(Head(sections))
           old == IF s.isNew THEN Present(<<>>, FALSE) ELSE Contents(SourceOf(s))
       IN /\ Readable(s)
          /\ draft' = [section |-> [s EXCEPT !.hunks = SortHunks(s.hunks)],
                       old |-> old.lines, out |-> <<>>,
                       final |-> old.final \/ old.lines = <<>>,
                       consumed |-> 0, offset |-> 0, open |-> TRUE]
    /\ UNCHANGED <<request, parser, picture, tree, outcome>>

RefuseSection ==
    /\ Drafting /\ ~draft.open /\ sections # <<>>
    /\ ~Readable(Corrected(Head(sections)))
    /\ RefusePatch

FirstHunk == Head(draft.section.hunks)
FirstPlaces == Places(draft.old, FirstHunk, Expected(FirstHunk, draft.offset), draft.consumed)

ApplyHunk ==
    /\ Drafting /\ draft.open /\ draft.section.hunks # <<>>
    /\ \E pos \in FirstPlaces :
          LET out == draft.out \o SubSeq(draft.old, draft.consumed + 1, pos)
                               \o NewSide(draft.old, FirstHunk, pos)
              cursor == pos + Len(OldSide(FirstHunk))
          IN draft' = [draft EXCEPT !.section.hunks = Tail(@), !.out = out,
                           !.consumed = cursor, !.offset = Len(out) - cursor,
                           !.final = FinalNewline(draft.old, FirstHunk, pos, @)]
    /\ UNCHANGED <<request, parser, picture, tree, outcome>>

RefusePlace ==
    /\ Drafting /\ draft.open /\ draft.section.hunks # <<>>
    /\ FirstPlaces = {}
    /\ RefusePatch

\* diffPlan.put: a later change of a path replaces the earlier one.
Drawn(pic, path, file) == [p \in DOMAIN pic \cup {path} |-> IF p = path THEN file ELSE pic[p]]

CloseSection ==
    /\ Drafting /\ draft.open /\ draft.section.hunks = <<>>
    /\ LET s == draft.section
           rest == SubSeq(draft.old, draft.consumed + 1, Len(draft.old))
           updated == JoinLines(draft.out \o rest, draft.final)
       IN picture' =
            IF s.isDelete THEN Drawn(picture, s.old, Deleted)
            ELSE IF IsRename(s) /\ ~s.isNew
                 THEN Drawn(Drawn(picture, PathOf(s), updated), s.old, Deleted)
                 ELSE Drawn(picture, PathOf(s), updated)
    /\ draft' = NoDraft
    /\ sections' = Tail(sections)
    /\ UNCHANGED <<request, line, section, renames, hunk, seen, tree, outcome>>

\* Nothing is written before every section has been worked out.
WritePatch ==
    /\ Drafting /\ ~draft.open /\ sections = <<>>
    /\ tree' = IF request.dry THEN tree
               ELSE [p \in {q \in DOMAIN tree \cup DOMAIN picture : There(q)} |-> Contents(p)]
    /\ outcome' = "applied"
    /\ UNCHANGED <<request, parser, draft, picture>>

PatchNext ==
    \/ ReadGitHeader \/ ReadNewMode \/ ReadDeletedMode \/ ReadRename \/ ReadPair \/ SkipLine
    \/ OpenHunk \/ RefuseHunkHeader
    \/ ReadBodyLine \/ ReadNoNewline \/ CloseHunk \/ RefuseHunkBody
    \/ EndOfDiff
    \/ OpenSection \/ RefuseSection \/ ApplyHunk \/ RefusePlace \/ CloseSection
    \/ WritePatch

PatchSpec == PatchInit /\ [][PatchNext]_patchVars
-----------------------------------------------------------------------------
(* Properties *)

\* Old lines with each hunk put at its place, in that order.
Spliced(old, hunks, at) ==
    LET passed(k) == IF k = 0 THEN 0 ELSE at[k] + Len(OldSide(hunks[k]))
    IN FlattenSeq([k \in DOMAIN hunks |-> SubSeq(old, passed(k - 1) + 1, at[k]) \o NewSide(old, hunks[k], at[k])])
       \o SubSeq(old, passed(Len(hunks)) + 1, Len(old))

Fits(old, hunks, at) ==
    \A k \in DOMAIN hunks :
        /\ k > 1 => at[k - 1] + Len(OldSide(hunks[k - 1])) <= at[k]
        /\ HunkMatchesAt(old, hunks[k], at[k])

(* apply_diff, when it applies a patch, makes the change the hunks show at  *)
(* places where their old lines are, each once, none over another, and      *)
(* leaves every other line; when it refuses, it leaves the workspace.       *)
OnlyHunksChange ==
    /\ outcome = "refused" => tree = request.tree
    /\ outcome = "applied" /\ request.hunks # <<>> =>
          \A p \in DOMAIN tree :
            LET old == request.tree[p].lines
            IN \E hunks \in {request.hunks, Reverse(request.hunks)} :
               \E at \in [DOMAIN hunks -> 0..Len(old)] :
                  Fits(old, hunks, at) /\ tree[p].lines = Spliced(old, hunks, at)

(* A patch whose author may count on it is applied and leaves the           *)
(* workspace as its author meant, whatever the counts and the line numbers  *)
(* of its headers say, in whatever order its hunks come, in one section or  *)
(* several (the README's list under apply_diff); one that cannot mean       *)
(* anything is refused; and any other changes only what its hunks show.     *)
PatchLands ==
    /\ OnlyHunksChange
    /\ outcome \in {"applied", "refused"} =>
          /\ request.fate = "lands" => outcome = "applied" /\ tree = request.meant
          /\ request.fate = "refused" => outcome = "refused"

(* A hunk is put at the line its header names, when the file is the one the *)
(* patch was made from: the number chooses between places that look alike.  *)
NamedLineIsChosen == outcome = "applied" /\ request.exact => tree = request.meant
=============================================================================
