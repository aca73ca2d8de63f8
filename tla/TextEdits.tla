----------------------------- MODULE TextEdits -----------------------------
(***************************************************************************)
(* What the tools that edit a file in place do to its characters:          *)
(* read_file's numbered lines and the lines edit_lines and insert_text     *)
(* count (tools_code.go), edit_file's anchors and the endings a            *)
(* replacement is given (tools_edit.go), the conversion at the edge of the *)
(* workspace (workspace.go) and fix_line_endings (tools_line_endings.go).  *)
(* A file is the sequence of its characters.  The calls come one at a      *)
(* time, with a change from outside between a read and an edit.            *)
(***************************************************************************)
EXTENDS Integers, Sequences, SequencesExt

CONSTANTS Workspaces, \* workspaces there may be: files by name with their characters,
                      \* workspace.line_endings, workspace.max_line_ending_files
          Modes,      \* what a reload may set line_endings to
          Given,      \* texts a client supplies
          Anchors,    \* texts a client quotes as an anchor
          Outsides,   \* what a file may be changed to from outside
          Deep,       \* files that are in a folder of their own
          Masked,     \* files whose name the mask does not match
          MaxLine     \* bound: line numbers a client asks for

ASSUME TextsAssumption ==
    /\ Modes \subseteq {"preserve", "lf", "crlf"}
    /\ \A s \in Given \cup Anchors \cup Outsides : s \in Seq(STRING)
    /\ \A w \in Workspaces :
          /\ w.mode \in {"preserve", "lf", "crlf"}
          /\ \A f \in DOMAIN w.files : w.files[f] \in Seq(STRING)

CR == "CR"
LF == "LF"
NUL == "NUL"
Endings == {"lf", "crlf"}

NoRead == [doc |-> "none", first |-> 1, lines |-> <<>>]
NoCall == [tool |-> "none"]

VARIABLES bytes,   \* file -> its characters on disk
          mode,    \* Workspace.LineEndings
          limit,   \* Workspace.MaxLineEndingFiles
          shown,   \* the lines the client has read last, and their numbers
          changed, \* whether the file has changed from outside
          made     \* what the last call that could write did

textVars == <<bytes, mode, limit, shown, changed, made>>

TextStart(w) ==
    /\ bytes = w.files /\ mode = w.mode /\ limit = w.limit
    /\ shown = NoRead
    /\ changed = FALSE
    /\ made = NoCall
TextInit == \E w \in Workspaces : TextStart(w)

-----------------------------------------------------------------------------
(* Line endings *)

LoneLF(s, i) == s[i] = LF /\ (i = 1 \/ s[i - 1] # CR)
InCRLF(s, i) == i < Len(s) /\ s[i] = CR /\ s[i + 1] = LF

\* strings.ReplaceAll(s, "\r\n", "\n")
FoldCRLF(s) == FlattenSeq([i \in DOMAIN s |-> IF InCRLF(s, i) THEN <<>> ELSE <<s[i]>>])

ToLineEnding(s, ending) ==
    LET lf == FoldCRLF(s)
    IN IF ending = "lf" THEN lf
       ELSE FlattenSeq([i \in DOMAIN lf |-> IF lf[i] = LF THEN <<CR, LF>> ELSE <<lf[i]>>])

\* CRLF first, so that it does not become two lines.
NormalizeToLF(s) ==
    LET lf == FoldCRLF(s) IN [i \in DOMAIN lf |-> IF lf[i] = CR THEN LF ELSE lf[i]]

ToLF(s) == IF mode = "preserve" THEN s ELSE NormalizeToLF(s)
ToDisk(s) == IF mode = "preserve" THEN s ELSE ToLineEnding(NormalizeToLF(s), mode)

\* A majority vote; a tie is LF.
DominantLineEnding(s) ==
    LET crlf == Cardinality({i \in DOMAIN s : InCRLF(s, i)})
        lf == Cardinality({i \in DOMAIN s : LoneLF(s, i)})
    IN IF crlf > lf THEN "crlf" ELSE "lf"
Eol(ending) == ToLineEnding(<<LF>>, ending)

-----------------------------------------------------------------------------
(* Lines *)

EndsInLF(s) == s # <<>> /\ s[Len(s)] = LF
TrimNewline(s) == IF EndsInLF(s) THEN Front(s) ELSE s

\* A set of positions up to a last, in order.
Ascending(set, last) ==
    FlattenSeq([k \in 1..(last + 1) |-> IF k - 1 \in set THEN <<k - 1>> ELSE <<>>])

\* The pieces of s between the positions of a set.
Between(s, cuts) ==
    LET at == Ascending(cuts, Len(s) + 1)
    IN [k \in 1..(Len(at) - 1) |-> SubSeq(s, at[k] + 1, at[k + 1] - 1)]

\* splitLines: the lines without their ends; an empty file has none, and the
\* newline that ends a file begins no line.
SplitLines(s) ==
    LET lf == FoldCRLF(s)
        body == TrimNewline(lf)
    IN IF lf = <<>> THEN <<>>
       ELSE Between(body, {0, Len(body) + 1} \cup {i \in DOMAIN body : body[i] = LF})

\* Where each line starts, and the end: line k is all between offsets k and
\* k + 1, its end included.
LineOffsets(s) ==
    Ascending({0, Len(s)} \cup {i \in DOMAIN s : s[i] = LF /\ i < Len(s)}, Len(s))

\* mutant: the text is put there with the endings it came with
TextBlockAsSent(text, ending, terminate) ==
    TrimNewline(text) \o (IF terminate THEN Eol(ending) ELSE <<>>)

\* Text of a client as whole lines of the file.
TextBlock(text, ending, terminate) ==
    ToLineEnding(TrimNewline(FoldCRLF(text)), ending) \o (IF terminate THEN Eol(ending) ELSE <<>>)

ComparableText(text) == TrimNewline(FoldCRLF(text))

-----------------------------------------------------------------------------
(* Reading *)

Waiting == made = NoCall
TextOf(d) == ToLF(bytes[d])

\* read_file with line_numbers or a range; a range past the end is refused.
ReadFileRange(d, start, end) ==
    LET lines == SplitLines(TextOf(d))
        from == IF start = 0 THEN 1 ELSE start
        to == IF end = 0 \/ end > Len(lines) THEN Len(lines) ELSE end
    IN /\ Waiting /\ shown = NoRead
       /\ from <= to
       /\ shown' = [doc |-> d, first |-> from, lines |-> SubSeq(lines, from, to)]
       /\ UNCHANGED <<bytes, mode, limit, changed, made>>

\* Somebody else changes the file, or a reload changes the convention.
ChangedOutside ==
    /\ Waiting /\ shown # NoRead /\ ~changed
    /\ changed' = TRUE
    /\ \/ \E s \in Outsides : bytes' = [bytes EXCEPT ![shown.doc] = s] /\ UNCHANGED mode
       \/ mode' \in Modes /\ UNCHANGED bytes
    /\ UNCHANGED <<limit, shown, made>>

-----------------------------------------------------------------------------
(* Editing *)

WriteFile(d, text, what) ==
    /\ bytes' = [bytes EXCEPT ![d] = ToDisk(text)]
    /\ made' = what
    /\ UNCHANGED <<mode, limit, shown, changed>>

RefuseEdit(what) ==
    /\ made' = [tool |-> "refused", what |-> what, before |-> bytes]
    /\ UNCHANGED <<bytes, mode, limit, shown, changed>>

\* What the client quotes of lines it has read.
JoinLF(lines) == FlattenSeq([k \in DOMAIN lines |-> Append(lines[k], LF)])
HasRead(d, start, end) ==
    shown.doc = d /\ shown.first <= start /\ end < shown.first + Len(shown.lines)
Quoted(start, end) ==
    SubSeq(shown.lines, start - shown.first + 1, end - shown.first + 1)

InRange(content, start, end) ==
    LET total == Len(LineOffsets(content)) - 1
    IN start \in 1..total /\ end \in start..total

\* Lines start to end of a text, with their ends.
LinesOf(content, start, end) ==
    SubSeq(content, LineOffsets(content)[start] + 1, LineOffsets(content)[end + 1])

Unguarded(content, start, end, quote) == TRUE  \* mutant: expected_text is not looked at

\* expected_text lets the edit through only if the lines are still those.
Guarded(content, start, end, quote) ==
    quote => ComparableText(LinesOf(content, start, end)) = ComparableText(JoinLF(Quoted(start, end)))

\* write_file: the whole file.
PutFile(d, text) ==
    Waiting /\ WriteFile(d, text, [tool |-> "write_file", doc |-> d, before |-> bytes])

EditLines(d, start, end, text, quote) ==
    LET content == TextOf(d)
        at == LineOffsets(content)
        current == LinesOf(content, start, end)
        replacement == IF text = <<>> THEN <<>>
                       ELSE TextBlock(text, DominantLineEnding(content), EndsInLF(current))
    IN /\ Waiting
       /\ quote => HasRead(d, start, end)
       /\ InRange(content, start, end) /\ Guarded(content, start, end, quote)
       /\ WriteFile(d, SubSeq(content, 1, at[start]) \o replacement
                       \o SubSeq(content, at[end + 1] + 1, Len(content)),
                    [tool |-> "edit_lines", doc |-> d, before |-> bytes, from |-> start, to |-> end,
                     text |-> text, quote |-> IF quote THEN {Quoted(start, end)} ELSE {}])

RefuseEditLines(d, start, end, quote) ==
    LET content == TextOf(d)
    IN /\ Waiting
       /\ quote => HasRead(d, start, end)
       /\ ~(InRange(content, start, end) /\ Guarded(content, start, end, quote))
       /\ RefuseEdit("edit_lines")

\* Places an anchor is found at: strings.Count goes on after each match.
FoundAt(s, anchor, i) ==
    i + Len(anchor) - 1 <= Len(s) /\ SubSeq(s, i, i + Len(anchor) - 1) = anchor
Matches(s, anchor) ==
    LET upTo[i \in 0..Len(s)] ==
            IF i = 0 THEN {}
            ELSE IF FoundAt(s, anchor, i) /\ \A k \in upTo[i - 1] : k + Len(anchor) <= i
            THEN upTo[i - 1] \cup {i} ELSE upTo[i - 1]
    IN upTo[Len(s)]

\* An anchor that is nowhere is tried again with the endings of the file.
Reconciled(s, anchor) ==
    IF Matches(s, anchor) # {} THEN anchor
    ELSE LET other == ToLineEnding(anchor, DominantLineEnding(s))
         IN IF Matches(s, other) # {} THEN other ELSE anchor

\* Where insert_text puts its lines: how many characters stay before them.
AtLine(content, line) ==
    LET at == LineOffsets(content)
    IN IF line = Len(at) THEN Len(content) ELSE at[line]
AtAnchor(content, first, anchor, before) ==
    LET end == first + Len(anchor) - 1
        starts == {0} \cup {i \in 1..(first - 1) : content[i] = LF}
        ends == {i \in end..Len(content) : content[i] = LF}
    IN IF before THEN Max(starts)
       ELSE IF ends = {} THEN Len(content) ELSE Min(ends)

PutLines(d, point, text, what) ==
    LET content == TextOf(d)
        ending == DominantLineEnding(content)
        unended == point = Len(content) /\ content # <<>> /\ ~EndsInLF(content)
        block == IF unended THEN Eol(ending) \o TextBlock(text, ending, FALSE)
                 ELSE TextBlock(text, ending, TRUE)
    IN WriteFile(d, SubSeq(content, 1, point) \o block
                    \o SubSeq(content, point + 1, Len(content)), what)

\* The number a reader of the text gives the line of its i-th character.
NumberOf(s, i) == 1 + Quantify(1..(i - 1), LAMBDA k : s[k] = LF)
Insertion(d, line, text) ==
    [tool |-> "insert_text", doc |-> d, before |-> bytes, from |-> line, to |-> line - 1,
     text |-> text, quote |-> {}]

InsertAtLine(d, line, text) ==
    /\ Waiting
    /\ line \in 1..Len(LineOffsets(TextOf(d)))
    /\ PutLines(d, AtLine(TextOf(d), line), text, Insertion(d, line, text))

InsertAtAnchor(d, quoted, before, text) ==
    LET content == TextOf(d)
        anchor == Reconciled(content, quoted)
    IN /\ Waiting
       /\ \E first \in Matches(content, anchor) :
             /\ Matches(content, anchor) = {first}
             /\ PutLines(d, AtAnchor(content, first, anchor, before), text,
                    Insertion(d, IF before THEN NumberOf(content, first)
                                 ELSE NumberOf(content, first + Len(anchor) - 1) + 1, text))

RefuseInsert(d, line, quoted) ==
    LET content == TextOf(d)
        matches == Matches(content, Reconciled(content, quoted))
    IN /\ Waiting
       /\ \/ line > Len(LineOffsets(content))
          \/ ~\E first \in matches : matches = {first}
       /\ RefuseEdit("insert_text")

Replaced(s, at, anchor, text) ==
    FlattenSeq([i \in DOMAIN s |->
        IF i \in at THEN text
        ELSE IF \E k \in at : k < i /\ i < k + Len(anchor) THEN <<>> ELSE <<s[i]>>])

\* applyEdit: one place, unless all are asked for; the replacement follows the
\* anchor to the endings of the file, and is otherwise put there as it is.
EditFile(d, quoted, text, all, normalize) ==
    LET content == TextOf(d)
        asked == ToLF(quoted)
        anchor == IF normalize THEN Reconciled(content, asked) ELSE asked
        put == IF anchor = asked THEN ToLF(text)
               ELSE ToLineEnding(ToLF(text), DominantLineEnding(content))
        at == Matches(content, anchor)
    IN /\ Waiting
       /\ at # {}
       /\ all \/ \E i \in at : at = {i}
       /\ WriteFile(d, Replaced(content, at, anchor, put),
                    [tool |-> "edit_file", doc |-> d, before |-> bytes, text |-> text,
                     anchor |-> quoted, adjusted |-> anchor # asked])

RefuseEditFile(d, quoted, all, normalize) ==
    LET content == TextOf(d)
        asked == ToLF(quoted)
        at == Matches(content, IF normalize THEN Reconciled(content, asked) ELSE asked)
    IN /\ Waiting
       /\ at = {} \/ (~all /\ ~\E i \in at : at = {i})
       /\ RefuseEdit("edit_file")

-----------------------------------------------------------------------------
(* fix_line_endings *)

IsBinary(s) == \E i \in DOMAIN s : s[i] = NUL

\* Files a scope reaches: its mask is not asked when it names its file.
Reached(scope, d) ==
    CASE scope = "file" -> {d}
      [] scope = "folder" -> DOMAIN bytes \ (Deep \cup Masked)
      [] OTHER -> DOMAIN bytes \ Masked

PlanLineEndings(scope, d, ending) ==
    {f \in Reached(scope, d) : ~IsBinary(bytes[f]) /\ ToLineEnding(bytes[f], ending) # bytes[f]}

Fixing(scope, d, ending, dry) ==
    [tool |-> "fix_line_endings", before |-> bytes, reached |-> Reached(scope, d),
     ending |-> ending, dry |-> dry]

FixLineEndings(scope, d, ending, dry) ==
    LET files == PlanLineEndings(scope, d, ending)
    IN /\ Waiting
       /\ Cardinality(files) <= limit
       /\ bytes' = IF dry THEN bytes
                   ELSE [f \in DOMAIN bytes |->
                           IF f \in files THEN ToLineEnding(bytes[f], ending) ELSE bytes[f]]
       /\ made' = Fixing(scope, d, ending, dry)
       /\ UNCHANGED <<mode, limit, shown, changed>>

RefuseFix(scope, d, ending) ==
    /\ Waiting
    /\ Cardinality(PlanLineEndings(scope, d, ending)) > limit
    /\ RefuseEdit("fix_line_endings")

TextNext ==
    \/ ChangedOutside
    \/ \E d \in DOMAIN bytes, start, end \in 0..MaxLine : ReadFileRange(d, start, end)
    \/ \E d \in DOMAIN bytes, start \in 1..MaxLine, end \in 1..MaxLine, quote \in BOOLEAN :
          \/ \E text \in Given \cup {<<>>} : EditLines(d, start, end, text, quote)
          \/ RefuseEditLines(d, start, end, quote)
    \/ \E d \in DOMAIN bytes, text \in Given :
          \/ PutFile(d, text)
          \/ \E line \in 1..MaxLine : InsertAtLine(d, line, text)
          \/ \E quoted \in Anchors, before \in BOOLEAN : InsertAtAnchor(d, quoted, before, text)
    \/ \E d \in DOMAIN bytes, line \in 1..MaxLine, quoted \in Anchors : RefuseInsert(d, line, quoted)
    \/ \E d \in DOMAIN bytes, quoted \in Anchors, all, normalize \in BOOLEAN :
          \/ \E text \in Given : EditFile(d, quoted, text, all, normalize)
          \/ RefuseEditFile(d, quoted, all, normalize)
    \/ \E scope \in {"file", "folder", "tree"}, d \in DOMAIN bytes, ending \in Endings :
          \/ \E dry \in BOOLEAN : FixLineEndings(scope, d, ending, dry)
          \/ RefuseFix(scope, d, ending)

TextSpec == TextInit /\ [][TextNext]_textVars

-----------------------------------------------------------------------------
(* Properties *)

Seen(s) == SplitLines(ToLF(s))
UnendedAt(s, c) == s # <<>> /\ s[Len(s)] = c

(* What read_file shows after edit_lines or insert_text is what it showed   *)
(* before with the named lines replaced by the lines supplied, and every    *)
(* line of the file is one its reader can number; an edit that quotes its   *)
(* lines replaces lines that read as they did when the client saw them,     *)
(* whatever came between; and a refused call leaves every file.  Three      *)
(* things are excepted.  An empty line at the end of a file without a final *)
(* newline cannot be told from that newline.  Where endings are preserved,  *)
(* text inserted behind a CR that ends the file may make a CRLF of it.  And *)
(* a quote with a line that ends in a CR is compared without that CR.       *)
EditReadsBack ==
    /\ made.tool \in {"edit_lines", "insert_text"} =>
         LET old == made.before[made.doc]
             was == Seen(old)
             given == IF made.text = <<>> THEN <<>> ELSE SplitLines(made.text)
             blurred == ~EndsInLF(ToLF(old)) /\ made.to >= Len(was)
         IN /\ \/ Seen(bytes[made.doc]) = SubSeq(was, 1, made.from - 1) \o given
                                          \o SubSeq(was, made.to + 1, Len(was))
               \/ made.text # <<>> /\ given[Len(given)] = <<>> /\ blurred
               \/ made.tool = "insert_text" /\ UnendedAt(old, CR) /\ mode = "preserve"
            /\ \A q \in made.quote :
                 \/ q = SubSeq(was, made.from, made.to)
                 \/ \E k \in DOMAIN q : UnendedAt(q[k], CR)
    /\ made.tool = "refused" => bytes = made.before

Uniform(s, ending) ==
    \A i \in DOMAIN s : IF ending = "crlf" THEN ~LoneLF(s, i) ELSE ~InCRLF(s, i)
\* A CR before a CRLF is left, and is then the first half of a CRLF.
Stutters(s) == \E i \in DOMAIN s : s[i] = CR /\ InCRLF(s, i + 1)

\* Every CR is half of a CRLF.
Paired(s) == \A i \in DOMAIN s : s[i] = CR => InCRLF(s, i)

\* In a workspace that normalises, every write has the configured ending
\* throughout (README: "a file cannot come out of an edit with two conventions
\* in it").
WritesNormalise ==
    made.tool \in {"write_file", "edit_lines", "insert_text", "edit_file"} /\ mode # "preserve" =>
        LET new == bytes[made.doc]
        IN Uniform(new, mode) /\ FoldCRLF(new) = NormalizeToLF(new)

\* In one that preserves, lines put into a file of one convention take its
\* ending, and so does a replacement whose anchor was reconciled.  A CR by
\* itself is no ending, but may become half of one.
EditsKeepTheEnding ==
    made.tool \in {"edit_lines", "insert_text", "edit_file"} /\ mode = "preserve" =>
        LET old == made.before[made.doc]
        IN \A ending \in Endings :
              /\ Uniform(old, ending) /\ (\E i \in DOMAIN old : old[i] = LF)
              /\ Paired(old) /\ Paired(made.text)
              /\ made.tool = "edit_file" => made.adjusted /\ Paired(made.anchor)
              => Uniform(bytes[made.doc], ending)

\* fix_line_endings gives every text file it reaches one ending and no file
\* another text.
FixesOnlyEndings ==
    made.tool = "fix_line_endings" =>
        \A f \in {g \in DOMAIN bytes : ~Stutters(made.before[g])} :
            /\ FoldCRLF(bytes[f]) = FoldCRLF(made.before[f])
            /\ IF made.dry \/ f \notin made.reached \/ IsBinary(bytes[f])
               THEN bytes[f] = made.before[f] ELSE Uniform(bytes[f], made.ending)

\* No call leaves a file with two conventions that had one: a write of a
\* workspace that normalises; in one that preserves, lines put into a file, and
\* a replacement whose anchor was reconciled, if every CR there and in what is
\* put in is half of a CRLF; and fix_line_endings, for files that have no CR
\* before a CRLF.
OneConvention == WritesNormalise /\ EditsKeepTheEnding /\ FixesOnlyEndings
=============================================================================
