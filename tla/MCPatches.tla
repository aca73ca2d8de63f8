----------------------------- MODULE MCPatches -----------------------------
(***************************************************************************)
(* Those who write patches.  A script is a file as a diff without context  *)
(* limits would show it: every line of it kept, removed or added.  A patch *)
(* shows the part of the script its hunks cover, in one of the styles that *)
(* patches come in.                                                        *)
(***************************************************************************)
EXTENDS UnifiedDiff, FiniteSets
LOCAL INSTANCE SequencesExt
LOCAL INSTANCE TLC

F == <<"f">>
G == <<"d", "f">>

Keep(t) == Taken(" ", t)
Drop(t) == Taken("-", t)
Add(t) == Taken("+", t)
Olds(script) == SelectSeq(script, LAMBDA l : l.op # "+")
News(script) == SelectSeq(script, LAMBDA l : l.op # "-")
Wordings(lines) == [i \in DOMAIN lines |-> lines[i].text]
Changes(script) == {i \in DOMAIN script : script[i].op # " "}
Part(script, r) == SubSeq(script, r[1], r[2])

\* The ways to show a script in one or two hunks.
Ranges(script) ==
    {r \in (DOMAIN script) \X (DOMAIN script) :
        r[1] <= r[2] /\ \E i \in Changes(script) : i \in r[1]..r[2]}
Covers(script, rs) == \A i \in Changes(script) : \E r \in rs : i \in r[1]..r[2]
Cuts(script) ==
    {<<r>> : r \in {x \in Ranges(script) : Covers(script, {x})}}
    \cup {c \in Ranges(script) \X Ranges(script) :
            c[1][2] < c[2][1] /\ Covers(script, {c[1], c[2]})}

OldLinesBefore(script, r) == Len(Olds(SubSeq(script, 1, r[1] - 1)))
StartOf(script, r) == OldLinesBefore(script, r) + (IF Olds(Part(script, r)) = <<>> THEN 0 ELSE 1)

(* How the patch is written: what the counts and the line numbers after the *)
(* @@ say, whether the hunks are listed backwards, whether each is given in *)
(* a section of its own, how a section is headed, whether prose stands      *)
(* around, whether blank context lost its space, how many lines the file    *)
(* has gained at its top since.                                             *)
Plain == [counts |-> 0, starts |-> "right", back |-> FALSE, apart |-> FALSE, head |-> "pair",
          prose |-> FALSE, bare |-> FALSE, newer |-> 0, reach |-> 0]

Tag(kind) == [is |-> kind]
Named(kind, path) == [is |-> kind, path |-> path]
InA(path) == <<"a">> \o path
InB(path) == <<"b">> \o path
GitLine(path) == [is |-> "diff --git", old |-> InA(path), new |-> InB(path)]
PairOf(path) == <<Named("---", InA(path)), Named("+++", InB(path))>>
Heading(style) ==
    CASE style.head = "pair" -> PairOf(F)
      [] style.head = "git" -> <<GitLine(F), Tag("index")>>
      [] OTHER -> <<GitLine(F), Tag("index")>> \o PairOf(F)

StatedStart(script, r, style) ==
    CASE style.starts = "right" -> StartOf(script, r)
      [] style.starts = "late" -> StartOf(script, r) + 1
      [] OTHER -> 1
HunkHead(start, olds, news) ==
    [is |-> "@@", ok |-> TRUE, start |-> start, olds |-> olds, news |-> news]
Least(n) == IF n < 0 THEN 0 ELSE n
Shown(l, style) ==
    CASE l.op = " " /\ l.text = <<>> /\ style.bare -> Tag("")
      [] l.op = "-" /\ l.text # <<>> /\ l.text[1] = "--" -> Named("---", Tail(l.text))
      [] l.op = "+" /\ l.text # <<>> /\ l.text[1] = "++" -> Named("+++", Tail(l.text))
      [] OTHER -> [is |-> l.op, text |-> l.text]
HunkText(script, r, style) ==
    LET part == Part(script, r)
    IN <<HunkHead(StatedStart(script, r, style), Least(Len(Olds(part)) + style.counts),
                  Least(Len(News(part)) + style.counts))>>
       \o [i \in DOMAIN part |-> Shown(part[i], style)]

Listed(cut, style) == IF style.back THEN Reverse(cut) ELSE cut
DiffOf(script, cut, style) ==
    LET hunks == [i \in DOMAIN cut |-> HunkText(script, Listed(cut, style)[i], style)]
        body == IF style.apart THEN FlattenSeq([i \in DOMAIN cut |-> Heading(style) \o hunks[i]])
                ELSE Heading(style) \o FlattenSeq(hunks)
    IN IF style.prose THEN <<Tag("prose")>> \o body \o <<Tag("prose"), Tag("")>>
       ELSE Append(body, Tag(""))

(* What a reader of the diff can tell apart: a blank line that lost its     *)
(* space from the end of a hunk whose counts fall short, and a removed      *)
(* "-- x" before an added "++ y" from a pair of headers.                    *)
Legible(script, style) ==
    /\ style.bare => style.counts >= 0
    /\ \A i \in 1..(Len(script) - 1) :
          ~(Shown(script[i], style).is = "---" /\ Shown(script[i + 1], style).is = "+++")

(* When the author may count on the patch: every hunk removes or keeps a   *)
(* run of lines that the file has at one place only, in the file as its    *)
(* section finds it; the line numbers, if wrong, keep the hunks in order;  *)
(* and the text can be told from its own headers.                          *)
Times(lines, run) ==
    Cardinality({p \in 0..(Len(lines) - Len(run)) : SubSeq(lines, p + 1, p + Len(run)) = run})
OnceIn(lines, part) == Olds(part) # <<>> /\ Times(lines, Wordings(Olds(part))) = 1
\* The script as it stands when the hunks before the k-th have been applied.
FoundBy(script, cut, k) ==
    LET done == IF k = 1 THEN 0 ELSE cut[k - 1][2]
    IN Wordings(News(SubSeq(script, 1, done)) \o Olds(SubSeq(script, done + 1, Len(script))))
Sure(script, cut, style) ==
    /\ \A k \in DOMAIN cut :
          OnceIn(IF style.apart THEN FoundBy(script, cut, k) ELSE Wordings(Olds(script)),
                 Part(script, cut[k]))
    /\ style.back /\ Len(cut) > 1 =>
          ~style.apart /\ StatedStart(script, cut[1], style) < StatedStart(script, cut[2], style)
    /\ style.prose => style.counts <= 0
    /\ style.reach \in {0, 9}
    /\ Legible(script, style)

Asked(diff, there, hunks, meant, fate) ==
    [diff |-> diff, strip |-> 1, reach |-> 0, blanks |-> FALSE, loose |-> FALSE, dry |-> FALSE,
     tree |-> there, hunks |-> hunks, meant |-> meant, fate |-> fate, exact |-> FALSE]

Terminated(lines) == Present(lines, lines # <<>>)
PatchOf(script, cut, style) ==
    LET newer == [i \in 1..style.newer |-> Keep(<<"n">>)]
        whole == newer \o script
        moved == [k \in DOMAIN cut |-> <<cut[k][1] + style.newer, cut[k][2] + style.newer>>]
    IN [Asked(DiffOf(script, cut, style), (F :> Terminated(Wordings(Olds(whole)))),
              IF style.apart \/ ~Legible(script, style) THEN <<>> ELSE [k \in DOMAIN cut |-> [lines |-> Part(script, cut[k])]],
              (F :> Terminated(Wordings(News(whole)))),
              IF Sure(whole, moved, style) THEN "lands" ELSE "open")
        EXCEPT !.reach = style.reach, !.exact = style = Plain]

Letters == {Keep(<<"x">>), Keep(<<"y">>), Drop(<<"x">>), Drop(<<"y">>), Add(<<"z">>)}
OddLetters == {Keep(<<"x">>), Keep(<<>>), Drop(<<"--", "f">>), Add(<<"++", "f">>), Drop(<<>>)}
Scripts(n, letters) == {s \in UNION {[1..k -> letters] : k \in 1..n} : Changes(s) # {}}
Styles ==
    {Plain}
    \cup {[Plain EXCEPT !.counts = n] : n \in {-1, 1}}
    \cup {[Plain EXCEPT !.starts = "late", !.prose = TRUE, !.newer = 1, !.reach = 9],
          [Plain EXCEPT !.starts = "one"],
          [Plain EXCEPT !.back = TRUE, !.newer = 2],
          [Plain EXCEPT !.apart = TRUE, !.head = "git"],
          [Plain EXCEPT !.apart = TRUE, !.head = "both"],
          [Plain EXCEPT !.newer = 2, !.reach = 1]}
OddStyles == {Plain} \cup {[Plain EXCEPT !.counts = n, !.bare = TRUE] : n \in {-1, 0, 1}}

\* Two places that look alike, and a hunk before them that adds a line.
Alike == {<<Add(<<"z">>), Keep(<<"x">>), Drop(<<"x">>), Add(<<"y">>), Keep(<<"x">>)>>,
          <<Drop(<<"x">>), Add(<<"y">>), Keep(<<"x">>), Drop(<<"x">>), Add(<<"z">>), Keep(<<"x">>)>>,
          <<Keep(<<"y">>), Add(<<"z">>), Keep(<<"x">>), Drop(<<"y">>), Keep(<<"x">>), Keep(<<"y">>)>>}

-----------------------------------------------------------------------------
(* Patches of more than one file, and those that say what a file becomes *)

X == <<"x">>
Y == <<"y">>
Z == <<"z">>
End == <<Tag("")>>
One(l) == [is |-> l.op, text |-> l.text]
Swap(start) == <<HunkHead(start, 1, 1), One(Drop(X)), One(Add(Y))>>
Birth == <<Named("---", DevNull), Named("+++", InB(F)), HunkHead(0, 0, 1), One(Add(Z))>>
Death == <<Named("---", InA(F)), Named("+++", DevNull), HunkHead(1, 1, 0), One(Drop(X))>>
Pure(path, kind) == <<GitLine(path), Tag(kind)>>
Move == <<GitLine(F), Named("rename from", F), Named("rename to", G)>>
        \o <<Named("---", InA(F)), Named("+++", InB(G))>> \o Swap(1)
Bare == Tag("\\")

FX == F :> Present(<<X>>, TRUE)
FY == F :> Present(<<Y>>, TRUE)
FZ == F :> Present(<<Z>>, TRUE)
GX == G :> Present(<<X>>, TRUE)
GY == G :> Present(<<Y>>, TRUE)
Lands(diff, there, meant) == Asked(diff \o End, there, <<>>, meant, "lands")
Fails(diff, there) == Asked(diff \o End, there, <<>>, there, "refused")

AnyPatch == Fails(Swap(1), FX)
Chosen == {AnyPatch,
    Lands(Birth, <<>>, FZ),
    Fails(Birth, FX),
    Lands(Death \o Birth, FX, FZ),
    Fails(Death \o PairOf(F) \o Swap(1), FX),
    Lands(PairOf(F) \o Swap(1) \o PairOf(F) \o <<HunkHead(1, 1, 1), One(Drop(Y)), One(Add(Z))>>, FX, FZ),
    Lands(PairOf(F) \o Swap(1) \o PairOf(G) \o Swap(1), FX @@ GX, FY @@ GY),
    Fails(PairOf(F) \o Swap(1) \o PairOf(G) \o Swap(1), FX @@ GY),
    Lands(PairOf(F) \o Swap(1) \o <<Tag("Index:")>> \o PairOf(G) \o Swap(1), FX @@ GX, FY @@ GY),
    Lands(Move, FX, GY),
    Lands(Pure(F, "new file mode"), GX, F :> Present(<<>>, FALSE) @@ GX),
    Lands(Pure(F, "deleted file mode") \o Pure(G, "new file mode"), FX, G :> Present(<<>>, FALSE)),
    Fails(<<Tag("new file mode"), Tag("deleted file mode"), Tag("prose")>>, FX),
    Fails(<<[GitLine(F) EXCEPT !.old = NoPath]>> \o Swap(1), FX),
    Fails(PairOf(F) \o <<HunkHead(1, 1, 1)>>, FX),
    Fails(PairOf(F) \o <<[HunkHead(1, 1, 1) EXCEPT !.ok = FALSE]>>, FX),
    Fails(PairOf(F) \o <<HunkHead(1, 2, 1), One(Drop(X)), Tag("prose")>>, FX),
    Fails(<<Named("---", DevNull), Named("+++", DevNull)>> \o Swap(1), FX),
    [Lands(PairOf(F) \o Swap(1), FX, FX) EXCEPT !.dry = TRUE],
    [Lands(<<Named("---", F), Named("+++", F)>> \o Swap(1), FX, FY) EXCEPT !.strip = 0],
    \* Indents are overlooked, and kept.
    [Lands(PairOf(F) \o <<HunkHead(1, 2, 2), One(Keep(Z)), One(Drop(X)), One(Add(Y))>>,
           F :> Present(<<<<" ", "z">>, <<" ", "x">>>>, TRUE),
           F :> Present(<<<<" ", "z">>, Y>>, TRUE)) EXCEPT !.blanks = TRUE],
    Fails(PairOf(F) \o Swap(1), F :> Present(<<<<" ", "x">>>>, TRUE)),
    [Fails(PairOf(F) \o Swap(3), F :> Present(<<X, Y, Y>>, TRUE)) EXCEPT !.reach = 1],
    [Lands(PairOf(F) \o Swap(2), F :> Present(<<X, Y, Y>>, TRUE), F :> Present(<<Y, Y, Y>>, TRUE))
        EXCEPT !.reach = 1],
    \* The only file of that name, or one of two.
    [Lands(PairOf(F) \o Swap(1), GX, GY) EXCEPT !.loose = TRUE],
    Fails(PairOf(F) \o Swap(1), GX),
    [Fails(PairOf(F) \o Swap(1), GX @@ (<<"e", "f">> :> Present(<<X>>, TRUE))) EXCEPT !.loose = TRUE],
    \* The end of a file.
    Lands(PairOf(F) \o Swap(1) \o <<Bare>>, FX, F :> Present(<<Y>>, FALSE)),
    Lands(PairOf(F) \o <<HunkHead(1, 1, 1), Bare, One(Drop(X)), Bare, One(Add(Y))>>, F :> Present(<<X>>, FALSE), FY),
    Lands(PairOf(F) \o <<HunkHead(1, 1, 1), One(Drop(X)), Bare, One(Add(Y)), Bare>>,
          F :> Present(<<X>>, FALSE), F :> Present(<<Y>>, FALSE)),
    Lands(PairOf(F) \o Swap(1), F :> Present(<<X, Z>>, FALSE), F :> Present(<<Y, Z>>, FALSE))}

Drawings(scripts) == UNION {{<<s, c>> : c \in Cuts(s)} : s \in scripts}
Suits(script, style) ==
    \/ script \in Alike /\ style \in Styles \ {Plain}
    \/ script \in Seq(Letters) /\ script \notin Alike /\ style \in Styles
    \/ script \in Seq(OddLetters) /\ style \in OddStyles

MCPatchCases ==
    Chosen \cup {PatchOf(p[1][1], p[1][2], p[2]) :
        p \in {d \in Drawings(Scripts(3, Letters) \cup Scripts(3, OddLetters) \cup Alike)
                      \X (Styles \cup OddStyles) : Suits(d[1][1], d[2])}}
MCAlike == {PatchOf(d[1], d[2], Plain) : d \in Drawings(Alike)}
=============================================================================
