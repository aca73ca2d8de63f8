----------------------------- MODULE PathLookup -----------------------------
(***************************************************************************)
(* Which file a call means by a path, and under which name that file is    *)
(* remembered: the resolving, re-anchoring and naming of workspace.go, the *)
(* lookup by file name of paths.go, and the history that write_file,       *)
(* edit_file and rollback keep under the path they resolved (history.go).  *)
(* A path is the sequence of its names from the root of the file system.   *)
(* The tree has directories reached through links, and the workspace may   *)
(* itself be named through one.  Calls come one at a time; files appear    *)
(* and go from outside between them.                                       *)
(***************************************************************************)
EXTENDS Integers, FiniteSets, Sequences, SequencesExt

CONSTANTS Sites,      \* trees and settings there may be: root, links, dirs, files,
                      \* exclude, unrestricted, lenient (exact_path_not_required)
          Spellings,  \* paths as calls give them: rooted or not, and their names
          Bodies,     \* contents of files
          Beside,     \* files that appear and go from outside
          Kept,       \* workspace.rollback_depth
          MaxLookups  \* bound: calls and outside changes

ASSUME KeptAssumption == Kept \in Nat

Words == STRING \ {".", ".."}

\* A tree: every directory, file and link is in a directory, and a link leads
\* to a directory; the workspace is a directory or a link to one.
IsTree(site) ==
    LET at == site.dirs \cup DOMAIN site.files \cup DOMAIN site.links
    IN /\ <<>> \in site.dirs
       /\ \A p \in at : p \in Seq(Words) /\ (p # <<>> => Front(p) \in site.dirs)
       /\ site.dirs \cap DOMAIN site.files = {}
       /\ DOMAIN site.links \cap (site.dirs \cup DOMAIN site.files) = {}
       /\ \A l \in DOMAIN site.links : site.links[l] \in site.dirs
       /\ site.root \in site.dirs \cup DOMAIN site.links

ASSUME SitesAssumption ==
    /\ \A site \in Sites :
          IsTree(site) /\ \A f \in Beside : f \in Seq(Words) /\ f # <<>> /\ f \notin DOMAIN site.links
    /\ \A s \in Spellings :
          s = [rooted |-> s.rooted, names |-> s.names] /\ s.rooted \in BOOLEAN /\ s.names \in Seq(STRING)

Relative(names) == [rooted |-> FALSE, names |-> names]
Rooted(names) == [rooted |-> TRUE, names |-> names]
NoLookup == [tool |-> "none"]

VARIABLES here,     \* the workspace's settings and the links of the tree
          dirs,     \* the directories, without links
          stored,   \* file -> its contents, by paths without links
          states,   \* FileHistory.states: key -> what writes replaced, {} for no file
          replaced, \* history: file -> what its tracked writes replaced
          apart,    \* history: files created under a key that is not their own path
          done,     \* what the last call did
          lookups   \* calls and outside changes done

pathVars == <<here, dirs, stored, states, replaced, apart, done, lookups>>

-----------------------------------------------------------------------------
(* Paths and links *)

\* filepath.Clean of a rooted path: ".." above the top stays at the top.
CleanStep(at, n) ==
    IF n = "." THEN at ELSE IF n = ".." THEN SubSeq(at, 1, Len(at) - 1) ELSE Append(at, n)
Clean(names) ==
    LET upTo[i \in 0..Len(names)] == IF i = 0 THEN <<>> ELSE CleanStep(upTo[i - 1], names[i])
    IN upTo[Len(names)]

Existing == dirs \cup DOMAIN stored
OneLink(p) == IF p \in DOMAIN here.links THEN here.links[p] ELSE p
FollowStep(at, n) == {OneLink(Append(d, n)) : d \in at} \cap Existing

\* filepath.EvalSymlinks: the path without links, or nothing.
Follow(p) ==
    LET upTo[i \in 0..Len(p)] == IF i = 0 THEN {<<>>} ELSE FollowStep(upTo[i - 1], p[i])
    IN upTo[Len(p)]
Resolved(p) == IF Follow(p) = {} THEN p ELSE CHOOSE r \in Follow(p) : TRUE

\* resolveExisting: links followed as far as the path exists.
Depth(p) == Max({i \in 0..Len(p) : Follow(SubSeq(p, 1, i)) # {}})
DeepestReal(p) == Resolved(SubSeq(p, 1, Depth(p))) \o SubSeq(p, Depth(p) + 1, Len(p))

Within(root, p) == IsPrefix(root, p)
Inside(p) == Within(Resolved(here.root), DeepestReal(p)) \/ Within(here.root, DeepestReal(p))

-----------------------------------------------------------------------------
(* Resolving *)

Joined(s) == IF s.rooted THEN Clean(s.names) ELSE Clean(here.root \o s.names)
Reanchored(s) == here.root \o Clean(s.names)
Tries(s) == IF s.rooted THEN <<Joined(s), Reanchored(s)>> ELSE <<Joined(s)>>
FirstInside(tries) ==
    {tries[i] : i \in {k \in DOMAIN tries :
                         Inside(tries[k]) /\ \A j \in 1..(k - 1) : ~Inside(tries[j])}}

\* A file where the path needs a directory.
Blocked(p) == \E i \in 1..Len(p) - 1 : Follow(SubSeq(p, 1, i)) \cap DOMAIN stored # {}

IsRoot(s) == s \in {Relative(<<>>), Relative(<<".">>)}

\* resolveNew, for files not there yet.
ResolveNew(s) ==
    IF IsRoot(s) THEN {here.root}
    ELSE IF here.unrestricted THEN {Resolved(Joined(s))}
    ELSE FirstInside(Tries(s))

ResolveLexically(s) == ResolveNew(s)  \* mutant: links are not followed

\* ResolveAdjusted
Resolve(s) ==
    IF IsRoot(s) THEN {here.root}
    ELSE IF here.unrestricted THEN {Resolved(Joined(s))}
    ELSE FirstInside([i \in DOMAIN Tries(s) |-> Resolved(Tries(s)[i])])
Destination(s) == IF Resolve(s) # {} THEN Resolve(s) ELSE ResolveNew(s)

\* The name a tool reports, and whether it says that the path was adjusted.
Rel(p) ==
    IF Within(here.root, p) THEN Relative(SubSeq(p, Len(here.root) + 1, Len(p))) ELSE Rooted(p)
Canonical(s) == IF Destination(s) = {} THEN s ELSE Rel(CHOOSE p \in Destination(s) : TRUE)
AdjustmentNote(s, p) ==
    ~here.unrestricted /\ s.rooted /\ Rel(p) # [s EXCEPT !.names = Clean(s.names)]

-----------------------------------------------------------------------------
(* Lookup by name *)

IsExcluded(names) == \E i \in DOMAIN names : names[i] \in here.exclude

\* A walk follows no link, and so does not enter a root that is one.
Walk ==
    IF here.root \in DOMAIN here.links THEN {here.root}
    ELSE {p \in DOMAIN stored \cup DOMAIN here.links :
             /\ Within(here.root, p)
             /\ ~IsExcluded(SubSeq(p, Len(here.root) + 1, Len(p)))}
Namesakes(n) == {p \in Walk : Last(p) = n}

UniqueByName(s) ==
    IF here.unrestricted \/ Clean(s.names) = <<>> THEN {}
    ELSE LET found == Namesakes(Last(Clean(s.names)))
         IN {Rel(p) : p \in {q \in found : found = {q}}}

Stat(s) == UNION {Follow(p) : p \in Destination(s)}
ResolveForRead(s) ==
    IF Stat(s) # {} THEN {s}
    ELSE IF here.lenient /\ \E p \in Destination(s) : ~Blocked(p) THEN UniqueByName(s) \ {s}
    ELSE {}

-----------------------------------------------------------------------------
(* Writing and rolling back *)

History(key) == IF key \in DOMAIN states THEN states[key] ELSE <<>>
ReplacedAt(file) == IF file \in DOMAIN replaced THEN replaced[file] ELSE <<>>
Trimmed(stack) == SubSeq(stack, Max({0, Len(stack) - Kept}) + 1, Len(stack))
With(f, k, v) == [x \in DOMAIN f \cup {k} |-> IF x = k THEN v ELSE f[x]]
Without(f, k) == [x \in DOMAIN f \ {k} |-> f[x]]

IsDir(p) == Follow(p) \cap dirs # {}
StateAt(p) == {stored[r] : r \in Follow(p) \cap DOMAIN stored}
HistoryKey(p) == p

RecordAt(p, file) ==
    /\ states' = With(states, HistoryKey(p), Trimmed(Append(History(HistoryKey(p)), StateAt(p))))
    /\ replaced' = With(replaced, file, Trimmed(Append(ReplacedAt(file), StateAt(p))))
    /\ apart' = IF file \notin DOMAIN stored /\ p # file THEN apart \cup {file} ELSE apart

\* Workspace.WriteFile: the directories on the way, the history, the file.
WriteFileAt(p, b, answer) ==
    LET file == DeepestReal(p)
    IN IF IsDir(p) \/ Blocked(p)
       THEN done' = [tool |-> "failed"] /\ UNCHANGED <<dirs, stored, states, replaced, apart>>
       ELSE /\ dirs' = dirs \cup {SubSeq(file, 1, i) : i \in 0..Len(file) - 1}
            /\ RecordAt(p, file)
            /\ stored' = With(stored, file, b)
            /\ done' = answer

Refused == done' = [tool |-> "refused"] /\ UNCHANGED <<dirs, stored, states, replaced, apart>>

AnswerOf(tool, s, p, told, note) ==
    [tool |-> tool, asked |-> s, file |-> DeepestReal(p), told |-> told, note |-> note]

\* write_file
WriteTool(s, b) ==
    IF Destination(s) = {} THEN Refused
    ELSE \E p \in Destination(s) :
           WriteFileAt(p, b, AnswerOf("write", s, p, Rel(p), AdjustmentNote(s, p)))

\* edit_file: an existing file, found by its name alone where that is enough.
EditTool(s, b) ==
    LET actual == {t \in ResolveForRead(s) : Stat(t) \cap DOMAIN stored # {}}
    IN IF actual = {} THEN Refused
       ELSE \E t \in actual : \E p \in Destination(t) :
              WriteFileAt(p, b, AnswerOf("edit", s, p, Canonical(t), t # s))

\* rollback: the state is taken before it is known whether it can be put back.
Restore(file, state) ==
    IF state = {}
    THEN /\ stored' = Without(stored, file)
         /\ dirs' = IF \E d \in Existing \cup DOMAIN here.links : d # file /\ Within(file, d)
                    THEN dirs ELSE dirs \ {file}
    ELSE /\ stored' = IF file \in dirs \/ Front(file) \notin dirs THEN stored
                      ELSE With(stored, file, CHOOSE b \in state : TRUE)
         /\ dirs' = dirs
Rollback(s) ==
    IF Destination(s) = {} THEN Refused
    ELSE \E p \in Destination(s) :
           LET key == HistoryKey(p)  stack == History(key)  file == DeepestReal(p)
           IN IF stack = <<>>
              THEN /\ done' = [tool |-> "spent", file |-> file]
                   /\ UNCHANGED <<dirs, stored, states, replaced, apart>>
              ELSE /\ states' = With(states, key, Front(stack))
                   /\ replaced' = IF ReplacedAt(file) = <<>> THEN replaced
                                  ELSE With(replaced, file, Front(ReplacedAt(file)))
                   /\ Restore(file, Last(stack))
                   /\ done' = [tool |-> "rollback", file |-> file]
                   /\ UNCHANGED apart

\* Other programs.
FromOutside(file) ==
    /\ Front(file) \in dirs /\ file \notin dirs
    /\ stored' \in {Without(stored, file)} \cup {With(stored, file, b) : b \in Bodies}
    /\ done' = NoLookup
    /\ UNCHANGED <<dirs, states, replaced, apart>>

PathStart(site) ==
    /\ here = site
    /\ dirs = site.dirs /\ stored = site.files
    /\ states = <<>> /\ replaced = <<>> /\ apart = {}
    /\ done = NoLookup /\ lookups = 0
PathInit == \E site \in Sites : PathStart(site)

PathNext ==
    /\ lookups < MaxLookups /\ lookups' = lookups + 1 /\ here' = here
    /\ \/ \E s \in Spellings, b \in Bodies : WriteTool(s, b) \/ EditTool(s, b)
       \/ \E s \in Spellings : Rollback(s)
       \/ \E file \in Beside : FromOutside(file)

PathSpec == PathInit /\ [][PathNext]_pathVars

-----------------------------------------------------------------------------
(* Properties *)

\* The name a tool reports leads back to the file it wrote, by the same rules.
ReportLeadsBack == done.tool \in {"write", "edit"} => Stat(done.told) = {done.file}

\* A call acts on the file its path spells, unless write_file says that it did
\* not or edit_file reads the path as one inside the workspace; and a call
\* corrected by name acts on the only file of that name.
ActsWhereAsked ==
    /\ done.tool \in {"write", "edit"} /\ ~done.note =>
          \/ Follow(Joined(done.asked)) = {done.file}
          \/ done.tool = "edit" /\ done.asked.rooted /\ Follow(Reanchored(done.asked)) = {done.file}
    /\ done.tool = "edit" /\ done.note =>
          \A f \in DOMAIN stored \ {done.file} :
             Within(Resolved(here.root), f) /\ Last(f) = Last(done.file)
                => IsExcluded(SubSeq(f, Len(Resolved(here.root)) + 1, Len(f)))

\* Whatever spellings its writes went by, a file has one history, of what they
\* replaced, if no write created it through a link.
OneHistory == \A f \in (DOMAIN replaced \cup DOMAIN stored) \ apart : History(f) = ReplacedAt(f)

\* Paths keep their files apart and together: the name reported, the file acted
\* on and the history kept are of one file, however a call spells it.
OneFileOneName == ReportLeadsBack /\ ActsWhereAsked /\ OneHistory

\* "A file the server created is removed when rolled back past its creation"
\* (README.md), whatever path the file was created under.
CreationUndone ==
    [][done'.tool \in {"rollback", "spent"} /\ ReplacedAt(done'.file) = <<{}>>
         => done'.file \notin DOMAIN stored']_pathVars
=============================================================================
