--------------------------- MODULE MCFileChanges ---------------------------
(* Two files, one of them spelled in two ways, and the programs that tell   *)
(* the tools apart.                                                         *)
EXTENDS FileChanges, TLC

CONSTANTS Wanted \* numbers of the programs a run uses

MCFiles == {"a", "b"}
MCNames == {"a.go", "./a.go", "b.go"}
MCTrees == {{"a"}, {"b"}}
MCFileOf == [n \in MCNames |-> IF n = "b.go" THEN "b" ELSE "a"]
MCPlanKey == [n \in MCNames |-> IF n = "./a.go" THEN "a.go" ELSE n]

On(kind, n) == [kind |-> kind, name |-> n, to |-> n]
Asks(tool, ops) == [tool |-> tool, dry |-> FALSE, overwrite |-> TRUE, ops |-> ops]
A == "a.go"
AA == "./a.go"
B == "b.go"

Everything == <<
    Asks("edit", <<On("change", A), On("change", AA)>>),
    [Asks("edit", <<On("change", A)>>) EXCEPT !.dry = TRUE],
    Asks("write", <<On("set", A)>>),
    Asks("diff", <<On("delete", A), On("create", AA)>>),
    Asks("diff", <<[kind |-> "rename", name |-> A, to |-> B]>>),
    Asks("endings", <<On("convert", A)>>),
    [Asks("download", <<On("fetch", A)>>) EXCEPT !.overwrite = FALSE],
    Asks("rollback", <<On("undo", A)>>),
    Asks("diff", <<On("delete", A)>>)>>

MCPrograms == {Everything[i] : i \in Wanted}

(* One file named from the workspace and from its root, which planKey takes *)
(* for two, and a patch with a section for each.                            *)
MCRooted == {"a.go", "/a.go"}
MCRootedFile == [n \in MCRooted |-> "a"]
MCRootedKey == [n \in MCRooted |-> n]
MCTwoSections == {Asks("diff", <<On("change", "a.go"), On("change", "/a.go")>>)}
Symmetry == Permutations(Handlers)

(* The last call is the one that reads what the others left, a rollback;    *)
(* the change from outside and the reload come before it.                   *)
LastReads ==
    \A c \in Handlers : serial[c] = MaxCalls => prog[c].tool \in {"none", "rollback"}
LastComesAfter == calls = MaxCalls => UNCHANGED events
=============================================================================
