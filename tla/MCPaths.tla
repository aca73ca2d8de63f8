------------------------------ MODULE MCPaths ------------------------------
(***************************************************************************)
(* A workspace of one directory, a link to that directory, files of the    *)
(* same name in several places, and every way to spell them.               *)
(***************************************************************************)
EXTENDS PathLookup
LOCAL INSTANCE TLC

V == <<"v">>                    \* the workspace, also linked as "w"
D == <<"v", "d">>               \* a directory of it, also linked as "l"
Top == <<"v", "f">>
Deeper == <<"v", "d", "f">>

Tree(root, files) ==
    [root |-> root, dirs |-> {<<>>, V, D}, files |-> files,
     links |-> <<"w">> :> V @@ <<"v", "l">> :> D,
     exclude |-> {"x"}, unrestricted |-> FALSE, lenient |-> TRUE]

Grown(file) == file :> "one"
AnySite == Tree(V, Grown(Deeper))
MCSites ==
    {Tree(root, files) : root \in {V, <<"w">>}, files \in {Grown(Deeper), <<>>}}
    \cup {[Tree(root, Grown(Deeper)) EXCEPT !.unrestricted = TRUE] : root \in {V, <<"w">>}}
    \cup {[Tree(V, Grown(Deeper)) EXCEPT !.lenient = FALSE],
          [Tree(V, Grown(Deeper) @@ Grown(<<"v", "d", "x", "f">>))
              EXCEPT !.dirs = @ \cup {<<"v", "d", "x">>}]}

MCSpellings ==
    {Relative(<<"f">>), Relative(<<"d", "f">>), Relative(<<"l", "f">>),
     Relative(<<"l", "..", "d", ".", "f">>), Relative(<<"..", "f">>), Relative(<<"e", "f">>),
     Relative(<<".">>), Relative(<<"f", "g">>),
     Rooted(<<"f">>), Rooted(Deeper), Rooted(<<"w", "d", "f">>), Rooted(<<"..", "l", "f">>)}
MCBeside == {Top, Deeper}

(* The last call is one that looks: write_file takes any file as it comes.  *)
LastLooks == lookups' = MaxLookups => done'.tool \notin {"write", "none"}
=============================================================================
