------------------------------ MODULE MCTexts ------------------------------
(***************************************************************************)
(* Small files made of a letter and the characters that end lines, and the *)
(* texts clients put into them or quote of them.                           *)
(***************************************************************************)
EXTENDS TextEdits
LOCAL INSTANCE TLC

Texts(n) == UNION {[1..k -> {"x", CR, LF}] : k \in 0..n}
Longer == {<<"x", LF, "x">>, <<"x", CR, LF>>, <<CR, LF, "x">>, <<LF, CR, LF>>, <<CR, CR, LF>>,
           <<"x", LF, "x", "x">>, <<"x", CR, LF, "x", CR, LF>>, <<"x", LF, LF, "x", LF>>,
           <<LF, "x", CR, LF, "x", CR, LF>>}

\* One file and the tools that edit it; three and the limit on a conversion.
Alone == {[files |-> "a" :> s, mode |-> m, limit |-> 5] :
             s \in Texts(2) \cup Longer, m \in {"preserve", "lf", "crlf"}}
Several == {[files |-> "a" :> a @@ "b" :> b @@ "c" :> c, mode |-> "preserve", limit |-> n] :
               a, b \in {<<LF>>, <<"x", CR, LF, LF>>, <<CR, LF, NUL>>},
               c \in {<<LF>>, <<CR, LF>>}, n \in {1, 2}}
AnyWorkspace == [files |-> "a" :> <<>>, mode |-> "lf", limit |-> 5]
MCWorkspaces == Alone \cup Several

MCGiven == {<<LF>>, <<"z", CR, LF, "z">>, <<LF, "z", LF, LF>>}
MCAnchors == {<<"x">>, <<"x", CR, LF>>, <<LF, "x">>}
MCOutsides == {<<LF, "x", CR, LF>>}
=============================================================================
