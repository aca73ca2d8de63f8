--------------------------- MODULE MCModelClient ---------------------------
(* A conversation with a reply and a prompt that say nothing, a turn with two *)
(* calls, one of them cut short, one of whose results is blank, and a turn    *)
(* with one, of an array, whose result is the last.                           *)
EXTENDS ModelClient

CutShort == <<<<9, 1>>>>
Array == <<<<9, 2>>>>
Call(id, name, args) == [id |-> id, name |-> name, args |-> args]
const_Histories ==
  {<<User(<<"do">>), Assistant(<<>>, <<>>), User(<<>>),
     Assistant(<<"yes">>, <<Call(1, "read", EmptyObject), Call(2, "write", CutShort)>>),
     Tool(1, "read", <<"text">>), Tool(2, "write", <<>>),
     Assistant(<<>>, <<Call(3, "read", Array)>>), Tool(3, "read", <<"text">>)>>}

(* Replies with a call that has no arguments; with one whose two pieces are   *)
(* cut short after the first; with two calls after a thought; and with texts  *)
(* and thoughts in several blocks.                                            *)
const_Answers ==
  {<<TextBlock(1), CallBlock(0, "read", 0)>>,
   <<TextBlock(1), CallBlock(0, "info", 0), CallBlock(2, "write", 1)>>,
   <<ThinkBlock(1), CallBlock(1, "info", 1), CallBlock(2, "write", 2)>>,
   <<ThinkBlock(1), RedactedBlock, ThinkBlock(0), ThinkBlock(1), TextBlock(1), TextBlock(1)>>}
const_Objects == {EmptyObject, Pieces(2, 1), Pieces(3, 2)}
const_JSON == const_Objects \cup {Array}
=============================================================================
