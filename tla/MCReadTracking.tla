--------------------------- MODULE MCReadTracking ---------------------------
(* Two files, a with two spellings, and a path x/b that is no file's and by    *)
(* which b is found.                                                           *)
EXTENDS ReadTracking, TLC

const_Canonical == [p \in {"a", "./a", "b", "x/b"} |-> IF p = "./a" THEN "a" ELSE p]
const_Reached == [n \in {"a", "b", "x/b"} |-> IF n = "a" THEN {"a"} ELSE {"b"}]
Whole(p) == [path |-> p, first |-> 0, last |-> 0]
Chunk(p) == [path |-> p, first |-> 2, last |-> 3]
ReadOne(t, keep) == [tool |-> "read_file", targets |-> <<t>>, preserve |-> keep]
ReadTwo(t, u) == [tool |-> "read_files", targets |-> <<t, u>>, preserve |-> FALSE]
WriteOf(ns) == [tool |-> "write", names |-> ns]

IdSymmetry == Permutations(CallIds)

\* Whole reads of both, a chunk that preserves and one read with the other file, whose
\* directory is wrong; a write of both.
const_Invocations ==
  {ReadOne(Whole("a"), FALSE), ReadOne(Whole("b"), FALSE), ReadOne(Chunk("./a"), TRUE),
   ReadTwo(Whole("x/b"), Chunk("a")), WriteOf({"a", "x/b"})}

\* A file is read under its name and written under a name that is nobody's.
const_Crossing == {ReadOne(Whole("b"), FALSE), WriteOf({"x/b"})}
=============================================================================
