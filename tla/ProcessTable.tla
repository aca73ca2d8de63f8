----------------------------- MODULE ProcessTable -----------------------------
(***************************************************************************)
(* What the process registry of codemcp promises to the callers of         *)
(* run_process, check_process_id and stop_process: every process runs once *)
(* and ends once with one verdict, and only what has ended is forgotten.   *)
(***************************************************************************)
EXTENDS Integers, FiniteSets

CONSTANTS MaxStarts, MaxProcesses, Codes

VARIABLES
  life,     (* of each process: "unborn", "running" or "ended"               *)
  verdict,  (* of each process: its exit code and whether it was forced      *)
  table     (* the processes a caller can still ask about                    *)

Procs == 1..MaxStarts
NoCode == -1
NoVerdict == [code |-> NoCode, forced |-> FALSE]
Verdicts == {v \in [code : Codes \cup {NoCode}, forced : BOOLEAN] :
               v.forced => v.code = NoCode}

Init ==
  /\ life = [p \in Procs |-> "unborn"]
  /\ verdict = [p \in Procs |-> NoVerdict]
  /\ table = {}

(* Processes are born in the order of their numbers.                         *)
Begin(p) ==
  /\ life[p] = "unborn"
  /\ \A q \in Procs : q < p => life[q] # "unborn"
  /\ life' = [life EXCEPT ![p] = "running"]
  /\ UNCHANGED <<verdict, table>>

(* A running process enters the table; finished ones may be forgotten for it *)
(* when the table is too large.                                              *)
Enter(p) ==
  /\ life[p] = "running"
  /\ \E gone \in SUBSET {q \in table : life[q] = "ended"} :
       /\ gone # {} => Cardinality(table \cup {p}) > MaxProcesses
       /\ table' = (table \cup {p}) \ gone
  /\ UNCHANGED <<life, verdict>>

End(p) ==
  /\ life[p] = "running"
  /\ life' = [life EXCEPT ![p] = "ended"]
  /\ \E v \in Verdicts : verdict' = [verdict EXCEPT ![p] = v]
  /\ UNCHANGED table

Next == \E p \in Procs : Begin(p) \/ Enter(p) \/ End(p)

Spec == Init /\ [][Next]_<<life, verdict, table>>

=============================================================================
