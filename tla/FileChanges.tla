---------------------------- MODULE FileChanges ----------------------------
(***************************************************************************)
(* How the tools of the server change files (WriteFile and its callers:    *)
(* write_file, edit_file, multi_edit, remove_sections, edit_lines,         *)
(* insert_text, replace_in_files, format_markdown; apply_diff,             *)
(* fix_line_endings, download_file, rollback) and the history that         *)
(* rollback takes its states from.  Requests are served concurrently and   *)
(* nothing but FileHistory has a lock, so every read and every write of a  *)
(* file is a step of its own.                                              *)
(*                                                                         *)
(* The text of a file is abstracted to the set of changes it carries: the  *)
(* i-th change of the n-th call is the mark <<n, i>>.                      *)
(***************************************************************************)
EXTENDS Naturals, SequencesExt

CONSTANTS Files,    \* files of the workspace, by their canonical path
          Names,    \* the ways a request may spell them
          FileOf,   \* the file a name resolves to
          PlanKey,  \* the key apply_diff keeps a name under
          Handlers, \* goroutines that serve requests
          Programs, \* what a call may ask for
          Trees,    \* files there are when the server starts
          Depths,   \* values of workspace.rollback_depth
          MaxCalls, \* bound: calls in all
          MaxEvents \* bound: changes from outside and reloads, together

Kinds == {"change", "set", "fetch", "create", "delete", "rename", "convert", "undo"}
Tools == {"edit", "write", "diff", "endings", "download", "rollback"}
Op == [kind : Kinds, name : Names, to : Names]
Program == [tool : Tools, dry : BOOLEAN, overwrite : BOOLEAN, ops : Seq(Op)]

\* What the operations of a tool are; only a rename is about two names.
OpsOf(tool) ==
    CASE tool = "edit" -> {"change"}
      [] tool = "diff" -> {"change", "create", "delete", "rename"}
      [] tool = "write" -> {"set"}
      [] tool = "download" -> {"fetch"}
      [] tool = "endings" -> {"convert"}
      [] tool = "rollback" -> {"undo"}
Sensible(p) ==
    /\ \A i \in DOMAIN p.ops :
         /\ p.ops[i].kind \in OpsOf(p.tool)
         /\ p.ops[i].kind # "rename" => p.ops[i].to = p.ops[i].name
    /\ p.tool = "rollback" => Len(p.ops) = 1 /\ ~p.dry

ASSUME FilesAssumption ==
    /\ FileOf \in [Names -> Files] /\ PlanKey \in [Names -> Names]
    /\ Trees \subseteq SUBSET Files
    /\ Depths \subseteq Nat
    /\ MaxCalls \in Nat /\ MaxEvents \in Nat
    /\ Programs \subseteq Program
    /\ \A p \in Programs : Sensible(p)

Marks == Nat \X Nat
State == [existed : BOOLEAN, data : SUBSET Marks]
Planned == [key : Names \cup Files, file : Files, to : State]
Gone == [existed |-> FALSE, data |-> {}]
Text(marks) == [existed |-> TRUE, data |-> marks]

Phases == {"idle", "staging", "writing", "recorded", "torn"}
Idle == [tool |-> "none", dry |-> FALSE, overwrite |-> FALSE, ops |-> <<>>]

VARIABLES disk,    \* file -> its state on disk
          history, \* file -> FileHistory.states, oldest first
          depth,   \* FileHistory.depth
          prog,    \* handler -> what its call asks for
          at,      \* handler -> where its call stands
          staged,  \* handler -> how many changes are staged
          plan,    \* handler -> writes staged and not yet made
          kept,    \* handler -> whether its Record kept a state
          calls,   \* calls so far
          serial,  \* handler -> the number of its call
          \* History variables, which no action of the code reads:
          wrote,   \* handler -> file -> the states its call put there
          undo,    \* file -> what each tracked write not yet undone replaced
          clean,   \* file -> nothing came between a Record or Pop and its write
          events   \* changes from outside and reloads so far

files == <<disk, history, depth>>
call == <<prog, at, staged, plan, kept, calls, serial>>
numbers == <<calls, serial>>
ghosts == <<wrote, undo, clean>>
vars == <<disk, history, depth, prog, at, staged, plan, kept, calls, serial,
          wrote, undo, clean, events>>

Trim(states, d) ==
    IF Len(states) > d THEN SubSeq(states, Len(states) - d + 1, Len(states)) ELSE states
Pushed(states, s, d) == Trim(Append(states, s), d)

Init ==
    /\ \E tree \in Trees : disk = [f \in Files |-> IF f \in tree THEN Text({}) ELSE Gone]
    /\ history = [f \in Files |-> <<>>]
    /\ depth \in Depths
    /\ prog = [c \in Handlers |-> Idle]
    /\ at = [c \in Handlers |-> "idle"]
    /\ staged = [c \in Handlers |-> 0]
    /\ plan = [c \in Handlers |-> <<>>]
    /\ kept = [c \in Handlers |-> FALSE]
    /\ calls = 0
    /\ serial = [c \in Handlers |-> 0]
    /\ wrote = [c \in Handlers |-> [f \in Files |-> {}]]
    /\ undo = [f \in Files |-> <<>>]
    /\ clean = [f \in Files |-> TRUE]
    /\ events = 0

-----------------------------------------------------------------------------
(* Staging: what a call will write, worked out before it writes. *)

Begin(c, p) ==
    /\ at[c] = "idle"
    /\ calls < MaxCalls
    /\ calls' = calls + 1
    /\ serial' = [serial EXCEPT ![c] = calls']
    /\ prog' = [prog EXCEPT ![c] = p]
    /\ at' = [at EXCEPT ![c] = "staging"]
    /\ UNCHANGED <<files, staged, plan, kept, ghosts, events>>

\* The answer is sent; what the call held is dropped.
Answer(c) ==
    /\ at' = [at EXCEPT ![c] = "idle"]
    /\ prog' = [prog EXCEPT ![c] = Idle]
    /\ staged' = [staged EXCEPT ![c] = 0]
    /\ plan' = [plan EXCEPT ![c] = <<>>]
    /\ kept' = [kept EXCEPT ![c] = FALSE]
    /\ serial' = [serial EXCEPT ![c] = 0]
    /\ wrote' = [wrote EXCEPT ![c] = [f \in Files |-> {}]]
    /\ UNCHANGED <<files, calls, clean, events>>

\* What the writes staged so far are found by.
Key(c, n) == IF prog[c].tool = "diff" THEN PlanKey[n] ELSE FileOf[n]
Write(c, n, to) == [key |-> Key(c, n), file |-> FileOf[n], to |-> to]
Put(writes, w) ==
    IF \E i \in DOMAIN writes : writes[i].key = w.key
    THEN [i \in DOMAIN writes |-> IF writes[i].key = w.key THEN w ELSE writes[i]]
    ELSE Append(writes, w)

\* What a change starts from: what this call staged, or the file as it is now.
InPlan(c, n) == {i \in DOMAIN plan[c] : plan[c][i].key = Key(c, n)}
SourceOnDisk(c, n) == disk[FileOf[n]]  \* mutant: each change starts from the file
Source(c, n) ==
    IF InPlan(c, n) = {} THEN disk[FileOf[n]] ELSE plan[c][CHOOSE i \in InPlan(c, n) : TRUE].to

OpOf(c) == prog[c].ops[staged[c] + 1]
Mark(c) == <<serial[c], staged[c] + 1>>

\* Every tool stages all its changes first, but fix_line_endings, which reads
\* a file, writes it, and goes on to the next.
Staging(c) ==
    /\ at[c] \in {"staging", "writing"}
    /\ prog[c].tool = "endings" => plan[c] = <<>>
    /\ staged[c] < Len(prog[c].ops)

Planning(c, writes) ==
    /\ plan' = [plan EXCEPT ![c] = writes]
    /\ staged' = [staged EXCEPT ![c] = @ + 1]
    /\ UNCHANGED <<files, prog, at, kept, numbers, ghosts, events>>

StageChange(c) ==
    /\ Staging(c)
    /\ OpOf(c).kind = "change"
    /\ Source(c, OpOf(c).name).existed
    /\ LET n == OpOf(c).name IN
       Planning(c, Put(plan[c], Write(c, n, Text(Source(c, n).data \cup {Mark(c)}))))

\* fix_line_endings reads the file once more, and may find nothing to convert.
StageConvert(c) ==
    /\ Staging(c)
    /\ OpOf(c).kind = "convert"
    /\ LET n == OpOf(c).name IN
       /\ disk[FileOf[n]].existed
       /\ \/ Planning(c, <<Write(c, n, Text(disk[FileOf[n]].data \cup {Mark(c)}))>>)
          \/ Planning(c, <<>>)

\* write_file and download_file bring the whole content with them.
StageSet(c) ==
    /\ Staging(c)
    /\ OpOf(c).kind \in {"set", "fetch"}
    /\ \/ OpOf(c).kind = "set"
       \/ prog[c].overwrite
       \/ ~disk[FileOf[OpOf(c).name]].existed
    /\ Planning(c, <<Write(c, OpOf(c).name, Text({Mark(c)}))>>)

StageCreate(c) ==
    /\ Staging(c)
    /\ OpOf(c).kind = "create"
    /\ ~Source(c, OpOf(c).name).existed
    /\ Planning(c, Put(plan[c], Write(c, OpOf(c).name, Text({Mark(c)}))))

StageDelete(c) ==
    /\ Staging(c)
    /\ OpOf(c).kind = "delete"
    /\ Source(c, OpOf(c).name).existed
    /\ Planning(c, Put(plan[c], Write(c, OpOf(c).name, Gone)))

StageRename(c) ==
    /\ Staging(c)
    /\ OpOf(c).kind = "rename"
    /\ LET old == OpOf(c).name
           new == OpOf(c).to
       IN  /\ Source(c, old).existed
           /\ Planning(c, Put(Put(plan[c], Write(c, new, Text(Source(c, old).data \cup {Mark(c)}))),
                              Write(c, old, Gone)))

\* A check refuses the call while it stages, or before the first write: an
\* anchor or a hunk that does not match, a file that is not there or is in the
\* way, a path outside the workspace, writes switched off, a failed download.
Refuse(c) ==
    /\ \/ at[c] = "staging"
       \/ at[c] = "writing" /\ staged[c] < Len(prog[c].ops) /\ prog[c].tool # "endings"
    /\ Answer(c)
    /\ UNCHANGED undo

-----------------------------------------------------------------------------
(* Writing *)

WritesAtOnce(c) ==  \* mutant: a change is written as soon as it is staged
    /\ at[c] \in {"staging", "writing"}
    /\ plan[c] # <<>>
    /\ ~prog[c].dry
WritesNow(c) ==
    /\ at[c] \in {"staging", "writing"}
    /\ plan[c] # <<>>
    /\ ~prog[c].dry
    /\ staged[c] = Len(prog[c].ops) \/ prog[c].tool = "endings"

Target(c) == plan[c][1].file
Content(c) == plan[c][1].to

Open(c, f) == at[c] = "recorded" /\ Target(c) = f
Disturbs(c, f) == clean' = [clean EXCEPT ![f] = @ /\ \A b \in Handlers \ {c} : ~Open(b, f)]

\* What Record captures.
CapturedNew(c) == Content(c)  \* mutant: the state is recorded after the write
Captured(c) == disk[Target(c)]

\* FileHistory.Record: the file as it is now, unless it cannot be read.  (A
\* call that has read the file to change it is taken to read it here as well.)
Record(c) ==
    /\ WritesNow(c)
    /\ Content(c).existed
    /\ \E readable \in BOOLEAN :
       LET f == Target(c)
           tracked == readable /\ depth > 0
       IN  /\ readable \/ prog[c].tool \in {"write", "download"}
           /\ kept' = [kept EXCEPT ![c] = tracked]
           /\ history' = IF tracked
                         THEN [history EXCEPT ![f] = Pushed(@, Captured(c), depth)]
                         ELSE history
           /\ Disturbs(c, f)
    /\ at' = [at EXCEPT ![c] = "recorded"]
    /\ UNCHANGED <<disk, depth, prog, staged, plan, numbers, wrote, undo, events>>

\* FileHistory.Pop, and the write of rollback put in the plan.
PoppedOldest(states) == states[1]  \* mutant: the stack is read from the wrong end
Popped(states) == Last(states)
Pop(c) ==
    /\ at[c] = "staging"
    /\ prog[c].tool = "rollback"
    /\ LET n == prog[c].ops[1].name
           f == FileOf[n]
       IN  /\ history[f] # <<>>
           /\ plan' = [plan EXCEPT ![c] = <<Write(c, n, Popped(history[f]))>>]
           /\ history' = [history EXCEPT ![f] = Front(@)]
           /\ Disturbs(c, f)
    /\ staged' = [staged EXCEPT ![c] = 1]
    /\ at' = [at EXCEPT ![c] = "recorded"]
    /\ UNCHANGED <<disk, depth, prog, kept, numbers, wrote, undo, events>>

\* The undo states once the write a Record or Pop announced is made: history
\* variable, worked out from the disk and never from the history.
Undone(c) ==
    IF prog[c].tool = "rollback" THEN [undo EXCEPT ![Target(c)] = Front(@)]
    ELSE IF kept[c] THEN [undo EXCEPT ![Target(c)] = Pushed(@, disk[Target(c)], depth)]
    ELSE undo

\* os.WriteFile empties the file, and then fills it.
Truncate(c) ==
    /\ at[c] = "recorded"
    /\ Content(c).existed
    /\ prog[c].tool # "download"
    /\ disk' = [disk EXCEPT ![Target(c)] = Text({})]
    /\ at' = [at EXCEPT ![c] = "torn"]
    /\ undo' = Undone(c)
    /\ Disturbs(c, Target(c))
    /\ UNCHANGED <<history, depth, prog, staged, plan, kept, numbers, wrote, events>>

Wrote(c) ==
    /\ disk' = [disk EXCEPT ![Target(c)] = Content(c)]
    /\ wrote' = [wrote EXCEPT ![c][Target(c)] = @ \cup {Content(c)}]
    /\ plan' = [plan EXCEPT ![c] = Tail(@)]
    /\ at' = [at EXCEPT ![c] = "writing"]
    /\ Disturbs(c, Target(c))
    /\ UNCHANGED <<history, depth, prog, staged, kept, numbers, events>>

Fill(c) ==
    /\ at[c] = "torn"
    /\ Wrote(c)
    /\ UNCHANGED undo

\* download_file renames a finished file into place.
Replace(c) ==
    /\ at[c] = "recorded"
    /\ prog[c].tool = "download"
    /\ Wrote(c)
    /\ undo' = Undone(c)

\* rollback to a state in which the file did not exist.
Unmake(c) ==
    /\ at[c] = "recorded"
    /\ ~Content(c).existed
    /\ Wrote(c)
    /\ undo' = Undone(c)

\* apply_diff deletes a file; the history is not told.
Delete(c) ==
    /\ WritesNow(c)
    /\ ~Content(c).existed
    /\ Wrote(c)
    /\ UNCHANGED undo

\* The write, or what goes before it, answers an error.
Fail(c) ==
    /\ \/ at[c] \in {"recorded", "torn"}
       \/ at[c] = "writing" /\ (plan[c] # <<>> \/ staged[c] < Len(prog[c].ops))
    /\ Answer(c)
    /\ undo' = IF at[c] = "recorded" THEN Undone(c) ELSE undo

Finish(c) ==
    /\ \/ at[c] = "writing" /\ plan[c] = <<>>
       \/ at[c] = "staging" /\ (prog[c].dry \/ plan[c] = <<>>)
    /\ staged[c] = Len(prog[c].ops)
    /\ Answer(c)
    /\ UNCHANGED undo

-----------------------------------------------------------------------------
(* Around the calls *)

\* A reload changes workspace.rollback_depth.
SetDepth(d) ==
    /\ events < MaxEvents
    /\ events' = events + 1
    /\ depth' = d
    /\ history' = [f \in Files |-> Trim(history[f], d)]
    /\ undo' = [f \in Files |-> Trim(undo[f], d)]
    /\ clean' = [f \in Files |-> clean[f] /\ \A b \in Handlers : ~Open(b, f)]
    /\ UNCHANGED <<disk, call, wrote>>

\* A command, an editor or the user changes a file.
Outside(f, s) ==
    /\ events < MaxEvents
    /\ events' = events + 1
    /\ disk' = [disk EXCEPT ![f] = s]
    /\ clean' = [clean EXCEPT ![f] = @ /\ \A b \in Handlers : ~Open(b, f)]
    /\ UNCHANGED <<history, depth, call, wrote, undo>>

Stage(c) ==
    \/ StageChange(c) \/ StageConvert(c) \/ StageSet(c)
    \/ StageCreate(c) \/ StageDelete(c) \/ StageRename(c)

CallStep(c) ==
    \/ \E p \in Programs : Begin(c, p)
    \/ Stage(c) \/ Refuse(c)
    \/ Record(c) \/ Pop(c)
    \/ Truncate(c) \/ Fill(c) \/ Replace(c) \/ Unmake(c) \/ Delete(c)
    \/ Fail(c) \/ Finish(c)

Next ==
    \/ \E c \in Handlers : CallStep(c)
    \/ \E d \in Depths : SetDepth(d)
    \/ \E f \in Files, s \in {Gone, Text({})} : Outside(f, s)

Spec == Init /\ [][Next]_vars

-----------------------------------------------------------------------------
(* Properties *)

\* The variables keep to their domains, and no history outgrows the depth last
\* configured, whatever a reload and the calls in progress do to it.
TypeOK ==
    /\ disk \in [Files -> State]
    /\ history \in [Files -> Seq(State)]
    /\ depth \in Depths
    /\ prog \in [Handlers -> Programs \cup {Idle}]
    /\ at \in [Handlers -> Phases]
    /\ staged \in [Handlers -> Nat]
    /\ plan \in [Handlers -> Seq(Planned)]
    /\ kept \in [Handlers -> BOOLEAN]
    /\ calls \in Nat /\ serial \in [Handlers -> Nat]
    /\ wrote \in [Handlers -> [Files -> SUBSET State]]
    /\ undo \in [Files -> Seq(State)]
    /\ clean \in [Files -> BOOLEAN]
    /\ events \in Nat
    /\ \A f \in Files : Len(history[f]) <= depth

Untouched(c) == \A f \in Files : wrote[c][f] = {}

\* A call that is refused, and a dry run, have written nothing: "nothing was
\* written" in the answers of applyEditBatch, planDiff and replace_in_files.
RefusedUntouched == [][\A c \in Handlers : Refuse(c) \/ prog[c].dry => Untouched(c)]_vars

\* Change i of a call stands unless a later one does away with its file.
Standing(c, i) ==
    LET ops == prog[c].ops
    IN  \A j \in (i + 1)..Len(ops) :
            ops[j].kind \in {"create", "delete", "rename"} =>
                FileOf[ops[i].to] \notin {FileOf[ops[j].name], FileOf[ops[j].to]}
Carries(s, c, i) ==
    IF prog[c].ops[i].kind = "delete" THEN ~s.existed ELSE <<serial[c], i>> \in s.data
Landed(c, i) ==
    LET states == wrote[c][FileOf[prog[c].ops[i].to]]
    IN  states # {} /\ \A s \in states : Carries(s, c, i)

\* Two names of one file, and only they, have one key in apply_diff's plan; a
\* rename is from one file to another.  planKey sees to the first for a name
\* with and without "./"; not for a rooted name, or through a link.
OneKey == \A m, n \in Names : FileOf[m] = FileOf[n] <=> PlanKey[m] = PlanKey[n]
RenamesMove ==
    \A p \in Programs : \A i \in DOMAIN p.ops :
        p.ops[i].kind = "rename" => FileOf[p.ops[i].name] # FileOf[p.ops[i].to]

\* When an edit or a patch is reported applied, each of its changes is in what
\* it wrote, however its file was spelled and however often it was named: no
\* change of a batch is staged apart from another and written over it.
EditsLand ==
    [][\A c \in Handlers : Finish(c) /\ prog[c].tool \in {"edit", "diff"} /\ ~prog[c].dry =>
        \A i \in DOMAIN prog[c].ops : Standing(c, i) => Landed(c, i)]_vars

\* What rollback puts back is what the last tracked write not yet undone
\* replaced, whatever other calls, reloads, failures and changes from outside
\* came since; only what fell between one call's Record (or Pop) and its
\* write, where the code has no lock, is excepted.
RollbackUndoes ==
    \A c \in Handlers : at[c] = "recorded" /\ prog[c].tool = "rollback" /\ clean[Target(c)] =>
        undo[Target(c)] # <<>> /\ Content(c) = Last(undo[Target(c)])

\* Between writes the history of a file is what its tracked writes replaced,
\* back to the configured depth: an edit made from a stale reading still
\* leaves what it wrote over within reach of rollback.
HistoryIsUndo ==
    \A f \in Files : clean[f] /\ (\A c \in Handlers : ~Open(c, f)) => history[f] = undo[f]

=============================================================================
