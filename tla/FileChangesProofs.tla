------------------------- MODULE FileChangesProofs -------------------------
(***************************************************************************)
(* Theorems about the writes of the file tools: when they are made         *)
(* (FileChanges), what they make (TextEdits) and of which file they are    *)
(* (PathLookup).                                                           *)
(*                                                                         *)
(* A rollback restores what it should because of Windows: while nothing    *)
(* disturbs a file, at most one call stands between its Record (or Pop)    *)
(* and its write, and for that time the history is one step ahead of the   *)
(* disk.  The changes of a batch stand because of Promises: each is in     *)
(* every write of its file that is planned or made.                        *)
(*                                                                         *)
(* A file has one name because where a path leads (Leads) is a function of *)
(* the links alone, which do not change, and a call's destination is a     *)
(* path that leads to itself or to nothing yet (Aims).                     *)
(*                                                                         *)
(* A file keeps its one line ending because the texts with one ending      *)
(* (Kind) have with two texts the one after the other, and a tool puts     *)
(* what it writes together of pieces of the file cut between characters    *)
(* that are no CRLF (Cuts) and of text in the ending of the file.          *)
(***************************************************************************)
EXTENDS FileChanges, TextEdits, PathLookup, SequenceLemmas, FiniteSetTheorems,
        TLAPS

-----------------------------------------------------------------------------
(* The strengthening of the properties that is inductive. *)

\* A call that has not begun to write has written nothing; a dry run never
\* begins to; a call that has begun has staged everything, fix_line_endings
\* excepted.
Untouching ==
    \A c \in Handlers :
        /\ at[c] \in {"idle", "staging"} => Untouched(c)
        /\ prog[c].dry => at[c] = "staging"
        /\ at[c] \in {"writing", "recorded", "torn"} /\ prog[c].tool # "endings"
               => staged[c] = Len(prog[c].ops)

\* A call between Record and the end of its write has that write at the head
\* of its plan, and a rollback plans nothing but the state it popped.
Heads ==
    \A c \in Handlers :
        /\ at[c] \in {"recorded", "torn"} => plan[c] # <<>>
        /\ at[c] = "idle" => plan[c] = <<>>
        /\ prog[c].tool = "rollback" /\ at[c] \notin {"recorded", "torn"} => plan[c] = <<>>
        /\ prog[c].tool = "rollback" => Len(plan[c]) <= 1

\* The history of a file is its undo states, one step ahead while a call is
\* between Record or Pop and its write.
Ahead(c, f) ==
    IF prog[c].tool = "rollback"
    THEN /\ undo[f] # <<>>
         /\ history[f] = Front(undo[f])
         /\ Content(c) = Last(undo[f])
    ELSE history[f] = IF kept[c] THEN Pushed(undo[f], disk[f], depth) ELSE undo[f]

Window(f) ==
    clean[f] =>
        /\ (\A c \in Handlers : ~Open(c, f)) => history[f] = undo[f]
        /\ \A c \in Handlers : Open(c, f) => Ahead(c, f) /\ \A b \in Handlers \ {c} : ~Open(b, f)

Windows == \A f \in Files : Window(f)

IInv == TypeOK /\ Untouching /\ Heads /\ Windows

-----------------------------------------------------------------------------
(* Sequences of states. *)

\* Trimming keeps a sequence of states one, no longer than the depth.
LEMMA TrimFits ==
    ASSUME NEW d \in Nat, NEW s \in Seq(State)
    PROVE  Trim(s, d) \in Seq(State) /\ Len(Trim(s, d)) <= d
<1>1. CASE Len(s) > d
  <2>1. Trim(s, d) = SubSeq(s, Len(s) - d + 1, Len(s))
    BY <1>1 DEF Trim
  <2>2. Len(s) \in Nat /\ Len(s) - d + 1 \in 1..(Len(s) + 1)
    BY <1>1
  <2>3. SubSeq(s, Len(s) - d + 1, Len(s)) \in Seq(State)
    BY <2>2
  <2>4. Len(SubSeq(s, Len(s) - d + 1, Len(s))) = d
    BY <2>2
  <2> QED
    BY <2>1, <2>3, <2>4
<1>2. CASE ~(Len(s) > d)
  BY <1>2 DEF Trim
<1> QED
  BY <1>1, <1>2

\* So does recording a state.
LEMMA PushedFits ==
    ASSUME NEW d \in Nat, NEW s \in Seq(State), NEW x \in State
    PROVE  Pushed(s, x, d) \in Seq(State) /\ Len(Pushed(s, x, d)) <= d
<1>1. Append(s, x) \in Seq(State)
  OBVIOUS
<1> QED
  BY <1>1, TrimFits DEF Pushed

\* Taking the last state leaves the others.
LEMMA FrontFits ==
    ASSUME NEW s \in Seq(State), s # <<>>
    PROVE  Front(s) \in Seq(State) /\ Len(Front(s)) = Len(s) - 1 /\ Last(s) \in State
<1>1. Len(s) \in Nat /\ Len(s) >= 1
  OBVIOUS
<1>2. \A i \in 1..Len(s) : s[i] \in State
  OBVIOUS
<1>3. Len(s) - 1 \in Int /\ \A i \in 1..(Len(s) - 1) : s[i] \in State
  BY <1>1, <1>2
<1> DEFINE front == SubSeq(s, 1, Len(s) - 1)
<1>4. front \in Seq(State) /\ (1 <= Len(s) - 1 => Len(front) = Len(s) - 1 - 1 + 1)
      /\ (~(1 <= Len(s) - 1) => Len(front) = 0)
  BY <1>3, SubSeqProperties
<1> HIDE DEF front
<1>5. Len(front) = Len(s) - 1
  <2>1. CASE Len(s) = 1
    BY <1>4, <2>1
  <2>2. CASE Len(s) # 1
    BY <1>1, <1>4, <2>2
  <2> QED
    BY <2>1, <2>2
<1>6. s[Len(s)] \in State
  <2>1. Len(s) \in 1..Len(s)
    BY <1>1
  <2> QED
    BY <1>2, <2>1
<1> QED
  BY <1>4, <1>5, <1>6 DEF Front, Last, front

\* A write replaces the one staged for the same file, or joins the plan.
LEMMA PutFits ==
    ASSUME NEW writes \in Seq(Planned), NEW w \in Planned
    PROVE  Put(writes, w) \in Seq(Planned)
<1>1. Append(writes, w) \in Seq(Planned)
  OBVIOUS
<1>2. ASSUME \E i \in DOMAIN writes : writes[i].key = w.key
      PROVE  Put(writes, w) \in Seq(Planned)
  <2> DEFINE new == [i \in DOMAIN writes |-> IF writes[i].key = w.key THEN w ELSE writes[i]]
  <2>1. DOMAIN writes = 1..Len(writes) /\ Len(writes) \in Nat
    OBVIOUS
  <2>2. new \in [1..Len(writes) -> Planned]
    BY <2>1
  <2>3. new \in Seq(Planned)
    BY <2>1, <2>2
  <2> QED
    BY <1>2, <2>3 DEF Put
<1> QED
  BY <1>1, <1>2 DEF Put

-----------------------------------------------------------------------------
(* What staging computes keeps to the types. *)

\* What a call asks for is what its tool can be asked for.
LEMMA SensibleFits ==
    ASSUME NEW p \in Programs
    PROVE  /\ p.tool \in Tools /\ p.ops \in Seq(Op)
           /\ \A i \in 1..Len(p.ops) :
                /\ p.ops[i].kind \in OpsOf(p.tool)
                /\ p.ops[i].kind # "rename" => p.ops[i].to = p.ops[i].name
           /\ p.tool = "rollback" => Len(p.ops) = 1 /\ ~p.dry
<1>1. p \in Program /\ Sensible(p)
  BY FilesAssumption, Zenon
<1>2. p.tool \in Tools /\ p.ops \in Seq(Op)
  BY <1>1 DEF Program
<1>3. DOMAIN p.ops = 1..Len(p.ops)
  BY <1>2
<1> QED
  BY <1>1, <1>2, <1>3 DEF Sensible

\* A call that stages has a program, and the change it comes to is one of it.
LEMMA OpFits ==
    ASSUME TypeOK, NEW c \in Handlers, Staging(c)
    PROVE  /\ prog[c] \in Programs
           /\ OpOf(c) \in Op
           /\ OpOf(c).kind # "undo" => prog[c].tool # "rollback"
<1>1. prog[c] \in Programs \cup {Idle} /\ staged[c] \in Nat /\ staged[c] < Len(prog[c].ops)
  BY DEF TypeOK, Staging
<1>2. prog[c] # Idle
  BY <1>1 DEF Idle
<1>3. prog[c] \in Programs
  BY <1>1, <1>2
<1>4. prog[c].ops \in Seq(Op)
  BY <1>3, FilesAssumption DEF Program
<1>5. staged[c] + 1 \in 1..Len(prog[c].ops)
  BY <1>1, <1>4
<1>6. OpOf(c) \in Op
  BY <1>4, <1>5 DEF OpOf
<1>7. ASSUME prog[c].tool = "rollback"
      PROVE  OpOf(c).kind = "undo"
  <2>1. OpOf(c).kind \in OpsOf(prog[c].tool)
    BY <1>3, <1>5, SensibleFits DEF OpOf
  <2> QED
    BY <1>7, <2>1 DEF OpsOf
<1> QED
  BY <1>3, <1>6, <1>7

\* A change starts from a state.
LEMMA SourceFits ==
    ASSUME TypeOK, NEW c \in Handlers, NEW n \in Names
    PROVE  Source(c, n) \in State
<1>1. CASE InPlan(c, n) = {}
  BY <1>1, FilesAssumption DEF Source, TypeOK
<1>2. CASE InPlan(c, n) # {}
  <2>1. (CHOOSE i \in InPlan(c, n) : TRUE) \in InPlan(c, n)
    BY <1>2
  <2>2. (CHOOSE i \in InPlan(c, n) : TRUE) \in DOMAIN plan[c]
    BY <2>1 DEF InPlan
  <2>3. plan[c] \in Seq(Planned)
    BY DEF TypeOK
  <2>4. plan[c][CHOOSE i \in InPlan(c, n) : TRUE] \in Planned
    BY <2>2, <2>3
  <2> QED
    BY <1>2, <2>4 DEF Source, Planned
<1> QED
  BY <1>1, <1>2

\* A state with one more mark is a state.
LEMMA MarkFits ==
    ASSUME TypeOK, NEW c \in Handlers, NEW marks \in SUBSET Marks
    PROVE  Text(marks \cup {Mark(c)}) \in State
<1>1. Mark(c) \in Marks
  BY DEF TypeOK, Mark, Marks
<1> QED
  BY <1>1 DEF Text, State

\* What is planned for a name is a planned write.
LEMMA WriteFits ==
    ASSUME NEW c \in Handlers, NEW n \in Names, NEW to \in State
    PROVE  Write(c, n, to) \in Planned /\ Write(c, n, to).file = FileOf[n] /\ Write(c, n, to).to = to
<1>1. Key(c, n) \in Names \cup Files /\ FileOf[n] \in Files
  BY FilesAssumption DEF Key
<1> QED
  BY <1>1 DEF Write, Planned

\* One planned write is a plan.
LEMMA OneFits ==
    ASSUME NEW w \in Planned
    PROVE  <<w>> \in Seq(Planned)
  OBVIOUS

\* Every staging step of a call adds to its plan and counts one change.
LEMMA StagePlans ==
    ASSUME TypeOK, NEW c \in Handlers, Stage(c)
    PROVE  /\ Staging(c)
           /\ prog[c].tool # "rollback"
           /\ \E writes \in Seq(Planned) : Planning(c, writes)
<1> DEFINE n == OpOf(c).name
<1>1. Staging(c) /\ OpOf(c).kind # "undo"
  BY DEF Stage, StageChange, StageConvert, StageSet, StageCreate, StageDelete, StageRename
<1>2. n \in Names /\ OpOf(c).to \in Names /\ prog[c].tool # "rollback"
  BY <1>1, OpFits DEF Op
<1>3. plan[c] \in Seq(Planned)
  BY DEF TypeOK
<1>4. Source(c, n) \in State /\ Source(c, n).data \in SUBSET Marks
      /\ disk[FileOf[n]].data \in SUBSET Marks
  BY <1>2, SourceFits, FilesAssumption DEF TypeOK, State
<1>5. Text({Mark(c)}) \in State /\ Gone \in State
  <2>1. Text({} \cup {Mark(c)}) \in State
    BY MarkFits
  <2>2. {} \cup {Mark(c)} = {Mark(c)}
    OBVIOUS
  <2> QED
    BY <2>1, <2>2 DEF Gone, State
<1>6. Text(Source(c, n).data \cup {Mark(c)}) \in State
      /\ Text(disk[FileOf[n]].data \cup {Mark(c)}) \in State
  BY <1>4, MarkFits
<1> HIDE DEF n
<1>7. CASE StageChange(c)
  <2>1. Planning(c, Put(plan[c], Write(c, n, Text(Source(c, n).data \cup {Mark(c)}))))
    BY <1>7 DEF StageChange, n
  <2> QED
    BY <1>1, <1>2, <1>3, <1>6, <2>1, WriteFits, PutFits
<1>8. CASE StageConvert(c)
  <2>1. <<>> \in Seq(Planned)
    OBVIOUS
  <2>2. Write(c, n, Text(disk[FileOf[n]].data \cup {Mark(c)})) \in Planned
    BY <1>2, <1>6, WriteFits
  <2>3. \/ Planning(c, <<Write(c, n, Text(disk[FileOf[n]].data \cup {Mark(c)}))>>)
        \/ Planning(c, <<>>)
    BY <1>8 DEF StageConvert, n
  <2>4. <<Write(c, n, Text(disk[FileOf[n]].data \cup {Mark(c)}))>> \in Seq(Planned)
    BY <2>2, OneFits
  <2> QED
    BY <1>1, <1>2, <2>1, <2>3, <2>4
<1>9. CASE StageSet(c)
  <2>1. Planning(c, <<Write(c, n, Text({Mark(c)}))>>)
    BY <1>9 DEF StageSet, n
  <2>2. Write(c, n, Text({Mark(c)})) \in Planned
    BY <1>2, <1>5, WriteFits
  <2>3. <<Write(c, n, Text({Mark(c)}))>> \in Seq(Planned)
    BY <2>2, OneFits
  <2> QED
    BY <1>1, <1>2, <2>1, <2>3
<1>10. CASE StageCreate(c)
  <2>1. Planning(c, Put(plan[c], Write(c, n, Text({Mark(c)}))))
    BY <1>10 DEF StageCreate, n
  <2> QED
    BY <1>1, <1>2, <1>3, <1>5, <2>1, WriteFits, PutFits
<1>11. CASE StageDelete(c)
  <2>1. Planning(c, Put(plan[c], Write(c, n, Gone)))
    BY <1>11 DEF StageDelete, n
  <2> QED
    BY <1>1, <1>2, <1>3, <1>5, <2>1, WriteFits, PutFits
<1>12. CASE StageRename(c)
  <2> DEFINE one == Put(plan[c], Write(c, OpOf(c).to, Text(Source(c, n).data \cup {Mark(c)})))
  <2>1. Planning(c, Put(one, Write(c, n, Gone)))
    BY <1>12 DEF StageRename, n
  <2>2. one \in Seq(Planned)
    BY <1>2, <1>3, <1>6, WriteFits, PutFits
  <2> HIDE DEF one
  <2> QED
    BY <1>1, <1>2, <1>5, <2>1, <2>2, WriteFits, PutFits
<1> QED
  BY <1>7, <1>8, <1>9, <1>10, <1>11, <1>12 DEF Stage

-----------------------------------------------------------------------------
(* How the steps of a call leave the windows of the files. *)

\* All that the other calls hold is left alone.
Others(c) ==
    \A b \in Handlers \ {c} :
        at'[b] = at[b] /\ prog'[b] = prog[b] /\ plan'[b] = plan[b] /\ kept'[b] = kept[b]

\* A step that leaves a file alone keeps its window.
LEMMA WindowStays ==
    ASSUME NEW f \in Files, NEW c \in Handlers, Window(f), Others(c), depth' = depth,
           history'[f] = history[f], undo'[f] = undo[f], disk'[f] = disk[f], clean'[f] = clean[f],
           ~Open(c, f), ~Open(c, f)'
    PROVE  Window(f)'
<1>1. \A b \in Handlers : Open(b, f)' <=> Open(b, f)
  BY DEF Others, Open, Target
<1>2. \A b \in Handlers : Open(b, f) => (Ahead(b, f)' <=> Ahead(b, f))
  <2> TAKE b \in Handlers
  <2> HAVE Open(b, f)
  <2>1. b # c
    OBVIOUS
  <2>2. prog'[b] = prog[b] /\ plan'[b] = plan[b] /\ kept'[b] = kept[b]
    BY <2>1 DEF Others
  <2> QED
    BY <2>2 DEF Ahead, Content
<1> QED
  BY <1>1, <1>2 DEF Window

\* A step that disturbs a file keeps its window when it leaves the history
\* right by itself.
LEMMA WindowAlone ==
    ASSUME NEW f \in Files, NEW c \in Handlers, Others(c), TypeOK,
           clean'[f] = (clean[f] /\ \A b \in Handlers \ {c} : ~Open(b, f)),
           clean'[f] /\ Open(c, f)' => Ahead(c, f)',
           clean'[f] /\ ~Open(c, f)' => history'[f] = undo'[f]
    PROVE  Window(f)'
<1>1. \A b \in Handlers \ {c} : Open(b, f)' <=> Open(b, f)
  BY DEF Others, Open, Target
<1>2. clean'[f] => \A b \in Handlers \ {c} : ~Open(b, f)'
  BY <1>1
<1> QED
  BY <1>2 DEF Window

\* What a disturbing step needs of the file it is about: the window it finds.
LEMMA WindowFound ==
    ASSUME NEW f \in Files, NEW c \in Handlers, Window(f), clean[f],
           \A b \in Handlers \ {c} : ~Open(b, f)
    PROVE  IF Open(c, f) THEN Ahead(c, f) ELSE history[f] = undo[f]
  BY DEF Window

\* What Disturbs says of the file disturbed and of the others.
LEMMA DisturbsOne ==
    ASSUME TypeOK, NEW c \in Handlers, NEW f \in Files, Disturbs(c, f)
    PROVE  /\ clean' \in [Files -> BOOLEAN]
           /\ clean'[f] = (clean[f] /\ \A b \in Handlers \ {c} : ~Open(b, f))
           /\ \A g \in Files \ {f} : clean'[g] = clean[g]
  BY DEF Disturbs, TypeOK

-----------------------------------------------------------------------------
(* The initial states and the steps of a call. *)

LEMMA InitHolds == Init => IInv
<1> SUFFICES ASSUME Init PROVE IInv
  OBVIOUS
<1>1. TypeOK
  <2>1. <<>> \in Seq(State) /\ <<>> \in Seq(Planned) /\ Len(<<>>) = 0
    OBVIOUS
  <2>2. Text({}) \in State /\ Gone \in State
    BY DEF Text, Gone, State
  <2>3. disk \in [Files -> State]
    BY <2>2 DEF Init
  <2>4. \A f \in Files : Len(history[f]) <= depth
    <3>1. depth \in Nat /\ \A f \in Files : history[f] = <<>>
      BY FilesAssumption DEF Init
    <3>2. 0 <= depth
      BY <3>1
    <3> QED
      BY <2>1, <3>1, <3>2, Zenon
  <2>5. history \in [Files -> Seq(State)] /\ undo \in [Files -> Seq(State)]
        /\ plan \in [Handlers -> Seq(Planned)]
    BY <2>1 DEF Init
  <2>6. wrote \in [Handlers -> [Files -> SUBSET State]]
    BY DEF Init
  <2> QED
    BY <2>3, <2>4, <2>5, <2>6 DEF Init, TypeOK, Phases
<1>2. Untouching
  BY DEF Init, Untouching, Untouched, Idle
<1>3. Heads
  BY DEF Init, Heads, Idle
<1>4. Windows
  BY DEF Init, Windows, Window, Open
<1> QED
  BY <1>1, <1>2, <1>3, <1>4 DEF IInv

\* Begin, the staging steps and the answers to calls between two writes leave
\* files, histories and undo states alone, and open no window.
LEMMA QuietWindows ==
    ASSUME IInv, NEW c \in Handlers, Others(c), at[c] # "recorded", at'[c] # "recorded",
           UNCHANGED <<files, undo, clean>>
    PROVE  Windows'
<1> SUFFICES ASSUME NEW f \in Files PROVE Window(f)'
  BY DEF Windows
<1>1. ~Open(c, f) /\ ~Open(c, f)'
  BY DEF Open
<1> QED
  BY <1>1, WindowStays DEF IInv, Windows, files

LEMMA BeginKeeps ==
    ASSUME IInv, NEW c \in Handlers, NEW p \in Programs, Begin(c, p)
    PROVE  IInv'
<1>1. TypeOK'
  BY DEF IInv, TypeOK, Begin, files, ghosts, Phases
<1>2. Untouching'
  BY DEF IInv, TypeOK, Begin, ghosts, Untouching, Untouched
<1>3. Heads'
  <2>1. plan[c] = <<>>
    BY DEF IInv, Heads, Begin
  <2>2. Len(plan[c]) = 0
    BY <2>1
  <2> QED
    BY <2>1, <2>2 DEF IInv, TypeOK, Begin, Heads
<1>4. Windows'
  <2>1. Others(c) /\ at[c] # "recorded" /\ at'[c] # "recorded" /\ UNCHANGED <<files, undo, clean>>
    BY DEF IInv, TypeOK, Begin, Others, files, ghosts
  <2> QED
    BY <2>1, QuietWindows
<1> QED
  BY <1>1, <1>2, <1>3, <1>4 DEF IInv

LEMMA PlanningKeeps ==
    ASSUME IInv, NEW c \in Handlers, Staging(c), prog[c].tool # "rollback",
           NEW writes \in Seq(Planned), Planning(c, writes)
    PROVE  IInv'
<1>1. TypeOK'
  BY DEF IInv, TypeOK, Planning, files, numbers, ghosts
<1>2. Untouching'
  <2>1. at[c] = "writing" => prog[c].tool = "endings"
    <3> SUFFICES ASSUME at[c] = "writing", prog[c].tool # "endings" PROVE FALSE
      OBVIOUS
    <3>1. staged[c] = Len(prog[c].ops)
      BY DEF IInv, Untouching
    <3>2. staged[c] < Len(prog[c].ops) /\ staged[c] \in Nat
      BY DEF Staging, IInv, TypeOK
    <3> QED
      BY <3>1, <3>2
  <2>2. at[c] \in {"staging", "writing"}
    BY DEF Staging
  <2> QED
    BY <2>1, <2>2 DEF IInv, TypeOK, Planning, ghosts, Untouching, Untouched
<1>3. Heads'
  <2>1. at[c] \in {"staging", "writing"}
    BY DEF Staging
  <2> QED
    BY <2>1 DEF IInv, TypeOK, Planning, Heads
<1>4. Windows'
  <2>1. Others(c) /\ at[c] # "recorded" /\ at'[c] # "recorded" /\ UNCHANGED <<files, undo, clean>>
    BY DEF IInv, TypeOK, Planning, Staging, Others, files, ghosts
  <2> QED
    BY <2>1, QuietWindows
<1> QED
  BY <1>1, <1>2, <1>3, <1>4 DEF IInv

\* An answer drops what the call held; only the undo states are left to judge.
LEMMA AnswerKeeps ==
    ASSUME IInv, NEW c \in Handlers, Answer(c), undo' \in [Files -> Seq(State)]
    PROVE  TypeOK' /\ Untouching' /\ Heads' /\ Others(c) /\ at'[c] = "idle"
<1>1. TypeOK'
  <2>1. <<>> \in Seq(Planned)
    OBVIOUS
  <2>2. plan' \in [Handlers -> Seq(Planned)]
    BY <2>1 DEF IInv, TypeOK, Answer
  <2>3. wrote' \in [Handlers -> [Files -> SUBSET State]]
    BY DEF IInv, TypeOK, Answer
  <2> QED
    BY <2>2, <2>3 DEF IInv, TypeOK, Answer, files, Phases
<1>2. Untouching'
  BY DEF IInv, TypeOK, Answer, Untouching, Untouched, Idle
<1>3. Heads'
  BY DEF IInv, TypeOK, Answer, Heads, Idle
<1>4. Others(c) /\ at'[c] = "idle"
  BY DEF IInv, TypeOK, Answer, Others
<1> QED
  BY <1>1, <1>2, <1>3, <1>4

\* Refuse and Finish answer a call that is not about to write.
LEMMA RefuseFinishKeeps ==
    ASSUME IInv, NEW c \in Handlers, Refuse(c) \/ Finish(c)
    PROVE  IInv'
<1>1. Answer(c) /\ undo' = undo /\ at[c] \in {"staging", "writing"}
  BY DEF Refuse, Finish
<1>2. TypeOK' /\ Untouching' /\ Heads' /\ Others(c) /\ at'[c] = "idle"
  BY <1>1, AnswerKeeps DEF IInv, TypeOK
<1>3. Windows'
  BY <1>1, <1>2, QuietWindows DEF Answer
<1> QED
  BY <1>2, <1>3 DEF IInv

\* The write a call is about to make, and the plan without it.
LEMMA TargetFits ==
    ASSUME TypeOK, NEW c \in Handlers, plan[c] # <<>>
    PROVE  /\ Target(c) \in Files /\ Content(c) \in State
           /\ Tail(plan[c]) \in Seq(Planned)
           /\ Len(plan[c]) <= 1 => Tail(plan[c]) = <<>>
<1>1. plan[c] \in Seq(Planned)
  BY DEF TypeOK
<1>2. plan[c][1] \in Planned
  BY <1>1
<1>3. Tail(plan[c]) \in Seq(Planned) /\ Len(Tail(plan[c])) = Len(plan[c]) - 1 /\ Len(plan[c]) \in Nat
  BY <1>1
<1>4. Len(plan[c]) # 0
  BY <1>1
<1>5. Len(plan[c]) <= 1 => Tail(plan[c]) = <<>>
  BY <1>3, <1>4
<1> QED
  BY <1>2, <1>3, <1>5 DEF Target, Content, Planned

\* Front keeps the type of any sequence of states.
LEMMA FrontTyped ==
    ASSUME NEW s \in Seq(State)
    PROVE  Front(s) \in Seq(State)
<1>1. CASE s # <<>>
  BY <1>1, FrontFits
<1>2. CASE s = <<>>
  <2>1. Len(s) = 0
    BY <1>2
  <2>2. \A i \in 1..(Len(s) - 1) : s[i] \in State
    BY <2>1
  <2>3. Len(s) - 1 \in Int
    BY <2>1
  <2> QED
    BY <2>2, <2>3, SubSeqProperties DEF Front
<1> QED
  BY <1>1, <1>2

\* Once the write is made, the undo states catch up with the history.
LEMMA UndoneCatchesUp ==
    ASSUME IInv, NEW c \in Handlers, at[c] = "recorded"
    PROVE  /\ Undone(c) \in [Files -> Seq(State)]
           /\ clean[Target(c)] => Undone(c)[Target(c)] = history[Target(c)]
           /\ \A g \in Files \ {Target(c)} : Undone(c)[g] = undo[g]
<1>1. plan[c] # <<>>
  BY DEF IInv, Heads
<1>2. Target(c) \in Files /\ Content(c) \in State
  BY <1>1, TargetFits DEF IInv
<1>3. undo \in [Files -> Seq(State)] /\ disk[Target(c)] \in State /\ depth \in Nat
  BY <1>2, FilesAssumption DEF IInv, TypeOK
<1>4. Front(undo[Target(c)]) \in Seq(State)
  BY <1>2, <1>3, FrontTyped
<1>5. Pushed(undo[Target(c)], disk[Target(c)], depth) \in Seq(State)
  BY <1>2, <1>3, PushedFits
<1>6. Undone(c) \in [Files -> Seq(State)]
  BY <1>2, <1>3, <1>4, <1>5 DEF Undone
<1>7. clean[Target(c)] => Ahead(c, Target(c))
  BY <1>2 DEF IInv, Windows, Window, Open
<1>8. clean[Target(c)] => Undone(c)[Target(c)] = history[Target(c)]
  BY <1>2, <1>3, <1>7 DEF Ahead, Undone
<1>9. \A g \in Files \ {Target(c)} : Undone(c)[g] = undo[g]
  BY <1>2, <1>3 DEF Undone
<1> QED
  BY <1>6, <1>8, <1>9

LEMMA FailKeeps ==
    ASSUME IInv, NEW c \in Handlers, Fail(c)
    PROVE  IInv'
<1>1. Answer(c)
  BY DEF Fail
<1>2. undo' \in [Files -> Seq(State)]
  BY UndoneCatchesUp DEF Fail, IInv, TypeOK
<1>3. TypeOK' /\ Untouching' /\ Heads' /\ Others(c) /\ at'[c] = "idle"
  BY <1>1, <1>2, AnswerKeeps
<1>4. CASE at[c] # "recorded"
  <2>1. UNCHANGED <<files, undo, clean>>
    BY <1>1, <1>4 DEF Fail, Answer
  <2> QED
    BY <1>3, <1>4, <2>1, QuietWindows DEF IInv
<1>5. CASE at[c] = "recorded"
  <2>1. undo' = Undone(c) /\ UNCHANGED <<disk, history, depth, clean>>
    BY <1>1, <1>5 DEF Fail, Answer, files
  <2>2. SUFFICES ASSUME NEW f \in Files PROVE Window(f)'
    BY <1>3 DEF IInv, Windows
  <2>3. ~Open(c, f)' /\ Window(f)
    BY <1>3 DEF Open, IInv, Windows
  <2>4. CASE f = Target(c)
    <3>1. Open(c, f)
      BY <1>5, <2>4 DEF Open
    <3>2. clean[f] => undo'[f] = history[f]
      BY <1>5, <2>1, <2>4, UndoneCatchesUp
    <3>3. clean'[f] = (clean[f] /\ \A b \in Handlers \ {c} : ~Open(b, f))
      BY <2>1, <2>3, <3>1 DEF Window, IInv, TypeOK
    <3> QED
      BY <1>3, <2>1, <2>3, <3>2, <3>3, WindowAlone DEF IInv
  <2>5. CASE f # Target(c)
    <3>1. ~Open(c, f)
      BY <2>5 DEF Open
    <3>2. undo'[f] = undo[f]
      BY <1>5, <2>1, <2>5, UndoneCatchesUp
    <3> QED
      BY <1>3, <2>1, <2>3, <3>1, <3>2, WindowStays
  <2> QED
    BY <2>4, <2>5
<1> QED
  BY <1>4, <1>5

\* A step that writes, and then is past its window, keeps every window.
LEMMA WriteWindows ==
    ASSUME IInv, NEW c \in Handlers, plan[c] # <<>>, Others(c), UNCHANGED <<history, depth>>,
           Disturbs(c, Target(c)), at'[c] # "recorded",
           \A g \in Files \ {Target(c)} : disk'[g] = disk[g],
           undo' = IF at[c] = "recorded" THEN Undone(c) ELSE undo
    PROVE  Windows'
<1> SUFFICES ASSUME NEW f \in Files PROVE Window(f)'
  BY DEF Windows
<1>1. Target(c) \in Files
  BY TargetFits DEF IInv
<1>2. ~Open(c, f)' /\ Window(f)
  BY DEF Open, IInv, Windows
<1>3. CASE f = Target(c)
  <2>1. clean'[f] = (clean[f] /\ \A b \in Handlers \ {c} : ~Open(b, f))
    BY <1>1, <1>3, DisturbsOne DEF IInv
  <2>2. clean'[f] => undo'[f] = history[f]
    <3>1. CASE at[c] = "recorded"
      BY <1>3, <2>1, <3>1, UndoneCatchesUp
    <3>2. CASE at[c] # "recorded"
      <4>1. ~Open(c, f)
        BY <3>2 DEF Open
      <4> QED
        BY <1>2, <2>1, <3>2, <4>1, WindowFound
    <3> QED
      BY <3>1, <3>2
  <2> QED
    BY <1>2, <2>1, <2>2, WindowAlone DEF IInv
<1>4. CASE f # Target(c)
  <2>1. ~Open(c, f) /\ clean'[f] = clean[f]
    BY <1>1, <1>4, DisturbsOne DEF Open, IInv
  <2>2. undo'[f] = undo[f]
    BY <1>4, UndoneCatchesUp
  <2> QED
    BY <1>2, <1>4, <2>1, <2>2, WindowStays
<1> QED
  BY <1>3, <1>4

\* The writes at the end of which a call is past its window: Fill, Replace,
\* Unmake and Delete.
LEMMA WroteKeeps ==
    ASSUME IInv, NEW c \in Handlers, plan[c] # <<>>, Wrote(c),
           at[c] \in {"recorded", "torn"} \/ WritesNow(c),
           undo' = IF at[c] = "recorded" THEN Undone(c) ELSE undo
    PROVE  IInv'
<1>1. Target(c) \in Files /\ Content(c) \in State /\ Tail(plan[c]) \in Seq(Planned)
      /\ (Len(plan[c]) <= 1 => Tail(plan[c]) = <<>>)
  BY TargetFits DEF IInv
<1>2. TypeOK'
  <2>1. undo' \in [Files -> Seq(State)]
    BY UndoneCatchesUp DEF IInv, TypeOK
  <2>2. clean' \in [Files -> BOOLEAN]
    BY <1>1, DisturbsOne DEF Wrote, IInv
  <2>3. wrote[c][Target(c)] \cup {Content(c)} \in SUBSET State
    BY <1>1 DEF IInv, TypeOK
  <2>4. wrote' \in [Handlers -> [Files -> SUBSET State]]
    BY <1>1, <2>3 DEF Wrote, IInv, TypeOK
  <2>5. disk' \in [Files -> State] /\ plan' \in [Handlers -> Seq(Planned)]
    BY <1>1 DEF Wrote, IInv, TypeOK
  <2> QED
    BY <2>1, <2>2, <2>4, <2>5 DEF Wrote, numbers, IInv, TypeOK, Phases
<1>3. ~prog[c].dry
  BY DEF IInv, Untouching, WritesNow
<1>4. prog[c].tool # "endings" => staged[c] = Len(prog[c].ops)
  BY DEF IInv, Untouching, WritesNow
<1>5. at' = [at EXCEPT ![c] = "writing"] /\ UNCHANGED <<prog, staged, kept>>
      /\ plan' = [plan EXCEPT ![c] = Tail(plan[c])]
      /\ wrote' = [wrote EXCEPT ![c][Target(c)] = @ \cup {Content(c)}]
  BY DEF Wrote
<1>6. Untouching'
  <2> SUFFICES ASSUME NEW b \in Handlers
               PROVE  /\ at'[b] \in {"idle", "staging"} => Untouched(b)'
                      /\ prog'[b].dry => at'[b] = "staging"
                      /\ at'[b] \in {"writing", "recorded", "torn"} /\ prog'[b].tool # "endings"
                             => staged'[b] = Len(prog'[b].ops)
    BY DEF Untouching
  <2>1. CASE b = c
    BY <1>3, <1>4, <1>5, <2>1 DEF IInv, TypeOK
  <2>2. CASE b # c
    <3>1. at'[b] = at[b] /\ wrote'[b] = wrote[b] /\ UNCHANGED <<prog, staged>>
      BY <1>5, <2>2 DEF IInv, TypeOK
    <3> QED
      BY <3>1 DEF IInv, Untouching, Untouched
  <2> QED
    BY <2>1, <2>2
<1>7. Heads'
  <2>1. prog[c].tool = "rollback" => Tail(plan[c]) = <<>>
    BY <1>1 DEF IInv, Heads
  <2>2. Len(<<>>) <= 1
    OBVIOUS
  <2> SUFFICES ASSUME NEW b \in Handlers
               PROVE  /\ at'[b] \in {"recorded", "torn"} => plan'[b] # <<>>
                      /\ at'[b] = "idle" => plan'[b] = <<>>
                      /\ prog'[b].tool = "rollback" /\ at'[b] \notin {"recorded", "torn"}
                             => plan'[b] = <<>>
                      /\ prog'[b].tool = "rollback" => Len(plan'[b]) <= 1
    BY DEF Heads
  <2>3. CASE b = c
    <3>1. at'[b] = "writing" /\ plan'[b] = Tail(plan[c]) /\ prog'[b] = prog[c]
      BY <1>5, <2>3 DEF IInv, TypeOK
    <3> QED
      BY <2>1, <2>2, <3>1
  <2>4. CASE b # c
    <3>1. at'[b] = at[b] /\ plan'[b] = plan[b] /\ prog'[b] = prog[b]
      BY <1>5, <2>4 DEF IInv, TypeOK
    <3> QED
      BY <3>1 DEF IInv, Heads
  <2> QED
    BY <2>3, <2>4
<1>8. Windows'
  <2>1. Others(c) /\ at'[c] # "recorded" /\ UNCHANGED <<history, depth>> /\ Disturbs(c, Target(c))
    BY DEF Wrote, Others, IInv, TypeOK
  <2>2. \A g \in Files \ {Target(c)} : disk'[g] = disk[g]
    BY DEF Wrote, IInv, TypeOK
  <2> QED
    BY <2>1, <2>2, WriteWindows
<1> QED
  BY <1>2, <1>6, <1>7, <1>8 DEF IInv

LEMMA TruncateKeeps ==
    ASSUME IInv, NEW c \in Handlers, Truncate(c)
    PROVE  IInv'
<1>1. plan[c] # <<>> /\ at[c] = "recorded" /\ at' = [at EXCEPT ![c] = "torn"]
      /\ UNCHANGED <<prog, staged, plan, kept, wrote>>
  BY DEF Truncate, IInv, Heads
<1>2. Target(c) \in Files
  BY <1>1, TargetFits DEF IInv
<1>3. TypeOK'
  <2>1. Text({}) \in State
    BY DEF Text, State
  <2>2. undo' \in [Files -> Seq(State)]
    BY <1>1, UndoneCatchesUp DEF Truncate
  <2>3. clean' \in [Files -> BOOLEAN]
    BY <1>2, DisturbsOne DEF Truncate, IInv
  <2> QED
    BY <2>1, <2>2, <2>3 DEF Truncate, numbers, IInv, TypeOK, Phases
<1>4. Untouching'
  BY <1>1 DEF IInv, TypeOK, Untouching, Untouched
<1>5. Heads'
  BY <1>1 DEF IInv, TypeOK, Heads
<1>6. Windows'
  <2>1. Others(c) /\ at'[c] # "recorded" /\ UNCHANGED <<history, depth>> /\ Disturbs(c, Target(c))
    BY DEF Truncate, Others, IInv, TypeOK
  <2>2. \A g \in Files \ {Target(c)} : disk'[g] = disk[g]
    BY DEF Truncate, IInv, TypeOK
  <2> QED
    BY <1>1, <2>1, <2>2, WriteWindows DEF Truncate
<1> QED
  BY <1>3, <1>4, <1>5, <1>6 DEF IInv

\* A step of c that opens the window of f, and leaves the other files alone.
LEMMA OpeningWindows ==
    ASSUME IInv, NEW c \in Handlers, NEW f \in Files, Others(c), at[c] # "recorded", Disturbs(c, f),
           UNCHANGED <<disk, depth, undo>>, Open(c, f)',
           \A g \in Files \ {f} : history'[g] = history[g],
           clean[f] /\ history[f] = undo[f] => Ahead(c, f)'
    PROVE  Windows'
<1> SUFFICES ASSUME NEW g \in Files PROVE Window(g)'
  BY DEF Windows
<1>1. ~Open(c, g) /\ Window(g)
  BY DEF Open, IInv, Windows
<1>2. CASE g = f
  <2>1. clean'[f] = (clean[f] /\ \A b \in Handlers \ {c} : ~Open(b, f))
    BY DisturbsOne DEF IInv
  <2>2. clean'[f] => history[f] = undo[f]
    BY <1>1, <1>2, <2>1, WindowFound
  <2> QED
    BY <1>2, <2>1, <2>2, WindowAlone DEF IInv
<1>3. CASE g # f
  <2>1. clean'[g] = clean[g]
    BY <1>3, DisturbsOne DEF IInv
  <2>2. ~Open(c, g)'
    BY <1>3 DEF Open
  <2> QED
    BY <1>1, <1>3, <2>1, <2>2, WindowStays
<1> QED
  BY <1>2, <1>3

LEMMA RecordKeeps ==
    ASSUME IInv, NEW c \in Handlers, Record(c)
    PROVE  IInv'
<1>1. PICK tracked \in BOOLEAN :
        /\ tracked => depth > 0
        /\ kept' = [kept EXCEPT ![c] = tracked]
        /\ history' = IF tracked
                      THEN [history EXCEPT ![Target(c)] = Pushed(@, Captured(c), depth)]
                      ELSE history
        /\ Disturbs(c, Target(c))
  <2>1. PICK readable \in BOOLEAN :
          /\ kept' = [kept EXCEPT ![c] = readable /\ depth > 0]
          /\ history' = IF readable /\ depth > 0
                        THEN [history EXCEPT ![Target(c)] = Pushed(@, Captured(c), depth)]
                        ELSE history
          /\ Disturbs(c, Target(c))
    BY DEF Record
  <2>2. (readable /\ depth > 0) \in BOOLEAN
    OBVIOUS
  <2> QED
    BY <2>1, <2>2
<1>2. plan[c] # <<>> /\ at[c] \in {"staging", "writing"} /\ ~prog[c].dry
      /\ (staged[c] = Len(prog[c].ops) \/ prog[c].tool = "endings")
      /\ at' = [at EXCEPT ![c] = "recorded"]
      /\ UNCHANGED <<disk, depth, prog, staged, plan, wrote, undo>>
  BY DEF Record, WritesNow
<1>3. Target(c) \in Files
  BY <1>2, TargetFits DEF IInv
<1>4. prog[c].tool # "rollback"
  BY <1>2 DEF IInv, Heads
<1>5. TypeOK'
  <2>1. Pushed(history[Target(c)], Captured(c), depth) \in Seq(State)
        /\ Len(Pushed(history[Target(c)], Captured(c), depth)) <= depth
    BY <1>3, PushedFits, FilesAssumption DEF IInv, TypeOK, Captured
  <2>2. history' \in [Files -> Seq(State)] /\ \A f \in Files : Len(history'[f]) <= depth
    BY <1>1, <1>3, <2>1 DEF IInv, TypeOK
  <2>3. clean' \in [Files -> BOOLEAN]
    BY <1>1, <1>3, DisturbsOne DEF IInv
  <2>4. kept' \in [Handlers -> BOOLEAN]
    BY <1>1 DEF IInv, TypeOK
  <2> QED
    BY <1>2, <2>2, <2>3, <2>4 DEF Record, numbers, IInv, TypeOK, Phases
<1>6. Untouching'
  BY <1>2 DEF IInv, TypeOK, Untouching, Untouched
<1>7. Heads'
  BY <1>2 DEF IInv, TypeOK, Heads
<1>8. Windows'
  <2> PICK f \in Files : f = Target(c)
    BY <1>3
  <2>1. Others(c) /\ at[c] # "recorded" /\ Open(c, f)'
    BY <1>1, <1>2 DEF Others, Open, Target, IInv, TypeOK
  <2>2. \A g \in Files \ {f} : history'[g] = history[g]
    BY <1>1, <1>3 DEF IInv, TypeOK
  <2>3. history[f] = undo[f] => Ahead(c, f)'
    <3>1. kept'[c] = tracked /\ prog'[c].tool # "rollback"
      BY <1>1, <1>2, <1>4 DEF IInv, TypeOK
    <3>2. history'[f] = IF tracked THEN Pushed(history[f], disk[f], depth) ELSE history[f]
      BY <1>1, <1>3 DEF IInv, TypeOK, Captured
    <3> QED
      BY <1>2, <3>1, <3>2 DEF Ahead
  <2> QED
    BY <1>1, <1>2, <2>1, <2>2, <2>3, OpeningWindows
<1> QED
  BY <1>5, <1>6, <1>7, <1>8 DEF IInv

LEMMA PopKeeps ==
    ASSUME IInv, NEW c \in Handlers, Pop(c)
    PROVE  IInv'
<1>1. prog[c] \in Programs /\ prog[c].tool = "rollback" /\ at[c] = "staging"
  BY DEF Pop, IInv, TypeOK, Idle
<1>2. Len(prog[c].ops) = 1 /\ ~prog[c].dry /\ prog[c].ops \in Seq(Op)
  BY <1>1, SensibleFits
<1> PICK n \in Names : n = prog[c].ops[1].name
  <2>1. prog[c].ops[1] \in Op
    BY <1>2
  <2> QED
    BY <2>1 DEF Op
<1> PICK f \in Files : f = FileOf[n]
  BY FilesAssumption
<1> DEFINE top == Last(history[f])
<1>4. /\ history[f] # <<>>
      /\ plan' = [plan EXCEPT ![c] = <<Write(c, n, top)>>]
      /\ history' = [history EXCEPT ![f] = Front(@)]
      /\ Disturbs(c, f)
      /\ staged' = [staged EXCEPT ![c] = 1]
      /\ at' = [at EXCEPT ![c] = "recorded"]
      /\ UNCHANGED <<disk, depth, prog, kept, numbers, wrote, undo, events>>
  BY DEF Pop, Popped
<1>5. history[f] \in Seq(State) /\ Len(history[f]) <= depth /\ depth \in Nat
  BY FilesAssumption DEF IInv, TypeOK
<1>6. Front(history[f]) \in Seq(State) /\ Len(Front(history[f])) = Len(history[f]) - 1 /\ top \in State
  BY <1>4, <1>5, FrontFits
<1>7. Write(c, n, top) \in Planned /\ Write(c, n, top).file = f /\ Write(c, n, top).to = top
  BY <1>6, WriteFits
<1>8. <<Write(c, n, top)>> \in Seq(Planned) /\ Len(<<Write(c, n, top)>>) = 1
      /\ <<Write(c, n, top)>>[1] = Write(c, n, top) /\ <<Write(c, n, top)>> # <<>>
  BY <1>7, OneFits
<1>9. TypeOK'
  <2>1. Len(Front(history[f])) <= depth
    BY <1>5, <1>6
  <2>2. history' \in [Files -> Seq(State)] /\ \A g \in Files : Len(history'[g]) <= depth
    BY <1>4, <1>6, <2>1 DEF IInv, TypeOK
  <2>3. clean' \in [Files -> BOOLEAN]
    BY <1>4, DisturbsOne DEF IInv
  <2>4. plan' \in [Handlers -> Seq(Planned)]
    BY <1>4, <1>8 DEF IInv, TypeOK
  <2> QED
    BY <1>4, <2>2, <2>3, <2>4 DEF numbers, IInv, TypeOK, Phases
<1>10. Untouching'
  BY <1>1, <1>2, <1>4 DEF IInv, TypeOK, Untouching, Untouched
<1>11. Heads'
  <2> SUFFICES ASSUME NEW b \in Handlers
               PROVE  /\ at'[b] \in {"recorded", "torn"} => plan'[b] # <<>>
                      /\ at'[b] = "idle" => plan'[b] = <<>>
                      /\ prog'[b].tool = "rollback" /\ at'[b] \notin {"recorded", "torn"}
                             => plan'[b] = <<>>
                      /\ prog'[b].tool = "rollback" => Len(plan'[b]) <= 1
    BY DEF Heads
  <2>1. CASE b = c
    <3>1. at'[b] = "recorded" /\ plan'[b] = <<Write(c, n, top)>>
      BY <1>4, <2>1 DEF IInv, TypeOK
    <3>2. Len(plan'[b]) = 1 /\ plan'[b] # <<>>
      BY <1>8, <3>1
    <3> QED
      BY <3>1, <3>2
  <2>2. CASE b # c
    <3>1. at'[b] = at[b] /\ plan'[b] = plan[b] /\ prog'[b] = prog[b]
      BY <1>4, <2>2 DEF IInv, TypeOK
    <3> QED
      BY <3>1 DEF IInv, Heads
  <2> QED
    BY <2>1, <2>2
<1>12. Windows'
  <2>1. plan'[c] = <<Write(c, n, top)>>
    BY <1>4 DEF IInv, TypeOK
  <2>2. Target(c)' = f /\ Content(c)' = top
    BY <1>7, <1>8, <2>1 DEF Target, Content
  <2>3. Others(c) /\ at[c] # "recorded" /\ Open(c, f)'
    BY <1>1, <1>4, <2>2 DEF Others, Open, IInv, TypeOK
  <2>4. \A g \in Files \ {f} : history'[g] = history[g]
    BY <1>4 DEF IInv, TypeOK
  <2>5. history[f] = undo[f] => Ahead(c, f)'
    <3>1. history'[f] = Front(history[f]) /\ prog'[c].tool = "rollback" /\ undo'[f] = undo[f]
      BY <1>1, <1>4 DEF IInv, TypeOK
    <3> QED
      BY <1>4, <2>2, <3>1 DEF Ahead
  <2> QED
    BY <1>4, <2>3, <2>4, <2>5, OpeningWindows
<1> QED
  BY <1>9, <1>10, <1>11, <1>12 DEF IInv

\* A reload trims the history and the undo states alike.
LEMMA SetDepthKeeps ==
    ASSUME IInv, NEW d \in Depths, SetDepth(d)
    PROVE  IInv'
<1>1. d \in Nat /\ depth' = d /\ UNCHANGED <<disk, call, wrote>>
      /\ history' = [f \in Files |-> Trim(history[f], d)]
      /\ undo' = [f \in Files |-> Trim(undo[f], d)]
      /\ clean' = [f \in Files |-> clean[f] /\ \A b \in Handlers : ~Open(b, f)]
  BY FilesAssumption DEF SetDepth
<1>2. TypeOK'
  <2>1. \A f \in Files : history[f] \in Seq(State) /\ undo[f] \in Seq(State)
    BY DEF IInv, TypeOK
  <2>2. \A f \in Files : /\ Trim(history[f], d) \in Seq(State) /\ Len(Trim(history[f], d)) <= d
                         /\ Trim(undo[f], d) \in Seq(State)
    BY <1>1, <2>1, TrimFits
  <2>3. history' \in [Files -> Seq(State)] /\ undo' \in [Files -> Seq(State)]
        /\ \A f \in Files : Len(history'[f]) <= d
    BY <1>1, <2>2
  <2>4. clean' \in [Files -> BOOLEAN]
    BY <1>1 DEF IInv, TypeOK
  <2> QED
    BY <1>1, <2>3, <2>4 DEF SetDepth, call, IInv, TypeOK
<1>3. Untouching' /\ Heads'
  BY <1>1 DEF call, IInv, Untouching, Untouched, Heads
<1>4. Windows'
  <2> SUFFICES ASSUME NEW f \in Files, clean'[f] PROVE Window(f)'
    BY DEF Windows, Window
  <2>1. clean[f] /\ \A b \in Handlers : ~Open(b, f)
    BY <1>1
  <2>2. history[f] = undo[f]
    BY <2>1 DEF IInv, Windows, Window
  <2>3. \A b \in Handlers : ~Open(b, f)'
    BY <1>1, <2>1 DEF call, Open, Target
  <2>4. history'[f] = undo'[f]
    BY <1>1, <2>2
  <2> QED
    BY <2>3, <2>4 DEF Window
<1> QED
  BY <1>2, <1>3, <1>4 DEF IInv

LEMMA OutsideKeeps ==
    ASSUME IInv, NEW g \in Files, NEW s \in {Gone, Text({})}, Outside(g, s)
    PROVE  IInv'
<1>1. s \in State
  <2>1. Gone \in State /\ Text({}) \in State
    BY DEF Gone, Text, State
  <2> QED
    BY <2>1
<1>2. TypeOK'
  BY <1>1 DEF Outside, call, IInv, TypeOK
<1>3. Untouching' /\ Heads'
  BY DEF Outside, call, IInv, Untouching, Untouched, Heads
<1>4. Windows'
  <2> SUFFICES ASSUME NEW f \in Files, clean'[f] PROVE Window(f)'
    BY DEF Windows, Window
  <2>1. clean[f] /\ history'[f] = history[f] /\ undo'[f] = undo[f] /\ Window(f)
    BY DEF Outside, IInv, TypeOK, Windows
  <2>2. \A b \in Handlers : Open(b, f)' <=> Open(b, f)
    BY DEF Outside, call, Open, Target
  <2>3. CASE f = g
    <3>1. \A b \in Handlers : ~Open(b, f)
      BY <2>3 DEF Outside, IInv, TypeOK
    <3> QED
      BY <2>1, <2>2, <3>1 DEF Window
  <2>4. CASE f # g
    <3>1. disk'[f] = disk[f]
      BY <2>4 DEF Outside, IInv, TypeOK
    <3>2. \A b \in Handlers : Ahead(b, f)' <=> Ahead(b, f)
      BY <2>1, <3>1 DEF Ahead, Content, Outside, call
    <3> QED
      BY <2>1, <2>2, <3>2 DEF Window
  <2> QED
    BY <2>3, <2>4
<1> QED
  BY <1>2, <1>3, <1>4 DEF IInv

-----------------------------------------------------------------------------
(* The theorems. *)

\* Every step keeps the inductive invariant.
LEMMA StepKeeps == IInv /\ [Next]_vars => IInv'
<1> SUFFICES ASSUME IInv, [Next]_vars PROVE IInv'
  OBVIOUS
<1>1. ASSUME NEW c \in Handlers, CallStep(c) PROVE IInv'
  <2>1. CASE \E p \in Programs : Begin(c, p)
    BY <2>1, BeginKeeps
  <2>2. CASE Stage(c)
    BY <2>2, StagePlans, PlanningKeeps DEF IInv
  <2>3. CASE Refuse(c) \/ Finish(c)
    BY <2>3, RefuseFinishKeeps
  <2>4. CASE Record(c)
    BY <2>4, RecordKeeps
  <2>5. CASE Pop(c)
    BY <2>5, PopKeeps
  <2>6. CASE Truncate(c)
    BY <2>6, TruncateKeeps
  <2>7. CASE Fill(c) \/ Replace(c) \/ Unmake(c) \/ Delete(c)
    <3>1. plan[c] # <<>>
      BY <2>7 DEF Fill, Replace, Unmake, Delete, WritesNow, IInv, Heads
    <3>2. Wrote(c) /\ (at[c] \in {"recorded", "torn"} \/ WritesNow(c))
          /\ undo' = IF at[c] = "recorded" THEN Undone(c) ELSE undo
      BY <2>7 DEF Fill, Replace, Unmake, Delete, WritesNow
    <3> QED
      BY <3>1, <3>2, WroteKeeps
  <2>8. CASE Fail(c)
    BY <2>8, FailKeeps
  <2> QED
    BY <1>1, <2>1, <2>2, <2>3, <2>4, <2>5, <2>6, <2>7, <2>8 DEF CallStep
<1>2. ASSUME NEW d \in Depths, SetDepth(d) PROVE IInv'
  BY <1>2, SetDepthKeeps
<1>3. ASSUME NEW f \in Files, NEW s \in {Gone, Text({})}, Outside(f, s) PROVE IInv'
  BY <1>3, OutsideKeeps
<1>4. CASE UNCHANGED vars
  <2>1. TypeOK' /\ Untouching' /\ Heads'
    BY <1>4 DEF vars, IInv, TypeOK, Untouching, Untouched, Heads
  <2>2. Windows'
    BY <1>4 DEF vars, IInv, Windows, Window, Ahead, Open, Target, Content
  <2> QED
    BY <2>1, <2>2 DEF IInv
<1> QED
  BY <1>1, <1>2, <1>3, <1>4 DEF Next

LEMMA Invariance == Spec => []IInv
  BY InitHolds, StepKeeps, PTL DEF Spec

\* The types, and with them the bound rollback_depth puts on every history.
THEOREM TypeCorrect == Spec => []TypeOK
<1>1. IInv => TypeOK
  BY DEF IInv
<1> QED
  BY <1>1, Invariance, PTL

\* Between the writes of a file nothing has come between, the states rollback
\* can restore are those its tracked writes replaced, in their order.
THEOREM HistoryIsTrue == Spec => []HistoryIsUndo
<1>1. IInv => HistoryIsUndo
  BY DEF IInv, Windows, Window, HistoryIsUndo
<1> QED
  BY <1>1, Invariance, PTL

\* A rollback puts back what the last tracked write not yet undone replaced,
\* for any number of calls, files and reloads.
THEOREM RollbackIsTrue == Spec => []RollbackUndoes
<1>1. IInv => RollbackUndoes
  <2> SUFFICES ASSUME IInv, NEW c \in Handlers, at[c] = "recorded",
                      prog[c].tool = "rollback", clean[Target(c)]
               PROVE  undo[Target(c)] # <<>> /\ Content(c) = Last(undo[Target(c)])
    BY DEF RollbackUndoes
  <2>1. Target(c) \in Files
    BY TargetFits DEF IInv, Heads
  <2>2. Ahead(c, Target(c))
    BY <2>1 DEF IInv, Windows, Window, Open
  <2> QED
    BY <2>2 DEF Ahead
<1> QED
  BY <1>1, Invariance, PTL

\* A call that is refused, and a dry run, have written nothing.
THEOREM RefusalsWriteNothing == Spec => RefusedUntouched
<1>1. IInv => \A c \in Handlers : Refuse(c) \/ prog[c].dry => Untouched(c)
  <2> SUFFICES ASSUME IInv, NEW c \in Handlers, Refuse(c) \/ prog[c].dry PROVE Untouched(c)
    OBVIOUS
  <2>1. at[c] = "staging"
    <3>1. CASE prog[c].dry
      BY <3>1 DEF IInv, Untouching
    <3>2. CASE Refuse(c)
      <4> SUFFICES ASSUME at[c] = "writing", staged[c] < Len(prog[c].ops), prog[c].tool # "endings"
                   PROVE  FALSE
        BY <3>2 DEF Refuse
      <4>1. staged[c] = Len(prog[c].ops) /\ staged[c] \in Nat
        BY DEF IInv, Untouching, TypeOK
      <4> QED
        BY <4>1
    <3> QED
      BY <3>1, <3>2
  <2> QED
    BY <2>1 DEF IInv, Untouching
<1>2. IInv /\ [Next]_vars
        => [\A c \in Handlers : Refuse(c) \/ prog[c].dry => Untouched(c)]_vars
  BY <1>1
<1> QED
  BY <1>2, Invariance, PTL DEF Spec, RefusedUntouched

-----------------------------------------------------------------------------
(* Edits land: what each change of a batch promises. *)

\* The writes of a plan, and those of them that are about a file.
Entries(writes) == {writes[i] : i \in DOMAIN writes}
Of(writes, f) == {e \in Entries(writes) : e.file = f}

\* Each is kept under the key of a name of its file.
Keyed(c, writes) ==
    \A e \in Entries(writes) : \E n \in Names : e.key = Key(c, n) /\ e.file = FileOf[n]

\* A staged change that stands is in every write planned or made to its file,
\* and there is one.
Bound(c, i) == FileOf[prog[c].ops[i].to]
Promised(c, i) ==
    /\ \A e \in Of(plan[c], Bound(c, i)) : Carries(e.to, c, i)
    /\ \A s \in wrote[c][Bound(c, i)] : Carries(s, c, i)
    /\ Of(plan[c], Bound(c, i)) # {} \/ wrote[c][Bound(c, i)] # {}

Batch(c) == prog[c].tool \in {"edit", "diff"}
Promise(c) ==
    /\ at[c] = "idle" => staged[c] = 0
    /\ Batch(c) => Keyed(c, plan[c]) /\ staged[c] <= Len(prog[c].ops)
    /\ Batch(c) => \A i \in 1..staged[c] : Standing(c, i) => Promised(c, i)

Promises == \A c \in Handlers : Promise(c)

\* Put takes away what was planned under the key, and nothing else.
LEMMA PutEntries ==
    ASSUME NEW writes \in Seq(Planned), NEW w \in Planned
    PROVE  Entries(Put(writes, w)) = {e \in Entries(writes) : e.key # w.key} \cup {w}
<1>1. CASE \E i \in DOMAIN writes : writes[i].key = w.key
  <2>1. Put(writes, w) = [i \in DOMAIN writes |-> IF writes[i].key = w.key THEN w ELSE writes[i]]
    BY <1>1 DEF Put
  <2> QED
    BY <1>1, <2>1, ZenonT(40) DEF Entries
<1>2. CASE ~\E i \in DOMAIN writes : writes[i].key = w.key
  <2>1. Put(writes, w) = Append(writes, w)
    BY <1>2 DEF Put
  <2>2. /\ DOMAIN Append(writes, w) = 1..(Len(writes) + 1)
        /\ DOMAIN writes = 1..Len(writes)
        /\ \A i \in 1..Len(writes) : Append(writes, w)[i] = writes[i]
        /\ Append(writes, w)[Len(writes) + 1] = w
    OBVIOUS
  <2>3. Len(writes) \in Nat
    OBVIOUS
  <2>4. 1..(Len(writes) + 1) = 1..Len(writes) \cup {Len(writes) + 1}
    BY <2>3
  <2>5. Entries(Append(writes, w)) = Entries(writes) \cup {w}
    BY <2>2, <2>4, ZenonT(40) DEF Entries
  <2>6. \A e \in Entries(writes) : e.key # w.key
    BY <1>2 DEF Entries
  <2> QED
    BY <2>1, <2>5, <2>6
<1> QED
  BY <1>1, <1>2

\* In a batch the key of a name is the key of its file.
LEMMA KeysOfFiles ==
    ASSUME OneKey, NEW c \in Handlers, Batch(c), NEW m \in Names, NEW n \in Names
    PROVE  Key(c, m) = Key(c, n) <=> FileOf[m] = FileOf[n]
  BY DEF OneKey, Batch, Key

\* A plan that has one write, w, about a file, and of the others what it had.
Holds(c, before, after, f, w) ==
    /\ Keyed(c, after)
    /\ w \in Of(after, f)
    /\ \A e \in Of(after, f) : e = w
    /\ \A g \in Files : g # f => Of(after, g) = Of(before, g)

\* So a write put in the plan is the only one about its file.
LEMMA PutAbout ==
    ASSUME OneKey, NEW c \in Handlers, Batch(c),
           NEW writes \in Seq(Planned), Keyed(c, writes), NEW n \in Names, NEW to \in State
    PROVE  Holds(c, writes, Put(writes, Write(c, n, to)), FileOf[n], Write(c, n, to))
<1> DEFINE w == Write(c, n, to)
<1>1. w \in Planned /\ w.key = Key(c, n) /\ w.file = FileOf[n]
  BY WriteFits DEF Write
<1> HIDE DEF w
<1>2. Entries(Put(writes, w)) = {e \in Entries(writes) : e.key # w.key} \cup {w}
  BY <1>1, PutEntries
<1>3. ASSUME NEW e \in Entries(writes)
      PROVE  e.key = w.key <=> e.file = FileOf[n]
  <2>1. PICK m \in Names : e.key = Key(c, m) /\ e.file = FileOf[m]
    BY DEF Keyed
  <2> QED
    BY <1>1, <2>1, KeysOfFiles
<1>4. Keyed(c, Put(writes, w))
  BY <1>1, <1>2 DEF Keyed
<1>5. w \in Of(Put(writes, w), FileOf[n]) /\ \A e \in Of(Put(writes, w), FileOf[n]) : e = w
  BY <1>1, <1>2, <1>3 DEF Of
<1>6. \A f \in Files : f # FileOf[n] => Of(Put(writes, w), f) = Of(writes, f)
  BY <1>1, <1>2, <1>3 DEF Of
<1> QED
  BY <1>4, <1>5, <1>6 DEF w, Holds

\* A change to a file the plan is about starts from what is planned for it.
LEMMA SourcePlanned ==
    ASSUME OneKey, NEW c \in Handlers, Batch(c), Keyed(c, plan[c]), NEW n \in Names,
           Of(plan[c], FileOf[n]) # {}
    PROVE  \E e \in Of(plan[c], FileOf[n]) : Source(c, n) = e.to
<1>1. PICK i \in DOMAIN plan[c] : plan[c][i].file = FileOf[n]
  BY DEF Of, Entries
<1>2. \A k \in DOMAIN plan[c] : plan[c][k].key = Key(c, n) <=> plan[c][k].file = FileOf[n]
  <2> TAKE k \in DOMAIN plan[c]
  <2>1. PICK m \in Names : plan[c][k].key = Key(c, m) /\ plan[c][k].file = FileOf[m]
    BY DEF Keyed, Entries
  <2> QED
    BY <2>1, KeysOfFiles
<1>3. InPlan(c, n) # {}
  BY <1>1, <1>2 DEF InPlan
<1>4. PICK k \in InPlan(c, n) : Source(c, n) = plan[c][k].to
  BY <1>3 DEF Source
<1> QED
  BY <1>2, <1>4 DEF InPlan, Of, Entries

\* What a promise of a call depends on.
SameCall(b) ==
    at'[b] = at[b] /\ prog'[b] = prog[b] /\ staged'[b] = staged[b]
    /\ plan'[b] = plan[b] /\ serial'[b] = serial[b] /\ wrote'[b] = wrote[b]

\* The standing of a change, and what carries it, are a matter of its call.
LEMMA SameTerms ==
    ASSUME NEW c \in Handlers, prog'[c] = prog[c], serial'[c] = serial[c]
    PROVE  /\ Batch(c)' <=> Batch(c)
           /\ \A i : (Standing(c, i)' <=> Standing(c, i)) /\ Bound(c, i)' = Bound(c, i)
           /\ \A s, i : Carries(s, c, i)' <=> Carries(s, c, i)
           /\ \A n : Key(c, n)' = Key(c, n)
  BY DEF Batch, Standing, Bound, Carries, Key

LEMMA PromiseStays ==
    ASSUME NEW c \in Handlers, Promise(c), prog'[c] = prog[c], serial'[c] = serial[c],
           staged'[c] = staged[c], plan'[c] = plan[c], wrote'[c] = wrote[c],
           at'[c] = "idle" => at[c] = "idle"
    PROVE  Promise(c)'
<1>1. \A i : Promised(c, i)' <=> Promised(c, i)
  BY SameTerms DEF Promised
<1>2. Keyed(c, plan[c])' <=> Keyed(c, plan[c])
  BY SameTerms DEF Keyed
<1> QED
  BY <1>1, <1>2, SameTerms DEF Promise

\* A change of a batch is one of its operations, to a file.
LEMMA BoundFits ==
    ASSUME TypeOK, NEW c \in Handlers, Promise(c), Batch(c), NEW i \in 1..staged[c]
    PROVE  /\ i \in 1..Len(prog[c].ops) /\ prog[c].ops[i] \in Op
           /\ Bound(c, i) \in Files
<1>1. prog[c] \in Programs
  BY DEF TypeOK, Batch, Idle
<1>2. prog[c].ops \in Seq(Op)
  BY <1>1, SensibleFits
<1>3. i \in 1..Len(prog[c].ops)
  BY <1>2 DEF Promise, TypeOK
<1>4. prog[c].ops[i] \in Op
  BY <1>2, <1>3
<1> QED
  BY <1>3, <1>4, FilesAssumption DEF Op, Bound

\* The staging of a change carries what was staged before it.
LEMMA StagingPromises ==
    ASSUME OneKey, RenamesMove, IInv, NEW c \in Handlers, Promise(c), Stage(c), Batch(c)
    PROVE  Promise(c)'
<1> DEFINE j == staged[c] + 1
<1>0. OpOf(c).name \in Names /\ OpOf(c).to \in Names
  BY StagePlans, OpFits DEF Op, IInv
<1> PICK n \in Names : n = OpOf(c).name
  BY <1>0
<1> PICK new \in Names : new = OpOf(c).to
  BY <1>0
<1>1. /\ prog[c] \in Programs /\ Staging(c) /\ staged[c] \in Nat /\ plan[c] \in Seq(Planned)
      /\ prog[c].ops \in Seq(Op)
  BY StagePlans, OpFits, SensibleFits DEF IInv, TypeOK
<1>2. j \in 1..Len(prog[c].ops) /\ OpOf(c) = prog[c].ops[j]
  BY <1>1 DEF Staging, OpOf
<1>3. /\ OpOf(c).kind \in {"change", "create", "delete", "rename"}
      /\ OpOf(c).kind # "rename" => new = n
      /\ OpOf(c).kind = "rename" => FileOf[n] # FileOf[new]
  <2>1. /\ OpOf(c).kind \in OpsOf(prog[c].tool)
        /\ OpOf(c).kind # "rename" => new = n
    BY <1>1, <1>2, SensibleFits
  <2>2. OpOf(c).kind \in {"change", "create", "delete", "rename"}
    BY <2>1 DEF OpsOf, Batch
  <2>3. j \in DOMAIN prog[c].ops
    BY <1>1, <1>2
  <2>4. OpOf(c).kind = "rename" => FileOf[n] # FileOf[new]
    BY <1>1, <1>2, <2>3 DEF RenamesMove
  <2> QED
    BY <2>1, <2>2, <2>4
<1>4. PICK writes \in Seq(Planned) : Planning(c, writes)
  BY StagePlans DEF IInv
<1>5. /\ prog'[c] = prog[c] /\ serial'[c] = serial[c] /\ wrote'[c] = wrote[c]
      /\ at'[c] = at[c] /\ staged'[c] = j /\ at[c] # "idle"
  BY <1>1, <1>4 DEF Planning, numbers, ghosts, Staging, IInv, TypeOK
<1>6. \A f \in Files : wrote[c][f] = {}
  <2>1. at[c] = "staging"
    <3> SUFFICES ASSUME at[c] = "writing" PROVE FALSE
      BY <1>1 DEF Staging
    <3>1. staged[c] = Len(prog[c].ops)
      BY DEF IInv, Untouching, Batch
    <3> QED
      BY <1>1, <3>1 DEF Staging
  <2> QED
    BY <2>1 DEF IInv, Untouching, Untouched
<1>7. Keyed(c, plan[c])
  BY DEF Promise
<1>8. \A i \in 1..staged[c] :
        i \in 1..Len(prog[c].ops) /\ prog[c].ops[i] \in Op /\ Bound(c, i) \in Files
  BY BoundFits DEF IInv
<1>9. FileOf[n] \in Files /\ FileOf[new] \in Files /\ Bound(c, j) = FileOf[new]
  BY <1>1, <1>2, FilesAssumption DEF Bound
\* What is left to show: the keys, the change staged, and those before it.
<1>10. ASSUME Keyed(c, plan'[c]),
              Of(plan'[c], Bound(c, j)) # {},
              \A e \in Of(plan'[c], Bound(c, j)) : Carries(e.to, c, j),
              \A i \in 1..staged[c] : Standing(c, i) =>
                 \/ Of(plan'[c], Bound(c, i)) = Of(plan[c], Bound(c, i))
                 \/ /\ Of(plan'[c], Bound(c, i)) # {}
                    /\ \A e \in Of(plan'[c], Bound(c, i)) : Carries(e.to, c, i)
       PROVE  Promise(c)'
  <2>1. Keyed(c, plan[c])'
    BY <1>5, <1>10, SameTerms DEF Keyed
  <2>2. ASSUME NEW i \in 1..j, Standing(c, i)
        PROVE  Promised(c, i)'
    <3>1. Bound(c, i)' = Bound(c, i) /\ \A s : Carries(s, c, i)' <=> Carries(s, c, i)
      BY <1>5, SameTerms
    <3>2. Bound(c, i) \in Files /\ (i # j => i \in 1..staged[c])
      BY <1>1, <1>8, <1>9
    <3>3. wrote'[c][Bound(c, i)] = {}
      BY <1>5, <1>6, <3>2
    <3>4. CASE /\ Of(plan'[c], Bound(c, i)) # {}
               /\ \A e \in Of(plan'[c], Bound(c, i)) : Carries(e.to, c, i)
      BY <3>1, <3>3, <3>4 DEF Promised
    <3>5. CASE i \in 1..staged[c] /\ Of(plan'[c], Bound(c, i)) = Of(plan[c], Bound(c, i))
      <4>1. Promised(c, i)
        BY <2>2, <3>5 DEF Promise
      <4> QED
        BY <1>5, <3>1, <3>3, <3>5, <4>1 DEF Promised
    <3> QED
      BY <1>10, <2>2, <3>2, <3>4, <3>5
  <2> QED
    BY <1>1, <1>2, <1>5, <2>1, <2>2, SameTerms DEF Promise
<1>11. CASE StageChange(c)
  <2>2. Text(Source(c, n).data \cup {Mark(c)}) \in State
    BY SourceFits, MarkFits DEF IInv, State
  <2> PICK to \in State : to = Text(Source(c, n).data \cup {Mark(c)})
    BY <2>2
  <2> DEFINE w == Write(c, n, to)
  <2>1. /\ OpOf(c).kind = "change" /\ Source(c, n).existed
        /\ plan'[c] = Put(plan[c], w)
    BY <1>1, <1>11 DEF StageChange, Planning, IInv, TypeOK
  <2>3. w.to.data = Source(c, n).data \cup {Mark(c)} /\ Mark(c) = <<serial[c], j>>
    BY DEF Write, Text, Mark
  <2>4. Holds(c, plan[c], plan'[c], FileOf[n], w)
    <3>1. Holds(c, plan[c], Put(plan[c], w), FileOf[n], w)
      BY <1>1, <1>7, PutAbout
    <3> QED
      BY <2>1, <3>1
  <2> HIDE DEF w
  <2>5. Bound(c, j) = FileOf[n] /\ Carries(w.to, c, j)
    BY <1>2, <1>3, <1>9, <2>1, <2>3 DEF Carries
  <2>6. ASSUME NEW i \in 1..staged[c], Standing(c, i), Bound(c, i) = FileOf[n]
        PROVE  Carries(w.to, c, i)
    <3>1. Of(plan[c], FileOf[n]) # {} /\ \A e \in Of(plan[c], FileOf[n]) : Carries(e.to, c, i)
      BY <1>6, <1>8, <2>6 DEF Promise, Promised
    <3>2. Carries(Source(c, n), c, i)
      BY <1>1, <1>7, <3>1, SourcePlanned
    <3> QED
      BY <2>1, <2>3, <3>2 DEF Carries
  <2> QED
    BY <1>8, <1>10, <2>4, <2>5, <2>6 DEF Holds
<1>12. ASSUME NEW i \in 1..staged[c], Standing(c, i),
              OpOf(c).kind \in {"create", "delete", "rename"}
       PROVE  Bound(c, i) \notin {FileOf[n], FileOf[new]}
  <2>1. j \in (i + 1)..Len(prog[c].ops)
    BY <1>1, <1>2, <1>12
  <2> QED
    BY <1>2, <1>12, <2>1 DEF Standing, Bound
<1>13. CASE StageCreate(c)
  <2>2. Text({Mark(c)}) \in State
    <3>1. Text({} \cup {Mark(c)}) \in State /\ {} \cup {Mark(c)} = {Mark(c)}
      BY MarkFits DEF IInv
    <3> QED
      BY <3>1
  <2> PICK to \in State : to = Text({Mark(c)})
    BY <2>2
  <2> DEFINE w == Write(c, n, to)
  <2>1. OpOf(c).kind = "create" /\ plan'[c] = Put(plan[c], w)
    BY <1>1, <1>13 DEF StageCreate, Planning, IInv, TypeOK
  <2>3. w.to.data = {Mark(c)} /\ Mark(c) = <<serial[c], j>>
    BY DEF Write, Text, Mark
  <2>4. Holds(c, plan[c], plan'[c], FileOf[n], w)
    <3>1. Holds(c, plan[c], Put(plan[c], w), FileOf[n], w)
      BY <1>1, <1>7, PutAbout
    <3> QED
      BY <2>1, <3>1
  <2> HIDE DEF w
  <2>5. Bound(c, j) = FileOf[n] /\ Carries(w.to, c, j)
    BY <1>2, <1>3, <1>9, <2>1, <2>3 DEF Carries
  <2> QED
    BY <1>8, <1>10, <1>12, <2>1, <2>4, <2>5 DEF Holds
<1>14. CASE StageDelete(c)
  <2> DEFINE w == Write(c, n, Gone)
  <2>1. OpOf(c).kind = "delete" /\ plan'[c] = Put(plan[c], w)
    BY <1>1, <1>14 DEF StageDelete, Planning, IInv, TypeOK
  <2>2. Gone \in State /\ ~w.to.existed
    BY DEF Gone, State, Write
  <2>3. Holds(c, plan[c], plan'[c], FileOf[n], w)
    <3>1. Holds(c, plan[c], Put(plan[c], w), FileOf[n], w)
      BY <1>1, <1>7, <2>2, PutAbout
    <3> QED
      BY <2>1, <3>1
  <2> HIDE DEF w
  <2>4. Bound(c, j) = FileOf[n] /\ Carries(w.to, c, j)
    BY <1>2, <1>3, <1>9, <2>1, <2>2 DEF Carries
  <2> QED
    BY <1>8, <1>10, <1>12, <2>1, <2>3, <2>4 DEF Holds
<1>15. CASE StageRename(c)
  <2>2. Text(Source(c, n).data \cup {Mark(c)}) \in State /\ Gone \in State
    BY SourceFits, MarkFits DEF IInv, State, Gone
  <2> PICK to \in State : to = Text(Source(c, n).data \cup {Mark(c)})
    BY <2>2
  <2> DEFINE w == Write(c, new, to)
             one == Put(plan[c], w)
  <2>1. OpOf(c).kind = "rename" /\ plan'[c] = Put(one, Write(c, n, Gone))
    BY <1>1, <1>15 DEF StageRename, Planning, IInv, TypeOK
  <2>3. w.to.data = Source(c, n).data \cup {Mark(c)} /\ Mark(c) = <<serial[c], j>>
    BY DEF Write, Text, Mark
  <2>4. one \in Seq(Planned)
    BY <1>1, <2>2, WriteFits, PutFits
  <2>5. Holds(c, plan[c], one, FileOf[new], w)
    BY <1>1, <1>7, PutAbout
  <2> HIDE DEF w, one
  <2>6. Holds(c, one, plan'[c], FileOf[n], Write(c, n, Gone))
    <3>1. Keyed(c, one) /\ Gone \in State
      BY <2>2, <2>5 DEF Holds
    <3>2. Holds(c, one, Put(one, Write(c, n, Gone)), FileOf[n], Write(c, n, Gone))
      BY <2>4, <3>1, PutAbout
    <3> QED
      BY <2>1, <3>2
  <2>7. /\ Bound(c, j) = FileOf[new] /\ Of(plan'[c], Bound(c, j)) = Of(one, FileOf[new])
        /\ Carries(w.to, c, j)
    BY <1>2, <1>3, <1>9, <2>1, <2>3, <2>5, <2>6 DEF Carries, Holds
  <2> QED
    BY <1>8, <1>10, <1>12, <2>1, <2>5, <2>6, <2>7 DEF Holds
<1>16. ~StageConvert(c) /\ ~StageSet(c)
  BY <1>3 DEF StageConvert, StageSet
<1> QED
  BY <1>11, <1>13, <1>14, <1>15, <1>16 DEF Stage

\* A write moves what was promised from the plan to what is written.
LEMMA WritingPromises ==
    ASSUME TypeOK, NEW c \in Handlers, Promise(c), Wrote(c), plan[c] # <<>>
    PROVE  Promise(c)'
<1>1. /\ prog'[c] = prog[c] /\ serial'[c] = serial[c] /\ staged'[c] = staged[c]
      /\ at'[c] = "writing" /\ plan'[c] = Tail(plan[c])
      /\ \A f \in Files :
           wrote'[c][f] = IF f = Target(c) THEN wrote[c][f] \cup {Content(c)} ELSE wrote[c][f]
  BY DEF Wrote, numbers, TypeOK
<1>2. /\ Entries(plan[c]) = Entries(Tail(plan[c])) \cup {plan[c][1]}
  <2>1. plan[c] \in Seq(Planned)
    BY DEF TypeOK
  <2>2. /\ DOMAIN plan[c] = 1..Len(plan[c]) /\ Len(plan[c]) \in Nat /\ Len(plan[c]) # 0
        /\ DOMAIN Tail(plan[c]) = 1..(Len(plan[c]) - 1)
        /\ \A i \in 1..(Len(plan[c]) - 1) : Tail(plan[c])[i] = plan[c][i + 1]
    BY <2>1
  <2>3. \A i \in 1..Len(plan[c]) : i = 1 \/ (i - 1 \in 1..(Len(plan[c]) - 1) /\ (i - 1) + 1 = i)
    BY <2>2
  <2>4. \A i \in 1..(Len(plan[c]) - 1) : i + 1 \in 1..Len(plan[c])
    BY <2>2
  <2>5. 1 \in 1..Len(plan[c])
    BY <2>2
  <2>6. ASSUME NEW e \in Entries(plan[c]) PROVE e \in Entries(Tail(plan[c])) \cup {plan[c][1]}
    <3>1. PICK i \in 1..Len(plan[c]) : e = plan[c][i]
      BY <2>2 DEF Entries
    <3>2. CASE i = 1
      BY <3>1, <3>2
    <3>3. CASE i # 1
      <4>1. i - 1 \in 1..(Len(plan[c]) - 1) /\ Tail(plan[c])[i - 1] = plan[c][i]
        BY <2>2, <2>3, <3>3
      <4> QED
        BY <2>2, <3>1, <4>1 DEF Entries
    <3> QED
      BY <3>2, <3>3
  <2>7. ASSUME NEW e \in Entries(Tail(plan[c])) PROVE e \in Entries(plan[c])
    BY <2>2, <2>4 DEF Entries
  <2>8. plan[c][1] \in Entries(plan[c])
    BY <2>2, <2>5 DEF Entries
  <2> QED
    BY <2>6, <2>7, <2>8
<1>3. ASSUME Batch(c) PROVE Keyed(c, plan[c])'
  BY <1>1, <1>2, <1>3, SameTerms DEF Keyed, Promise
<1>4. ASSUME NEW i, Promised(c, i), Bound(c, i) \in Files PROVE Promised(c, i)'
  <2> PICK f \in Files : f = Bound(c, i)
    BY <1>4
  <2>1. Bound(c, i)' = f /\ \A s : Carries(s, c, i)' <=> Carries(s, c, i)
    BY <1>1, SameTerms
  <2>2. CASE f = Target(c)
    <3>1. plan[c][1] \in Of(plan[c], f)
      BY <1>2, <2>2 DEF Of, Target
    <3>2. Of(plan'[c], f) \subseteq Of(plan[c], f)
      BY <1>1, <1>2 DEF Of
    <3>3. wrote'[c][f] = wrote[c][f] \cup {Content(c)} /\ Carries(Content(c), c, i)
      BY <1>1, <1>4, <2>2, <3>1 DEF Promised, Content
    <3> QED
      BY <1>4, <2>1, <3>2, <3>3 DEF Promised
  <2>3. CASE f # Target(c)
    <3>1. Of(plan'[c], f) = Of(plan[c], f)
      BY <1>1, <1>2, <2>3 DEF Of, Target
    <3>2. wrote'[c][f] = wrote[c][f]
      BY <1>1, <2>3
    <3> QED
      BY <1>4, <2>1, <3>1, <3>2 DEF Promised
  <2> QED
    BY <2>2, <2>3
<1>5. ASSUME Batch(c), NEW i \in 1..staged[c], Standing(c, i) PROVE Promised(c, i)'
  BY <1>4, <1>5, BoundFits DEF Promise
<1> QED
  BY <1>1, <1>3, <1>5, SameTerms DEF Promise

\* A call that is answered holds no promise any more.
LEMMA AnswerPromises ==
    ASSUME TypeOK, NEW c \in Handlers, Answer(c)
    PROVE  Promise(c)'
<1>1. prog'[c] = Idle /\ staged'[c] = 0
  BY DEF Answer, TypeOK
<1> QED
  BY <1>1 DEF Promise, Batch, Idle

\* A step of a call leaves the other calls alone.
LEMMA OthersStay ==
    ASSUME TypeOK, NEW c \in Handlers, CallStep(c), NEW b \in Handlers \ {c}
    PROVE  SameCall(b)
<1>1. ASSUME NEW writes, Planning(c, writes) PROVE SameCall(b)
  BY <1>1 DEF Planning, SameCall, numbers, ghosts, TypeOK
<1>2. CASE Answer(c)
  BY <1>2 DEF Answer, SameCall, TypeOK
<1>3. CASE Wrote(c)
  BY <1>3 DEF Wrote, SameCall, numbers, TypeOK
<1>4. ASSUME NEW p, Begin(c, p) PROVE SameCall(b)
  BY <1>4 DEF Begin, SameCall, ghosts, TypeOK
<1>5. CASE Record(c) \/ Pop(c) \/ Truncate(c)
  BY <1>5 DEF Record, Pop, Truncate, SameCall, numbers, TypeOK
<1>6. CASE Stage(c)
  BY <1>1, <1>6, StagePlans
<1>7. CASE Refuse(c) \/ Fail(c) \/ Finish(c)
  BY <1>2, <1>7 DEF Refuse, Fail, Finish
<1>8. CASE Fill(c) \/ Replace(c) \/ Unmake(c) \/ Delete(c)
  BY <1>3, <1>8 DEF Fill, Replace, Unmake, Delete
<1> QED
  BY <1>4, <1>5, <1>6, <1>7, <1>8 DEF CallStep

\* Every step of a call keeps its promises.
LEMMA CallPromises ==
    ASSUME OneKey, RenamesMove, IInv, NEW c \in Handlers, Promise(c), CallStep(c)
    PROVE  Promise(c)'
<1>1. ASSUME NEW p \in Programs, Begin(c, p) PROVE Promise(c)'
  <2>1. /\ staged'[c] = 0 /\ plan'[c] = <<>> /\ at'[c] = "staging" /\ prog'[c] = p
    BY <1>1 DEF Begin, Promise, IInv, TypeOK, Heads
  <2>2. Keyed(c, plan[c])'
    BY <2>1 DEF Keyed, Entries
  <2>3. staged'[c] <= Len(prog'[c].ops)
    <3>1. Len(p.ops) \in Nat
      BY SensibleFits
    <3> QED
      BY <2>1, <3>1
  <2>4. 1..staged'[c] = {}
    BY <2>1
  <2> QED
    BY <2>1, <2>2, <2>3, <2>4 DEF Promise
<1>2. CASE Stage(c)
  <2>1. CASE Batch(c)
    BY <1>2, <2>1, StagingPromises
  <2>2. CASE ~Batch(c)
    <3>1. prog'[c] = prog[c] /\ at'[c] # "idle"
      BY <1>2, StagePlans DEF IInv, TypeOK, Planning, Staging
    <3> QED
      BY <2>2, <3>1 DEF Promise, Batch
  <2> QED
    BY <2>1, <2>2
<1>3. CASE Record(c) \/ Truncate(c)
  <2>1. /\ prog'[c] = prog[c] /\ serial'[c] = serial[c] /\ staged'[c] = staged[c]
        /\ plan'[c] = plan[c] /\ wrote'[c] = wrote[c] /\ at'[c] # "idle"
    BY <1>3 DEF Record, Truncate, numbers, IInv, TypeOK
  <2> QED
    BY <2>1, PromiseStays
<1>4. CASE Pop(c)
  <2>1. prog'[c] = prog[c] /\ prog[c].tool = "rollback" /\ at'[c] # "idle"
    BY <1>4 DEF Pop, IInv, TypeOK
  <2> QED
    BY <2>1 DEF Promise, Batch
<1>5. CASE Refuse(c) \/ Fail(c) \/ Finish(c)
  BY <1>5, AnswerPromises DEF Refuse, Fail, Finish, IInv
<1>6. CASE Fill(c) \/ Replace(c) \/ Unmake(c) \/ Delete(c)
  <2>1. Wrote(c) /\ plan[c] # <<>>
    BY <1>6 DEF Fill, Replace, Unmake, Delete, WritesNow, IInv, Heads
  <2> QED
    BY <2>1, WritingPromises DEF IInv
<1> QED
  BY <1>1, <1>2, <1>3, <1>4, <1>5, <1>6 DEF CallStep

LEMMA PromisesKept ==
    ASSUME OneKey, RenamesMove, IInv, Promises, [Next]_vars
    PROVE  Promises'
<1> SUFFICES ASSUME NEW b \in Handlers PROVE Promise(b)'
  BY DEF Promises
<1>1. Promise(b)
  BY DEF Promises
<1>2. CASE SameCall(b)
  BY <1>1, <1>2, PromiseStays DEF SameCall
<1>3. ASSUME NEW c \in Handlers, CallStep(c) PROVE Promise(b)'
  <2>1. CASE b = c
    BY <1>1, <1>3, <2>1, CallPromises
  <2>2. CASE b # c
    BY <1>2, <1>3, <2>2, OthersStay DEF IInv
  <2> QED
    BY <2>1, <2>2
<1>4. ASSUME NEW d \in Depths, SetDepth(d) PROVE Promise(b)'
  BY <1>2, <1>4 DEF SetDepth, SameCall, call
<1>5. ASSUME NEW f \in Files, NEW s \in {Gone, Text({})}, Outside(f, s) PROVE Promise(b)'
  BY <1>2, <1>5 DEF Outside, SameCall, call
<1>6. CASE UNCHANGED vars
  BY <1>2, <1>6 DEF vars, call, ghosts, SameCall
<1> QED
  BY <1>3, <1>4, <1>5, <1>6 DEF Next

\* A batch that is reported applied has each of its changes in what it wrote
\* (applyEditBatch, planDiff), for all programs, files and interleavings, where
\* the key of the plan tells files apart and a rename is to another file.
THEOREM BatchesLand ==
    ASSUME OneKey, RenamesMove
    PROVE  Spec => EditsLand
<1>1. Init => Promises
  BY DEF Init, Promises, Promise, Batch, Idle
<1>2. Spec => []Promises
  BY <1>1, PromisesKept, Invariance, PTL DEF Spec
<1>3. ASSUME IInv, Promises, NEW c \in Handlers, Finish(c),
             prog[c].tool \in {"edit", "diff"}, ~prog[c].dry,
             NEW i \in DOMAIN prog[c].ops, Standing(c, i)
      PROVE  Landed(c, i)
  <2>1. Batch(c) /\ Promise(c) /\ plan[c] = <<>> /\ staged[c] = Len(prog[c].ops)
    BY <1>3 DEF Batch, Promises, Finish
  <2>2. prog[c] \in Programs
    BY <1>3 DEF IInv, TypeOK, Idle
  <2>3. DOMAIN prog[c].ops = 1..Len(prog[c].ops)
    BY <2>2, SensibleFits
  <2>4. Promised(c, i)
    BY <1>3, <2>1, <2>3 DEF Promise
  <2>5. Of(plan[c], Bound(c, i)) = {}
    BY <2>1 DEF Of, Entries
  <2> QED
    BY <2>4, <2>5 DEF Promised, Landed, Bound
<1>4. IInv /\ Promises /\ [Next]_vars =>
        [\A c \in Handlers : Finish(c) /\ prog[c].tool \in {"edit", "diff"} /\ ~prog[c].dry =>
           \A i \in DOMAIN prog[c].ops : Standing(c, i) => Landed(c, i)]_vars
  BY <1>3
<1> QED
  BY <1>2, <1>4, Invariance, PTL DEF Spec, EditsLand

-----------------------------------------------------------------------------
(* Texts, and what holds of two holds of the one after the other. *)

\* (The provers do not know a string for a member of STRING.)
Chars == STRING \cup {CR, LF, NUL}
Str == Seq(Chars)
Plain == Chars \ {CR}

(* Every LF is the second half of a CRLF.                                    *)
Led(s) == \A i \in 1..Len(s) : s[i] = LF => i > 1 /\ s[i - 1] = CR

LEMMA Characters == /\ CR \in Chars /\ LF \in Chars /\ LF \in Plain
                    /\ CR # LF /\ NUL # LF /\ NUL # CR
<1>1. CR # LF /\ NUL # LF /\ NUL # CR
  BY DEF CR, LF, NUL
<1> QED BY <1>1 DEF Plain, Chars

LEMMA SeqGrows == ASSUME NEW S, NEW T, S \subseteq T, NEW s \in Seq(S) PROVE s \in Seq(T)
<1>1. Len(s) \in Nat /\ s = [i \in 1..Len(s) |-> s[i]] /\ \A i \in 1..Len(s) : s[i] \in S
  OBVIOUS
<1>2. \A i \in 1..Len(s) : s[i] \in T
  BY <1>1
<1>3. [i \in 1..Len(s) |-> s[i]] \in Seq(T)
  BY <1>1, <1>2
<1> QED BY <1>1, <1>3

LEMMA StringsAreStr == ASSUME NEW s \in Seq(STRING) PROVE s \in Str
<1>1. STRING \subseteq Chars
  BY DEF Chars
<1> QED BY <1>1, SeqGrows DEF Str

LEMMA SingleTyped == ASSUME NEW S, NEW c \in S PROVE <<c>> \in Seq(S) /\ Len(<<c>>) = 1 /\ <<c>>[1] = c
OBVIOUS

LEMMA PairTyped ==
  ASSUME NEW S, NEW c \in S, NEW d \in S
  PROVE  <<c, d>> \in Seq(S) /\ Len(<<c, d>>) = 2 /\ <<c, d>>[1] = c /\ <<c, d>>[2] = d
OBVIOUS

LEMMA PlainTyped == ASSUME NEW s \in Seq(Plain) PROVE s \in Str /\ \A i \in 1..Len(s) : s[i] # CR
<1>1. Plain \subseteq Chars
  BY DEF Plain
<1>2. s \in Str
  BY <1>1, SeqGrows DEF Str
<1>3. \A i \in 1..Len(s) : s[i] \in Plain
  OBVIOUS
<1> QED BY <1>2, <1>3 DEF Plain

(* A set of sequences that has the empty one and, with two, one after the    *)
(* other, has all that are put together of its members.                      *)
LEMMA FlattenStays ==
  ASSUME NEW S, NEW P \in SUBSET Seq(S), <<>> \in P,
         \A a, b \in P : a \o b \in P,
         NEW s \in Seq(P)
  PROVE  FlattenSeq(s) \in P
<1> DEFINE n == Len(s)
<1>1. s \in Seq(Seq(S)) /\ n \in Nat /\ \A i \in 1..n : s[i] \in P
  OBVIOUS
<1>2. PICK f : Joins(S, s, f)
  BY <1>1, JoinsExist
<1>3. f[0] = <<>> /\ \A i \in 1..n : f[i] = f[i - 1] \o s[i]
  BY <1>2 DEF Joins
<1> HIDE DEF n
<1> DEFINE T == {i \in Nat : i <= n => f[i] \in P}
<1>4. 0 \in T
  BY <1>3
<1>5. ASSUME NEW i \in T PROVE i + 1 \in T
  <2>1. ASSUME i + 1 <= n PROVE f[i + 1] \in P
    <3>1. i + 1 \in 1..n /\ (i + 1) - 1 = i /\ f[i] \in P
      BY <1>1, <2>1
    <3>2. f[i + 1] = f[i] \o s[i + 1]
      BY <1>3, <3>1
    <3> QED BY <1>1, <3>1, <3>2
  <2> QED BY <2>1
<1>6. T = Nat
  <2> HIDE DEF T
  <2>1. T \in SUBSET Nat
    BY DEF T
  <2> QED BY <1>4, <1>5, <2>1, Induction
<1>7. f[n] \in P
  BY <1>1, <1>6
<1>8. FlattenSeq(s) = f[n]
  BY <1>1, <1>2, JoinsEnd DEF n
<1> QED BY <1>7, <1>8

LEMMA LedCat == ASSUME NEW a \in Str, NEW b \in Str, Led(a), Led(b) PROVE Led(a \o b)
<1> USE DEF Str
<1>1. /\ Len(a \o b) = Len(a) + Len(b) /\ Len(a) \in Nat /\ Len(b) \in Nat
      /\ \A i \in 1..Len(a) : (a \o b)[i] = a[i]
      /\ \A i \in 1..Len(b) : (a \o b)[Len(a) + i] = b[i]
  BY CatFacts
<1> DEFINE ab == a \o b
<1> HIDE DEF ab
<1>2. ASSUME NEW i \in 1..Len(ab), ab[i] = LF PROVE i > 1 /\ ab[i - 1] = CR
  <2>1. CASE i <= Len(a)
    BY <1>1, <1>2, <2>1 DEF Led, ab
  <2>2. CASE i > Len(a)
    <3> DEFINE j == i - Len(a)
    <3>1. j \in 1..Len(b) /\ i = Len(a) + j
      BY <1>1, <2>2 DEF ab
    <3> HIDE DEF j
    <3>2. j > 1 /\ b[j - 1] = CR
      BY <1>1, <1>2, <3>1 DEF Led, ab
    <3>3. j - 1 \in 1..Len(b) /\ i - 1 = Len(a) + (j - 1)
      BY <1>1, <3>1, <3>2
    <3> QED BY <1>1, <3>1, <3>2, <3>3 DEF ab
  <2> QED BY <1>1, <2>1, <2>2 DEF ab
<1> QED BY <1>2 DEF Led, ab

(* Of a sequence of characters, with its domain spelt out.                   *)
LEMMA PairedIs ==
  ASSUME NEW s \in Str
  PROVE  Paired(s) <=> \A i \in 1..Len(s) : s[i] = CR => i < Len(s) /\ s[i + 1] = LF
<1>1. DOMAIN s = 1..Len(s)
  BY DEF Str
<1> QED BY <1>1 DEF Paired, InCRLF

LEMMA PairedCat == ASSUME NEW a \in Str, NEW b \in Str, Paired(a), Paired(b) PROVE Paired(a \o b)
<1> DEFINE ab == a \o b
<1>1. /\ Len(ab) = Len(a) + Len(b) /\ Len(a) \in Nat /\ Len(b) \in Nat /\ ab \in Str
      /\ \A i \in 1..Len(a) : ab[i] = a[i]
      /\ \A i \in 1..Len(b) : ab[Len(a) + i] = b[i]
  BY CatFacts DEF Str
<1> HIDE DEF ab
<1>2. ASSUME NEW i \in 1..Len(ab), ab[i] = CR PROVE i < Len(ab) /\ ab[i + 1] = LF
  <2>1. CASE i <= Len(a)
    <3>1. i < Len(a) /\ a[i + 1] = LF
      BY <1>1, <1>2, <2>1, PairedIs
    <3>2. i + 1 \in 1..Len(a)
      BY <1>1, <3>1
    <3> QED BY <1>1, <3>1, <3>2
  <2>2. CASE i > Len(a)
    <3> DEFINE j == i - Len(a)
    <3>1. j \in 1..Len(b) /\ i = Len(a) + j
      BY <1>1, <2>2
    <3> HIDE DEF j
    <3>2. j < Len(b) /\ b[j + 1] = LF
      BY <1>1, <1>2, <3>1, PairedIs
    <3>3. j + 1 \in 1..Len(b) /\ i + 1 = Len(a) + (j + 1)
      BY <1>1, <3>1, <3>2
    <3> QED BY <1>1, <3>1, <3>2, <3>3
  <2> QED BY <1>1, <2>1, <2>2
<1> QED BY <1>1, <1>2, PairedIs DEF ab

-----------------------------------------------------------------------------
(* Folding CRLF to LF, and back. *)

Kept1(s, i) == IF InCRLF(s, i) THEN <<>> ELSE <<s[i]>>
Put1(s, i) == IF s[i] = LF THEN <<CR, LF>> ELSE <<s[i]>>
FoldPieces(s) == [i \in DOMAIN s |-> Kept1(s, i)]
UnfoldPieces(s) == [i \in DOMAIN s |-> Put1(s, i)]
Unfold(s) == FlattenSeq(UnfoldPieces(s))

LEMMA FoldIs == ASSUME NEW s PROVE FoldCRLF(s) = FlattenSeq(FoldPieces(s))
BY DEF FoldCRLF, FoldPieces, Kept1

LEMMA ToLineEndingIs ==
  ASSUME NEW s, NEW e
  PROVE  ToLineEnding(s, e) = IF e = "lf" THEN FoldCRLF(s) ELSE Unfold(FoldCRLF(s))
BY DEF ToLineEnding, Unfold, UnfoldPieces, Put1

(* A sequence of one piece for each place of another.                        *)
LEMMA PiecesTyped ==
  ASSUME NEW S, NEW P, NEW s \in Seq(S), NEW f \in [DOMAIN s -> P]
  PROVE  f \in Seq(P) /\ Len(f) = Len(s) /\ Len(s) \in Nat
<1>1. DOMAIN s = 1..Len(s) /\ Len(s) \in Nat
  OBVIOUS
<1>2. f \in [1..Len(s) -> P]
  BY <1>1
<1> QED BY <1>1, <1>2

LEMMA FoldPiecesIn ==
  ASSUME NEW S, NEW P, NEW s \in Seq(S), \A i \in 1..Len(s) : Kept1(s, i) \in P
  PROVE  /\ FoldPieces(s) \in Seq(P) /\ Len(FoldPieces(s)) = Len(s)
         /\ \A i \in 1..Len(s) : FoldPieces(s)[i] = Kept1(s, i)
<1> DEFINE f == FoldPieces(s)
<1>1. DOMAIN s = 1..Len(s)
  OBVIOUS
<1>2. \A i \in 1..Len(s) : f[i] = Kept1(s, i)
  BY <1>1 DEF FoldPieces
<1>3. f \in [DOMAIN s -> P]
  BY <1>1 DEF FoldPieces
<1> HIDE DEF f
<1>4. f \in Seq(P) /\ Len(f) = Len(s)
  BY <1>3, PiecesTyped
<1> QED BY <1>2, <1>4 DEF f

LEMMA UnfoldPiecesIn ==
  ASSUME NEW S, NEW P, NEW s \in Seq(S), \A i \in 1..Len(s) : Put1(s, i) \in P
  PROVE  /\ UnfoldPieces(s) \in Seq(P) /\ Len(UnfoldPieces(s)) = Len(s)
         /\ \A i \in 1..Len(s) : UnfoldPieces(s)[i] = Put1(s, i)
<1> DEFINE f == UnfoldPieces(s)
<1>1. DOMAIN s = 1..Len(s)
  OBVIOUS
<1>2. \A i \in 1..Len(s) : f[i] = Put1(s, i)
  BY <1>1 DEF UnfoldPieces
<1>3. f \in [DOMAIN s -> P]
  BY <1>1 DEF UnfoldPieces
<1> HIDE DEF f
<1>4. f \in Seq(P) /\ Len(f) = Len(s)
  BY <1>3, PiecesTyped
<1> QED BY <1>2, <1>4 DEF f

LEMMA FoldTyped == ASSUME NEW S, NEW s \in Seq(S) PROVE FoldCRLF(s) \in Seq(S)
<1>1. \A i \in 1..Len(s) : Kept1(s, i) \in Seq(S)
  <2>1. \A i \in 1..Len(s) : <<s[i]>> \in Seq(S)
    OBVIOUS
  <2> QED BY <2>1 DEF Kept1
<1>2. FoldPieces(s) \in Seq(Seq(S))
  BY <1>1, FoldPiecesIn
<1> QED BY <1>2, FoldIs, FlattenTyped

(* Where every CR is half of a CRLF, none is left.                           *)
LEMMA FoldPlain == ASSUME NEW s \in Str, Paired(s) PROVE FoldCRLF(s) \in Seq(Plain)
<1>1. ASSUME NEW i \in 1..Len(s) PROVE Kept1(s, i) \in Seq(Plain)
  <2>1. DOMAIN s = 1..Len(s) /\ s[i] \in Chars
    BY DEF Str
  <2>2. CASE InCRLF(s, i)
    BY <2>2 DEF Kept1
  <2>3. CASE ~ InCRLF(s, i)
    <3>1. s[i] \in Plain
      BY <2>1, <2>3 DEF Paired, Plain
    <3>2. <<s[i]>> \in Seq(Plain)
      BY <3>1
    <3> QED BY <2>3, <3>2 DEF Kept1
  <2> QED BY <2>2, <2>3
<1>2. FoldPieces(s) \in Seq(Seq(Plain))
  BY <1>1, FoldPiecesIn DEF Str
<1> QED BY <1>2, FoldIs, FlattenTyped

(* A text without CRLF stays as it is.                                       *)
LEMMA FoldNothing ==
  ASSUME NEW S, NEW s \in Seq(S), \A i \in 1..Len(s) : ~ InCRLF(s, i) PROVE FoldCRLF(s) = s
<1>1. DOMAIN s = 1..Len(s)
  OBVIOUS
<1>2. FoldPieces(s) = [i \in DOMAIN s |-> <<s[i]>>]
  BY <1>1 DEF FoldPieces, Kept1
<1> QED BY <1>2, FoldIs, FlattenPieces

(* Folding goes by the piece, if a piece does not begin with LF.             *)
LEMMA FoldCat ==
  ASSUME NEW S, NEW s \in Seq(S), NEW x \in Seq(S), Len(x) >= 1 => x[1] # LF
  PROVE  FoldCRLF(s \o x) = FoldCRLF(s) \o FoldCRLF(x)
<1> DEFINE sx == s \o x
           m == Len(s)
<1>1. /\ sx \in Seq(S) /\ Len(sx) = m + Len(x) /\ m \in Nat /\ Len(x) \in Nat
      /\ \A i \in 1..m : sx[i] = s[i]
      /\ \A i \in 1..Len(x) : sx[m + i] = x[i]
  BY CatFacts
<1>2. /\ \A i \in 1..m : Kept1(s, i) \in Seq(S)
      /\ \A i \in 1..Len(x) : Kept1(x, i) \in Seq(S)
  <2>1. /\ \A i \in 1..m : <<s[i]>> \in Seq(S)
        /\ \A i \in 1..Len(x) : <<x[i]>> \in Seq(S)
    OBVIOUS
  <2> QED BY <2>1 DEF Kept1
<1> HIDE DEF sx, m
<1>3. \A i \in 1..m : Kept1(sx, i) = Kept1(s, i)
  <2>1. ASSUME NEW i \in 1..m PROVE InCRLF(sx, i) <=> InCRLF(s, i)
    <3>1. CASE i < m
      <4>1. i + 1 \in 1..m /\ i < Len(sx)
        BY <1>1, <3>1
      <4> QED BY <1>1, <3>1, <4>1 DEF InCRLF, m
    <3>2. CASE i = m
      <4>1. ~ InCRLF(s, i)
        BY <1>1, <3>2 DEF InCRLF, m
      <4>2. ASSUME m < Len(sx) PROVE sx[m + 1] # LF
        <5>1. Len(x) >= 1 /\ 1 \in 1..Len(x)
          BY <1>1, <4>2
        <5> QED BY <1>1, <5>1
      <4> QED BY <3>2, <4>1, <4>2 DEF InCRLF
    <3> QED BY <1>1, <3>1, <3>2
  <2> QED BY <1>1, <2>1 DEF Kept1
<1>4. \A i \in 1..Len(x) : Kept1(sx, m + i) = Kept1(x, i)
  <2>1. ASSUME NEW i \in 1..Len(x) PROVE InCRLF(sx, m + i) <=> InCRLF(x, i)
    <3>1. CASE i < Len(x)
      <4>1. i + 1 \in 1..Len(x) /\ m + i < Len(sx) /\ (m + i) + 1 = m + (i + 1)
        BY <1>1, <3>1
      <4> QED BY <1>1, <3>1, <4>1 DEF InCRLF
    <3>2. CASE i = Len(x)
      BY <1>1, <3>2 DEF InCRLF
    <3> QED BY <1>1, <3>1, <3>2
  <2> QED BY <1>1, <2>1 DEF Kept1
<1> DEFINE a == FoldPieces(s)
           b == FoldPieces(x)
           c == FoldPieces(sx)
<1>5. /\ a \in Seq(Seq(S)) /\ Len(a) = m /\ \A i \in 1..m : a[i] = Kept1(s, i)
      /\ b \in Seq(Seq(S)) /\ Len(b) = Len(x) /\ \A i \in 1..Len(x) : b[i] = Kept1(x, i)
  BY <1>2, FoldPiecesIn DEF m
<1>6. \A i \in 1..Len(sx) : i \in 1..m \/ \E j \in 1..Len(x) : i = m + j
  <2>1. ASSUME NEW i \in 1..Len(sx), ~ (i \in 1..m) PROVE \E j \in 1..Len(x) : i = m + j
    <3>1. i - m \in 1..Len(x) /\ i = m + (i - m)
      BY <1>1, <2>1
    <3> QED BY <3>1
  <2> QED BY <2>1
<1>7. /\ c \in Seq(Seq(S)) /\ Len(c) = Len(sx) /\ \A i \in 1..Len(sx) : c[i] = Kept1(sx, i)
  <2>1. \A i \in 1..Len(sx) : Kept1(sx, i) \in Seq(S)
    BY <1>2, <1>3, <1>4, <1>6 DEF m
  <2> QED BY <1>1, <2>1, FoldPiecesIn
<1> HIDE DEF a, b, c
<1>8. c = a \o b
  <2> DEFINE d == a \o b
  <2>1. /\ d \in Seq(Seq(S)) /\ Len(d) = m + Len(x)
        /\ \A i \in 1..m : d[i] = a[i]
        /\ \A i \in 1..Len(x) : d[m + i] = b[i]
    <3> DEFINE R == Seq(S)
    <3>1. a \in Seq(R) /\ b \in Seq(R)
      BY <1>5
    <3> HIDE DEF R
    <3>2. /\ d \in Seq(R) /\ Len(d) = Len(a) + Len(b)
          /\ \A i \in 1..Len(a) : d[i] = a[i]
          /\ \A i \in 1..Len(b) : d[Len(a) + i] = b[i]
      BY <3>1, CatFacts
    <3> HIDE DEF d
    <3> QED BY <1>5, <3>2 DEF R
  <2> HIDE DEF d
  <2>2. ASSUME NEW i \in 1..Len(sx) PROVE c[i] = d[i]
    <3>1. CASE i \in 1..m
      <4>1. c[i] = Kept1(sx, i) /\ Kept1(sx, i) = Kept1(s, i)
        BY <1>3, <1>7, <3>1
      <4>2. d[i] = a[i] /\ a[i] = Kept1(s, i)
        BY <1>5, <2>1, <3>1
      <4> QED BY <4>1, <4>2
    <3>2. ASSUME NEW j \in 1..Len(x), i = m + j PROVE c[i] = d[i]
      <4>1. c[i] = Kept1(sx, m + j) /\ Kept1(sx, m + j) = Kept1(x, j)
        BY <1>4, <1>7, <3>2
      <4>2. d[m + j] = b[j] /\ b[j] = Kept1(x, j)
        BY <1>5, <2>1, <3>2
      <4> QED BY <3>2, <4>1, <4>2
    <3> QED BY <1>6, <3>1, <3>2
  <2>3. Len(c) = Len(d)
    BY <1>1, <1>7, <2>1
  <2>4. c = d
    BY <1>7, <2>1, <2>2, <2>3, SameSeq
  <2> QED BY <2>4 DEF d
<1>9. FlattenSeq(c) = FlattenSeq(a) \o FlattenSeq(b)
  BY <1>5, <1>8, FlattenCat
<1> QED BY <1>9, FoldIs DEF a, b, c, sx

LEMMA FoldSingle == ASSUME NEW S, NEW c \in S PROVE FoldCRLF(<<c>>) = <<c>>
<1> DEFINE s == <<c>>
<1>1. s \in Seq(S) /\ Len(s) = 1
  OBVIOUS
<1> HIDE DEF s
<1>2. \A i \in 1..Len(s) : ~ InCRLF(s, i)
  BY <1>1 DEF InCRLF
<1>3. FoldCRLF(s) = s
  BY <1>1, <1>2, FoldNothing
<1> QED BY <1>3 DEF s

LEMMA FoldPair == FoldCRLF(<<CR, LF>>) = <<LF>>
<1> DEFINE s == <<CR, LF>>
           f == FoldPieces(s)
           P == Seq(Chars)
<1>1. s \in Str /\ Len(s) = 2 /\ s[1] = CR /\ s[2] = LF /\ <<LF>> \in P /\ <<>> \in P
  BY Characters, PairTyped, SingleTyped DEF Str
<1> HIDE DEF s
<1>2. Kept1(s, 1) = <<>> /\ Kept1(s, 2) = <<LF>>
  <2>1. InCRLF(s, 1) /\ ~ InCRLF(s, 2)
    BY <1>1 DEF InCRLF
  <2> QED BY <1>1, <2>1 DEF Kept1
<1>3. f \in Seq(P) /\ Len(f) = 2 /\ f[1] = <<>> /\ f[2] = <<LF>>
  <2>1. \A i \in 1..Len(s) : i = 1 \/ i = 2
    BY <1>1
  <2>2. \A i \in 1..Len(s) : Kept1(s, i) \in P
    BY <1>1, <1>2, <2>1
  <2>3. 1 \in 1..Len(s) /\ 2 \in 1..Len(s)
    BY <1>1
  <2> HIDE DEF P
  <2>4. s \in Seq(Chars)
    BY <1>1 DEF Str
  <2> QED BY <1>1, <1>2, <2>2, <2>3, <2>4, FoldPiecesIn
<1> HIDE DEF f
<1>4. PICK g : Joins(Chars, f, g)
  BY <1>3, JoinsExist
<1>5. g[0] = <<>> /\ g[1] = g[0] \o f[1] /\ g[2] = g[1] \o f[2]
  <2>1. g[0] = <<>> /\ \A i \in 1..2 : g[i] = g[i - 1] \o f[i]
    BY <1>3, <1>4 DEF Joins
  <2>2. 1 \in 1..2 /\ 2 \in 1..2 /\ 1 - 1 = 0 /\ 2 - 1 = 1
    OBVIOUS
  <2> QED BY <2>1, <2>2
<1>6. g[1] = <<>> /\ g[2] = <<LF>>
  BY <1>1, <1>3, <1>5, CatEmpty
<1>7. FlattenSeq(f) = g[2]
  BY <1>3, <1>4, JoinsEnd
<1> QED BY <1>6, <1>7, FoldIs DEF f, s

LEMMA UnfoldTyped ==
  ASSUME NEW t \in Str PROVE Unfold(t) \in Str /\ Led(Unfold(t))
<1> DEFINE P == {s \in Str : Led(s)}
<1>1. ASSUME NEW i \in 1..Len(t) PROVE Put1(t, i) \in P
  <2>1. t[i] \in Chars
    BY DEF Str
  <2>2. CASE t[i] = LF
    <3> DEFINE p == <<CR, LF>>
    <3>1. p \in Str /\ Len(p) = 2 /\ p[1] = CR /\ p[2] = LF
      BY Characters, PairTyped DEF Str
    <3> HIDE DEF p
    <3>2. Led(p)
      BY <3>1, Characters DEF Led
    <3> QED BY <2>2, <3>1, <3>2 DEF Put1, p
  <2>3. CASE t[i] # LF
    <3> DEFINE p == <<t[i]>>
    <3>1. p \in Str /\ Len(p) = 1 /\ p[1] = t[i]
      BY <2>1, SingleTyped DEF Str
    <3> HIDE DEF p
    <3>2. Led(p)
      BY <2>3, <3>1 DEF Led
    <3> QED BY <2>3, <3>1, <3>2 DEF Put1, p
  <2> QED BY <2>2, <2>3
<1>2. P \in SUBSET Seq(Chars) /\ <<>> \in P
  BY DEF Str, Led
<1>3. \A a, b \in P : a \o b \in P
  <2>1. \A a, b \in Str : a \o b \in Str
    BY DEF Str
  <2> QED BY <2>1, LedCat
<1> HIDE DEF P
<1>4. UnfoldPieces(t) \in Seq(P)
  BY <1>1, UnfoldPiecesIn DEF Str
<1>5. Unfold(t) \in P
  BY <1>2, <1>3, <1>4, FlattenStays DEF Unfold
<1> QED BY <1>5 DEF P

LEMMA UnfoldPaired == ASSUME NEW t \in Seq(Plain) PROVE Paired(Unfold(t))
<1> DEFINE P == {s \in Str : Paired(s)}
<1>0. t \in Str /\ \A i \in 1..Len(t) : t[i] # CR
  BY PlainTyped
<1>1. ASSUME NEW i \in 1..Len(t) PROVE Put1(t, i) \in P
  <2>1. t[i] \in Chars /\ t[i] # CR
    BY <1>0 DEF Str
  <2>2. CASE t[i] = LF
    <3> DEFINE p == <<CR, LF>>
    <3>1. p \in Str /\ Len(p) = 2 /\ p[1] = CR /\ p[2] = LF
      BY Characters, PairTyped DEF Str
    <3> HIDE DEF p
    <3>2. Paired(p)
      BY <3>1, Characters, PairedIs
    <3> QED BY <2>2, <3>1, <3>2 DEF Put1, p
  <2>3. CASE t[i] # LF
    <3> DEFINE p == <<t[i]>>
    <3>1. p \in Str /\ Len(p) = 1 /\ p[1] = t[i]
      BY <2>1, SingleTyped DEF Str
    <3> HIDE DEF p
    <3>2. Paired(p)
      BY <2>1, <3>1, PairedIs
    <3> QED BY <2>3, <3>1, <3>2 DEF Put1, p
  <2> QED BY <2>2, <2>3
<1>2. P \in SUBSET Seq(Chars) /\ <<>> \in P
  <2>1. <<>> \in Str /\ Len(<<>>) = 0
    BY DEF Str
  <2>2. Paired(<<>>)
    BY <2>1, PairedIs
  <2> QED BY <2>1, <2>2 DEF Str
<1>3. \A a, b \in P : a \o b \in P
  <2>1. \A a, b \in Str : a \o b \in Str
    BY DEF Str
  <2> QED BY <2>1, PairedCat
<1> HIDE DEF P
<1>4. UnfoldPieces(t) \in Seq(P)
  BY <1>0, <1>1, UnfoldPiecesIn DEF Str
<1>5. Unfold(t) \in P
  BY <1>2, <1>3, <1>4, FlattenStays DEF Unfold
<1> QED BY <1>5 DEF P

(* Folding undoes unfolding, whatever was there.                             *)
LEMMA FoldUnfold == ASSUME NEW t \in Str PROVE FoldCRLF(Unfold(t)) = t
<1> DEFINE n == Len(t)
           p == UnfoldPieces(t)
<1>1. n \in Nat /\ \A i \in 1..n : t[i] \in Chars
  BY DEF Str
<1>2. ASSUME NEW i \in 1..n
      PROVE  /\ Put1(t, i) \in Str /\ FoldCRLF(Put1(t, i)) = <<t[i]>>
             /\ Len(Put1(t, i)) >= 1 => Put1(t, i)[1] # LF
  <2>1. t[i] \in Chars
    BY <1>1
  <2>2. CASE t[i] = LF
    <3>1. Put1(t, i) = <<CR, LF>>
      BY <2>2 DEF Put1
    <3>2. <<CR, LF>> \in Str /\ <<CR, LF>>[1] = CR
      BY Characters, PairTyped DEF Str
    <3> QED BY <2>2, <3>1, <3>2, FoldPair, Characters
  <2>3. CASE t[i] # LF
    <3>1. Put1(t, i) = <<t[i]>>
      BY <2>3 DEF Put1
    <3>2. <<t[i]>> \in Str /\ <<t[i]>>[1] = t[i]
      BY <2>1, SingleTyped DEF Str
    <3> QED BY <2>1, <2>3, <3>1, <3>2, FoldSingle
  <2> QED BY <2>2, <2>3
<1>3. p \in Seq(Seq(Chars)) /\ Len(p) = n /\ \A i \in 1..n : p[i] = Put1(t, i)
  BY <1>2, UnfoldPiecesIn DEF Str
<1> HIDE DEF p, n
<1>4. PICK g : Joins(Chars, p, g)
  BY <1>3, JoinsExist
<1>5. /\ \A i \in 0..n : g[i] \in Str
      /\ g[0] = <<>> /\ \A i \in 1..n : g[i] = g[i - 1] \o p[i]
  BY <1>3, <1>4 DEF Joins, Str
<1> DEFINE T == {i \in Nat : i <= n => FoldCRLF(g[i]) = SubSeq(t, 1, i)}
<1>6. 0 \in T
  <2>1. SubSeq(t, 1, 0) = <<>>
    BY DEF Str
  <2>2. FoldCRLF(<<>>) = <<>>
    <3>1. <<>> \in Seq(Chars) /\ Len(<<>>) = 0
      OBVIOUS
    <3>2. \A i \in 1..Len(<<>>) : ~ InCRLF(<<>>, i)
      BY <3>1
    <3> QED BY <3>1, <3>2, FoldNothing
  <2> QED BY <1>5, <2>1, <2>2
<1>7. ASSUME NEW i \in T PROVE i + 1 \in T
  <2> DEFINE j == i + 1
  <2>1. i \in Nat /\ j \in Nat /\ j - 1 = i
    BY <1>7
  <2>2. ASSUME j <= n PROVE FoldCRLF(g[j]) = SubSeq(t, 1, j)
    <3>1. j \in 1..n /\ i \in 0..n /\ i <= n
      BY <1>1, <2>1, <2>2
    <3>2. FoldCRLF(g[i]) = SubSeq(t, 1, i)
      BY <1>7, <3>1
    <3>3. SubSeq(t, 1, j) = SubSeq(t, 1, i) \o <<t[j]>>
      BY <2>1, <3>1 DEF Str, n
    <3> HIDE DEF T, j
    <3>4. g[j] = g[i] \o Put1(t, j)
      BY <1>3, <1>5, <2>1, <3>1
    <3>5. FoldCRLF(g[i] \o Put1(t, j)) = FoldCRLF(g[i]) \o FoldCRLF(Put1(t, j))
      <4> DEFINE u == g[i]
                 v == Put1(t, j)
      <4>1. u \in Seq(Chars) /\ v \in Seq(Chars) /\ (Len(v) >= 1 => v[1] # LF)
        BY <1>2, <1>5, <3>1 DEF Str
      <4> HIDE DEF u, v
      <4>2. FoldCRLF(u \o v) = FoldCRLF(u) \o FoldCRLF(v)
        BY <4>1, FoldCat
      <4> QED BY <4>2 DEF u, v
    <3>6. FoldCRLF(Put1(t, j)) = <<t[j]>>
      BY <1>2, <3>1
    <3> QED BY <3>2, <3>3, <3>4, <3>5, <3>6
  <2> QED BY <2>1, <2>2
<1>8. T = Nat
  <2> HIDE DEF T
  <2>1. T \in SUBSET Nat
    BY DEF T
  <2> QED BY <1>6, <1>7, <2>1, Induction
<1>9. FoldCRLF(g[n]) = SubSeq(t, 1, n)
  BY <1>1, <1>8 DEF n
<1>10. SubSeq(t, 1, n) = t
  BY DEF Str, n
<1>11. Unfold(t) = g[n]
  BY <1>3, <1>4, JoinsEnd DEF Unfold, p
<1> QED BY <1>9, <1>10, <1>11

(* What is folded has no CRLF left, unless a CR stood before one.            *)
LEMMA FoldLeavesNone ==
  ASSUME NEW s \in Str, ~ Stutters(s)
  PROVE  \A i \in 1..Len(FoldCRLF(s)) : ~ InCRLF(FoldCRLF(s), i)
<1> DEFINE n == Len(s)
           p == FoldPieces(s)
<1>1. n \in Nat /\ DOMAIN s = 1..n /\ \A i \in 1..n : s[i] \in Chars
  BY DEF Str
<1>2. \A i \in 1..n : Kept1(s, i) \in Seq(Chars)
  BY <1>1, SingleTyped DEF Kept1
<1>3. p \in Seq(Seq(Chars)) /\ Len(p) = n /\ \A i \in 1..n : p[i] = Kept1(s, i)
  BY <1>2, FoldPiecesIn DEF Str
<1> HIDE DEF p
<1>4. PICK g : Joins(Chars, p, g)
  BY <1>3, JoinsExist
<1>5. /\ \A i \in 0..n : g[i] \in Seq(Chars)
      /\ g[0] = <<>> /\ \A i \in 1..n : g[i] = g[i - 1] \o p[i]
  BY <1>3, <1>4 DEF Joins
<1>n. \A i \in 1..n : InCRLF(s, i) <=> i < n /\ s[i] = CR /\ s[i + 1] = LF
  BY DEF InCRLF
<1> HIDE DEF n
<1> DEFINE Unclosed(i) == Len(g[i]) > 0 /\ g[i][Len(g[i])] = CR
           Fine(i) == /\ \A k \in 1..Len(g[i]) : ~ InCRLF(g[i], k)
                      /\ Unclosed(i) => i > 0 /\ s[i] = CR /\ ~ InCRLF(s, i)
           T == {i \in Nat : i <= n => Fine(i)}
<1>6. 0 \in T
  <2>1. Len(g[0]) = 0
    BY <1>5
  <2> QED BY <2>1
<1>7. ASSUME NEW i \in T PROVE i + 1 \in T
  <2> DEFINE j == i + 1
  <2>1. i \in Nat /\ j \in Nat /\ j - 1 = i /\ j > 0
    BY <1>7
  <2>2. ASSUME j <= n PROVE Fine(j)
    <3>1. j \in 1..n /\ i \in 0..n /\ i <= n
      BY <1>1, <2>1, <2>2
    <3>2. Fine(i)
      BY <1>7, <3>1
    <3> DEFINE u == g[i]
               v == g[j]
    <3>3. u \in Seq(Chars) /\ v = u \o Kept1(s, j)
      BY <1>3, <1>5, <2>1, <3>1
    <3>4. CASE InCRLF(s, j)
      <4>1. v = u
        BY <3>3, <3>4, CatEmpty DEF Kept1
      <4>2. ~ Unclosed(i)
        <5>1. ASSUME Unclosed(i) PROVE FALSE
          <6>1. i \in DOMAIN s /\ s[i] = CR /\ InCRLF(s, i + 1)
            BY <1>1, <3>1, <3>2, <3>4, <5>1
          <6> HIDE DEF j, T, Fine, Unclosed
          <6> QED BY <6>1 DEF Stutters
        <5> QED BY <5>1
      <4> HIDE DEF j
      <4> QED BY <3>2, <4>1, <4>2
    <3>5. CASE ~ InCRLF(s, j)
      <4> DEFINE c == s[j]
      <4>1. c \in Chars /\ v = u \o <<c>>
        BY <1>1, <3>1, <3>3, <3>5 DEF Kept1
      <4> HIDE DEF c
      <4>2. Len(v) = Len(u) + 1 /\ Len(u) \in Nat /\ v[Len(v)] = c /\ \A k \in 1..Len(u) : v[k] = u[k]
        <5>1. <<c>> \in Seq(Chars) /\ Len(<<c>>) = 1 /\ <<c>>[1] = c
          BY <4>1, SingleTyped
        <5> HIDE DEF u, v
        <5> DEFINE w == <<c>>
        <5> HIDE DEF w
        <5>2. /\ Len(u \o w) = Len(u) + Len(w) /\ Len(u) \in Nat
              /\ \A k \in 1..Len(u) : (u \o w)[k] = u[k]
              /\ \A k \in 1..Len(w) : (u \o w)[Len(u) + k] = w[k]
          BY <3>3, <5>1, CatFacts DEF w
        <5>3. 1 \in 1..Len(w) /\ w[1] = c /\ Len(w) = 1
          BY <5>1 DEF w
        <5> QED BY <4>1, <5>2, <5>3 DEF w
      <4>3. ASSUME NEW k \in 1..Len(v), InCRLF(v, k) PROVE FALSE
        <5>1. k < Len(v) /\ v[k] = CR /\ v[k + 1] = LF
          BY <4>3 DEF InCRLF
        <5>2. k \in 1..Len(u) /\ u[k] = CR
          BY <4>2, <5>1
        <5>3. CASE k < Len(u)
          <6>1. k + 1 \in 1..Len(u)
            BY <4>2, <5>2, <5>3
          <6>2. u[k + 1] = LF
            BY <4>2, <5>1, <6>1
          <6> QED BY <3>2, <5>2, <5>3, <6>2 DEF InCRLF
        <5>4. CASE k = Len(u)
          <6>1. Unclosed(i)
            BY <4>2, <5>2, <5>4
          <6>2. i > 0 /\ s[i] = CR /\ ~ InCRLF(s, i)
            BY <3>2, <6>1
          <6>3. c = LF
            BY <4>2, <5>1, <5>4
          <6>4. s[i + 1] = LF /\ i \in 1..n /\ i < n
            <7>1. s[j] = LF
              BY <6>3 DEF c
            <7>2. s[i + 1] = LF
              BY <7>1 DEF j
            <7>3. i \in 1..n /\ i < n
              <8>1. i + 1 \in 1..n /\ i > 0 /\ i \in Nat
                BY <1>7, <3>1, <6>2 DEF j
              <8> HIDE DEF T, Fine, Unclosed, u, v, j
              <8> QED BY <1>1, <8>1
            <7> QED BY <7>2, <7>3
          <6> HIDE DEF T, Fine, Unclosed, u, v, j
          <6> QED BY <1>n, <6>2, <6>4
        <5> HIDE DEF u, v
        <5> QED BY <4>2, <5>2, <5>3, <5>4
      <4>4. ASSUME Unclosed(j) PROVE j > 0 /\ s[j] = CR /\ ~ InCRLF(s, j)
        <5>1. c = CR
          BY <4>2, <4>4
        <5> HIDE DEF u, v, Unclosed, Fine, T
        <5> QED BY <2>1, <3>5, <5>1 DEF c
      <4> QED BY <4>3, <4>4
    <3> HIDE DEF Fine, T, j
    <3> QED BY <3>4, <3>5
  <2> HIDE DEF Fine
  <2> QED BY <2>1, <2>2
<1>8. T = Nat
  <2> HIDE DEF T
  <2>1. T \in SUBSET Nat
    BY DEF T
  <2> QED BY <1>6, <1>7, <2>1, Induction
<1>9. Fine(n)
  <2> HIDE DEF Fine
  <2>1. n \in T
    BY <1>1, <1>8
  <2> QED BY <1>1, <2>1
<1>10. FoldCRLF(s) = g[n]
  <2>1. FlattenSeq(p) = g[n]
    BY <1>3, <1>4, JoinsEnd
  <2> QED BY <2>1, FoldIs DEF p
<1> QED BY <1>9, <1>10

(* NormalizeToLF leaves no CR.                                               *)
LEMMA NormalIsPlain == ASSUME NEW s \in Str PROVE NormalizeToLF(s) \in Seq(Plain)
<1> DEFINE t == FoldCRLF(s)
<1>1. t \in Seq(Chars)
  BY FoldTyped DEF Str
<1> HIDE DEF t
<1> DEFINE f == [i \in DOMAIN t |-> IF t[i] = CR THEN LF ELSE t[i]]
<1>2. f \in [DOMAIN t -> Plain]
  <2>1. \A i \in DOMAIN t : t[i] \in Chars
    BY <1>1
  <2> QED BY <2>1, Characters DEF Plain
<1> HIDE DEF f
<1>3. f \in Seq(Plain)
  BY <1>1, <1>2, PiecesTyped
<1> QED BY <1>3 DEF NormalizeToLF, t, f

(* It is the folding alone where no CR is left after that.                   *)
LEMMA NormalIsFolded ==
  ASSUME NEW s, FoldCRLF(s) \in Seq(Plain) PROVE NormalizeToLF(s) = FoldCRLF(s)
<1> DEFINE t == FoldCRLF(s)
<1>1. t \in Seq(Plain)
  OBVIOUS
<1> HIDE DEF t
<1>2. DOMAIN t = 1..Len(t) /\ t = [i \in DOMAIN t |-> t[i]] /\ \A i \in 1..Len(t) : t[i] # CR
  BY <1>1, PlainTyped
<1>3. [i \in DOMAIN t |-> IF t[i] = CR THEN LF ELSE t[i]] = t
  BY <1>2
<1> QED BY <1>3 DEF NormalizeToLF, t

LEMMA LineEndingTyped ==
  ASSUME NEW s \in Str, NEW e PROVE ToLineEnding(s, e) \in Str
<1>1. FoldCRLF(s) \in Str
  BY FoldTyped DEF Str
<1> QED BY <1>1, UnfoldTyped, ToLineEndingIs

LEMMA UniformIs ==
  ASSUME NEW s \in Str
  PROVE  /\ Uniform(s, "crlf") <=> Led(s)
         /\ Uniform(s, "lf") <=> \A i \in 1..Len(s) : ~ InCRLF(s, i)
<1>1. DOMAIN s = 1..Len(s)
  BY DEF Str
<1>2. \A i \in 1..Len(s) : (i = 1 \/ i > 1) /\ ~ (i = 1 /\ i > 1)
  BY DEF Str
<1> QED BY <1>1, <1>2 DEF Uniform, Led, LoneLF

LEMMA PlainIsUniform == ASSUME NEW s \in Seq(Plain) PROVE Uniform(s, "lf") /\ Paired(s)
<1>1. s \in Str /\ \A i \in 1..Len(s) : s[i] # CR
  BY PlainTyped
<1> QED BY <1>1, UniformIs, PairedIs DEF InCRLF

(* In a text without CR, every line gets the ending that is asked for.       *)
LEMMA PlainConverted ==
  ASSUME NEW s \in Str, Paired(s), NEW e \in Endings
  PROVE  /\ ToLineEnding(s, e) \in Str /\ Uniform(ToLineEnding(s, e), e)
         /\ Paired(ToLineEnding(s, e))
         /\ e = "lf" => ToLineEnding(s, e) \in Seq(Plain)
<1> DEFINE t == FoldCRLF(s)
           u == Unfold(t)
<1>1. t \in Seq(Plain)
  BY FoldPlain
<1> HIDE DEF t
<1>2. t \in Str /\ Uniform(t, "lf") /\ Paired(t)
  BY <1>1, PlainTyped, PlainIsUniform
<1>3. u \in Str /\ Led(u) /\ Paired(u)
  BY <1>1, <1>2, UnfoldTyped, UnfoldPaired
<1> HIDE DEF u
<1>4. Uniform(u, "crlf")
  BY <1>3, UniformIs
<1>5. ToLineEnding(s, e) = IF e = "lf" THEN t ELSE u
  BY ToLineEndingIs DEF t, u
<1>6. e = "lf" \/ e = "crlf"
  BY DEF Endings
<1> QED BY <1>1, <1>2, <1>3, <1>4, <1>5, <1>6

(* What is written in a workspace that normalises.                           *)
LEMMA DiskIsUniform ==
  ASSUME NEW s \in Str, mode \in Endings
  PROVE  /\ ToDisk(s) \in Str /\ Uniform(ToDisk(s), mode)
         /\ FoldCRLF(ToDisk(s)) = NormalizeToLF(ToDisk(s))
<1> DEFINE t == NormalizeToLF(s)
           u == ToLineEnding(t, mode)
<1>1. t \in Seq(Plain)
  BY NormalIsPlain
<1> HIDE DEF t
<1>2. t \in Str /\ Paired(t)
  BY <1>1, PlainTyped, PlainIsUniform
<1>3. u \in Str /\ Uniform(u, mode) /\ Paired(u)
  BY <1>2, PlainConverted
<1> HIDE DEF u
<1>4. FoldCRLF(u) \in Seq(Plain)
  BY <1>3, FoldPlain
<1>5. FoldCRLF(u) = NormalizeToLF(u)
  BY <1>4, NormalIsFolded
<1>6. mode # "preserve"
  BY DEF Endings
<1>7. ToDisk(s) = u
  BY <1>6 DEF ToDisk, t, u
<1> QED BY <1>3, <1>5, <1>7

(* A file that is converted keeps its text.                                  *)
LEMMA Converted ==
  ASSUME NEW s \in Str, NEW e \in Endings, ~ Stutters(s)
  PROVE  /\ FoldCRLF(ToLineEnding(s, e)) = FoldCRLF(s)
         /\ Uniform(ToLineEnding(s, e), e)
<1> DEFINE t == FoldCRLF(s)
           u == Unfold(t)
<1>1. t \in Str /\ \A i \in 1..Len(t) : ~ InCRLF(t, i)
  BY FoldTyped, FoldLeavesNone DEF Str
<1> HIDE DEF t
<1>2. u \in Str /\ Led(u) /\ FoldCRLF(u) = t
  BY <1>1, UnfoldTyped, FoldUnfold
<1>3. FoldCRLF(t) = t
  BY <1>1, FoldNothing DEF Str
<1> HIDE DEF u
<1>4. Uniform(u, "crlf") /\ Uniform(t, "lf")
  BY <1>1, <1>2, UniformIs
<1>5. ToLineEnding(s, e) = IF e = "lf" THEN t ELSE u
  BY ToLineEndingIs DEF t, u
<1>6. FoldCRLF(s) = t
  BY DEF t
<1>7. e = "lf" \/ e = "crlf"
  BY DEF Endings
<1> QED BY <1>2, <1>3, <1>4, <1>5, <1>6, <1>7

(* Converting makes no text file binary.                                     *)
LEMMA StaysText ==
  ASSUME NEW s \in Str, ~ IsBinary(s), NEW e PROVE ~ IsBinary(ToLineEnding(s, e))
<1> DEFINE B == Chars \ {NUL}
           t == FoldCRLF(s)
<1>1. s \in Seq(B)
  <2>1. Len(s) \in Nat /\ DOMAIN s = 1..Len(s) /\ \A i \in 1..Len(s) : s[i] \in Chars
    BY DEF Str
  <2>2. s \in [DOMAIN s -> B]
    BY <2>1 DEF IsBinary, Str
  <2> HIDE DEF B
  <2> QED BY <2>2, PiecesTyped DEF Str
<1>2. CR \in B /\ LF \in B
  BY Characters
<1> HIDE DEF B
<1>3. t \in Seq(B)
  BY <1>1, FoldTyped
<1> HIDE DEF t
<1>4. Unfold(t) \in Seq(B)
  <2>1. ASSUME NEW i \in 1..Len(t) PROVE Put1(t, i) \in Seq(B)
    <3>1. t[i] \in B
      BY <1>3
    <3>2. <<t[i]>> \in Seq(B) /\ <<CR, LF>> \in Seq(B)
      BY <1>2, <3>1, SingleTyped, PairTyped
    <3> QED BY <3>2 DEF Put1
  <2>2. UnfoldPieces(t) \in Seq(Seq(B))
    BY <1>3, <2>1, UnfoldPiecesIn
  <2> QED BY <2>2, FlattenTyped DEF Unfold
<1>5. ToLineEnding(s, e) \in Seq(B)
  BY <1>3, <1>4, ToLineEndingIs DEF t
<1> DEFINE z == ToLineEnding(s, e)
<1>6. \A i \in DOMAIN z : z[i] \in B
  BY <1>5
<1> HIDE DEF z
<1>7. ~ IsBinary(z)
  BY <1>6 DEF IsBinary, B
<1> QED BY <1>7 DEF z

-----------------------------------------------------------------------------
(* Where a text is cut, and what is put between. *)

\* The texts of an ending, and for no ending all of them.
Kind(e) == {s \in Str : (e = "lf" => s \in Seq(Plain)) /\ (e = "crlf" => Led(s))}

LEMMA KindIsUniform ==
  ASSUME NEW e \in Endings, NEW s \in Str
  PROVE  /\ s \in Kind(e) => Uniform(s, e)
         /\ Uniform(s, e) /\ Paired(s) => s \in Kind(e)
<1>1. CASE e = "crlf"
  BY <1>1, UniformIs DEF Kind
<1>2. CASE e = "lf"
  <2>1. s \in Kind(e) => Uniform(s, e)
    BY <1>2, PlainIsUniform DEF Kind
  <2>2. ASSUME Uniform(s, e), Paired(s) PROVE s \in Kind(e)
    <3>1. \A i \in 1..Len(s) : ~ InCRLF(s, i)
      BY <1>2, <2>2, UniformIs
    <3>2. Len(s) \in Nat /\ DOMAIN s = 1..Len(s) /\ \A i \in 1..Len(s) : s[i] \in Chars
      BY DEF Str
    <3>3. \A i \in 1..Len(s) : s[i] \in Plain
      BY <2>2, <3>1, <3>2 DEF Paired, Plain
    <3>4. s \in [DOMAIN s -> Plain]
      <4>1. s = [i \in 1..Len(s) |-> s[i]]
        BY DEF Str
      <4> QED BY <3>2, <3>3, <4>1
    <3>5. s \in Seq(Plain)
      BY <3>4, PiecesTyped DEF Str
    <3> QED BY <1>2, <3>5 DEF Kind
  <2> QED BY <2>1, <2>2
<1>3. e = "lf" \/ e = "crlf"
  BY DEF Endings
<1> QED BY <1>1, <1>2, <1>3

LEMMA KindCat ==
  ASSUME NEW e, NEW a \in Kind(e), NEW b \in Kind(e) PROVE a \o b \in Kind(e)
<1>1. a \in Str /\ b \in Str /\ a \o b \in Str
  BY DEF Kind, Str
<1>2. ASSUME e = "lf" PROVE a \o b \in Seq(Plain)
  <2>1. a \in Seq(Plain) /\ b \in Seq(Plain)
    BY <1>2 DEF Kind
  <2> QED BY <2>1
<1>3. ASSUME e = "crlf" PROVE Led(a \o b)
  <2>1. Led(a) /\ Led(b)
    BY <1>3 DEF Kind
  <2> QED BY <1>1, <2>1, LedCat
<1> QED BY <1>1, <1>2, <1>3 DEF Kind

LEMMA KindNone == ASSUME NEW e PROVE <<>> \in Kind(e)
BY DEF Kind, Str, Led

(* Cut at an end of a line, both parts are of the kind of the whole.         *)
Cuts(s) == {0, Len(s)} \cup {i \in 1..Len(s) : s[i] = LF}

LEMMA PartsTyped ==
  ASSUME NEW S, NEW s \in Seq(S), NEW k \in 0..Len(s)
  PROVE  /\ SubSeq(s, 1, k) \in Seq(S) /\ Len(SubSeq(s, 1, k)) = k
         /\ \A i \in 1..k : SubSeq(s, 1, k)[i] = s[i]
         /\ SubSeq(s, k + 1, Len(s)) \in Seq(S) /\ Len(SubSeq(s, k + 1, Len(s))) = Len(s) - k
         /\ \A i \in 1..(Len(s) - k) : SubSeq(s, k + 1, Len(s))[i] = s[k + i]
         /\ Len(s) \in Nat
<1>1. Len(s) \in Nat /\ \A i \in 1..Len(s) : s[i] \in S
  OBVIOUS
<1>2. SubSeq(s, 1, k) \in Seq(S) /\ Len(SubSeq(s, 1, k)) = k
  OBVIOUS
<1>3. \A i \in 1..k : SubSeq(s, 1, k)[i] = s[i]
  OBVIOUS
<1>4. SubSeq(s, k + 1, Len(s)) \in Seq(S) /\ Len(SubSeq(s, k + 1, Len(s))) = Len(s) - k
  OBVIOUS
<1>5. \A i \in 1..(Len(s) - k) : SubSeq(s, k + 1, Len(s))[i] = s[k + i]
  OBVIOUS
<1> QED BY <1>1, <1>2, <1>3, <1>4, <1>5

LEMMA PartsOfKind ==
  ASSUME NEW e, NEW s \in Kind(e), NEW k \in Cuts(s)
  PROVE  SubSeq(s, 1, k) \in Kind(e) /\ SubSeq(s, k + 1, Len(s)) \in Kind(e)
<1> DEFINE n == Len(s)
           a == SubSeq(s, 1, k)
           b == SubSeq(s, k + 1, Len(s))
<1>1. s \in Str /\ k \in 0..Len(s) /\ n \in Nat
  BY DEF Kind, Str, Cuts
<1>2. /\ a \in Str /\ Len(a) = k /\ \A i \in 1..k : a[i] = s[i]
      /\ b \in Str /\ Len(b) = n - k /\ \A i \in 1..(n - k) : b[i] = s[k + i]
  BY <1>1, PartsTyped DEF Str
<1>3. ASSUME e = "lf" PROVE a \in Seq(Plain) /\ b \in Seq(Plain)
  <2>1. s \in Seq(Plain)
    BY <1>3 DEF Kind
  <2> QED BY <1>1, <2>1, PartsTyped
<1> HIDE DEF a, b, n
<1>4. ASSUME e = "crlf" PROVE Led(a) /\ Led(b)
  <2>1. \A i \in 1..n : s[i] = LF => i > 1 /\ s[i - 1] = CR
    BY <1>4 DEF Kind, Led, n
  <2>2. Led(a)
    <3>1. ASSUME NEW i \in 1..Len(a), a[i] = LF PROVE i > 1 /\ a[i - 1] = CR
      <4>1. i \in 1..k /\ i \in 1..n /\ s[i] = LF
        BY <1>1, <1>2, <3>1 DEF n
      <4>2. i > 1 /\ s[i - 1] = CR
        BY <2>1, <4>1
      <4>3. i - 1 \in 1..k
        BY <1>1, <4>1, <4>2
      <4> QED BY <1>2, <4>2, <4>3
    <3> QED BY <3>1 DEF Led
  <2>3. Led(b)
    <3>1. ASSUME NEW i \in 1..Len(b), b[i] = LF PROVE i > 1 /\ b[i - 1] = CR
      <4>1. i \in 1..(n - k) /\ k + i \in 1..n /\ s[k + i] = LF
        BY <1>1, <1>2, <3>1 DEF n
      <4>2. k + i > 1 /\ s[(k + i) - 1] = CR
        BY <2>1, <4>1
      <4>3. i > 1
        <5>1. CASE i = 1
          <6>1. k > 0 /\ s[k] = CR /\ k < n
            BY <1>1, <4>1, <4>2, <5>1
          <6>2. s[k] = LF
            BY <6>1 DEF Cuts, n
          <6> QED BY <6>1, <6>2, Characters
        <5> QED BY <4>1, <5>1
      <4>4. i - 1 \in 1..(n - k) /\ (k + i) - 1 = k + (i - 1)
        BY <1>1, <4>1, <4>3
      <4> QED BY <1>2, <4>2, <4>3, <4>4
    <3> QED BY <3>1 DEF Led
  <2> QED BY <2>2, <2>3
<1> QED BY <1>2, <1>3, <1>4 DEF Kind, a, b, n

LEMMA Splices ==
  ASSUME NEW e, NEW s \in Kind(e), NEW j \in Cuts(s), NEW k \in Cuts(s), NEW b \in Kind(e)
  PROVE  SubSeq(s, 1, j) \o b \o SubSeq(s, k + 1, Len(s)) \in Kind(e)
<1> DEFINE p == SubSeq(s, 1, j)
           q == SubSeq(s, k + 1, Len(s))
<1>1. p \in Kind(e) /\ q \in Kind(e)
  BY PartsOfKind
<1> HIDE DEF p, q
<1>2. p \o b \in Kind(e)
  BY <1>1, KindCat
<1>3. (p \o b) \o q \in Kind(e)
  BY <1>1, <1>2, KindCat
<1> QED BY <1>3 DEF p, q

LEMMA AscendingTyped ==
  ASSUME NEW S, NEW n \in Nat PROVE Ascending(S, n) \in Seq(S)
<1> DEFINE f == [k \in 1..(n + 1) |-> IF k - 1 \in S THEN <<k - 1>> ELSE <<>>]
<1>1. \A k \in 1..(n + 1) : f[k] \in Seq(S)
  OBVIOUS
<1>2. f \in Seq(Seq(S))
  <2>1. f \in [1..(n + 1) -> Seq(S)]
    BY <1>1
  <2> HIDE DEF f
  <2>2. n + 1 \in Nat
    OBVIOUS
  <2> QED BY <2>1, <2>2
<1> HIDE DEF f
<1>3. FlattenSeq(f) \in Seq(S)
  BY <1>2, FlattenTyped
<1> QED BY <1>3 DEF Ascending, f

LEMMA OffsetsAreCuts ==
  ASSUME NEW s \in Str PROVE LineOffsets(s) \in Seq(Cuts(s))
<1> DEFINE C == {0, Len(s)} \cup {i \in DOMAIN s : s[i] = LF /\ i < Len(s)}
<1>1. Len(s) \in Nat /\ DOMAIN s = 1..Len(s)
  BY DEF Str
<1>2. C \subseteq Cuts(s)
  BY <1>1 DEF Cuts
<1>3. LineOffsets(s) = Ascending(C, Len(s))
  BY DEF LineOffsets
<1> HIDE DEF C
<1>4. LineOffsets(s) \in Seq(C)
  BY <1>1, <1>3, AscendingTyped
<1> QED BY <1>2, <1>4, SeqGrows

LEMMA LeastIs ==
  ASSUME NEW T \in SUBSET Nat, T # {} PROVE Min(T) \in T
<1>1. \E x \in T : \A y \in T : x <= y
  BY Least
<1> QED BY <1>1 DEF Min

LEMMA GreatestIs ==
  ASSUME NEW n \in Nat, NEW T \in SUBSET (0..n), T # {} PROVE Max(T) \in T
<1> DEFINE R == {m \in 0..n : n - m \in T}
<1>1. R \in SUBSET Nat /\ R # {}
  <2>1. PICK x \in T : TRUE
    OBVIOUS
  <2>2. n - x \in 0..n /\ n - (n - x) = x
    BY <2>1
  <2>3. n - x \in R
    BY <2>1, <2>2
  <2>4. R \in SUBSET Nat
    OBVIOUS
  <2> HIDE DEF R
  <2> QED BY <2>3, <2>4
<1>2. PICK m \in R : \A y \in R : m <= y
  <2> HIDE DEF R
  <2> QED BY <1>1, Least
<1>3. n - m \in T /\ \A y \in T : n - m >= y
  <2>1. n - m \in T
    BY <1>2
  <2>2. ASSUME NEW y \in T PROVE n - m >= y
    <3>1. y \in 0..n /\ n - y \in 0..n /\ n - (n - y) = y
      OBVIOUS
    <3>2. n - y \in R
      BY <3>1
    <3>3. m <= n - y /\ m \in 0..n
      BY <1>2, <3>2
    <3> QED BY <3>1, <3>3
  <2> QED BY <2>1, <2>2
<1> QED BY <1>3 DEF Max

(* The ending of a file that has one is what the majority vote finds.        *)
LEMMA VoteIsRight ==
  ASSUME NEW s \in Str, NEW e \in Endings, Uniform(s, e), NEW l \in DOMAIN s, s[l] = LF
  PROVE  DominantLineEnding(s) = e
<1> DEFINE C == {i \in DOMAIN s : InCRLF(s, i)}
           L == {i \in DOMAIN s : LoneLF(s, i)}
<1>1. Len(s) \in Nat /\ DOMAIN s = 1..Len(s)
  BY DEF Str
<1>2. IsFiniteSet(C) /\ IsFiniteSet(L)
  <2>1. IsFiniteSet(1..Len(s))
    BY <1>1, FS_Interval
  <2> QED BY <1>1, <2>1, FS_Subset
<1>3. Cardinality(C) \in Nat /\ Cardinality(L) \in Nat
  BY <1>2, FS_CardinalityType
<1>4. DominantLineEnding(s) = IF Cardinality(C) > Cardinality(L) THEN "crlf" ELSE "lf"
  BY DEF DominantLineEnding
<1>5. CASE e = "crlf"
  <2>1. Led(s)
    BY <1>5, UniformIs
  <2>2. L = {}
    BY <1>1, <2>1 DEF Led, LoneLF
  <2>3. l - 1 \in C
    BY <1>1, <2>1 DEF Led, InCRLF
  <2> HIDE DEF C, L
  <2>4. Cardinality(L) = 0 /\ Cardinality(C) # 0
    BY <1>2, <2>2, <2>3, FS_EmptySet
  <2> QED BY <1>3, <1>4, <1>5, <2>4
<1>6. CASE e = "lf"
  <2>1. C = {}
    BY <1>1, <1>6, UniformIs
  <2> HIDE DEF C, L
  <2>2. Cardinality(C) = 0
    BY <1>2, <2>1, FS_EmptySet
  <2> QED BY <1>3, <1>4, <1>6, <2>2
<1>7. e = "lf" \/ e = "crlf"
  BY DEF Endings
<1> QED BY <1>5, <1>6, <1>7

LEMMA TrimTyped == ASSUME NEW S, NEW s \in Seq(S) PROVE TrimNewline(s) \in Seq(S)
<1>1. CASE EndsInLF(s)
  <2>1. Len(s) \in Nat /\ Len(s) # 0
    BY <1>1 DEF EndsInLF
  <2>2. Len(s) - 1 \in 0..Len(s)
    BY <2>1
  <2>3. SubSeq(s, 1, Len(s) - 1) \in Seq(S)
    BY <2>2, PartsTyped
  <2> QED BY <1>1, <2>3 DEF TrimNewline, Front
<1>2. CASE ~ EndsInLF(s)
  BY <1>2 DEF TrimNewline
<1> QED BY <1>1, <1>2

LEMMA OneLF == <<LF>> \in Str /\ Paired(<<LF>>)
<1> DEFINE p == <<LF>>
<1>1. p \in Seq(Plain)
  BY Characters, SingleTyped
<1> HIDE DEF p
<1>2. p \in Str /\ Paired(p)
  BY <1>1, PlainTyped, PlainIsUniform
<1> QED BY <1>2 DEF p

LEMMA ConvertedOfKind ==
  ASSUME NEW s \in Str, Paired(s), NEW e \in Endings PROVE ToLineEnding(s, e) \in Kind(e)
BY PlainConverted, KindIsUniform

LEMMA EolOfKind == ASSUME NEW e \in Endings PROVE Eol(e) \in Kind(e)
BY OneLF, ConvertedOfKind DEF Eol

(* A block of lines has the ending it is given.                              *)
LEMMA BlockOfKind ==
  ASSUME NEW t \in Str, Paired(t), NEW e \in Endings, NEW terminate
  PROVE  TextBlock(t, e, terminate) \in Kind(e)
<1> DEFINE u == TrimNewline(FoldCRLF(t))
<1>1. u \in Seq(Plain)
  BY FoldPlain, TrimTyped
<1> HIDE DEF u
<1>2. u \in Str /\ Paired(u)
  BY <1>1, PlainTyped, PlainIsUniform
<1>3. ToLineEnding(u, e) \in Kind(e)
  BY <1>2, ConvertedOfKind
<1>4. (IF terminate THEN Eol(e) ELSE <<>>) \in Kind(e)
  BY EolOfKind, KindNone
<1>5. ToLineEnding(u, e) \o (IF terminate THEN Eol(e) ELSE <<>>) \in Kind(e)
  BY <1>3, <1>4, KindCat
<1> QED BY <1>5 DEF TextBlock, u

LEMMA StrIsKind == Kind("any") = Str
BY DEF Kind

LEMMA BlockTyped ==
  ASSUME NEW t \in Str, NEW e, NEW terminate
  PROVE  TextBlock(t, e, terminate) \in Str /\ Eol(e) \in Str
<1> DEFINE u == TrimNewline(FoldCRLF(t))
<1>1. u \in Str
  BY FoldTyped, TrimTyped DEF Str
<1> HIDE DEF u
<1>2. ToLineEnding(u, e) \in Str
  BY <1>1, LineEndingTyped
<1>3. Eol(e) \in Str
  BY OneLF, LineEndingTyped DEF Eol
<1>4. (IF terminate THEN Eol(e) ELSE <<>>) \in Str
  BY <1>3 DEF Str
<1>5. ToLineEnding(u, e) \o (IF terminate THEN Eol(e) ELSE <<>>) \in Str
  BY <1>2, <1>4 DEF Str
<1> QED BY <1>3, <1>5 DEF TextBlock, u

(* An anchor is found where it is, in the text.                              *)
LEMMA MatchesAreThere ==
  ASSUME NEW s \in Str, NEW a
  PROVE  \A k \in Matches(s, a) : k \in 1..Len(s) /\ FoundAt(s, a, k)
<1> DEFINE n == Len(s)
           X == SUBSET {i \in 1..n : FoundAt(s, a, i)}
           next(M, i) == IF FoundAt(s, a, i) /\ \A k \in M : k + Len(a) <= i THEN M \cup {i} ELSE M
           step == [p \in X \X (1..n) |-> next(p[1], p[2])]
           none == {}
<1>1. n \in Nat
  BY DEF Str
<1>2. \A M \in X, i \in 1..n : next(M, i) \in X
  OBVIOUS
<1> HIDE DEF X, n
<1>3. IsStep(step, X, n)
  <2> HIDE DEF next
  <2>1. step \in [X \X (1..n) -> X]
    BY <1>2
  <2> QED BY <2>1 DEF IsStep
<1>4. \A M \in X, i \in 1..n : step[<<M, i>>] = next(M, i)
  OBVIOUS
<1>5. none \in X
  BY DEF X
<1> HIDE DEF step, none
<1>6. PICK f : Iterates(f, X, n, none, step)
  BY <1>1, <1>3, <1>5, Recursion
<1> HIDE DEF next
<1>7. /\ \A i \in 0..n : f[i] \in X
      /\ f[0] = none /\ \A i \in 1..n : f[i] = next(f[i - 1], i)
  <2>1. /\ \A i \in 0..n : f[i] \in X
        /\ f[0] = none /\ \A i \in 1..n : f[i] = step[<<f[i - 1], i>>]
    BY <1>6 DEF Iterates
  <2>2. \A i \in 1..n : i - 1 \in 0..n
    BY <1>1
  <2> QED BY <1>4, <2>1, <2>2
<1> DEFINE Is(g) == g = [i \in 0..n |-> IF i = 0 THEN {} ELSE next(g[i - 1], i)]
           F == [i \in 0..n |-> f[i]]
           G == CHOOSE g : Is(g)
<1>8. Matches(s, a) = G[n]
  BY DEF Matches, n, next
<1>9. Is(F)
  <2>1. \A i \in 0..n : F[i] = IF i = 0 THEN {} ELSE next(F[i - 1], i)
    <3>1. \A i \in 0..n : F[i] = f[i]
      OBVIOUS
    <3>2. \A i \in 0..n : i = 0 \/ (i \in 1..n /\ i - 1 \in 0..n /\ i # 0)
      BY <1>1
    <3> HIDE DEF F
    <3> QED BY <1>7, <3>1, <3>2 DEF none
  <2>2. F = [i \in 0..n |-> F[i]]
    OBVIOUS
  <2> HIDE DEF F
  <2> QED BY <2>1, <2>2
<1>10. Is(G)
  <2> HIDE DEF F, Is
  <2> QED BY <1>9
<1> HIDE DEF G, F
<1>11. G[0] = {} /\ \A i \in 1..n : G[i] = next(G[i - 1], i)
  <2>1. \A i \in 0..n : G[i] = IF i = 0 THEN {} ELSE next(G[i - 1], i)
    BY <1>10
  <2>2. 0 \in 0..n /\ \A i \in 1..n : i \in 0..n /\ i # 0
    BY <1>1
  <2> QED BY <2>1, <2>2
<1> DEFINE T == {i \in Nat : i <= n => G[i] \in X}
<1>12. 0 \in T
  BY <1>5, <1>11 DEF none
<1>13. ASSUME NEW i \in T PROVE i + 1 \in T
  <2>1. ASSUME i + 1 <= n PROVE G[i + 1] \in X
    <3>1. i + 1 \in 1..n /\ (i + 1) - 1 = i /\ G[i] \in X
      BY <1>1, <2>1
    <3>2. G[i + 1] = next(G[i], i + 1)
      BY <1>11, <3>1
    <3> HIDE DEF T
    <3> QED BY <1>2, <3>1, <3>2
  <2> QED BY <2>1
<1>14. T = Nat
  <2> HIDE DEF T
  <2>1. T \in SUBSET Nat
    BY DEF T
  <2> QED BY <1>12, <1>13, <2>1, Induction
<1>15. G[n] \in X
  BY <1>1, <1>14
<1> QED BY <1>8, <1>15 DEF X, n

(* What insert_text puts in comes between two lines, or at the end.          *)
LEMMA AtAnchorIsCut ==
  ASSUME NEW s \in Str, NEW a \in Str, NEW k \in Matches(s, a), NEW before
  PROVE  AtAnchor(s, k, a, before) \in Cuts(s)
<1> DEFINE end == k + Len(a) - 1
           starts == {0} \cup {i \in 1..(k - 1) : s[i] = LF}
           ends == {i \in end..Len(s) : s[i] = LF}
<1>1. k \in 1..Len(s) /\ Len(s) \in Nat /\ Len(a) \in Nat
  BY MatchesAreThere DEF Str
<1>2. AtAnchor(s, k, a, before) = IF before THEN Max(starts)
                                  ELSE IF ends = {} THEN Len(s) ELSE Min(ends)
  BY DEF AtAnchor
<1>3. Max(starts) \in Cuts(s)
  <2>1. starts \in SUBSET (0..Len(s)) /\ starts # {} /\ starts \subseteq Cuts(s)
    BY <1>1 DEF Cuts
  <2> HIDE DEF starts
  <2>2. Max(starts) \in starts
    BY <1>1, <2>1, GreatestIs
  <2> QED BY <2>1, <2>2
<1>4. ASSUME ends # {} PROVE Min(ends) \in Cuts(s)
  <2>1. ends \in SUBSET Nat /\ ends \subseteq Cuts(s)
    <3>1. end \in Nat
      BY <1>1
    <3> HIDE DEF end
    <3>2. \A i \in ends : i \in Nat /\ i <= Len(s) /\ s[i] = LF
      BY <1>1, <3>1
    <3>3. \A i \in ends : i = 0 \/ i \in 1..Len(s)
      BY <1>1, <3>2
    <3> HIDE DEF ends
    <3> QED BY <3>2, <3>3 DEF Cuts
  <2> HIDE DEF ends
  <2> QED BY <1>4, <2>1, LeastIs
<1>5. Len(s) \in Cuts(s)
  BY DEF Cuts
<1> HIDE DEF starts, ends
<1> QED BY <1>2, <1>3, <1>4, <1>5

LEMMA AtLineIsCut ==
  ASSUME NEW s \in Str, NEW line \in 1..Len(LineOffsets(s)) PROVE AtLine(s, line) \in Cuts(s)
<1>1. LineOffsets(s) \in Seq(Cuts(s))
  BY OffsetsAreCuts
<1>2. LineOffsets(s)[line] \in Cuts(s)
  BY <1>1
<1>3. Len(s) \in Cuts(s)
  BY DEF Cuts
<1> QED BY <1>2, <1>3 DEF AtLine

(* Putting a text in the place of an anchor.                                 *)
Covered(i, hits, a) == \E k \in hits : k < i /\ i < k + Len(a)
Swap1(s, i, hits, a, t) == IF i \in hits THEN t ELSE IF Covered(i, hits, a) THEN <<>> ELSE <<s[i]>>
SwapPieces(s, hits, a, t) == [i \in DOMAIN s |-> Swap1(s, i, hits, a, t)]

LEMMA SwapTyped ==
  ASSUME NEW S, NEW s \in Seq(S), NEW hits, NEW a, NEW t \in Seq(S)
  PROVE  /\ SwapPieces(s, hits, a, t) \in Seq(Seq(S)) /\ Len(SwapPieces(s, hits, a, t)) = Len(s)
         /\ \A i \in 1..Len(s) : SwapPieces(s, hits, a, t)[i] = Swap1(s, i, hits, a, t)
         /\ Replaced(s, hits, a, t) = FlattenSeq(SwapPieces(s, hits, a, t))
         /\ Replaced(s, hits, a, t) \in Seq(S)
<1> DEFINE f == SwapPieces(s, hits, a, t)
           R == Seq(S)
<1>1. DOMAIN s = 1..Len(s) /\ \A i \in 1..Len(s) : <<s[i]>> \in R
  OBVIOUS
<1>2. \A i \in 1..Len(s) : f[i] = Swap1(s, i, hits, a, t)
  BY <1>1 DEF SwapPieces
<1>3. \A i \in 1..Len(s) : Swap1(s, i, hits, a, t) \in R
  <2>1. <<>> \in R /\ t \in R
    OBVIOUS
  <2> HIDE DEF R
  <2> QED BY <1>1, <2>1 DEF Swap1
<1>4. f \in [DOMAIN s -> R]
  <2> HIDE DEF R
  <2> QED BY <1>1, <1>3 DEF SwapPieces
<1>5. Replaced(s, hits, a, t) = FlattenSeq(f)
  BY DEF Replaced, SwapPieces, Swap1, Covered
<1> HIDE DEF f
<1>6. f \in Seq(R) /\ Len(f) = Len(s)
  <2> HIDE DEF R
  <2> QED BY <1>4, PiecesTyped
<1>7. FlattenSeq(f) \in Seq(S)
  BY <1>6, FlattenTyped
<1> QED BY <1>2, <1>5, <1>6, <1>7 DEF f

LEMMA NoRoom ==
  ASSUME NEW i \in Int, NEW l \in Nat, l >= 1, ~ (i < i + 1 /\ i + 1 < i + l) PROVE l = 1
OBVIOUS

LEMMA CatPair ==
  ASSUME NEW S, NEW u \in Seq(S), NEW c \in S, NEW d \in S
  PROVE  (u \o <<c>>) \o <<d>> = u \o <<c, d>>
<1> DEFINE q == <<c>>
           r == <<d>>
           w == <<c, d>>
           z == q \o r
<1>1. /\ q \in Seq(S) /\ Len(q) = 1 /\ q[1] = c
      /\ r \in Seq(S) /\ Len(r) = 1 /\ r[1] = d
      /\ w \in Seq(S) /\ Len(w) = 2 /\ w[1] = c /\ w[2] = d
  BY SingleTyped, PairTyped
<1> HIDE DEF q, r, w
<1>2. /\ z \in Seq(S) /\ Len(z) = Len(q) + Len(r)
      /\ \A x \in 1..Len(q) : z[x] = q[x]
      /\ \A x \in 1..Len(r) : z[Len(q) + x] = r[x]
  <2>1. q \in Seq(S) /\ r \in Seq(S)
    BY <1>1
  <2> QED BY <2>1, CatFacts
<1> HIDE DEF z
<1>3. Len(z) = 2 /\ z[1] = c /\ z[2] = d
  <2>1. 1 \in 1..Len(q) /\ 1 \in 1..Len(r) /\ Len(q) + 1 = 2
    BY <1>1
  <2> QED BY <1>1, <1>2, <2>1
<1>4. \A x \in 1..Len(z) : z[x] = w[x]
  <2>1. \A x \in 1..Len(z) : x = 1 \/ x = 2
    BY <1>3
  <2> QED BY <1>1, <1>3, <2>1
<1>5. z = w
  BY <1>1, <1>2, <1>3, <1>4, SameSeq
<1>6. (u \o q) \o r = u \o (q \o r)
  BY <1>1, CatAssoc
<1> QED BY <1>5, <1>6 DEF z, q, r, w

(* A match does not end between a CR and its LF, so none is parted.          *)
LEMMA SwapKeepsLed ==
  ASSUME NEW s \in Str, Led(s), NEW a \in Str, Paired(a), Len(a) >= 1, NEW t \in Str, Led(t),
         NEW hits, \A k \in hits : k \in 1..Len(s) /\ FoundAt(s, a, k)
  PROVE  Led(Replaced(s, hits, a, t))
<1> DEFINE n == Len(s)
           p == SwapPieces(s, hits, a, t)
<1>1. n \in Nat /\ Len(a) \in Nat /\ \A i \in 1..n : s[i] \in Chars
  BY DEF Str
<1>2. p \in Seq(Seq(Chars)) /\ Len(p) = n /\ \A i \in 1..n : p[i] = Swap1(s, i, hits, a, t)
  BY SwapTyped DEF Str
<1>3. \A i \in 1..n : s[i] = LF => i > 1 /\ s[i - 1] = CR
  BY DEF Led
<1>4. ASSUME NEW k \in hits, NEW j \in 1..Len(a)
      PROVE  k \in 1..n /\ (k + j) - 1 \in 1..n /\ s[(k + j) - 1] = a[j]
  <2>1. k \in 1..n /\ k + Len(a) - 1 <= n /\ SubSeq(s, k, k + Len(a) - 1) = a
    BY DEF FoundAt
  <2>2. (k + j) - 1 \in 1..n
    BY <1>1, <2>1
  <2> DEFINE m == k + Len(a) - 1
  <2>3. m \in k..n /\ j \in 1..(m - k + 1)
    BY <1>1, <2>1
  <2> HIDE DEF m
  <2>4. SubSeq(s, k, m)[j] = s[(k + j) - 1]
    <3>1. s \in Seq(Chars) /\ k \in 1..Len(s) /\ m \in Nat /\ m <= Len(s) /\ k <= m
      BY <1>1, <2>1, <2>3 DEF Str, n
    <3>2. SubSeq(s, k, m)[j] = s[k + j - 1]
      BY <2>3, <3>1
    <3> QED BY <3>2
  <2> QED BY <2>1, <2>2, <2>4 DEF m
<1> HIDE DEF p, n
<1>5. ASSUME NEW i \in 1..n, i + 1 \in 1..n, s[i] = CR,
             i + 1 \notin hits, ~ Covered(i + 1, hits, a)
      PROVE  i \notin hits /\ ~ Covered(i, hits, a)
  <2>1. ASSUME i \in hits PROVE FALSE
    <3>2. ~ (i < i + 1 /\ i + 1 < i + Len(a))
      BY <1>5, <2>1 DEF Covered
    <3>3. Len(a) = 1 /\ 1 \in 1..Len(a) /\ (i + 1) - 1 = i
      <4>1. i \in Int /\ Len(a) \in Nat
        BY <1>1
      <4>2. Len(a) = 1
        BY <3>2, <4>1, NoRoom
      <4> QED BY <4>1, <4>2
    <3>4. s[i] = a[1]
      BY <1>4, <2>1, <3>3
    <3> QED BY <1>5, <3>3, <3>4, PairedIs
  <2>2. ASSUME Covered(i, hits, a) PROVE FALSE
    <3>1. PICK k \in hits : k < i /\ i < k + Len(a)
      BY <2>2 DEF Covered
    <3>2. k \in 1..n
      BY DEF n
    <3>3. ~ (k < i + 1 /\ i + 1 < k + Len(a))
      BY <1>5 DEF Covered
    <3>4. i = (k + Len(a)) - 1 /\ Len(a) \in 1..Len(a)
      BY <1>1, <3>1, <3>2, <3>3
    <3>5. s[i] = a[Len(a)]
      BY <1>4, <3>4
    <3> QED BY <1>5, <3>4, <3>5, PairedIs
  <2> QED BY <2>1, <2>2
<1>6. PICK g : Joins(Chars, p, g)
  BY <1>2, JoinsExist
<1>7. /\ \A i \in 0..n : g[i] \in Str
      /\ g[0] = <<>> /\ \A i \in 1..n : g[i] = g[i - 1] \o Swap1(s, i, hits, a, t)
  BY <1>2, <1>6 DEF Joins, Str
<1> DEFINE T == {i \in Nat : \A m \in 0..i : m <= n => Led(g[m])}
<1>8. 0 \in T
  <2>1. Led(g[0])
    BY <1>7 DEF Led
  <2>2. \A m \in 0..0 : m = 0
    OBVIOUS
  <2> QED BY <2>1, <2>2
<1>9. ASSUME NEW i \in T PROVE i + 1 \in T
  <2> DEFINE j == i + 1
  <2>1. i \in Nat /\ j \in Nat /\ j - 1 = i /\ \A m \in 0..i : m <= n => Led(g[m])
    BY <1>9
  <2> HIDE DEF T, j
  <2>2. ASSUME j <= n PROVE Led(g[j])
    <3>1. j \in 1..n /\ i \in 0..n /\ i \in 0..i
      BY <1>1, <2>1, <2>2
    <3>2. Led(g[i]) /\ g[i] \in Str /\ g[j] = g[i] \o Swap1(s, j, hits, a, t)
      <4>1. i <= n
        BY <1>1, <3>1
      <4>2. Led(g[i])
        BY <2>1, <3>1, <4>1
      <4>3. g[i] \in Str
        BY <1>7, <3>1
      <4>4. g[j] = g[i] \o Swap1(s, j, hits, a, t)
        <5>1. g[j] = g[j - 1] \o Swap1(s, j, hits, a, t)
          BY <1>7, <3>1
        <5> QED BY <2>1, <5>1
      <4> QED BY <4>2, <4>3, <4>4
    <3>3. CASE j \in hits
      BY <3>2, <3>3, LedCat DEF Swap1
    <3>4. CASE j \notin hits /\ Covered(j, hits, a)
      <4>1. g[j] = g[i]
        BY <3>2, <3>4, CatEmpty DEF Swap1, Str
      <4> QED BY <3>2, <4>1
    <3>5. CASE j \notin hits /\ ~ Covered(j, hits, a) /\ s[j] # LF
      <4> DEFINE q == <<s[j]>>
      <4>1. q \in Str /\ Len(q) = 1 /\ q[1] = s[j]
        BY <1>1, <3>1, SingleTyped DEF Str
      <4>2. g[j] = g[i] \o q
        BY <3>2, <3>5 DEF Swap1
      <4> HIDE DEF q
      <4>3. Led(q)
        BY <3>5, <4>1 DEF Led
      <4> QED BY <3>2, <4>1, <4>2, <4>3, LedCat
    <3>6. CASE j \notin hits /\ ~ Covered(j, hits, a) /\ s[j] = LF
      <4>1. j > 1 /\ s[i] = CR
        BY <1>3, <2>1, <3>1, <3>6
      <4>2. i \in 1..n /\ i + 1 \in 1..n /\ i - 1 \in 0..n /\ i - 1 \in 0..i
        BY <1>1, <2>1, <3>1, <4>1 DEF j
      <4>3. i \notin hits /\ ~ Covered(i, hits, a)
        BY <1>5, <3>6, <4>1, <4>2 DEF j
      <4>4. Led(g[i - 1]) /\ g[i - 1] \in Str /\ g[i] = g[i - 1] \o <<CR>>
        <5>1. Led(g[i - 1])
          BY <1>1, <2>1, <4>2
        <5>2. Swap1(s, i, hits, a, t) = <<CR>>
          BY <4>1, <4>3 DEF Swap1
        <5> QED BY <1>7, <4>2, <5>1, <5>2
      <4>5. g[j] = (g[i - 1] \o <<CR>>) \o <<LF>>
        BY <3>2, <3>6, <4>4 DEF Swap1
      <4> DEFINE u == g[i - 1]
                 w == <<CR, LF>>
      <4>6. u \in Str /\ w \in Str /\ Len(w) = 2 /\ w[1] = CR /\ w[2] = LF
        BY <4>4, Characters, PairTyped DEF Str
      <4>7. (u \o <<CR>>) \o <<LF>> = u \o w
        <5>1. u \in Seq(Chars) /\ CR \in Chars /\ LF \in Chars
          BY <4>6, Characters DEF Str
        <5> HIDE DEF u
        <5> QED BY <5>1, CatPair DEF w
      <4> HIDE DEF w
      <4>8. Led(w)
        BY <4>6, Characters DEF Led
      <4>9. Led(u \o w)
        BY <4>4, <4>6, <4>8, LedCat
      <4> QED BY <4>5, <4>7, <4>9
    <3> QED BY <3>3, <3>4, <3>5, <3>6
  <2>3. \A m \in 0..j : m \in 0..i \/ m = j
    BY <2>1 DEF j
  <2> QED BY <2>1, <2>2, <2>3 DEF T, j
<1>10. T = Nat
  <2> HIDE DEF T
  <2>1. T \in SUBSET Nat
    BY DEF T
  <2> QED BY <1>8, <1>9, <2>1, Induction
<1>11. Led(g[n])
  <2> HIDE DEF T
  <2>1. n \in T /\ n \in 0..n
    BY <1>1, <1>10
  <2> USE DEF T
  <2> QED BY <1>1, <2>1
<1>12. Replaced(s, hits, a, t) = g[n]
  <2>1. FlattenSeq(p) = g[n]
    BY <1>2, <1>6, JoinsEnd
  <2> QED BY <2>1, SwapTyped DEF p, Str
<1> QED BY <1>11, <1>12

LEMMA FoldLeavesSome ==
  ASSUME NEW s \in Str, Len(s) >= 1, Paired(s), NEW e PROVE Len(ToLineEnding(s, e)) >= 1
<1> DEFINE n == Len(s)
           p == FoldPieces(s)
           t == FoldCRLF(s)
<1>1. n \in Nat /\ n \in 1..n /\ n - 1 \in 0..n /\ \A i \in 1..n : <<s[i]>> \in Seq(Chars)
  BY DEF Str
<1>2. p \in Seq(Seq(Chars)) /\ Len(p) = n /\ \A i \in 1..n : p[i] = Kept1(s, i)
  <2>1. \A i \in 1..n : Kept1(s, i) \in Seq(Chars)
    BY <1>1 DEF Kept1
  <2> QED BY <2>1, FoldPiecesIn DEF Str
<1>3. Kept1(s, n) = <<s[n]>>
  BY <1>1 DEF Kept1, InCRLF
<1> HIDE DEF p, n
<1>4. PICK g : Joins(Chars, p, g)
  BY <1>2, JoinsExist
<1>5. g[n - 1] \in Seq(Chars) /\ g[n] = g[n - 1] \o <<s[n]>>
  BY <1>1, <1>2, <1>3, <1>4 DEF Joins
<1>6. Len(g[n]) >= 1
  <2> DEFINE u == g[n - 1]
             q == <<s[n]>>
  <2>1. u \in Seq(Chars) /\ q \in Seq(Chars) /\ Len(q) = 1
    BY <1>1, <1>5
  <2> HIDE DEF u, q
  <2>2. Len(u \o q) = Len(u) + Len(q) /\ Len(u) \in Nat
    BY <2>1, CatFacts
  <2> QED BY <1>5, <2>1, <2>2 DEF u, q
<1>7. t = g[n]
  BY <1>2, <1>4, JoinsEnd, FoldIs DEF p
<1>8. t \in Str /\ Len(t) >= 1
  BY <1>6, <1>7, FoldTyped DEF Str
<1> HIDE DEF t
<1>9. Len(Unfold(t)) >= 1
  <2>1. Unfold(t) \in Str /\ FoldCRLF(Unfold(t)) = t
    BY <1>8, UnfoldTyped, FoldUnfold
  <2> DEFINE u == Unfold(t)
  <2> HIDE DEF u
  <2>2. ASSUME Len(u) = 0 PROVE FALSE
    <3>1. \A i \in 1..Len(u) : ~ InCRLF(u, i)
      BY <2>2
    <3>2. u \in Seq(Chars)
      BY <2>1 DEF u, Str
    <3>3. FoldCRLF(u) = u
      BY <3>1, <3>2, FoldNothing
    <3> QED BY <1>8, <2>1, <2>2, <3>3 DEF u
  <2>3. Len(u) \in Nat
    BY <2>1 DEF u, Str
  <2> QED BY <2>2, <2>3 DEF u
<1> QED BY <1>8, <1>9, ToLineEndingIs DEF t

-----------------------------------------------------------------------------
(* What the tools leave. *)

TextTyped ==
  /\ \A f \in DOMAIN bytes : bytes[f] \in Str
  /\ mode \in {"preserve"} \cup Endings

Edits == {"edit_lines", "insert_text", "edit_file"}

\* The case EditsKeepTheEnding is about.
Keeping(e, old, what) ==
  /\ Uniform(old, e) /\ (\E i \in DOMAIN old : old[i] = LF)
  /\ Paired(old) /\ Paired(what.text)
  /\ what.tool = "edit_file" => what.adjusted /\ Paired(what.anchor)

LEMMA ToLFTyped == ASSUME NEW s \in Str PROVE ToLF(s) \in Str
BY NormalIsPlain, PlainTyped DEF ToLF

LEMMA ClientTexts ==
  /\ \A s \in Given \cup Anchors \cup Outsides : s \in Str
  /\ <<>> \in Str
  /\ Modes \subseteq {"preserve"} \cup Endings
BY TextsAssumption, StringsAreStr DEF Str, Endings

(* Any write of a whole text is right if what is written is a text and, when *)
(* the file keeps its convention, of the file's kind.                        *)
LEMMA WriteIsRight ==
  ASSUME TextTyped, NEW d \in DOMAIN bytes, NEW t \in Str, NEW what,
         what.tool \in Edits \cup {"write_file"}, what.doc = d, what.before = bytes,
         \A e \in Endings :
            mode = "preserve" /\ what.tool \in Edits /\ Keeping(e, bytes[d], what) => t \in Kind(e),
         WriteFile(d, t, what)
  PROVE  TextTyped' /\ OneConvention'
<1>1. /\ bytes' = [bytes EXCEPT ![d] = ToDisk(t)] /\ made' = what /\ mode' = mode
  BY DEF WriteFile
<1>2. mode \in {"preserve"} \cup Endings /\ \A f \in DOMAIN bytes : bytes[f] \in Str
  BY DEF TextTyped
<1>3. ToDisk(t) \in Str
  BY <1>2, DiskIsUniform DEF ToDisk
<1>4. bytes'[d] = ToDisk(t)
  BY <1>1
<1>5. TextTyped'
  <2>1. \A f \in DOMAIN bytes' : bytes'[f] \in Str
    BY <1>1, <1>2, <1>3
  <2> QED BY <1>1, <1>2, <2>1 DEF TextTyped
<1>6. WritesNormalise'
  <2>1. ASSUME mode # "preserve"
        PROVE  Uniform(ToDisk(t), mode) /\ FoldCRLF(ToDisk(t)) = NormalizeToLF(ToDisk(t))
    BY <1>2, <2>1, DiskIsUniform
  <2> QED BY <1>1, <1>4, <2>1 DEF WritesNormalise
<1>7. EditsKeepTheEnding'
  <2>1. ASSUME mode = "preserve", what.tool \in Edits,
               NEW e \in Endings, Keeping(e, bytes[d], what)
        PROVE  Uniform(bytes'[d], e)
    <3>1. t \in Kind(e)
      BY <2>1
    <3>2. ToDisk(t) = t
      BY <2>1 DEF ToDisk
    <3> QED BY <1>4, <3>1, <3>2, KindIsUniform
  <2>2. made'.before[made'.doc] = bytes[d] /\ made'.doc = d
    BY <1>1
  <2> QED BY <1>1, <2>1, <2>2 DEF EditsKeepTheEnding, Keeping, Edits
<1>8. FixesOnlyEndings'
  <2>1. made'.tool # "fix_line_endings"
    BY <1>1 DEF Edits
  <2> QED BY <2>1 DEF FixesOnlyEndings
<1> QED BY <1>5, <1>6, <1>7, <1>8 DEF OneConvention

LEMMA PutIsRight ==
  ASSUME TextTyped, NEW d \in DOMAIN bytes, NEW text \in Given, PutFile(d, text)
  PROVE  TextTyped' /\ OneConvention'
<1> DEFINE what == [tool |-> "write_file", doc |-> d, before |-> bytes]
<1>1. text \in Str
  BY ClientTexts
<1>2. WriteFile(d, text, what)
  BY DEF PutFile
<1>3. what.tool = "write_file" /\ what.doc = d /\ what.before = bytes /\ what.tool \notin Edits
  BY DEF Edits
<1> HIDE DEF what
<1> QED BY <1>1, <1>2, <1>3, WriteIsRight

(* The kind of a file that keeps its convention, and the vote on it.         *)
LEMMA FileOfKind ==
  ASSUME NEW s \in Str, NEW e \in Endings, NEW what, Keeping(e, s, what)
  PROVE  s \in Kind(e) /\ DominantLineEnding(s) = e
BY KindIsUniform, VoteIsRight DEF Keeping

LEMMA EditLinesIsRight ==
  ASSUME TextTyped, NEW d \in DOMAIN bytes, NEW start \in 1..MaxLine, NEW end \in 1..MaxLine,
         NEW text \in Given \cup {<<>>}, NEW quote \in BOOLEAN,
         EditLines(d, start, end, text, quote)
  PROVE  TextTyped' /\ OneConvention'
<1> DEFINE content == TextOf(d)
           offs == LineOffsets(content)
           terminate == EndsInLF(LinesOf(content, start, end))
           block == IF text = <<>> THEN <<>>
                    ELSE TextBlock(text, DominantLineEnding(content), terminate)
           t == SubSeq(content, 1, offs[start]) \o block
                  \o SubSeq(content, offs[end + 1] + 1, Len(content))
           what == [tool |-> "edit_lines", doc |-> d, before |-> bytes, from |-> start, to |-> end,
                     text |-> text, quote |-> IF quote THEN {Quoted(start, end)} ELSE {}]
<1>1. InRange(content, start, end) /\ WriteFile(d, t, what)
  BY DEF EditLines
<1>2. /\ what.tool = "edit_lines" /\ what.doc = d /\ what.before = bytes /\ what.text = text
      /\ what.tool \in Edits
  BY DEF Edits
<1>3. bytes[d] \in Str /\ content \in Str /\ text \in Str
  BY ToLFTyped, ClientTexts DEF TextTyped, TextOf
<1>4. offs[start] \in Cuts(content) /\ offs[end + 1] \in Cuts(content)
  <2>1. offs \in Seq(Cuts(content))
    BY <1>3, OffsetsAreCuts
  <2>2. Len(offs) \in Nat /\ start \in 1..(Len(offs) - 1) /\ end \in start..(Len(offs) - 1)
    BY <1>1, <2>1 DEF InRange
  <2> HIDE DEF offs, content
  <2>3. start \in 1..Len(offs) /\ end + 1 \in 1..Len(offs)
    BY <2>2
  <2> QED BY <2>1, <2>3
<1> HIDE DEF content, offs, terminate, what
<1>5. ASSUME NEW e, content \in Kind(e), block \in Kind(e) PROVE t \in Kind(e)
  <2> HIDE DEF block
  <2> QED BY <1>4, <1>5, Splices
<1>6. block \in Str
  BY <1>3, BlockTyped DEF Str
<1>7. ASSUME NEW e \in Endings, mode = "preserve", Keeping(e, bytes[d], what) PROVE t \in Kind(e)
  <2>1. content = bytes[d]
    BY <1>7 DEF content, TextOf, ToLF
  <2>2. content \in Kind(e) /\ DominantLineEnding(content) = e
    BY <1>3, <1>7, <2>1, FileOfKind
  <2>3. Paired(text)
    BY <1>2, <1>7 DEF Keeping
  <2>4. block \in Kind(e)
    BY <1>3, <2>2, <2>3, BlockOfKind, KindNone
  <2> HIDE DEF t, block
  <2> QED BY <1>5, <2>2, <2>4
<1> HIDE DEF block
<1>8. t \in Str
  BY <1>3, <1>5, <1>6, StrIsKind
<1> HIDE DEF t
<1> QED BY <1>1, <1>2, <1>7, <1>8, WriteIsRight

LEMMA PutLinesIsRight ==
  ASSUME TextTyped, NEW d \in DOMAIN bytes, NEW point \in Cuts(TextOf(d)), NEW text \in Given,
         NEW what, what.tool = "insert_text", what.doc = d, what.before = bytes, what.text = text,
         PutLines(d, point, text, what)
  PROVE  TextTyped' /\ OneConvention'
<1> DEFINE content == TextOf(d)
           ending == DominantLineEnding(content)
           unended == point = Len(content) /\ content # <<>> /\ ~EndsInLF(content)
           block == IF unended THEN Eol(ending) \o TextBlock(text, ending, FALSE)
                    ELSE TextBlock(text, ending, TRUE)
           t == SubSeq(content, 1, point) \o block \o SubSeq(content, point + 1, Len(content))
<1>1. WriteFile(d, t, what)
  BY DEF PutLines
<1>2. what.tool \in Edits /\ what.tool # "edit_file"
  BY DEF Edits
<1>3. bytes[d] \in Str /\ content \in Str /\ text \in Str /\ point \in Cuts(content)
  BY ToLFTyped, ClientTexts DEF TextTyped, TextOf
<1> HIDE DEF content, ending, unended
<1>5. ASSUME NEW e, content \in Kind(e), block \in Kind(e) PROVE t \in Kind(e)
  <2> HIDE DEF block
  <2> QED BY <1>3, <1>5, Splices
<1>6. block \in Str
  <2>1. /\ TextBlock(text, ending, FALSE) \in Str /\ TextBlock(text, ending, TRUE) \in Str
        /\ Eol(ending) \in Str
    BY <1>3, BlockTyped
  <2>2. Eol(ending) \o TextBlock(text, ending, FALSE) \in Str
    BY <2>1, StrIsKind, KindCat
  <2> QED BY <2>1, <2>2
<1>7. ASSUME NEW e \in Endings, mode = "preserve", Keeping(e, bytes[d], what) PROVE t \in Kind(e)
  <2>1. content = bytes[d]
    BY <1>7 DEF content, TextOf, ToLF
  <2>2. content \in Kind(e) /\ ending = e
    BY <1>3, <1>7, <2>1, FileOfKind DEF ending
  <2>3. Paired(text)
    BY <1>7 DEF Keeping
  <2>4. /\ TextBlock(text, ending, FALSE) \in Kind(e) /\ TextBlock(text, ending, TRUE) \in Kind(e)
        /\ Eol(ending) \in Kind(e)
    BY <1>3, <2>2, <2>3, BlockOfKind, EolOfKind
  <2>5. block \in Kind(e)
    BY <2>4, KindCat
  <2> HIDE DEF t, block
  <2> QED BY <1>5, <2>2, <2>5
<1> HIDE DEF block
<1>8. t \in Str
  BY <1>3, <1>5, <1>6, StrIsKind
<1> HIDE DEF t
<1> QED BY <1>1, <1>2, <1>7, <1>8, WriteIsRight

LEMMA InsertIsRight ==
  ASSUME TextTyped, NEW d \in DOMAIN bytes, NEW text \in Given,
         \/ \E line \in 1..MaxLine : InsertAtLine(d, line, text)
         \/ \E quoted \in Anchors, before \in BOOLEAN : InsertAtAnchor(d, quoted, before, text)
  PROVE  TextTyped' /\ OneConvention'
<1>1. bytes[d] \in Str /\ TextOf(d) \in Str
  BY ToLFTyped DEF TextTyped, TextOf
<1>2. ASSUME NEW n
      PROVE  LET what == Insertion(d, n, text)
             IN what.tool = "insert_text" /\ what.doc = d /\ what.before = bytes /\ what.text = text
  BY DEF Insertion
<1>3. ASSUME NEW line \in 1..MaxLine, InsertAtLine(d, line, text) PROVE TextTyped' /\ OneConvention'
  <2>1. /\ line \in 1..Len(LineOffsets(TextOf(d)))
        /\ PutLines(d, AtLine(TextOf(d), line), text, Insertion(d, line, text))
    BY <1>3 DEF InsertAtLine
  <2>2. AtLine(TextOf(d), line) \in Cuts(TextOf(d))
    BY <1>1, <2>1, AtLineIsCut
  <2> QED BY <1>2, <2>1, <2>2, PutLinesIsRight
<1>4. ASSUME NEW quoted \in Anchors, NEW before \in BOOLEAN, InsertAtAnchor(d, quoted, before, text)
      PROVE TextTyped' /\ OneConvention'
  <2> DEFINE content == TextOf(d)
             anchor == Reconciled(content, quoted)
  <2>1. anchor \in Str
    <3>1. quoted \in Str
      BY ClientTexts
    <3> QED BY <3>1, LineEndingTyped DEF Reconciled
  <2>2. PICK first \in Matches(content, anchor) :
           PutLines(d, AtAnchor(content, first, anchor, before), text,
                    Insertion(d, IF before THEN NumberOf(content, first)
                                 ELSE NumberOf(content, first + Len(anchor) - 1) + 1, text))
    BY <1>4 DEF InsertAtAnchor
  <2> DEFINE n == IF before THEN NumberOf(content, first)
                  ELSE NumberOf(content, first + Len(anchor) - 1) + 1
             point == AtAnchor(content, first, anchor, before)
  <2>3. PutLines(d, point, text, Insertion(d, n, text))
    BY <2>2
  <2> HIDE DEF anchor
  <2>4. point \in Cuts(TextOf(d))
    BY <1>1, <2>1, AtAnchorIsCut
  <2> HIDE DEF n, point, content
  <2> QED BY <1>2, <2>3, <2>4, PutLinesIsRight
<1> QED BY <1>3, <1>4

LEMMA EditFileIsRight ==
  ASSUME TextTyped, NEW d \in DOMAIN bytes, NEW quoted \in Anchors, NEW text \in Given,
         NEW all \in BOOLEAN, NEW normalize \in BOOLEAN, EditFile(d, quoted, text, all, normalize)
  PROVE  TextTyped' /\ OneConvention'
<1> DEFINE content == TextOf(d)
           ending == DominantLineEnding(content)
           asked == ToLF(quoted)
           anchor == IF normalize THEN Reconciled(content, asked) ELSE asked
           put == IF anchor = asked THEN ToLF(text) ELSE ToLineEnding(ToLF(text), ending)
           hits == Matches(content, anchor)
           t == Replaced(content, hits, anchor, put)
           what == [tool |-> "edit_file", doc |-> d, before |-> bytes, text |-> text,
                    anchor |-> quoted, adjusted |-> anchor # asked]
<1>1. WriteFile(d, t, what)
  BY DEF EditFile
<1>2. /\ what.tool = "edit_file" /\ what.doc = d /\ what.before = bytes /\ what.text = text
      /\ what.anchor = quoted /\ (what.adjusted <=> anchor # asked) /\ what.tool \in Edits
  BY DEF Edits
<1>3. bytes[d] \in Str /\ content \in Str /\ text \in Str /\ quoted \in Str /\ asked \in Str
  BY ToLFTyped, ClientTexts DEF TextTyped, TextOf
<1>4. put \in Str
  <2>1. ToLF(text) \in Str
    BY <1>3, ToLFTyped
  <2> QED BY <2>1, LineEndingTyped
<1>5. anchor # asked => anchor = ToLineEnding(asked, ending)
  BY DEF Reconciled
<1> HIDE DEF content, anchor, what
<1>6. t \in Str
  <2> HIDE DEF put, hits
  <2> QED BY <1>3, <1>4, SwapTyped DEF Str
<1>7. ASSUME NEW e \in Endings, mode = "preserve", Keeping(e, bytes[d], what) PROVE t \in Kind(e)
  <2>1. content = bytes[d] /\ asked = quoted /\ ToLF(text) = text
    BY <1>7 DEF content, TextOf, ToLF
  <2>2. content \in Kind(e) /\ ending = e
    BY <1>3, <1>7, <2>1, FileOfKind
  <2>3. Paired(text) /\ Paired(quoted) /\ anchor # asked
    BY <1>2, <1>7 DEF Keeping
  <2>4. put = ToLineEnding(text, e) /\ anchor = ToLineEnding(quoted, e)
    BY <1>5, <2>1, <2>2, <2>3
  <2>5. put \in Kind(e) /\ anchor \in Kind(e) /\ Paired(anchor)
    BY <1>3, <2>3, <2>4, ConvertedOfKind, PlainConverted
  <2> HIDE DEF put, asked
  <2>6. CASE e = "lf"
    <3>1. content \in Seq(Plain) /\ put \in Seq(Plain)
      BY <2>2, <2>5, <2>6 DEF Kind
    <3> HIDE DEF hits
    <3>2. t \in Seq(Plain)
      BY <3>1, SwapTyped
    <3> HIDE DEF t
    <3> QED BY <1>6, <2>6, <3>2 DEF Kind
  <2>7. CASE e = "crlf"
    <3>1. Led(content) /\ Led(put) /\ put \in Str /\ anchor \in Str
      BY <2>2, <2>5, <2>7 DEF Kind
    <3>2. Len(anchor) >= 1
      <4>1. CASE Len(quoted) >= 1
        BY <1>3, <2>3, <2>4, <4>1, FoldLeavesSome
      <4>2. CASE ~ (Len(quoted) >= 1)
        <5>1. Len(quoted) = 0 /\ Len(quoted) \in Nat
          BY <1>3, <4>2 DEF Str
        <5>2. quoted = <<>>
          BY <1>3, <5>1 DEF Str
        <5>3. anchor # <<>>
          BY <2>1, <2>3, <5>2
        <5>4. Len(anchor) # 0 /\ Len(anchor) \in Nat
          BY <3>1, <5>3 DEF Str
        <5> QED BY <5>4
      <4> QED BY <4>1, <4>2
    <3>3. \A k \in hits : k \in 1..Len(content) /\ FoundAt(content, anchor, k)
      BY <1>3, MatchesAreThere
    <3> HIDE DEF hits
    <3>4. Led(t)
      BY <1>3, <2>5, <3>1, <3>2, <3>3, SwapKeepsLed
    <3> HIDE DEF t
    <3> QED BY <1>6, <2>7, <3>4 DEF Kind
  <2>8. e = "lf" \/ e = "crlf"
    BY DEF Endings
  <2> QED BY <2>6, <2>7, <2>8
<1> HIDE DEF t
<1> QED BY <1>1, <1>2, <1>6, <1>7, WriteIsRight

LEMMA FixIsRight ==
  ASSUME TextTyped, NEW scope, NEW d \in DOMAIN bytes, NEW ending \in Endings, NEW dry \in BOOLEAN,
         FixLineEndings(scope, d, ending, dry)
  PROVE  TextTyped' /\ OneConvention'
<1> DEFINE picked == PlanLineEndings(scope, d, ending)
           conv(f) == ToLineEnding(bytes[f], ending)
<1>1. /\ bytes' = IF dry THEN bytes
                  ELSE [f \in DOMAIN bytes |-> IF f \in picked THEN conv(f) ELSE bytes[f]]
      /\ made' = Fixing(scope, d, ending, dry) /\ mode' = mode
  BY DEF FixLineEndings
<1>2. /\ made'.tool = "fix_line_endings" /\ made'.before = bytes /\ made'.reached = Reached(scope, d)
      /\ made'.ending = ending /\ made'.dry = dry
  BY <1>1 DEF Fixing
<1>3. \A f \in DOMAIN bytes : bytes[f] \in Str /\ conv(f) \in Str
  BY LineEndingTyped DEF TextTyped
<1>4. \A f \in picked : f \in Reached(scope, d) /\ ~ IsBinary(bytes[f])
  BY DEF PlanLineEndings
<1>5. \A f \in Reached(scope, d) : ~ IsBinary(bytes[f]) /\ f \notin picked => conv(f) = bytes[f]
  BY DEF PlanLineEndings
<1>6. \A f \in DOMAIN bytes : ~ Stutters(bytes[f])
         => FoldCRLF(conv(f)) = FoldCRLF(bytes[f]) /\ Uniform(conv(f), ending)
  BY <1>3, Converted
<1>7. \A f \in DOMAIN bytes : ~ IsBinary(bytes[f]) => ~ IsBinary(conv(f))
  BY <1>3, StaysText
<1> HIDE DEF picked, conv
<1>8. DOMAIN bytes' = DOMAIN bytes
  BY <1>1
<1>9. \A f \in DOMAIN bytes : bytes'[f] = IF ~ dry /\ f \in picked THEN conv(f) ELSE bytes[f]
  BY <1>1
<1>10. TextTyped'
  <2>1. \A f \in DOMAIN bytes' : bytes'[f] \in Str
    BY <1>3, <1>8, <1>9
  <2> QED BY <1>1, <2>1 DEF TextTyped
<1>11. ASSUME NEW f \in DOMAIN bytes, ~ Stutters(bytes[f])
       PROVE  /\ FoldCRLF(bytes'[f]) = FoldCRLF(bytes[f])
              /\ IF dry \/ f \notin Reached(scope, d) \/ IsBinary(bytes'[f])
                 THEN bytes'[f] = bytes[f] ELSE Uniform(bytes'[f], ending)
  <2>1. CASE ~ dry /\ f \in picked
    BY <1>4, <1>6, <1>7, <1>9, <1>11, <2>1
  <2>2. CASE ~ (~ dry /\ f \in picked)
    <3>1. bytes'[f] = bytes[f]
      BY <1>9, <2>2
    <3>2. ASSUME ~ dry, f \in Reached(scope, d), ~ IsBinary(bytes'[f]) PROVE Uniform(bytes'[f], ending)
      <4>1. conv(f) = bytes[f]
        BY <1>5, <2>2, <3>1, <3>2
      <4> QED BY <1>6, <1>11, <3>1, <4>1
    <3> QED BY <3>1, <3>2
  <2> QED BY <2>1, <2>2
<1>12. FixesOnlyEndings'
  BY <1>2, <1>8, <1>11 DEF FixesOnlyEndings
<1>13. WritesNormalise' /\ EditsKeepTheEnding'
  BY <1>2 DEF WritesNormalise, EditsKeepTheEnding
<1> QED BY <1>10, <1>12, <1>13 DEF OneConvention

(* While no call has been made, and after one that was refused, there is     *)
(* nothing to say.                                                           *)
LEMMA NothingMade == made.tool \in {"none", "refused"} => OneConvention
BY DEF OneConvention, WritesNormalise, EditsKeepTheEnding, FixesOnlyEndings

LEMMA OtherStepsAreRight ==
  ASSUME TextTyped,
         \/ ChangedOutside
         \/ \E d \in DOMAIN bytes, start, end \in 0..MaxLine : ReadFileRange(d, start, end)
         \/ \E what : RefuseEdit(what)
  PROVE  TextTyped' /\ made'.tool \in {"none", "refused"}
<1>1. ASSUME ChangedOutside PROVE TextTyped' /\ made'.tool = "none"
  <2>1. made' = NoCall
    BY <1>1 DEF ChangedOutside, Waiting
  <2>2. CASE \E s \in Outsides : bytes' = [bytes EXCEPT ![shown.doc] = s] /\ UNCHANGED mode
    <3>1. PICK s \in Outsides : bytes' = [bytes EXCEPT ![shown.doc] = s] /\ mode' = mode
      BY <2>2
    <3>2. s \in Str
      BY ClientTexts
    <3>3. \A f \in DOMAIN bytes' : bytes'[f] \in Str
      BY <3>1, <3>2 DEF TextTyped
    <3> QED BY <2>1, <3>1, <3>3 DEF TextTyped, NoCall
  <2>3. CASE mode' \in Modes /\ UNCHANGED bytes
    BY <2>1, <2>3, ClientTexts DEF TextTyped, NoCall
  <2> QED BY <1>1, <2>2, <2>3 DEF ChangedOutside
<1>2. ASSUME NEW d, NEW start, NEW end, ReadFileRange(d, start, end)
      PROVE  TextTyped' /\ made'.tool = "none"
  BY <1>2 DEF ReadFileRange, Waiting, TextTyped, NoCall
<1>3. ASSUME NEW what, RefuseEdit(what) PROVE TextTyped' /\ made'.tool = "refused"
  BY <1>3 DEF RefuseEdit, TextTyped
<1> QED BY <1>1, <1>2, <1>3

LEMMA TextStartIsRight == TextInit => TextTyped /\ OneConvention
<1>1. ASSUME NEW w \in Workspaces, TextStart(w) PROVE TextTyped /\ OneConvention
  <2>1. bytes = w.files /\ mode = w.mode /\ made = NoCall
    BY <1>1 DEF TextStart
  <2>2. \A f \in DOMAIN w.files : w.files[f] \in Str
    BY TextsAssumption, StringsAreStr
  <2>3. w.mode \in {"preserve"} \cup Endings
    BY TextsAssumption DEF Endings
  <2>4. made.tool = "none"
    BY <2>1 DEF NoCall
  <2> QED BY <2>1, <2>2, <2>3, <2>4, NothingMade DEF TextTyped
<1> QED BY <1>1 DEF TextInit

LEMMA TextStepIsRight ==
  ASSUME TextTyped, OneConvention, [TextNext]_textVars PROVE TextTyped' /\ OneConvention'
<1>1. ASSUME \/ ChangedOutside
             \/ \E d \in DOMAIN bytes, start, end \in 0..MaxLine : ReadFileRange(d, start, end)
             \/ \E what : RefuseEdit(what)
      PROVE  TextTyped' /\ OneConvention'
  <2>1. TextTyped' /\ made'.tool \in {"none", "refused"}
    BY <1>1, OtherStepsAreRight
  <2> QED BY <2>1 DEF OneConvention, WritesNormalise, EditsKeepTheEnding, FixesOnlyEndings
<1>2. ASSUME NEW d \in DOMAIN bytes, NEW start \in 1..MaxLine, NEW end \in 1..MaxLine,
             NEW quote \in BOOLEAN,
             \/ \E text \in Given \cup {<<>>} : EditLines(d, start, end, text, quote)
             \/ RefuseEditLines(d, start, end, quote)
      PROVE  TextTyped' /\ OneConvention'
  <2>1. CASE RefuseEditLines(d, start, end, quote)
    BY <1>1, <2>1 DEF RefuseEditLines
  <2> QED BY <1>2, <2>1, EditLinesIsRight
<1>3. ASSUME NEW d \in DOMAIN bytes, NEW text \in Given,
             \/ PutFile(d, text)
             \/ \E line \in 1..MaxLine : InsertAtLine(d, line, text)
             \/ \E quoted \in Anchors, before \in BOOLEAN : InsertAtAnchor(d, quoted, before, text)
      PROVE  TextTyped' /\ OneConvention'
  BY <1>3, PutIsRight, InsertIsRight
<1>4. ASSUME NEW d \in DOMAIN bytes, NEW line \in 1..MaxLine, NEW quoted \in Anchors,
             RefuseInsert(d, line, quoted)
      PROVE  TextTyped' /\ OneConvention'
  BY <1>1, <1>4 DEF RefuseInsert
<1>5. ASSUME NEW d \in DOMAIN bytes, NEW quoted \in Anchors, NEW all \in BOOLEAN,
             NEW normalize \in BOOLEAN,
             \/ \E text \in Given : EditFile(d, quoted, text, all, normalize)
             \/ RefuseEditFile(d, quoted, all, normalize)
      PROVE  TextTyped' /\ OneConvention'
  <2>1. CASE RefuseEditFile(d, quoted, all, normalize)
    BY <1>1, <2>1 DEF RefuseEditFile
  <2> QED BY <1>5, <2>1, EditFileIsRight
<1>6. ASSUME NEW scope, NEW d \in DOMAIN bytes, NEW ending \in Endings,
             \/ \E dry \in BOOLEAN : FixLineEndings(scope, d, ending, dry)
             \/ RefuseFix(scope, d, ending)
      PROVE  TextTyped' /\ OneConvention'
  <2>1. CASE RefuseFix(scope, d, ending)
    BY <1>1, <2>1 DEF RefuseFix
  <2> QED BY <1>6, <2>1, FixIsRight
<1>7. CASE UNCHANGED textVars
  BY <1>7 DEF textVars, TextTyped, OneConvention, WritesNormalise, EditsKeepTheEnding,
              FixesOnlyEndings
<1> QED BY <1>1, <1>2, <1>3, <1>4, <1>5, <1>6, <1>7 DEF TextNext

(* No call leaves a file with two conventions that had one: in a workspace   *)
(* that normalises, every write has the configured ending (ToDisk of         *)
(* workspace.go); in one that preserves, edit_lines, insert_text and a       *)
(* reconciled edit_file give what they put in the ending of the file         *)
(* (textBlock, reconcileAnchor); and fix_line_endings changes endings only.  *)
THEOREM OneConventionStays == TextSpec => []OneConvention
<1>1. TextInit => TextTyped /\ OneConvention
  BY TextStartIsRight
<1>2. (TextTyped /\ OneConvention) /\ [TextNext]_textVars => (TextTyped /\ OneConvention)'
  BY TextStepIsRight
<1> QED BY <1>1, <1>2, PTL DEF TextSpec

-----------------------------------------------------------------------------
(* Where a path leads, through the links on the way, if it exists. *)

Paths == Seq(Words)
Leading(links) == \A l \in DOMAIN links : links[l] \in Paths
Hop(links, p) == IF p \in DOMAIN links THEN links[p] ELSE p

\* t[i] is where the first i names of p lead.
Trail(links, p, t) ==
  /\ t \in [0..Len(p) -> Paths]
  /\ t[0] = <<>>
  /\ \A i \in 1..Len(p) : t[i] = Hop(links, Append(t[i - 1], p[i]))
Real(links, p) == (CHOOSE t : Trail(links, p, t))[Len(p)]

\* A hop ends at a path.
LEMMA HopTyped ==
  ASSUME NEW links, Leading(links), NEW q \in Paths PROVE Hop(links, q) \in Paths
BY DEF Hop, Leading

\* Every path has a trail.
LEMMA TrailExists ==
  ASSUME NEW links, Leading(links), NEW p \in Paths PROVE \E t : Trail(links, p, t)
<1> DEFINE n == Len(p)
           next(q, i) == Hop(links, Append(q, p[i]))
           step == [a \in Paths \X (1..n) |-> next(a[1], a[2])]
           none == <<>>
<1>1. n \in Nat /\ \A i \in 1..n : p[i] \in Words
  BY SeqFacts DEF Paths
<1>2. none \in Paths
  BY DEF Paths
<1>3. ASSUME NEW q \in Paths, NEW i \in 1..n PROVE next(q, i) \in Paths
  <2>1. Append(q, p[i]) \in Paths
    BY <1>1, AppendFacts DEF Paths
  <2> QED BY <2>1, HopTyped
<1> HIDE DEF n, next, none
<1>4. step \in [Paths \X (1..n) -> Paths]
  BY <1>3
<1>5. \A q \in Paths, i \in 1..n : step[<<q, i>>] = next(q, i)
  OBVIOUS
<1> HIDE DEF step
<1>6. PICK t : Iterates(t, Paths, n, none, step)
  BY <1>1, <1>2, <1>4, Recursion DEF IsStep
<1>7. t \in [0..n -> Paths] /\ t[0] = none /\ \A i \in 1..n : t[i] = step[<<t[i - 1], i>>]
  BY <1>6 DEF Iterates
<1>8. \A i \in 1..n : i - 1 \in 0..n
  BY <1>1
<1>9. \A i \in 1..n : t[i] = next(t[i - 1], i)
  BY <1>5, <1>7, <1>8
<1> QED BY <1>7, <1>9 DEF Trail, next, none, n

\* Two trails are the same as far as the paths are.
LEMMA TrailsAgree ==
  ASSUME NEW links, NEW p \in Paths, NEW q \in Paths, NEW t, NEW u,
         Trail(links, p, t), Trail(links, q, u), Len(q) <= Len(p),
         \A i \in 1..Len(q) : q[i] = p[i]
  PROVE  \A i \in 0..Len(q) : u[i] = t[i]
<1> DEFINE T == {i \in Nat : i <= Len(q) => u[i] = t[i]}
<1>0. Len(p) \in Nat /\ Len(q) \in Nat
  BY SeqFacts DEF Paths
<1>1. 0 \in T
  BY DEF Trail
<1>2. ASSUME NEW i \in T PROVE i + 1 \in T
  <2>1. ASSUME i + 1 <= Len(q) PROVE u[i + 1] = t[i + 1]
    <3>1. i + 1 \in 1..Len(q) /\ i + 1 \in 1..Len(p) /\ (i + 1) - 1 = i /\ u[i] = t[i]
      BY <1>0, <2>1
    <3>2. u[i + 1] = Hop(links, Append(u[i], q[i + 1])) /\ t[i + 1] = Hop(links, Append(t[i], p[i + 1]))
      <4>1. /\ \A k \in 1..Len(q) : u[k] = Hop(links, Append(u[k - 1], q[k]))
            /\ \A k \in 1..Len(p) : t[k] = Hop(links, Append(t[k - 1], p[k]))
        BY DEF Trail
      <4> HIDE DEF T
      <4>2. /\ u[i + 1] = Hop(links, Append(u[(i + 1) - 1], q[i + 1]))
            /\ t[i + 1] = Hop(links, Append(t[(i + 1) - 1], p[i + 1]))
        BY <3>1, <4>1
      <4> QED BY <3>1, <4>2
    <3> QED BY <3>1, <3>2
  <2> QED BY <2>1
<1> HIDE DEF T
<1>3. T = Nat
  <2>1. T \in SUBSET Nat
    BY DEF T
  <2> QED BY <1>1, <1>2, <2>1, Induction
<1> QED BY <1>0, <1>3 DEF T

\* A trail has where each beginning of the path leads.
LEMMA TrailIsReal ==
  ASSUME NEW links, Leading(links), NEW p \in Paths, NEW t, Trail(links, p, t)
  PROVE  /\ \A i \in 0..Len(p) : t[i] = Real(links, SubSeq(p, 1, i))
         /\ t[Len(p)] = Real(links, p)
<1>0. Len(p) \in Nat /\ SubSeq(p, 1, Len(p)) = p /\ Len(p) \in 0..Len(p)
  BY SeqFacts DEF Paths
<1>1. ASSUME NEW i \in 0..Len(p) PROVE t[i] = Real(links, SubSeq(p, 1, i))
  <2> DEFINE q == SubSeq(p, 1, i)
             u == CHOOSE v : Trail(links, q, v)
  <2>1. q \in Paths /\ Len(q) = i /\ \A j \in 1..Len(q) : q[j] = p[j]
    BY SeqFacts DEF Paths
  <2> HIDE DEF q
  <2>2. Trail(links, q, u)
    BY <2>1, TrailExists
  <2> HIDE DEF u
  <2>3. u[i] = t[i]
    <3>1. Len(q) <= Len(p) /\ i \in 0..Len(q)
      BY <1>0, <2>1
    <3>2. \A j \in 0..Len(q) : u[j] = t[j]
      <4>1. q \in Paths /\ \A j \in 1..Len(q) : q[j] = p[j]
        BY <2>1
      <4> QED BY <2>2, <3>1, <4>1, TrailsAgree
    <3> QED BY <3>1, <3>2
  <2>4. Real(links, q) = u[i]
    BY <2>1 DEF Real, u
  <2> QED BY <2>3, <2>4 DEF q
<1> QED BY <1>0, <1>1

\* Where a path leads is a path.
LEMMA RealTyped ==
  ASSUME NEW links, Leading(links), NEW p \in Paths PROVE Real(links, p) \in Paths
<1>1. PICK t : Trail(links, p, t)
  BY TrailExists
<1>2. t[Len(p)] = Real(links, p) /\ Len(p) \in 0..Len(p)
  BY <1>1, TrailIsReal, SeqFacts DEF Paths
<1> QED BY <1>1, <1>2 DEF Trail

\* The top leads to itself.
LEMMA RealOfNone == ASSUME NEW links, Leading(links) PROVE Real(links, <<>>) = <<>> /\ <<>> \in Paths
<1> DEFINE p == <<>>
<1>1. p \in Paths /\ Len(p) = 0
  BY DEF Paths
<1> HIDE DEF p
<1>2. PICK t : Trail(links, p, t)
  BY <1>1, TrailExists
<1>3. t[0] = <<>> /\ t[Len(p)] = Real(links, p)
  BY <1>1, <1>2, TrailIsReal DEF Trail
<1> QED BY <1>1, <1>3 DEF p

\* A path with one more name leads one name further, and through the link there.
LEMMA RealOfMore ==
  ASSUME NEW links, Leading(links), NEW p \in Paths, NEW n \in Words
  PROVE  Real(links, Append(p, n)) = Hop(links, Append(Real(links, p), n))
<1> DEFINE q == Append(p, n)
           m == Len(p)
<1>1. q \in Paths /\ Len(q) = m + 1 /\ q[m + 1] = n /\ (\A i \in 1..m : q[i] = p[i]) /\ m \in Nat
  BY AppendFacts, SeqFacts DEF Paths
<1> HIDE DEF q
<1>2. PICK t : Trail(links, q, t)
  BY <1>1, TrailExists
<1>3. PICK u : Trail(links, p, u)
  BY TrailExists
<1>4. u[m] = t[m]
  <2>1. Len(p) <= Len(q) /\ \A i \in 1..Len(p) : p[i] = q[i]
    BY <1>1
  <2>2. \A i \in 0..Len(p) : u[i] = t[i]
    BY <1>1, <1>2, <1>3, <2>1, TrailsAgree
  <2> QED BY <1>1, <2>2
<1>5. u[m] = Real(links, p) /\ t[m + 1] = Real(links, q)
  BY <1>1, <1>2, <1>3, TrailIsReal
<1>6. t[m + 1] = Hop(links, Append(t[m], q[m + 1]))
  <2>1. m + 1 \in 1..Len(q) /\ (m + 1) - 1 = m
    BY <1>1
  <2>2. t[m + 1] = Hop(links, Append(t[(m + 1) - 1], q[m + 1]))
    BY <1>2, <2>1 DEF Trail
  <2> QED BY <2>1, <2>2
<1> QED BY <1>1, <1>4, <1>5, <1>6 DEF q

\* Induction along a path.
LEMMA AlongPath ==
  ASSUME NEW p \in Paths, NEW Good, <<>> \in Good,
         \A i \in 1..Len(p) : SubSeq(p, 1, i - 1) \in Good => SubSeq(p, 1, i) \in Good
  PROVE  \A i \in 0..Len(p) : SubSeq(p, 1, i) \in Good
<1> DEFINE T == {i \in Nat : i <= Len(p) => SubSeq(p, 1, i) \in Good}
<1>0. Len(p) \in Nat /\ SubSeq(p, 1, 0) = <<>>
  BY DEF Paths
<1>1. 0 \in T
  BY <1>0
<1>2. ASSUME NEW i \in T PROVE i + 1 \in T
  <2>1. ASSUME i + 1 <= Len(p) PROVE SubSeq(p, 1, i + 1) \in Good
    <3>1. i + 1 \in 1..Len(p) /\ (i + 1) - 1 = i /\ SubSeq(p, 1, i) \in Good
      BY <1>0, <2>1
    <3> QED BY <3>1
  <2> QED BY <2>1
<1> HIDE DEF T
<1>3. T = Nat
  <2>1. T \in SUBSET Nat
    BY DEF T
  <2> QED BY <1>1, <1>2, <2>1, Induction
<1> QED BY <1>0, <1>3 DEF T

-----------------------------------------------------------------------------
(* The tree of the calls: where a path leads does not change.                *)

\* What the site has stays, and the tree stays one.
Shape ==
  /\ here \in Sites
  /\ here.dirs \subseteq dirs
  /\ dirs \cap DOMAIN stored = {}
  /\ \A p \in Existing : p \in Paths /\ (p # <<>> => Front(p) \in dirs) /\ p \notin DOMAIN here.links

Leads(p) == Real(here.links, p)

\* What the links and the root of the tree are.
LEMMA SiteFacts ==
  ASSUME Shape
  PROVE  /\ Leading(here.links)
         /\ <<>> \in here.dirs
         /\ \A l \in DOMAIN here.links : /\ l \in Paths /\ l # <<>> /\ Front(l) \in here.dirs
                                         /\ here.links[l] \in here.dirs
         /\ here.root \in here.dirs \cup DOMAIN here.links /\ here.root \in Paths
         /\ \A d \in here.dirs : d \in Paths /\ d \in dirs /\ d \in Existing
<1>1. IsTree(here)
  BY SitesAssumption DEF Shape
<1>2. \A d \in here.dirs : d \in Paths /\ d \in dirs /\ d \in Existing
  BY <1>1 DEF IsTree, Paths, Shape, Existing
<1>3. \A l \in DOMAIN here.links : /\ l \in Paths /\ l # <<>> /\ Front(l) \in here.dirs
                                   /\ here.links[l] \in here.dirs
  BY <1>1 DEF IsTree, Paths
<1>4. <<>> \in here.dirs /\ here.root \in here.dirs \cup DOMAIN here.links
  BY <1>1 DEF IsTree
<1>5. Leading(here.links)
  BY <1>2, <1>3 DEF Leading
<1> QED BY <1>2, <1>3, <1>4, <1>5

\* What is on the way to something is a directory.
LEMMA OnTheWay ==
  ASSUME Shape, NEW p \in Paths, NEW i \in 1..Len(p), Leads(SubSeq(p, 1, i)) \in Existing
  PROVE  Leads(SubSeq(p, 1, i - 1)) \in dirs
<1> DEFINE a == SubSeq(p, 1, i - 1)
           q == Append(Leads(a), p[i])
<1>1. a \in Paths /\ p[i] \in Words /\ SubSeq(p, 1, i) = Append(a, p[i])
  BY OneMore DEF Paths
<1> HIDE DEF a
<1>2. Leads(a) \in Paths
  BY <1>1, SiteFacts, RealTyped DEF Leads
<1>3. Front(q) = Leads(a) /\ q # <<>>
  BY <1>1, <1>2, AppendFacts DEF Paths
<1>4. Hop(here.links, q) \in Existing
  BY <1>1, SiteFacts, RealOfMore DEF Leads
<1> HIDE DEF q
<1>5. CASE q \in DOMAIN here.links
  BY <1>3, <1>5, SiteFacts DEF a
<1>6. CASE q \notin DOMAIN here.links
  BY <1>3, <1>4, <1>6 DEF a, Hop, Shape
<1> QED BY <1>5, <1>6

\* Following a path comes to where it leads, if that is there.
LEMMA FollowIs ==
  ASSUME Shape, NEW p \in Paths PROVE Follow(p) = {Leads(p)} \cap Existing
<1> DEFINE n == Len(p)
           Is(g) == g = [i \in 0..n |-> IF i = 0 THEN {<<>>} ELSE FollowStep(g[i - 1], p[i])]
           F == [i \in 0..n |-> {Leads(SubSeq(p, 1, i))} \cap Existing]
           G == CHOOSE g : Is(g)
<1>0. n \in Nat /\ SubSeq(p, 1, n) = p /\ n \in 0..n /\ 0 \in 0..n /\ SubSeq(p, 1, 0) = <<>>
  BY SeqFacts DEF Paths
<1>1. Follow(p) = G[n]
  BY DEF Follow
<1> HIDE DEF n
<1>2. F[0] = {<<>>}
  <2>1. Leads(<<>>) = <<>> /\ <<>> \in Existing
    BY SiteFacts, RealOfNone DEF Leads
  <2> QED BY <1>0, <2>1
<1>3. ASSUME NEW i \in 1..n PROVE F[i] = FollowStep(F[i - 1], p[i])
  <2> DEFINE a == SubSeq(p, 1, i - 1)
             b == SubSeq(p, 1, i)
  <2>1. i - 1 \in 0..n /\ i \in 0..n /\ i \in 1..Len(p)
    BY <1>0 DEF n
  <2>2. a \in Paths /\ p[i] \in Words /\ b = Append(a, p[i])
    BY <2>1, OneMore DEF Paths
  <2>3. F[i - 1] = {Leads(a)} \cap Existing /\ F[i] = {Leads(b)} \cap Existing
    BY <2>1
  <2>4. Leads(b) \in Existing => Leads(a) \in Existing
    BY <2>1, OnTheWay DEF Existing
  <2> HIDE DEF a, b, F
  <2>5. Leads(b) = OneLink(Append(Leads(a), p[i]))
    BY <2>2, SiteFacts, RealOfMore DEF Leads, Hop, OneLink
  <2>6. FollowStep({Leads(a)} \cap Existing, p[i]) = {Leads(b)} \cap Existing
    BY <2>4, <2>5 DEF FollowStep
  <2> QED BY <2>3, <2>6
<1>4. Is(F)
  <2>1. \A i \in 0..n : F[i] = IF i = 0 THEN {<<>>} ELSE FollowStep(F[i - 1], p[i])
    <3>1. \A i \in 0..n : i = 0 \/ (i \in 1..n /\ i # 0)
      BY <1>0
    <3> HIDE DEF F
    <3> QED BY <1>2, <1>3, <3>1
  <2>2. F = [i \in 0..n |-> F[i]]
    OBVIOUS
  <2> HIDE DEF F
  <2> QED BY <2>1, <2>2
<1>5. Is(G)
  <2> HIDE DEF F, Is
  <2> QED BY <1>4
<1> HIDE DEF G
<1>6. G[0] = {<<>>} /\ \A i \in 1..n : G[i] = FollowStep(G[i - 1], p[i])
  <2>1. \A i \in 0..n : G[i] = IF i = 0 THEN {<<>>} ELSE FollowStep(G[i - 1], p[i])
    BY <1>5
  <2>2. 0 \in 0..n /\ \A i \in 1..n : i \in 0..n /\ i # 0
    BY <1>0
  <2> QED BY <2>1, <2>2
<1> DEFINE T == {i \in Nat : i <= n => G[i] = F[i]}
<1>7. 0 \in T
  BY <1>2, <1>6
<1>8. ASSUME NEW i \in T PROVE i + 1 \in T
  <2> HIDE DEF F
  <2>1. ASSUME i + 1 <= n PROVE G[i + 1] = F[i + 1]
    <3>1. i + 1 \in 1..n /\ (i + 1) - 1 = i /\ G[i] = F[i]
      BY <1>0, <2>1
    <3>2. G[i + 1] = FollowStep(G[(i + 1) - 1], p[i + 1]) /\ F[i + 1] = FollowStep(F[(i + 1) - 1], p[i + 1])
      BY <1>3, <1>6, <3>1
    <3> QED BY <3>1, <3>2
  <2> QED BY <2>1
<1> HIDE DEF T
<1>9. T = Nat
  <2>1. T \in SUBSET Nat
    BY DEF T
  <2> QED BY <1>7, <1>8, <2>1, Induction
<1>10. G[n] = F[n]
  <2> HIDE DEF F
  <2>1. n \in T /\ n <= n
    BY <1>0, <1>9
  <2> QED BY <2>1 DEF T
<1> QED BY <1>0, <1>1, <1>10

\* A path is resolved to where it leads, if that is there.
LEMMA ResolvedIs ==
  ASSUME Shape, NEW p \in Paths
  PROVE  Resolved(p) = IF Leads(p) \in Existing THEN Leads(p) ELSE p
<1>1. Follow(p) = {Leads(p)} \cap Existing
  BY FollowIs
<1>2. CASE Leads(p) \in Existing
  <2>1. Follow(p) = {Leads(p)}
    BY <1>1, <1>2
  <2> QED BY <1>2, <2>1 DEF Resolved
<1>3. CASE Leads(p) \notin Existing
  BY <1>1, <1>3 DEF Resolved
<1> QED BY <1>2, <1>3

\* Past where the path ends nothing is there, a link neither.
LEMMA NoLinkBeyond ==
  ASSUME Shape, NEW p \in Paths, NEW i \in 1..Len(p), Leads(SubSeq(p, 1, i)) \notin Existing
  PROVE  Leads(SubSeq(p, 1, i)) = Append(Leads(SubSeq(p, 1, i - 1)), p[i])
<1> DEFINE a == SubSeq(p, 1, i - 1)
           q == Append(Leads(a), p[i])
<1>1. a \in Paths /\ p[i] \in Words /\ SubSeq(p, 1, i) = Append(a, p[i])
  BY OneMore DEF Paths
<1> HIDE DEF a
<1>2. Leads(SubSeq(p, 1, i)) = Hop(here.links, q)
  BY <1>1, SiteFacts, RealOfMore DEF Leads
<1> HIDE DEF q
<1>3. q \notin DOMAIN here.links
  <2>1. ASSUME q \in DOMAIN here.links PROVE FALSE
    BY <1>2, <2>1, SiteFacts DEF Hop
  <2> QED BY <2>1
<1> QED BY <1>2, <1>3 DEF Hop, q, a

\* Following a path as far as it exists, and its names from there, is where it leads.
LEMMA DeepIs ==
  ASSUME Shape, NEW p \in Paths PROVE DeepestReal(p) = Leads(p)
<1> DEFINE n == Len(p)
           S == {i \in 0..n : Follow(SubSeq(p, 1, i)) # {}}
           i == Max(S)
           a == Leads(SubSeq(p, 1, i))
<1>1. n \in Nat /\ SubSeq(p, 1, n) = p /\ \A k \in 0..n : SubSeq(p, 1, k) \in Paths
  BY SeqFacts DEF Paths
<1> HIDE DEF n
<1>2. \A k \in 0..n : Follow(SubSeq(p, 1, k)) = {Leads(SubSeq(p, 1, k))} \cap Existing
  BY <1>1, FollowIs
<1>3. 0 \in S
  <2>1. SubSeq(p, 1, 0) = <<>> /\ Leads(<<>>) = <<>> /\ <<>> \in Existing /\ 0 \in 0..n
    BY <1>1, SiteFacts, RealOfNone DEF Leads
  <2> QED BY <1>2, <2>1
<1>4. i \in S /\ \A k \in S : k <= i
  <2>1. S \in SUBSET (0..n)
    OBVIOUS
  <2> HIDE DEF S
  <2> QED BY <1>1, <1>3, <2>1, Latest
<1>5. Depth(p) = i
  BY DEF Depth, n
<1> HIDE DEF i
<1>6. i \in 0..n /\ a \in Existing
  BY <1>2, <1>4
<1>7. \A k \in (i + 1)..n : Leads(SubSeq(p, 1, k)) \notin Existing
  <2>1. ASSUME NEW k \in (i + 1)..n, Leads(SubSeq(p, 1, k)) \in Existing PROVE FALSE
    <3>1. k \in 0..n /\ ~ (k <= i)
      BY <1>1, <1>6
    <3>2. k \in S
      BY <1>2, <2>1, <3>1
    <3> QED BY <1>4, <3>1, <3>2
  <2> QED BY <2>1
<1> HIDE DEF S
<1>8. a \in Paths
  BY <1>1, <1>6, SiteFacts, RealTyped DEF Leads
<1>9. Resolved(SubSeq(p, 1, i)) = a
  BY <1>1, <1>6, ResolvedIs
<1> HIDE DEF a
<1> DEFINE T == {k \in Nat : i + k <= n => Leads(SubSeq(p, 1, i + k)) = a \o SubSeq(p, i + 1, i + k)}
<1>10. 0 \in T
  <2>1. SubSeq(p, i + 1, i) = <<>> /\ i + 0 = i
    BY <1>1, <1>6 DEF Paths, n
  <2>2. a \o <<>> = a
    BY <1>8, CatEmpty DEF Paths
  <2> QED BY <2>1, <2>2 DEF a
<1>11. ASSUME NEW k \in T PROVE k + 1 \in T
  <2> DEFINE j == i + (k + 1)
  <2>1. ASSUME j <= n PROVE Leads(SubSeq(p, 1, j)) = a \o SubSeq(p, i + 1, j)
    <3>1. /\ j \in 1..Len(p) /\ j \in (i + 1)..n /\ j - 1 = i + k /\ i + k <= n
          /\ i \in 0..Len(p) /\ j \in (i + 1)..Len(p)
      BY <1>1, <1>6, <2>1 DEF n
    <3>2. Leads(SubSeq(p, 1, j - 1)) = a \o SubSeq(p, i + 1, j - 1)
      BY <3>1
    <3> HIDE DEF T, j
    <3>3. Leads(SubSeq(p, 1, j)) = Append(Leads(SubSeq(p, 1, j - 1)), p[j])
      BY <1>7, <3>1, NoLinkBeyond
    <3>4. a \o SubSeq(p, i + 1, j) = Append(a \o SubSeq(p, i + 1, j - 1), p[j])
      BY <1>8, <3>1, CatMore DEF Paths
    <3> QED BY <3>2, <3>3, <3>4
  <2>2. k + 1 \in Nat
    OBVIOUS
  <2> HIDE DEF T
  <2> QED BY <2>1, <2>2 DEF T
<1> HIDE DEF T
<1>12. T = Nat
  <2>1. T \in SUBSET Nat
    BY DEF T
  <2> QED BY <1>10, <1>11, <2>1, Induction
<1>13. Leads(p) = a \o SubSeq(p, i + 1, n)
  <2> DEFINE k == n - i
  <2>1. k \in T /\ i + k = n /\ n <= n
    BY <1>1, <1>6, <1>12
  <2> HIDE DEF k
  <2>2. Leads(SubSeq(p, 1, i + k)) = a \o SubSeq(p, i + 1, i + k)
    BY <2>1 DEF T
  <2> QED BY <1>1, <2>1, <2>2
<1> QED BY <1>5, <1>9, <1>13 DEF DeepestReal, n

\* A path with no link on the way.
Direct(links, p) == p \in Paths /\ \A i \in 1..Len(p) : SubSeq(p, 1, i) \notin DOMAIN links

\* A path through no link leads to itself.
LEMMA DirectLeads ==
  ASSUME Shape, NEW p, Direct(here.links, p) PROVE Leads(p) = p
<1> DEFINE Good == {q \in Paths : Leads(q) = q}
<1>1. p \in Paths /\ Len(p) \in Nat /\ Len(p) \in 0..Len(p) /\ SubSeq(p, 1, Len(p)) = p
  BY SeqFacts DEF Paths, Direct
<1>2. <<>> \in Good
  BY SiteFacts, RealOfNone DEF Leads
<1>3. ASSUME NEW i \in 1..Len(p), SubSeq(p, 1, i - 1) \in Good PROVE SubSeq(p, 1, i) \in Good
  <2> DEFINE a == SubSeq(p, 1, i - 1)
             b == SubSeq(p, 1, i)
  <2>1. a \in Paths /\ Leads(a) = a /\ p[i] \in Words /\ b = Append(a, p[i]) /\ b \in Paths
    BY <1>1, <1>3, OneMore DEF Paths
  <2>2. b \notin DOMAIN here.links
    BY DEF Direct
  <2> HIDE DEF a, b
  <2>3. Leads(b) = Hop(here.links, b)
    BY <2>1, SiteFacts, RealOfMore DEF Leads
  <2>4. Leads(b) = b
    BY <2>2, <2>3 DEF Hop
  <2> QED BY <2>1, <2>4 DEF b
<1> HIDE DEF Good
<1>4. SubSeq(p, 1, Len(p)) \in Good
  BY <1>1, <1>2, <1>3, AlongPath
<1> QED BY <1>1, <1>4 DEF Good

\* What exists exists with all directories on the way, none of them a link.
LEMMA Upwards ==
  ASSUME Shape, NEW p \in Existing
  PROVE  /\ p \in Paths
         /\ \A i \in 0..Len(p) : SubSeq(p, 1, i) \in Existing
         /\ \A i \in 0..(Len(p) - 1) : SubSeq(p, 1, i) \in dirs
<1> DEFINE n == Len(p)
           T == {k \in Nat : k <= n => SubSeq(p, 1, n - k) \in Existing}
<1>1. p \in Paths /\ n \in Nat /\ SubSeq(p, 1, n) = p
  BY SeqFacts DEF Paths, Shape
<1>2. ASSUME NEW i \in 1..n, SubSeq(p, 1, i) \in Existing PROVE SubSeq(p, 1, i - 1) \in dirs
  <2>1. SubSeq(p, 1, i) # <<>> /\ Front(SubSeq(p, 1, i)) = SubSeq(p, 1, i - 1)
    <3>1. SubSeq(p, 1, i) = Append(SubSeq(p, 1, i - 1), p[i])
          /\ SubSeq(p, 1, i - 1) \in Seq(Words) /\ p[i] \in Words
          /\ Front(SubSeq(p, 1, i)) = SubSeq(p, 1, i - 1)
      BY <1>1, OneMore DEF Paths
    <3> QED BY <3>1, AppendFacts
  <2> QED BY <1>2, <2>1 DEF Shape
<1> HIDE DEF n
<1>3. 0 \in T
  <2>1. n - 0 = n
    BY <1>1
  <2> QED BY <1>1, <2>1
<1>4. ASSUME NEW k \in T PROVE k + 1 \in T
  <2>1. ASSUME k + 1 <= n PROVE SubSeq(p, 1, n - (k + 1)) \in Existing
    <3>1. n - k \in 1..n /\ (n - k) - 1 = n - (k + 1) /\ SubSeq(p, 1, n - k) \in Existing
      BY <1>1, <2>1
    <3>2. SubSeq(p, 1, (n - k) - 1) \in dirs
      BY <1>2, <3>1
    <3> QED BY <3>1, <3>2 DEF Existing
  <2> QED BY <2>1
<1> HIDE DEF T
<1>5. T = Nat
  <2>1. T \in SUBSET Nat
    BY DEF T
  <2> QED BY <1>3, <1>4, <2>1, Induction
<1>6. ASSUME NEW i \in 0..n PROVE SubSeq(p, 1, i) \in Existing
  <2> DEFINE k == n - i
  <2>1. k \in T /\ k <= n /\ n - k = i
    BY <1>1, <1>5
  <2> HIDE DEF k
  <2>2. SubSeq(p, 1, n - k) \in Existing
    BY <2>1 DEF T
  <2> QED BY <2>1, <2>2
<1>7. ASSUME NEW i \in 0..(n - 1) PROVE SubSeq(p, 1, i) \in dirs
  <2>1. i + 1 \in 1..n /\ i + 1 \in 0..n /\ (i + 1) - 1 = i
    BY <1>1
  <2>2. SubSeq(p, 1, (i + 1) - 1) \in dirs
    BY <1>2, <1>6, <2>1
  <2> QED BY <2>1, <2>2
<1> QED BY <1>1, <1>6, <1>7 DEF n

\* What exists is through no link.
LEMMA ExistingIsDirect ==
  ASSUME Shape, NEW p \in Existing PROVE Direct(here.links, p) /\ Leads(p) = p
<1>1. p \in Paths /\ \A i \in 1..Len(p) : SubSeq(p, 1, i) \in Existing
  BY Upwards, SeqFacts DEF Paths
<1>2. Direct(here.links, p)
  BY <1>1 DEF Direct, Shape
<1> QED BY <1>2, DirectLeads

\* Where a path leads is through no link.
LEMMA LeadsIsDirect ==
  ASSUME Shape, NEW p \in Paths PROVE Direct(here.links, Leads(p)) /\ Leads(Leads(p)) = Leads(p)
<1> DEFINE Good == {q \in Paths : Direct(here.links, Leads(q))}
<1>1. Len(p) \in Nat /\ Len(p) \in 0..Len(p) /\ SubSeq(p, 1, Len(p)) = p
  BY SeqFacts DEF Paths
<1>2. <<>> \in Good
  <2>1. Leads(<<>>) = <<>> /\ <<>> \in Paths /\ <<>> \in Existing
    BY SiteFacts, RealOfNone DEF Leads
  <2> QED BY <2>1, ExistingIsDirect
<1>3. ASSUME NEW i \in 1..Len(p), SubSeq(p, 1, i - 1) \in Good PROVE SubSeq(p, 1, i) \in Good
  <2> DEFINE a == SubSeq(p, 1, i - 1)
             b == SubSeq(p, 1, i)
             q == Append(Leads(a), p[i])
  <2>1. a \in Paths /\ Direct(here.links, Leads(a)) /\ p[i] \in Words /\ b = Append(a, p[i]) /\ b \in Paths
    BY <1>1, <1>3, OneMore DEF Paths
  <2> HIDE DEF a, b
  <2>2. Leads(b) = Hop(here.links, q) /\ Leads(a) \in Paths
    BY <2>1, SiteFacts, RealOfMore, RealTyped DEF Leads
  <2>3. CASE q \in DOMAIN here.links
    <3>1. Leads(b) \in Existing
      BY <2>2, <2>3, SiteFacts DEF Hop
    <3> QED BY <2>1, <3>1, ExistingIsDirect DEF b
  <2>4. CASE q \notin DOMAIN here.links
    <3> DEFINE m == Len(Leads(a))
    <3>1. q \in Paths /\ Len(q) = m + 1 /\ m \in Nat
      BY <2>1, <2>2, AppendFacts, SeqFacts DEF Paths
    <3>2. /\ \A k \in 0..m : SubSeq(q, 1, k) = SubSeq(Leads(a), 1, k)
          /\ SubSeq(q, 1, m + 1) = q
      BY <2>1, <2>2, BeginningsOfMore DEF Paths
    <3>3. \A k \in 1..m : SubSeq(Leads(a), 1, k) \notin DOMAIN here.links
      BY <2>1 DEF Direct
    <3> HIDE DEF q, m
    <3>4. \A k \in 1..(m + 1) : SubSeq(q, 1, k) \notin DOMAIN here.links
      <4>1. ASSUME NEW k \in 1..(m + 1) PROVE SubSeq(q, 1, k) \notin DOMAIN here.links
        <5>1. CASE k = m + 1
          BY <2>4, <3>2, <5>1
        <5>2. CASE k # m + 1
          <6>1. k \in 1..m /\ k \in 0..m
            BY <3>1, <5>2
          <6> QED BY <3>2, <3>3, <6>1
        <5> QED BY <5>1, <5>2
      <4> QED BY <4>1
    <3>5. Direct(here.links, q)
      BY <3>1, <3>4 DEF Direct
    <3> QED BY <2>1, <2>2, <2>4, <3>5 DEF b, Hop
  <2> QED BY <2>3, <2>4
<1> HIDE DEF Good
<1>4. SubSeq(p, 1, Len(p)) \in Good
  BY <1>1, <1>2, <1>3, AlongPath
<1>5. Direct(here.links, Leads(p))
  BY <1>1, <1>4 DEF Good
<1> QED BY <1>5, DirectLeads

-----------------------------------------------------------------------------
(* What a call makes of a path. *)

\* Clean has the values its steps give.
LEMMA CleanIs ==
  ASSUME NEW names, NEW n \in Nat, Len(names) = n, NEW f,
         f[0] = <<>>, \A i \in 1..n : f[i] = CleanStep(f[i - 1], names[i])
  PROVE  Clean(names) = f[n]
<1> DEFINE Is(g) == g = [i \in 0..n |-> IF i = 0 THEN <<>> ELSE CleanStep(g[i - 1], names[i])]
           F == [i \in 0..n |-> f[i]]
           G == CHOOSE g : Is(g)
<1>1. Clean(names) = G[n]
  BY DEF Clean
<1>2. Is(F)
  <2>1. \A i \in 0..n : F[i] = IF i = 0 THEN <<>> ELSE CleanStep(F[i - 1], names[i])
    <3>1. \A i \in 0..n : F[i] = f[i]
      OBVIOUS
    <3>2. \A i \in 0..n : i = 0 \/ (i \in 1..n /\ i - 1 \in 0..n /\ i # 0)
      OBVIOUS
    <3> HIDE DEF F
    <3> QED BY <3>1, <3>2
  <2>2. F = [i \in 0..n |-> F[i]]
    OBVIOUS
  <2> HIDE DEF F
  <2> QED BY <2>1, <2>2
<1>3. Is(G)
  <2> HIDE DEF F, Is
  <2> QED BY <1>2
<1> HIDE DEF G, F
<1>4. G[0] = <<>> /\ \A i \in 1..n : G[i] = CleanStep(G[i - 1], names[i])
  <2>1. \A i \in 0..n : G[i] = IF i = 0 THEN <<>> ELSE CleanStep(G[i - 1], names[i])
    BY <1>3
  <2>2. 0 \in 0..n /\ \A i \in 1..n : i \in 0..n /\ i # 0
    OBVIOUS
  <2> QED BY <2>1, <2>2
<1> DEFINE T == {i \in Nat : i <= n => G[i] = f[i]}
<1>5. 0 \in T
  BY <1>4
<1>6. ASSUME NEW i \in T PROVE i + 1 \in T
  <2>1. ASSUME i + 1 <= n PROVE G[i + 1] = f[i + 1]
    <3>1. i + 1 \in 1..n /\ (i + 1) - 1 = i /\ G[i] = f[i]
      BY <2>1
    <3>2. G[i + 1] = CleanStep(G[(i + 1) - 1], names[i + 1]) /\ f[i + 1] = CleanStep(f[(i + 1) - 1], names[i + 1])
      BY <1>4, <3>1
    <3> QED BY <3>1, <3>2
  <2> QED BY <2>1
<1> HIDE DEF T
<1>7. T = Nat
  <2>1. T \in SUBSET Nat
    BY DEF T
  <2> QED BY <1>5, <1>6, <2>1, Induction
<1>8. G[n] = f[n]
  <2>1. n \in T /\ n <= n
    BY <1>7
  <2> QED BY <2>1 DEF T
<1> QED BY <1>1, <1>8

\* A clean path is one.
LEMMA CleanTyped ==
  ASSUME NEW names \in Seq(STRING) PROVE Clean(names) \in Paths
<1> DEFINE n == Len(names)
           step == [a \in Paths \X (1..n) |-> CleanStep(a[1], names[a[2]])]
           none == <<>>
<1>1. n \in Nat /\ \A i \in 1..n : names[i] \in STRING
  BY SeqFacts
<1>2. none \in Paths
  BY DEF Paths
<1>3. ASSUME NEW q \in Paths, NEW i \in 1..n PROVE CleanStep(q, names[i]) \in Paths
  <2>1. CASE names[i] = "."
    BY <2>1 DEF CleanStep
  <2>2. CASE names[i] = ".."
    <3>1. CleanStep(q, names[i]) = SubSeq(q, 1, Len(q) - 1)
      BY <2>2 DEF CleanStep
    <3>2. SubSeq(q, 1, Len(q) - 1) \in Paths
      <4>1. CASE q = <<>>
        BY <4>1 DEF Paths
      <4>2. CASE q # <<>>
        BY <4>2, FrontLast DEF Front, Paths
      <4> QED BY <4>1, <4>2
    <3> QED BY <3>1, <3>2
  <2>3. CASE names[i] \notin {".", ".."}
    <3>1. names[i] \in Words
      BY <1>1, <2>3 DEF Words
    <3>2. Append(q, names[i]) \in Paths
      BY <3>1, AppendFacts DEF Paths
    <3> QED BY <2>3, <3>2 DEF CleanStep
  <2> QED BY <2>1, <2>2, <2>3
<1> HIDE DEF n, none
<1>4. step \in [Paths \X (1..n) -> Paths]
  BY <1>3
<1>5. \A q \in Paths, i \in 1..n : step[<<q, i>>] = CleanStep(q, names[i])
  OBVIOUS
<1> HIDE DEF step
<1>6. PICK t : Iterates(t, Paths, n, none, step)
  BY <1>1, <1>2, <1>4, Recursion DEF IsStep
<1>7. t \in [0..n -> Paths] /\ t[0] = none /\ \A i \in 1..n : t[i] = step[<<t[i - 1], i>>]
  BY <1>6 DEF Iterates
<1>8. \A i \in 1..n : i - 1 \in 0..n
  BY <1>1
<1>9. \A i \in 1..n : t[i] = CleanStep(t[i - 1], names[i])
  BY <1>5, <1>7, <1>8
<1>10. Clean(names) = t[n]
  <2>1. n \in Nat /\ Len(names) = n /\ t[0] = <<>>
    BY <1>1, <1>7 DEF n, none
  <2> QED BY <1>9, <2>1, CleanIs
<1> QED BY <1>1, <1>7, <1>10

\* A path is clean.
LEMMA CleanOfClean ==
  ASSUME NEW p \in Paths PROVE Clean(p) = p
<1> DEFINE n == Len(p)
           f == [i \in 0..n |-> SubSeq(p, 1, i)]
<1>1. n \in Nat /\ SubSeq(p, 1, n) = p /\ SubSeq(p, 1, 0) = <<>>
  BY SeqFacts DEF Paths
<1>2. f[0] = <<>> /\ f[n] = p
  BY <1>1
<1>3. ASSUME NEW i \in 1..n PROVE f[i] = CleanStep(f[i - 1], p[i])
  <2>1. SubSeq(p, 1, i) = Append(SubSeq(p, 1, i - 1), p[i]) /\ p[i] \in Words
    BY OneMore DEF Paths
  <2>2. f[i] = SubSeq(p, 1, i) /\ f[i - 1] = SubSeq(p, 1, i - 1)
    BY <1>1
  <2> HIDE DEF f
  <2>3. p[i] # "." /\ p[i] # ".."
    BY <2>1 DEF Words
  <2> QED BY <2>1, <2>2, <2>3 DEF CleanStep
<1> HIDE DEF f
<1>4. Clean(p) = f[n]
  BY <1>1, <1>2, <1>3, CleanIs
<1> QED BY <1>2, <1>4

\* A link leads to a directory of the site.
LEMMA LinkLeads ==
  ASSUME Shape, NEW l \in DOMAIN here.links PROVE Leads(l) = here.links[l] /\ Leads(l) \in here.dirs
<1>1. l \in Paths /\ l # <<>> /\ Front(l) \in here.dirs /\ here.links[l] \in here.dirs
  BY SiteFacts
<1>2. Front(l) \in Paths /\ Last(l) \in Words /\ l = Append(Front(l), Last(l))
  BY <1>1, FrontLast DEF Paths
<1>3. Leads(Front(l)) = Front(l)
  BY <1>1, SiteFacts, ExistingIsDirect
<1>4. Leads(l) = Hop(here.links, l)
  <2>1. Leads(Append(Front(l), Last(l))) = Hop(here.links, Append(Leads(Front(l)), Last(l)))
    BY <1>2, SiteFacts, RealOfMore DEF Leads
  <2> QED BY <1>2, <1>3, <2>1
<1> QED BY <1>1, <1>4 DEF Hop

\* The root leads to a directory, which is itself unless it is a link.
LEMMA RootLeads ==
  ASSUME Shape
  PROVE  /\ here.root \in Paths /\ Leads(here.root) \in here.dirs /\ Leads(here.root) \in dirs
         /\ Resolved(here.root) = Leads(here.root)
         /\ here.root \in DOMAIN here.links \/ Leads(here.root) = here.root
<1>1. here.root \in Paths /\ here.root \in here.dirs \cup DOMAIN here.links
  BY SiteFacts
<1>2. CASE here.root \in here.dirs
  <2>1. Leads(here.root) = here.root
    BY <1>2, SiteFacts, ExistingIsDirect
  <2> QED BY <1>1, <1>2, <2>1, SiteFacts, ResolvedIs
<1>3. CASE here.root \in DOMAIN here.links
  <2>1. Leads(here.root) \in here.dirs
    BY <1>3, LinkLeads
  <2> QED BY <1>1, <1>3, <2>1, SiteFacts, ResolvedIs
<1> QED BY <1>1, <1>2, <1>3

\* Whether a path is in the workspace is a matter of where it leads.
Allowed(p) == Within(Leads(here.root), p) \/ Within(here.root, p)
\* Whether a path is in the workspace, and what it is resolved to, follow from where it leads.
LEMMA InsideIs ==
  ASSUME Shape, NEW p \in Paths
  PROVE  /\ Inside(p) <=> Allowed(Leads(p))
         /\ Resolved(p) \in Paths /\ Leads(Resolved(p)) = Leads(p)
         /\ Inside(Resolved(p)) <=> Inside(p)
<1>1. ASSUME NEW q \in Paths PROVE Inside(q) <=> Allowed(Leads(q))
  BY DeepIs, RootLeads DEF Inside, Allowed
<1>2. Leads(p) \in Paths /\ Leads(Leads(p)) = Leads(p)
  BY SiteFacts, RealTyped, LeadsIsDirect DEF Leads
<1>3. Resolved(p) \in Paths /\ Leads(Resolved(p)) = Leads(p)
  BY <1>2, ResolvedIs
<1> QED BY <1>1, <1>3

IsSpelling(s) ==
  s = [rooted |-> s.rooted, names |-> s.names] /\ s.rooted \in BOOLEAN /\ s.names \in Seq(STRING)

\* A path is a sequence of strings.
LEMMA WordsAreStrings == ASSUME NEW p \in Paths PROVE p \in Seq(STRING)
<1>1. /\ Len(p) \in Nat /\ p = [i \in 1..Len(p) |-> p[i]] /\ \A i \in 1..Len(p) : p[i] \in STRING
  BY SeqFacts DEF Paths, Words
<1>2. [i \in 1..Len(p) |-> p[i]] \in Seq(STRING)
  BY <1>1
<1> QED BY <1>1, <1>2

\* What a call tries are paths.
LEMMA TriesTyped ==
  ASSUME Shape, NEW s, IsSpelling(s)
  PROVE  Joined(s) \in Paths /\ Reanchored(s) \in Paths
<1>1. here.root \in Paths /\ here.root \in Seq(STRING) /\ s.names \in Seq(STRING)
  BY RootLeads, WordsAreStrings DEF IsSpelling
<1>2. here.root \o s.names \in Seq(STRING)
  BY <1>1
<1>3. Joined(s) \in Paths
  BY <1>1, <1>2, CleanTyped DEF Joined
<1>4. Clean(s.names) \in Paths
  BY <1>1, CleanTyped
<1>5. here.root \o Clean(s.names) \in Paths
  BY <1>1, <1>4 DEF Paths
<1> QED BY <1>3, <1>5 DEF Reanchored

\* The first of one or two that is in the workspace.
LEMMA FirstOfOne ==
  ASSUME NEW a, Inside(a) PROVE FirstInside(<<a>>) = {a}
<1>1. DOMAIN <<a>> = {1} /\ <<a>>[1] = a /\ 1..(1 - 1) = {}
  OBVIOUS
<1> DEFINE t == <<a>>
<1> HIDE DEF t
<1>2. FirstInside(t) = {a}
  BY <1>1 DEF FirstInside, t
<1> QED BY <1>2 DEF t

\* The first of two.
LEMMA FirstOfTwo ==
  ASSUME NEW a, NEW b, Inside(a) PROVE FirstInside(<<a, b>>) = {a}
<1> DEFINE t == <<a, b>>
<1>1. DOMAIN t = {1, 2} /\ t[1] = a /\ t[2] = b /\ 1..(1 - 1) = {} /\ 1..(2 - 1) = {1}
  OBVIOUS
<1> HIDE DEF t
<1>2. {k \in DOMAIN t : Inside(t[k]) /\ \A j \in 1..(k - 1) : ~Inside(t[j])} = {1}
  BY <1>1
<1>3. FirstInside(t) = {a}
  BY <1>1, <1>2 DEF FirstInside
<1> QED BY <1>3 DEF t

\* No more than one of them, and it is one that is inside.
LEMMA FirstIsOne ==
  ASSUME NEW t, DOMAIN t \subseteq Nat, NEW a \in FirstInside(t)
  PROVE  /\ \E i \in DOMAIN t : a = t[i]
         /\ Inside(a)
         /\ \A b \in FirstInside(t) : (DOMAIN t \subseteq Nat \ {0}) => b = a
<1> DEFINE S == {k \in DOMAIN t : Inside(t[k]) /\ \A j \in 1..(k - 1) : ~Inside(t[j])}
<1>1. FirstInside(t) = {t[i] : i \in S}
  BY DEF FirstInside
<1>2. PICK i \in S : a = t[i]
  <2> HIDE DEF S
  <2> QED BY <1>1
<1>3. ASSUME NEW b \in FirstInside(t), DOMAIN t \subseteq Nat \ {0} PROVE b = a
  <2>1. PICK k \in S : b = t[k]
    <3> HIDE DEF S
    <3> QED BY <1>1
  <2>2. i \in Nat \ {0} /\ k \in Nat \ {0}
    BY <1>3
  <2>3. ~ (i < k)
    <3>1. ASSUME i < k PROVE FALSE
      <4>1. i \in 1..(k - 1)
        BY <2>2, <3>1
      <4> QED BY <4>1
    <3> QED BY <3>1
  <2>4. ~ (k < i)
    <3>1. ASSUME k < i PROVE FALSE
      <4>1. k \in 1..(i - 1)
        BY <2>2, <3>1
      <4> QED BY <4>1
    <3> QED BY <3>1
  <2>5. k = i
    BY <2>2, <2>3, <2>4
  <2> QED BY <1>2, <2>1, <2>5
<1> QED BY <1>2, <1>3

\* What the tries of a call resolve to.
ResolvedTries(s) == [i \in DOMAIN Tries(s) |-> Resolved(Tries(s)[i])]
\* One by one: of a path that is not rooted one, of a rooted one two.
LEMMA ResolvedTriesAre ==
  ASSUME NEW s, IsSpelling(s)
  PROVE  ResolvedTries(s) = IF s.rooted THEN <<Resolved(Joined(s)), Resolved(Reanchored(s))>>
                            ELSE <<Resolved(Joined(s))>>
<1>1. CASE s.rooted
  <2> DEFINE t == <<Joined(s), Reanchored(s)>>
             u == <<Resolved(Joined(s)), Resolved(Reanchored(s))>>
  <2>1. Tries(s) = t
    BY <1>1 DEF Tries
  <2>2. DOMAIN t = 1..2 /\ t[1] = Joined(s) /\ t[2] = Reanchored(s)
    OBVIOUS
  <2>3. u = [i \in 1..2 |-> u[i]] /\ u[1] = Resolved(Joined(s)) /\ u[2] = Resolved(Reanchored(s))
    OBVIOUS
  <2> HIDE DEF t, u
  <2>4. \A i \in 1..2 : Resolved(t[i]) = u[i]
    <3>1. \A i \in 1..2 : i = 1 \/ i = 2
      OBVIOUS
    <3> QED BY <2>2, <2>3, <3>1
  <2>5. ResolvedTries(s) = u
    BY <2>1, <2>2, <2>3, <2>4 DEF ResolvedTries
  <2> QED BY <1>1, <2>5 DEF u
<1>2. CASE ~s.rooted
  <2> DEFINE t == <<Joined(s)>>
             u == <<Resolved(Joined(s))>>
  <2>1. Tries(s) = t
    BY <1>2 DEF Tries
  <2>2. DOMAIN t = 1..1 /\ t[1] = Joined(s)
    OBVIOUS
  <2>3. u = [i \in 1..1 |-> u[i]] /\ u[1] = Resolved(Joined(s))
    OBVIOUS
  <2> HIDE DEF t, u
  <2>4. \A i \in 1..1 : Resolved(t[i]) = u[i]
    <3>1. \A i \in 1..1 : i = 1
      OBVIOUS
    <3> QED BY <2>2, <2>3, <3>1
  <2>5. ResolvedTries(s) = u
    BY <2>1, <2>2, <2>3, <2>4 DEF ResolvedTries
  <2> QED BY <1>2, <2>5 DEF u
<1> QED BY <1>1, <1>2

\* A call tries its path joined to the root and, if it is rooted, anchored in the workspace.
LEMMA TriesAre ==
  ASSUME NEW s, IsSpelling(s)
  PROVE  /\ DOMAIN Tries(s) \subseteq Nat \ {0} /\ 1 \in DOMAIN Tries(s) /\ Tries(s)[1] = Joined(s)
         /\ \A i \in DOMAIN Tries(s) : Tries(s)[i] = Joined(s)
                                       \/ (s.rooted /\ Tries(s)[i] = Reanchored(s))
<1>1. CASE s.rooted
  <2> DEFINE t == <<Joined(s), Reanchored(s)>>
  <2>1. Tries(s) = t
    BY <1>1 DEF Tries
  <2>2. DOMAIN t = {1, 2} /\ t[1] = Joined(s) /\ t[2] = Reanchored(s)
    OBVIOUS
  <2> HIDE DEF t
  <2> QED BY <1>1, <2>1, <2>2
<1>2. CASE ~s.rooted
  <2> DEFINE t == <<Joined(s)>>
  <2>1. Tries(s) = t
    BY <1>2 DEF Tries
  <2>2. DOMAIN t = {1} /\ t[1] = Joined(s)
    OBVIOUS
  <2> HIDE DEF t
  <2> QED BY <2>1, <2>2
<1> QED BY <1>1, <1>2

\* A call's destination is one of its tries, with the links followed as far as
\* the whole of it exists.
LEMMA DestinationIs ==
  ASSUME Shape, NEW s, IsSpelling(s), NEW q \in Destination(s)
  PROVE  /\ Destination(s) = {q} /\ q \in Paths
         /\ IF IsRoot(s) THEN q = here.root
            ELSE \E j \in {Joined(s), Reanchored(s)} :
                   /\ j \in Paths /\ q = Resolved(j) /\ Leads(q) = Leads(j)
                   /\ here.unrestricted \/ Inside(q)
                   /\ j # Joined(s) => s.rooted /\ ~here.unrestricted
<1>1. CASE IsRoot(s)
  BY <1>1, RootLeads DEF Destination, Resolve
<1>2. CASE ~IsRoot(s) /\ here.unrestricted
  <2>1. Resolve(s) = {Resolved(Joined(s))}
    BY <1>2 DEF Resolve
  <2>2. Destination(s) = {Resolved(Joined(s))}
    BY <2>1 DEF Destination
  <2> QED BY <1>2, <2>2, TriesTyped, InsideIs
<1>3. CASE ~IsRoot(s) /\ ~here.unrestricted
  <2> DEFINE t == Tries(s)
             r == ResolvedTries(s)
  <2>1. /\ DOMAIN t \subseteq Nat \ {0} /\ DOMAIN t \subseteq Nat
        /\ \A i \in DOMAIN t : t[i] = Joined(s) \/ (s.rooted /\ t[i] = Reanchored(s))
    BY TriesAre
  <2>2. \A i \in DOMAIN t : t[i] \in Paths
    BY <2>1, TriesTyped
  <2>3. Resolve(s) = FirstInside(r) /\ ResolveNew(s) = FirstInside(t)
    BY <1>3 DEF Resolve, ResolveNew, ResolvedTries
  <2>4. DOMAIN r = DOMAIN t /\ \A i \in DOMAIN t : r[i] = Resolved(t[i])
    BY DEF ResolvedTries
  <2> HIDE DEF t, r
  <2>5. \A i \in DOMAIN t : /\ r[i] \in Paths /\ Leads(r[i]) = Leads(t[i])
                            /\ Inside(r[i]) <=> Inside(t[i])
    BY <2>2, <2>4, InsideIs
  <2>6. FirstInside(r) = {} => FirstInside(t) = {}
    <3>1. ASSUME NEW a \in FirstInside(t) PROVE FirstInside(r) # {}
      <4>1. PICK i \in DOMAIN t : Inside(t[i]) /\ \A j \in 1..(i - 1) : ~Inside(t[j])
        BY <3>1 DEF FirstInside
      <4>2. \A j \in 1..(i - 1) : j \in DOMAIN t => ~Inside(r[j])
        BY <2>5, <4>1
      <4>3. \A j \in 1..(i - 1) : j \in DOMAIN t
        <5>1. DOMAIN t = {1} \/ DOMAIN t = {1, 2}
          <6>1. CASE s.rooted
            BY <6>1 DEF t, Tries
          <6>2. CASE ~s.rooted
            BY <6>2 DEF t, Tries
          <6> QED BY <6>1, <6>2
        <5> QED BY <5>1
      <4>4. Inside(r[i]) /\ i \in DOMAIN r
        BY <2>4, <2>5, <4>1
      <4> QED BY <4>2, <4>3, <4>4 DEF FirstInside
    <3> QED BY <3>1
  <2>7. Destination(s) = FirstInside(r)
    BY <2>3, <2>6 DEF Destination
  <2>8. PICK i \in DOMAIN r : q = r[i]
    BY <2>1, <2>4, <2>7, FirstIsOne
  <2>9. Inside(q) /\ \A b \in FirstInside(r) : b = q
    BY <2>1, <2>4, <2>7, FirstIsOne
  <2>10. Destination(s) = {q}
    BY <2>7, <2>9
  <2>11. t[i] \in Paths /\ q = Resolved(t[i]) /\ Leads(q) = Leads(t[i]) /\ q \in Paths
    BY <2>2, <2>4, <2>5, <2>8
  <2>12. t[i] = Joined(s) \/ (s.rooted /\ t[i] = Reanchored(s))
    BY <2>1, <2>4, <2>8
  <2> QED BY <1>3, <2>9, <2>10, <2>11, <2>12
<1> QED BY <1>1, <1>2, <1>3

\* A name that is reported can be given.
LEMMA RelTyped ==
  ASSUME Shape, NEW q \in Paths
  PROVE  IsSpelling(Rel(q))
<1>1. here.root \in Paths /\ Len(here.root) \in Nat
  BY RootLeads, SeqFacts DEF Paths
<1>2. CASE Within(here.root, q)
  <2> DEFINE names == SubSeq(q, Len(here.root) + 1, Len(q))
  <2>1. names \in Paths
    BY <1>1 DEF Paths
  <2>2. names \in Seq(STRING)
    BY <2>1, WordsAreStrings
  <2>3. Rel(q) = [rooted |-> FALSE, names |-> names]
    BY <1>2 DEF Rel, Relative
  <2> HIDE DEF names
  <2> QED BY <2>2, <2>3 DEF IsSpelling
<1>3. CASE ~Within(here.root, q)
  <2>1. Rel(q) = [rooted |-> TRUE, names |-> q]
    BY <1>3 DEF Rel, Rooted
  <2>2. q \in Seq(STRING)
    BY WordsAreStrings
  <2> QED BY <2>1, <2>2 DEF IsSpelling
<1> QED BY <1>2, <1>3

\* The name a path is reported under spells that path.
LEMMA RelJoins ==
  ASSUME Shape, NEW q \in Paths, q # here.root
  PROVE  Joined(Rel(q)) = q /\ ~IsRoot(Rel(q)) /\ IsSpelling(Rel(q))
<1> DEFINE s == Rel(q)
<1>0. here.root \in Paths
  BY RootLeads
<1>1. CASE Within(here.root, q)
  <2> DEFINE names == SubSeq(q, Len(here.root) + 1, Len(q))
  <2>1. here.root \o names = q /\ names \in Paths /\ names # <<>>
    <3>1. here.root \in Seq(Words) /\ q \in Seq(Words) /\ IsPrefix(here.root, q)
      BY <1>0, <1>1 DEF Within, Paths
    <3>2. /\ here.root \o SubSeq(q, Len(here.root) + 1, Len(q)) = q
          /\ SubSeq(q, Len(here.root) + 1, Len(q)) \in Seq(Words)
          /\ SubSeq(q, Len(here.root) + 1, Len(q)) = <<>> => q = here.root
      <4> DEFINE a == here.root
      <4>1. a \in Seq(Words) /\ IsPrefix(a, q)
        BY <3>1
      <4> HIDE DEF a
      <4>2. /\ a \o SubSeq(q, Len(a) + 1, Len(q)) = q
            /\ SubSeq(q, Len(a) + 1, Len(q)) \in Seq(Words)
            /\ SubSeq(q, Len(a) + 1, Len(q)) = <<>> => q = a
        BY <3>1, <4>1, PrefixAndRest
      <4> QED BY <4>2 DEF a
    <3> QED BY <3>2 DEF Paths
  <2>2. s = [rooted |-> FALSE, names |-> names]
    BY <1>1 DEF Rel, Relative
  <2> HIDE DEF names, s
  <2>3. Joined(s) = q
    BY <2>1, <2>2, CleanOfClean DEF Joined
  <2>4. names # <<".">>
    <3>1. ASSUME names = <<".">> PROVE FALSE
      <4>1. Len(names) = 1 /\ names[1] = "."
        BY <3>1
      <4>2. names[1] \in Words
        BY <2>1, <4>1, SeqFacts DEF Paths
      <4> QED BY <4>1, <4>2 DEF Words
    <3> QED BY <3>1
  <2>5. s.names # <<>> /\ s.names # <<".">>
    BY <2>1, <2>2, <2>4
  <2>6. ~IsRoot(s)
    <3>1. Relative(<<>>).names = <<>> /\ Relative(<<".">>).names = <<".">>
      BY DEF Relative
    <3> QED BY <2>5, <3>1 DEF IsRoot
  <2> QED BY <2>3, <2>6, RelTyped DEF s
<1>2. CASE ~Within(here.root, q)
  <2>1. s = [rooted |-> TRUE, names |-> q]
    BY <1>2 DEF Rel, Rooted
  <2> HIDE DEF s
  <2>2. Joined(s) = q
    BY <2>1, CleanOfClean DEF Joined
  <2>3. s.rooted = TRUE /\ Relative(<<>>).rooted = FALSE /\ Relative(<<".">>).rooted = FALSE
    BY <2>1 DEF Relative
  <2>4. ~IsRoot(s)
    BY <2>3 DEF IsRoot
  <2> QED BY <2>2, <2>4, RelTyped DEF s
<1> QED BY <1>1, <1>2

\* The name a path is reported under is resolved to it.
LEMMA LeadsBack ==
  ASSUME Shape, NEW q \in Paths, q # here.root, here.unrestricted \/ Inside(q)
  PROVE  Destination(Rel(q)) = {Resolved(q)}
<1> DEFINE s == Rel(q)
<1>1. here.root \in Paths /\ Resolved(q) \in Paths /\ (here.unrestricted \/ Inside(Resolved(q)))
  BY RootLeads, InsideIs
<1>2. Joined(s) = q /\ ~IsRoot(s) /\ IsSpelling(s)
  BY RelJoins
<1> HIDE DEF s
<1>3. CASE here.unrestricted
  <2>1. Resolve(s) = {Resolved(q)}
    BY <1>2, <1>3 DEF Resolve
  <2> QED BY <2>1 DEF Destination, s
<1>4. CASE ~here.unrestricted
  <2>1. Resolve(s) = FirstInside(ResolvedTries(s))
    BY <1>2, <1>4 DEF Resolve, ResolvedTries
  <2>2. FirstInside(ResolvedTries(s)) = {Resolved(q)}
    <3>1. CASE s.rooted
      <4>1. ResolvedTries(s) = <<Resolved(q), Resolved(Reanchored(s))>>
        BY <1>2, <3>1, ResolvedTriesAre
      <4> QED BY <1>1, <1>4, <4>1, FirstOfTwo
    <3>2. CASE ~s.rooted
      <4>1. ResolvedTries(s) = <<Resolved(q)>>
        BY <1>2, <3>2, ResolvedTriesAre
      <4> QED BY <1>1, <1>4, <4>1, FirstOfOne
    <3> QED BY <3>1, <3>2
  <2> QED BY <2>1, <2>2 DEF Destination, s
<1> QED BY <1>3, <1>4

\* Of every path: what following it comes to, and the name it is reported under.
Following ==
  /\ Resolved(here.root) = Leads(here.root)
  /\ \A p \in Paths : /\ Follow(p) = {Leads(p)} \cap Existing
                      /\ Inside(p) <=> Allowed(Leads(p))
Reporting ==
  \A q \in Paths : q # here.root /\ (here.unrestricted \/ Inside(q))
                   => Stat(Rel(q)) = {Leads(q)} \cap Existing

\* Of a tree, paths and names come to that.
LEMMA FollowsAndReports == Shape => Following /\ Reporting
<1> SUFFICES ASSUME Shape PROVE Following /\ Reporting
  OBVIOUS
<1>1. Following
  BY FollowIs, InsideIs, RootLeads DEF Following
<1>2. ASSUME NEW q \in Paths, q # here.root, here.unrestricted \/ Inside(q)
      PROVE  Stat(Rel(q)) = {Leads(q)} \cap Existing
  <2>1. Destination(Rel(q)) = {Resolved(q)}
    BY <1>2, LeadsBack
  <2>2. Follow(Resolved(q)) = {Leads(q)} \cap Existing
    BY FollowIs, InsideIs
  <2>3. Stat(Rel(q)) = Follow(Resolved(q))
    BY <2>1 DEF Stat
  <2> QED BY <2>2, <2>3
<1> QED BY <1>1, <1>2 DEF Reporting

\* Where nothing blocks a path, no file is on the way to where it leads.
LEMMA NotThroughFiles ==
  ASSUME Shape, NEW p \in Paths, ~Blocked(p)
  PROVE  \A m \in 0..(Len(Leads(p)) - 1) : SubSeq(Leads(p), 1, m) \notin DOMAIN stored
<1> DEFINE Passed(q, x) == \E j \in 1..Len(q) : Leads(SubSeq(q, 1, j)) = x
           Good == {q \in Paths : \A m \in 0..Len(Leads(q)) :
                      SubSeq(Leads(q), 1, m) \in DOMAIN stored => Passed(q, SubSeq(Leads(q), 1, m))}
<1>0. Len(p) \in Nat /\ Len(p) \in 0..Len(p) /\ SubSeq(p, 1, Len(p)) = p
  BY SeqFacts DEF Paths
<1>1. <<>> \in Good
  <2>1. <<>> \in Paths /\ Leads(<<>>) = <<>> /\ <<>> \notin DOMAIN stored
    BY SiteFacts, RealOfNone DEF Leads, Shape
  <2>2. \A m \in 0..Len(<<>>) : SubSeq(<<>>, 1, m) = <<>>
    OBVIOUS
  <2> QED BY <2>1, <2>2
<1>2. ASSUME NEW i \in 1..Len(p), SubSeq(p, 1, i - 1) \in Good PROVE SubSeq(p, 1, i) \in Good
  <2> DEFINE a == SubSeq(p, 1, i - 1)
             b == SubSeq(p, 1, i)
             n == Len(a)
             q == Append(Leads(a), p[i])
  <2>1. /\ a \in Paths /\ p[i] \in Words /\ b = Append(a, p[i]) /\ b \in Paths
        /\ n \in Nat /\ Len(b) = n + 1 /\ SubSeq(b, 1, n + 1) = b
        /\ \A j \in 1..n : SubSeq(b, 1, j) = SubSeq(a, 1, j)
    <3>1. a \in Paths /\ p[i] \in Words /\ b = Append(a, p[i]) /\ b \in Paths
      BY <1>0, OneMore DEF Paths
    <3> HIDE DEF a, b
    <3>2. n \in Nat /\ Len(b) = n + 1 /\ SubSeq(b, 1, n + 1) = b
      BY <3>1, AppendFacts, BeginningsOfMore DEF Paths
    <3>3. \A j \in 0..n : SubSeq(b, 1, j) = SubSeq(a, 1, j)
      BY <3>1, BeginningsOfMore DEF Paths
    <3>4. \A j \in 1..n : j \in 0..n
      BY <3>2
    <3> QED BY <3>1, <3>2, <3>3, <3>4
  <2>2. \A m \in 0..Len(Leads(a)) : SubSeq(Leads(a), 1, m) \in DOMAIN stored => Passed(a, SubSeq(Leads(a), 1, m))
    BY <1>2
  <2> HIDE DEF a, b, Good
  <2>3. ASSUME NEW x, Passed(a, x) PROVE Passed(b, x)
    <3>1. PICK j \in 1..n : Leads(SubSeq(a, 1, j)) = x
      BY <2>3
    <3>2. j \in 1..Len(b)
      <4>1. n \in Nat /\ Len(b) = n + 1
        BY <2>1
      <4> HIDE DEF n
      <4> QED BY <3>1, <4>1
    <3>3. SubSeq(b, 1, j) = SubSeq(a, 1, j)
      BY <2>1
    <3> QED BY <3>1, <3>2, <3>3
  <2>4. Leads(a) \in Paths /\ Leads(b) \in Paths /\ Leads(b) = Hop(here.links, q)
    BY <2>1, SiteFacts, RealOfMore, RealTyped DEF Leads
  <2>5. Passed(b, Leads(b))
    <3>1. n + 1 \in 1..Len(b)
      BY <2>1
    <3> QED BY <2>1, <3>1
  <2>6. SubSeq(Leads(b), 1, Len(Leads(b))) = Leads(b) /\ Len(Leads(b)) \in Nat
    BY <2>4, SeqFacts DEF Paths
  <2> HIDE DEF Passed
  <2>7. ASSUME NEW m \in 0..Len(Leads(b)), SubSeq(Leads(b), 1, m) \in DOMAIN stored
        PROVE  Passed(b, SubSeq(Leads(b), 1, m))
    <3>1. CASE m = Len(Leads(b))
      BY <2>5, <2>6, <3>1
    <3>2. CASE m # Len(Leads(b)) /\ q \in DOMAIN here.links
      <4>1. Leads(b) \in Existing
        BY <2>4, <3>2, SiteFacts DEF Hop
      <4>2. m \in 0..(Len(Leads(b)) - 1)
        <5>1. Len(Leads(b)) \in Nat /\ m \in 0..Len(Leads(b))
          BY <2>6, <2>7
        <5> QED BY <3>2, <5>1
      <4>3. SubSeq(Leads(b), 1, m) \in dirs
        BY <4>1, <4>2, Upwards
      <4> QED BY <2>7, <4>3 DEF Shape
    <3>3. CASE m # Len(Leads(b)) /\ q \notin DOMAIN here.links
      <4>1. Leads(b) = q
        BY <2>4, <3>3 DEF Hop
      <4>2. Len(q) = Len(Leads(a)) + 1 /\ Len(Leads(a)) \in Nat
        BY <2>1, <2>4, AppendFacts, SeqFacts DEF Paths
      <4>3. m \in 0..Len(Leads(a))
        BY <2>6, <3>3, <4>1, <4>2
      <4>4. SubSeq(q, 1, m) = SubSeq(Leads(a), 1, m)
        BY <2>1, <2>4, <4>3, BeginningsOfMore DEF Paths
      <4> QED BY <2>2, <2>3, <2>7, <4>1, <4>3, <4>4
    <3> QED BY <3>1, <3>2, <3>3
  <2>8. b \in Good
    BY <2>1, <2>7 DEF Good
  <2> QED BY <2>8 DEF b
<1> HIDE DEF Good
<1>3. SubSeq(p, 1, Len(p)) \in Good
  BY <1>0, <1>1, <1>2, AlongPath
<1>4. \A m \in 0..Len(Leads(p)) : SubSeq(Leads(p), 1, m) \in DOMAIN stored => Passed(p, SubSeq(Leads(p), 1, m))
  BY <1>0, <1>3 DEF Good
<1>5. Leads(p) \in Paths /\ Len(Leads(p)) \in Nat
  BY SiteFacts, RealTyped, SeqFacts DEF Leads, Paths
<1>6. ASSUME NEW m \in 0..(Len(Leads(p)) - 1), SubSeq(Leads(p), 1, m) \in DOMAIN stored PROVE FALSE
  <2>1. m \in 0..Len(Leads(p)) /\ m # Len(Leads(p))
    BY <1>5
  <2>2. PICK j \in 1..Len(p) : Leads(SubSeq(p, 1, j)) = SubSeq(Leads(p), 1, m)
    BY <1>4, <1>6, <2>1
  <2>3. j # Len(p)
    <3>1. ASSUME j = Len(p) PROVE FALSE
      <4>1. Leads(p) = SubSeq(Leads(p), 1, m)
        BY <1>0, <2>2, <3>1
      <4>2. Len(SubSeq(Leads(p), 1, m)) = m
        BY <1>5, <2>1, SeqFacts DEF Paths
      <4> QED BY <2>1, <4>1, <4>2
    <3> QED BY <3>1
  <2>4. j \in 1..(Len(p) - 1) /\ j \in 0..Len(p)
    <3>1. j \in 1..Len(p) /\ Len(p) \in Nat
      BY <1>0, <2>2
    <3> QED BY <2>3, <3>1
  <2>5. SubSeq(p, 1, j) \in Paths
    BY <2>4, SeqFacts DEF Paths
  <2>6. Leads(SubSeq(p, 1, j)) \in Follow(SubSeq(p, 1, j)) \cap DOMAIN stored
    BY <1>6, <2>2, <2>5, FollowIs DEF Existing
  <2> QED BY <2>4, <2>6 DEF Blocked
<1> QED BY <1>6

-----------------------------------------------------------------------------
(* The histories, and what writes and rollbacks keep.                       *)

\* A key of the histories is no directory of the site, and a key through a link
\* is of a file created under it.
Keys ==
  \A k \in DOMAIN states :
     k \in Paths /\ Leads(k) \notin here.dirs /\ (k # Leads(k) => Leads(k) \in apart)

\* A path through no link has its file's history, unless the file was created
\* under another path.
Own ==
  /\ \A f : Direct(here.links, f) /\ f \notin apart => History(f) = ReplacedAt(f)
  /\ \A f \in DOMAIN replaced : Direct(here.links, f)

\* A function with one value changed.
LEMMA WithIs ==
  ASSUME NEW f, NEW k, NEW v
  PROVE  /\ DOMAIN With(f, k, v) = DOMAIN f \cup {k} /\ With(f, k, v)[k] = v
         /\ \A x \in DOMAIN f : x # k => With(f, k, v)[x] = f[x]
BY DEF With

\* The histories, with that of one key changed.
LEMMA HistoryWith ==
  ASSUME NEW k, NEW v, states' = With(states, k, v)
  PROVE  /\ DOMAIN states' = DOMAIN states \cup {k} /\ History(k)' = v
         /\ \A x : x # k => History(x)' = History(x)
<1>1. /\ DOMAIN states' = DOMAIN states \cup {k} /\ states'[k] = v
      /\ \A x \in DOMAIN states : x # k => states'[x] = states[x]
  BY DEF With
<1>2. History(k)' = v
  BY <1>1 DEF History
<1>3. ASSUME NEW x, x # k PROVE History(x)' = History(x)
  BY <1>1, <1>3 DEF History
<1> QED BY <1>1, <1>2, <1>3

\* The same of what writes replaced.
LEMMA ReplacedWith ==
  ASSUME NEW k, NEW v, replaced' = With(replaced, k, v)
  PROVE  /\ DOMAIN replaced' = DOMAIN replaced \cup {k} /\ ReplacedAt(k)' = v
         /\ \A x : x # k => ReplacedAt(x)' = ReplacedAt(x)
<1>1. /\ DOMAIN replaced' = DOMAIN replaced \cup {k} /\ replaced'[k] = v
      /\ \A x \in DOMAIN replaced : x # k => replaced'[x] = replaced[x]
  BY DEF With
<1>2. ReplacedAt(k)' = v
  BY <1>1 DEF ReplacedAt
<1>3. ASSUME NEW x, x # k PROVE ReplacedAt(x)' = ReplacedAt(x)
  BY <1>1, <1>3 DEF ReplacedAt
<1> QED BY <1>1, <1>2, <1>3

\* A path is within its front.
LEMMA FrontWithin ==
  ASSUME NEW p \in Paths, p # <<>> PROVE Within(Front(p), p) /\ Front(p) # p
<1>1. Len(p) \in Nat \ {0} /\ Len(p) - 1 \in 0..Len(p)
  BY DEF Paths
<1>2. Front(p) = SubSeq(p, 1, Len(p) - 1)
  BY DEF Front
<1>3. Front(p) \in Seq(Words) /\ Len(Front(p)) = Len(p) - 1
  BY FrontLast DEF Paths
<1>4. SubSeq(Front(p), 1, Len(Front(p))) = Front(p)
  BY <1>3, SeqFacts
<1> QED BY <1>1, <1>2, <1>3, <1>4 DEF Within, IsPrefix

\* A write makes the directories on the way and the file.
LEMMA WriteShape ==
  ASSUME Shape, NEW p \in Paths, ~IsDir(p), ~Blocked(p), here' = here, NEW b,
         dirs' = dirs \cup {SubSeq(Leads(p), 1, i) : i \in 0..Len(Leads(p)) - 1},
         stored' = With(stored, Leads(p), b)
  PROVE  Shape' /\ Leads(p) \notin dirs /\ DOMAIN stored' = DOMAIN stored \cup {Leads(p)}
<1> DEFINE f == Leads(p)
           on == {SubSeq(f, 1, i) : i \in 0..Len(f) - 1}
<1>1. f \in Paths /\ Direct(here.links, f)
  BY SiteFacts, RealTyped, LeadsIsDirect DEF Leads
<1>2. Follow(p) = {f} \cap Existing
  BY FollowIs
<1>3. f \notin dirs
  BY <1>2 DEF IsDir, Existing
<1>4. f # <<>> /\ <<>> \in dirs
  BY <1>3, SiteFacts
<1>5. \A m \in 0..(Len(f) - 1) : SubSeq(f, 1, m) \notin DOMAIN stored
  BY NotThroughFiles
<1>6. DOMAIN stored' = DOMAIN stored \cup {f}
  BY WithIs
<1>7. dirs' = dirs \cup on
  OBVIOUS
<1> HIDE DEF f
<1>8. /\ Len(f) \in Nat \ {0}
      /\ Front(f) = SubSeq(f, 1, Len(f) - 1) /\ Len(f) - 1 \in 0..(Len(f) - 1)
      /\ \A i \in 0..(Len(f) - 1) :
               /\ SubSeq(f, 1, i) \in Paths /\ SubSeq(f, 1, i) # f
               /\ SubSeq(f, 1, i) # <<>> => i - 1 \in 0..(Len(f) - 1)
                                            /\ Front(SubSeq(f, 1, i)) = SubSeq(f, 1, i - 1)
  BY <1>1, <1>4, Fronts DEF Paths
<1>9. \A d \in on : d \in Paths /\ d # f /\ d \notin DOMAIN stored /\ (d # <<>> => Front(d) \in on)
  <2>1. ASSUME NEW i \in 0..(Len(f) - 1), SubSeq(f, 1, i) # <<>> PROVE Front(SubSeq(f, 1, i)) \in on
    BY <1>8, <2>1
  <2> QED BY <1>5, <1>8, <2>1
<1>10. \A d \in on : d # <<>> => d \notin DOMAIN here.links
  <2>1. ASSUME NEW i \in 0..(Len(f) - 1), SubSeq(f, 1, i) # <<>> PROVE SubSeq(f, 1, i) \notin DOMAIN here.links
    <3>1. i \in 1..Len(f)
      <4>1. i - 1 \in 0..(Len(f) - 1)
        BY <1>8, <2>1
      <4> QED BY <1>8, <4>1
    <3> QED BY <1>1, <3>1 DEF Direct
  <2> QED BY <2>1
<1>11. f \notin DOMAIN here.links /\ <<>> \notin DOMAIN here.links /\ Front(f) \in on
  <2>1. SubSeq(f, 1, Len(f)) = f /\ Len(f) \in 1..Len(f)
    BY <1>1, <1>8, SeqFacts DEF Paths
  <2>2. f \notin DOMAIN here.links
    BY <1>1, <2>1 DEF Direct
  <2> QED BY <1>8, <2>2, SiteFacts
<1>12. here' \in Sites /\ here'.dirs \subseteq dirs'
  BY <1>7 DEF Shape
<1>13. dirs' \cap DOMAIN stored' = {}
  BY <1>3, <1>6, <1>7, <1>9 DEF Shape
<1> HIDE DEF on
<1>14. \A q \in Existing' : q \in Paths /\ (q # <<>> => Front(q) \in dirs') /\ q \notin DOMAIN here'.links
  <2>1. Existing' = Existing \cup on \cup {f}
    BY <1>6, <1>7 DEF Existing
  <2> QED BY <1>1, <1>7, <1>9, <1>10, <1>11, <2>1 DEF Shape
<1> QED BY <1>3, <1>6, <1>12, <1>13, <1>14 DEF Shape, f

\* A write's key and file: a history each, the same if the key is the file.
LEMMA WriteHistory ==
  ASSUME Shape, Keys, Own, NEW p \in Paths, NEW f, f = Leads(p), f \notin dirs, here' = here,
         p = f \/ f \notin Existing, RecordAt(p, f)
  PROVE  Keys' /\ Own'
<1> DEFINE new == Trimmed(Append(History(p), StateAt(p)))
           old == Trimmed(Append(ReplacedAt(f), StateAt(p)))
<1>1. states' = With(states, p, new) /\ replaced' = With(replaced, f, old)
  BY DEF RecordAt, HistoryKey
<1>2. apart' = IF f \notin DOMAIN stored /\ p # f THEN apart \cup {f} ELSE apart
  BY DEF RecordAt
<1>3. Direct(here.links, f) /\ f \notin here.dirs
  BY SiteFacts, LeadsIsDirect
<1>4. p = f \/ f \notin DOMAIN stored
  BY DEF Existing
<1>5. p = f => new = old \/ f \in apart
  BY <1>3 DEF Own
<1> HIDE DEF new, old
<1>6. /\ DOMAIN states' = DOMAIN states \cup {p} /\ History(p)' = new
      /\ \A x : x # p => History(x)' = History(x)
  BY <1>1, HistoryWith
<1>7. /\ DOMAIN replaced' = DOMAIN replaced \cup {f} /\ ReplacedAt(f)' = old
      /\ \A x : x # f => ReplacedAt(x)' = ReplacedAt(x)
  BY <1>1, ReplacedWith
<1>8. \A k : Leads(k)' = Leads(k)
  BY DEF Leads
<1>9. Keys'
  <2>1. ASSUME NEW k \in DOMAIN states'
        PROVE  k \in Paths /\ Leads(k) \notin here.dirs /\ (k # Leads(k) => Leads(k) \in apart')
    <3>1. CASE k = p
      BY <1>2, <1>3, <1>4, <3>1
    <3>2. CASE k # p
      BY <1>2, <1>6, <3>2 DEF Keys
    <3> QED BY <3>1, <3>2
  <2> QED BY <1>8, <2>1 DEF Keys
<1>10. ASSUME NEW g, Direct(here.links, g), g \notin apart' PROVE History(g)' = ReplacedAt(g)'
  <2>1. Leads(g) = g /\ g \notin apart
    BY <1>2, <1>10, DirectLeads
  <2>2. CASE g = f
    <3>1. p = f
      BY <1>2, <1>4, <1>10, <2>2
    <3>2. new = old
      BY <1>5, <2>1, <2>2, <3>1
    <3> QED BY <1>6, <1>7, <2>2, <3>1, <3>2
  <2>3. CASE g # f
    <3>1. g # p
      BY <2>1, <2>3
    <3> QED BY <1>6, <1>7, <1>10, <2>1, <2>3, <3>1 DEF Own
  <2> QED BY <2>2, <2>3
<1>11. \A g \in DOMAIN replaced' : Direct(here.links, g)
  BY <1>3, <1>7 DEF Own
<1>12. Own'
  BY <1>10, <1>11 DEF Own
<1> QED BY <1>9, <1>12

\* A path a call acts on is one without links, or leads to nothing yet.
Aimed(p) == p \in Paths /\ (p = Leads(p) \/ Leads(p) \notin Existing \/ Leads(p) \in dirs)

\* So is every destination of a call.
LEMMA Aims ==
  ASSUME Shape, NEW s, IsSpelling(s), NEW q \in Destination(s)
  PROVE  Aimed(q) /\ Destination(s) = {q}
<1>1. CASE IsRoot(s)
  BY <1>1, DestinationIs, RootLeads DEF Aimed
<1>2. CASE ~IsRoot(s)
  <2>1. q \in Paths /\ Destination(s) = {q}
    BY DestinationIs
  <2>2. PICK j \in Paths : q = Resolved(j) /\ Leads(q) = Leads(j)
    BY <1>2, DestinationIs
  <2>3. Resolved(j) = IF Leads(j) \in Existing THEN Leads(j) ELSE j
    BY ResolvedIs
  <2> QED BY <2>1, <2>2, <2>3 DEF Aimed
<1> QED BY <1>1, <1>2

\* What a refused call keeps.
LEMMA KeptAsIs ==
  ASSUME UNCHANGED <<here, dirs, stored, states, replaced, apart>>, Shape, Keys, Own
  PROVE  Shape' /\ Keys' /\ Own'
<1>1. Shape'
  BY DEF Shape, Existing
<1>2. Keys'
  BY DEF Keys, Leads
<1>3. Own'
  BY DEF Own, History, ReplacedAt
<1> QED BY <1>1, <1>2, <1>3

\* A write fails, or answers and makes its file.
LEMMA WriteFileKeeps ==
  ASSUME Shape, Keys, Own, NEW p, Aimed(p), here' = here, NEW b, NEW answer, WriteFileAt(p, b, answer)
  PROVE  /\ Shape' /\ Keys' /\ Own'
         /\ \/ done' = [tool |-> "failed"]
            \/ done' = answer /\ Leads(p) \notin dirs /\ DOMAIN stored' = DOMAIN stored \cup {Leads(p)}
<1>1. CASE IsDir(p) \/ Blocked(p)
  <2>1. done' = [tool |-> "failed"] /\ UNCHANGED <<dirs, stored, states, replaced, apart>>
    BY <1>1 DEF WriteFileAt
  <2> QED BY <2>1, KeptAsIs
<1>2. CASE ~(IsDir(p) \/ Blocked(p))
  <2>0. p \in Paths /\ DeepestReal(p) = Leads(p)
    BY DeepIs DEF Aimed
  <2>1. /\ dirs' = dirs \cup {SubSeq(Leads(p), 1, i) : i \in 0..Len(Leads(p)) - 1}
        /\ RecordAt(p, Leads(p))
        /\ stored' = With(stored, Leads(p), b)
        /\ done' = answer
    BY <1>2, <2>0 DEF WriteFileAt
  <2>2. Shape' /\ Leads(p) \notin dirs /\ DOMAIN stored' = DOMAIN stored \cup {Leads(p)}
    BY <1>2, <2>0, <2>1, WriteShape
  <2>3. PICK f : f = Leads(p)
    OBVIOUS
  <2>4. Keys' /\ Own'
    <3>1. p = f \/ f \notin Existing
      BY <2>2, <2>3 DEF Aimed
    <3>2. RecordAt(p, f)
      BY <2>1, <2>3
    <3> QED BY <2>0, <2>2, <2>3, <3>1, <3>2, WriteHistory
  <2> QED BY <2>1, <2>2, <2>4
<1> QED BY <1>1, <1>2

\* A rollback takes away a file, or an empty directory, that is not the site's,
\* or puts a file into a directory.
LEMMA RestoreShape ==
  ASSUME Shape, NEW f, Direct(here.links, f), f \notin here.dirs, here' = here,
         NEW state, Restore(f, state)
  PROVE  Shape'
<1>1. f \in Paths /\ f # <<>>
  BY SiteFacts DEF Direct
<1>2. f \notin DOMAIN here.links
  <2>1. SubSeq(f, 1, Len(f)) = f /\ Len(f) \in 1..Len(f)
    <3>1. Len(f) \in Nat /\ Len(f) # 0 /\ SubSeq(f, 1, Len(f)) = f
      BY <1>1, SeqFacts DEF Paths
    <3> QED BY <3>1
  <2> QED BY <2>1 DEF Direct
<1>3. CASE state = {}
  <2>1. /\ stored' = Without(stored, f)
        /\ dirs' = IF \E d \in Existing \cup DOMAIN here.links : d # f /\ Within(f, d)
                    THEN dirs ELSE dirs \ {f}
    BY <1>3 DEF Restore
  <2>2. DOMAIN stored' = DOMAIN stored \ {f}
    BY <2>1 DEF Without
  <2>3. dirs' \subseteq dirs /\ here.dirs \subseteq dirs'
    BY <2>1 DEF Shape
  <2>4. ASSUME NEW q \in Existing' PROVE q \in Paths /\ (q # <<>> => Front(q) \in dirs') /\ q \notin DOMAIN here'.links
    <3>1. q \in Existing
      BY <2>2, <2>3, <2>4 DEF Existing
    <3>2. ASSUME q # <<>>, Front(q) \notin dirs' PROVE FALSE
      <4>1. Front(q) = f /\ ~ \E d \in Existing : d # f /\ Within(f, d)
        BY <2>1, <3>1, <3>2 DEF Shape
      <4>2. Within(Front(q), q) /\ Front(q) # q
        BY <3>1, <3>2, FrontWithin DEF Shape
      <4> QED BY <3>1, <4>1, <4>2
    <3> QED BY <3>1, <3>2 DEF Shape
  <2>5. dirs' \cap DOMAIN stored' = {}
    BY <2>2, <2>3 DEF Shape
  <2> QED BY <2>3, <2>4, <2>5 DEF Shape
<1>4. CASE state # {} /\ (f \in dirs \/ Front(f) \notin dirs)
  <2>1. dirs' = dirs /\ stored' = stored
    BY <1>4 DEF Restore
  <2> QED BY <2>1 DEF Shape, Existing
<1>5. CASE state # {} /\ f \notin dirs /\ Front(f) \in dirs
  <2>1. dirs' = dirs /\ stored' = With(stored, f, CHOOSE b \in state : TRUE)
    BY <1>5 DEF Restore
  <2>2. DOMAIN stored' = DOMAIN stored \cup {f}
    BY <2>1 DEF With
  <2> QED BY <1>1, <1>2, <1>5, <2>1, <2>2 DEF Shape, Existing
<1> QED BY <1>3, <1>4, <1>5

\* A rollback takes the last of its key's history and of its file's, and they
\* are the same unless the file was created under the key.
LEMMA RollbackKeeps ==
  ASSUME Shape, Keys, Own, NEW s, IsSpelling(s), here' = here, Rollback(s)
  PROVE  Shape' /\ Keys' /\ Own' /\ done'.tool \notin {"write", "edit"}
<1>1. CASE Destination(s) = {}
  BY <1>1, KeptAsIs DEF Rollback, Refused
<1>2. CASE Destination(s) # {}
  <2>1. PICK p \in Destination(s) :
          LET key == HistoryKey(p)  stack == History(key)  file == DeepestReal(p)
          IN IF stack = <<>>
             THEN /\ done' = [tool |-> "spent", file |-> file]
                  /\ UNCHANGED <<dirs, stored, states, replaced, apart>>
             ELSE /\ states' = With(states, key, Front(stack))
                  /\ replaced' = IF ReplacedAt(file) = <<>> THEN replaced
                                 ELSE With(replaced, file, Front(ReplacedAt(file)))
                  /\ Restore(file, Last(stack))
                  /\ done' = [tool |-> "rollback", file |-> file]
                  /\ UNCHANGED apart
    BY <1>2 DEF Rollback
  <2>2. Aimed(p) /\ DeepestReal(p) = Leads(p)
    BY Aims, DeepIs DEF Aimed
  <2>3. CASE History(p) = <<>>
    BY <2>1, <2>3, KeptAsIs DEF HistoryKey
  <2>4. CASE History(p) # <<>>
    <3>1. PICK f : f = Leads(p)
      OBVIOUS
    <3>2. PICK stack : stack = History(p)
      OBVIOUS
    <3>3. /\ states' = With(states, p, Front(stack))
          /\ replaced' = IF ReplacedAt(f) = <<>> THEN replaced ELSE With(replaced, f, Front(ReplacedAt(f)))
          /\ Restore(f, Last(stack))
          /\ done' = [tool |-> "rollback", file |-> f]
          /\ apart' = apart
      BY <2>1, <2>2, <2>4, <3>1, <3>2 DEF HistoryKey
    <3>4. p \in DOMAIN states
      BY <2>4 DEF History
    <3>5. p \in Paths /\ f \notin here.dirs /\ (p # f => f \in apart)
      BY <3>1, <3>4 DEF Keys
    <3>6. Direct(here.links, f)
      BY <3>1, <3>5, LeadsIsDirect
    <3>7. Shape'
      BY <3>3, <3>5, <3>6, RestoreShape
    <3>8. /\ DOMAIN states' = DOMAIN states \cup {p} /\ History(p)' = Front(stack)
          /\ \A x : x # p => History(x)' = History(x)
      BY <3>3, HistoryWith
    <3>9. Keys'
      BY <3>3, <3>4, <3>8 DEF Keys, Leads
    <3>10. CASE ReplacedAt(f) = <<>>
      <4>1. replaced' = replaced
        BY <3>3, <3>10
      <4>2. ASSUME NEW g, Direct(here.links, g), g \notin apart PROVE History(g)' = ReplacedAt(g)'
        <5>1. ReplacedAt(g)' = ReplacedAt(g) /\ Leads(g) = g
          BY <4>1, <4>2, DirectLeads DEF ReplacedAt
        <5>2. g # p
          BY <2>4, <3>1, <3>10, <4>2, <5>1 DEF Own
        <5> QED BY <3>8, <4>2, <5>1, <5>2 DEF Own
      <4>3. Own'
        BY <3>3, <4>1, <4>2 DEF Own
      <4> QED BY <3>3, <3>7, <3>9, <4>3
    <3>11. CASE ReplacedAt(f) # <<>>
      <4>1. PICK old : old = ReplacedAt(f)
        OBVIOUS
      <4>2. replaced' = With(replaced, f, Front(old))
        BY <3>3, <3>11, <4>1
      <4>3. /\ DOMAIN replaced' = DOMAIN replaced \cup {f} /\ ReplacedAt(f)' = Front(old)
            /\ \A x : x # f => ReplacedAt(x)' = ReplacedAt(x)
        BY <4>2, ReplacedWith
      <4>4. ASSUME NEW g, Direct(here.links, g), g \notin apart PROVE History(g)' = ReplacedAt(g)'
        <5>1. Leads(g) = g /\ History(g) = ReplacedAt(g)
          BY <4>4, DirectLeads DEF Own
        <5>2. CASE g = f
          <6>1. p = f /\ stack = old
            BY <3>2, <3>5, <4>1, <4>4, <5>1, <5>2
          <6> QED BY <3>8, <4>3, <5>2, <6>1
        <5>3. CASE g # f
          <6>1. g # p
            BY <3>1, <5>1, <5>3
          <6> QED BY <3>8, <4>3, <5>1, <5>3, <6>1
        <5> QED BY <5>2, <5>3
      <4>5. \A g \in DOMAIN replaced' : Direct(here.links, g)
        BY <3>6, <4>3 DEF Own
      <4>6. Own'
        BY <3>3, <4>4, <4>5 DEF Own
      <4> QED BY <3>3, <3>7, <3>9, <4>6
    <3> QED BY <3>10, <3>11
  <2> QED BY <2>3, <2>4
<1> QED BY <1>1, <1>2

\* Other programs change files alone.
LEMMA PathsFromOutside ==
  ASSUME Shape, Keys, Own, NEW file \in Beside, here' = here, FromOutside(file)
  PROVE  Shape' /\ Keys' /\ Own' /\ done'.tool = "none"
<1>1. file \in Paths /\ file # <<>> /\ file \notin DOMAIN here.links
  BY SitesAssumption DEF Shape, Paths
<1>2. /\ Front(file) \in dirs /\ file \notin dirs
      /\ stored' \in {Without(stored, file)} \cup {With(stored, file, b) : b \in Bodies}
      /\ done' = NoLookup
      /\ UNCHANGED <<dirs, states, replaced, apart>>
  BY DEF FromOutside
<1>3. DOMAIN stored' \subseteq DOMAIN stored \cup {file}
  BY <1>2 DEF With, Without
<1>4. Shape'
  BY <1>1, <1>2, <1>3 DEF Shape, Existing
<1>5. Keys' /\ Own'
  BY <1>2 DEF Keys, Leads, Own, History, ReplacedAt
<1> QED BY <1>2, <1>4, <1>5 DEF NoLookup

-----------------------------------------------------------------------------
(* What calls answer.                                                       *)

\* The same after a step.
LEMMA NextFollows == Shape' => Following' /\ Reporting'
BY FollowsAndReports, PTL

\* After a call: what paths and reported names come to.
LEMMA After ==
  ASSUME Shape, Shape', here' = here
  PROVE  /\ \A q \in Paths : Follow(q)' = {Leads(q)} \cap Existing'
         /\ Resolved(here.root)' = Leads(here.root)
         /\ \A q \in Paths : q # here.root /\ (here.unrestricted \/ Inside(q)) =>
               \A t : t = Rel(q) => Stat(t)' = {Leads(q)} \cap Existing'
<1>1. Following' /\ Reporting' /\ Following
  BY NextFollows, FollowsAndReports
<1>2. \A q : Leads(q)' = Leads(q) /\ Allowed(q)' = Allowed(q)
  BY DEF Leads, Allowed
<1>3. Leads(here.root)' = Leads(here.root)
  BY DEF Leads
<1>4. \A q \in Paths : Follow(q)' = {Leads(q)} \cap Existing'
  BY <1>1, <1>2 DEF Following
<1>5. Resolved(here.root)' = Leads(here.root)
  BY <1>1, <1>3 DEF Following
<1>6. ASSUME NEW q \in Paths, NEW t, t = Rel(q), q # here.root, here.unrestricted \/ Inside(q)
      PROVE  Stat(t)' = {Leads(q)} \cap Existing'
  <2>1. Inside(q)' <=> Inside(q)
    <3>1. Allowed(Leads(q))' <=> Allowed(Leads(q))
      BY <1>2 DEF Allowed, Leads
    <3>2. (Inside(q) <=> Allowed(Leads(q))) /\ (Inside(q)' <=> Allowed(Leads(q))')
      BY <1>1 DEF Following
    <3> QED BY <3>1, <3>2
  <2>2. Rel(q)' = t
    BY <1>6 DEF Rel
  <2>3. here'.unrestricted \/ Inside(q)'
    BY <1>6, <2>1
  <2>4. Stat(Rel(q))' = {Leads(q)'} \cap Existing'
    BY <1>1, <1>6, <2>3 DEF Reporting
  <2>5. Stat(t)' = Stat(Rel(q))'
    BY <2>2
  <2> QED BY <1>2, <2>4, <2>5
<1> QED BY <1>4, <1>5, <1>6

\* The name reported of a write leads back.
LEMMA ReportsBack ==
  ASSUME Shape, Shape', here' = here, NEW p \in Paths, p # here.root,
         here.unrestricted \/ Inside(p), Leads(p) \in DOMAIN stored',
         done'.told = Rel(p), done'.file = Leads(p)
  PROVE  ReportLeadsBack'
<1>1. PICK t : t = Rel(p)
  OBVIOUS
<1>2. PICK f : f = Leads(p)
  OBVIOUS
<1>3. Stat(t)' = {f}
  <2>1. Leads(p) \in Existing'
    BY DEF Existing
  <2> QED BY <1>1, <1>2, <2>1, After
<1> QED BY <1>1, <1>2, <1>3 DEF ReportLeadsBack

\* The destination of a call, as the properties see it.
LEMMA Destined ==
  ASSUME Shape, NEW s, IsSpelling(s), NEW p \in Destination(s), Leads(p) \notin dirs
  PROVE  /\ p \in Paths /\ p # here.root /\ (here.unrestricted \/ Inside(p))
         /\ Joined(s) \in Paths /\ Reanchored(s) \in Paths
         /\ \/ Leads(Joined(s)) = Leads(p)
            \/ s.rooted /\ ~here.unrestricted /\ Leads(Reanchored(s)) = Leads(p)
<1>1. p # here.root
  BY RootLeads
<1>2. ~IsRoot(s)
  BY <1>1, DestinationIs
<1>3. p \in Paths
  BY DestinationIs
<1>4. PICK j \in {Joined(s), Reanchored(s)} :
                   /\ j \in Paths /\ p = Resolved(j) /\ Leads(p) = Leads(j)
                   /\ here.unrestricted \/ Inside(p)
                   /\ j # Joined(s) => s.rooted /\ ~here.unrestricted
  BY <1>2, DestinationIs
<1> QED BY <1>1, <1>3, <1>4, TriesTyped

\* What the paths of the answered call come to after it.
LEMMA FollowsTo ==
  ASSUME Shape, Shape', here' = here, NEW s, IsSpelling(s), NEW f, f \in DOMAIN stored', done'.asked = s
  PROVE  /\ Leads(Joined(s)) = f => Follow(Joined(done.asked))' = {f}
         /\ Leads(Reanchored(s)) = f => Follow(Reanchored(done.asked))' = {f}
<1>1. PICK j \in Paths : j = Joined(s)
  BY TriesTyped
<1>2. PICK r \in Paths : r = Reanchored(s)
  BY TriesTyped
<1>3. Joined(s)' = j /\ Reanchored(s)' = r
  BY <1>1, <1>2 DEF Joined, Reanchored
<1>4. f \in Existing'
  BY DEF Existing
<1>5. (Leads(j) = f => Follow(j)' = {f}) /\ (Leads(r) = f => Follow(r)' = {f})
  BY <1>4, After
<1>6. Joined(done.asked)' = j /\ Reanchored(done.asked)' = r
  BY <1>3
<1> QED BY <1>1, <1>2, <1>5, <1>6

\* write_file says that it adjusted a path, or acts on the file it spells.
LEMMA WriteToolKeeps ==
  ASSUME Shape, Keys, Own, NEW s, IsSpelling(s), here' = here, NEW b, WriteTool(s, b)
  PROVE  /\ Shape' /\ Keys' /\ Own'
         /\ done'.tool \in {"write", "edit"} => ReportLeadsBack' /\ ActsWhereAsked'
<1>1. CASE Destination(s) = {}
  BY <1>1, KeptAsIs DEF WriteTool, Refused
<1>2. CASE Destination(s) # {}
  <2>1. PICK p \in Destination(s) :
          WriteFileAt(p, b, AnswerOf("write", s, p, Rel(p), AdjustmentNote(s, p)))
    BY <1>2 DEF WriteTool
  <2>2. Aimed(p)
    BY Aims
  <2>3. PICK answer : answer = AnswerOf("write", s, p, Rel(p), AdjustmentNote(s, p))
    OBVIOUS
  <2>4. /\ Shape' /\ Keys' /\ Own'
        /\ \/ done' = [tool |-> "failed"]
           \/ done' = answer /\ Leads(p) \notin dirs /\ DOMAIN stored' = DOMAIN stored \cup {Leads(p)}
    BY <2>1, <2>2, <2>3, WriteFileKeeps
  <2>5. CASE done' = [tool |-> "failed"]
    BY <2>4, <2>5
  <2>6. CASE done' = answer /\ Leads(p) \notin dirs /\ DOMAIN stored' = DOMAIN stored \cup {Leads(p)}
    <3>1. PICK f : f = Leads(p)
      OBVIOUS
    <3>2. /\ done'.tool = "write" /\ done'.asked = s /\ done'.file = f /\ done'.told = Rel(p)
          /\ done'.note = AdjustmentNote(s, p)
      BY <2>2, <2>3, <2>6, <3>1, DeepIs DEF AnswerOf, Aimed
    <3>3. /\ p \in Paths /\ p # here.root /\ (here.unrestricted \/ Inside(p))
          /\ \/ Leads(Joined(s)) = Leads(p)
             \/ s.rooted /\ ~here.unrestricted /\ Leads(Reanchored(s)) = Leads(p)
      BY <2>6, Destined
    <3>4. f \in DOMAIN stored'
      BY <2>6, <3>1
    <3>5. ReportLeadsBack'
      BY <2>4, <3>1, <3>2, <3>3, <3>4, ReportsBack
    <3>6. ASSUME ~AdjustmentNote(s, p) PROVE Leads(Joined(s)) = f
      <4>1. CASE Leads(Joined(s)) = Leads(p)
        BY <3>1, <4>1
      <4>2. CASE s.rooted /\ ~here.unrestricted
        <5>1. Rel(p) = [s EXCEPT !.names = Clean(s.names)]
          BY <3>6, <4>2 DEF AdjustmentNote
        <5>2. Rel(p) = [rooted |-> TRUE, names |-> Joined(s)]
          BY <4>2, <5>1 DEF IsSpelling, Joined
        <5>3. p = Joined(s)
          <6>1. Rel(p).rooted = TRUE /\ Rel(p).names = Joined(s)
            BY <5>2
          <6> QED BY <6>1 DEF Rel, Relative, Rooted
        <5> QED BY <3>1, <5>3
      <4> QED BY <3>3, <4>1, <4>2
    <3>7. ~done'.note => Follow(Joined(done.asked))' = {f}
      BY <2>4, <3>2, <3>4, <3>6, FollowsTo
    <3>8. ActsWhereAsked'
      BY <3>2, <3>7 DEF ActsWhereAsked
    <3> QED BY <2>4, <3>5, <3>8
  <2> QED BY <2>4, <2>5, <2>6
<1> QED BY <1>1, <1>2

\* A walk finds paths.
LEMMA WalkTyped == ASSUME Shape, NEW q \in Walk PROVE q \in Paths
<1>1. \A x \in DOMAIN stored \cup DOMAIN here.links : x \in Paths
  BY SiteFacts DEF Shape, Existing
<1>2. here.root \in Paths
  BY RootLeads
<1> QED BY <1>1, <1>2 DEF Walk

\* A lookup by name comes to the name of the only file of it.
LEMMA UniqueIs ==
  ASSUME Shape, NEW s, NEW t \in UniqueByName(s)
  PROVE  /\ ~here.unrestricted
         /\ \E q \in Walk : /\ q \in Paths /\ t = Rel(q)
                            /\ \A x \in Walk : Last(x) = Last(q) => x = q
<1> DEFINE n == Last(Clean(s.names))
           found == Namesakes(n)
<1>1. ~here.unrestricted /\ t \in {Rel(q) : q \in {x \in found : found = {x}}}
  BY DEF UniqueByName
<1>2. PICK q \in found : found = {q} /\ t = Rel(q)
  BY <1>1
<1>3. q \in Walk /\ Last(q) = n /\ \A x \in Walk : Last(x) = n => x = q
  BY <1>2 DEF Namesakes
<1> QED BY <1>1, <1>2, <1>3, WalkTyped

\* What a read is resolved to can be spelled: it is the path of the call or the
\* name of a file of the walk.
LEMMA ReadTyped ==
  ASSUME Shape, NEW s, IsSpelling(s), NEW t \in ResolveForRead(s)
  PROVE  IsSpelling(t) /\ (t # s => t \in UniqueByName(s))
<1>1. t = s \/ t \in UniqueByName(s)
  BY DEF ResolveForRead
<1>2. CASE t = s
  BY <1>2
<1>3. CASE t \in UniqueByName(s)
  <2>1. PICK q \in Paths : t = Rel(q)
    BY <1>3, UniqueIs
  <2> QED BY <1>3, <2>1, RelTyped
<1> QED BY <1>1, <1>2, <1>3

\* The only file of a name: every other is outside the workspace or excluded.
OnlyOfName(f, all) ==
  \A g \in all \ {f} :
     Within(Leads(here.root), g) /\ Last(g) = Last(f)
        => IsExcluded(SubSeq(g, Len(Leads(here.root)) + 1, Len(g)))

\* A write that a lookup by name led to is of the only file of that name.
LEMMA ByName ==
  ASSUME Shape, NEW s, NEW t \in UniqueByName(s), NEW p \in Destination(t), Leads(p) \notin dirs
  PROVE  Leads(p) \in DOMAIN stored /\ OnlyOfName(Leads(p), DOMAIN stored)
<1>1. PICK q \in Walk : /\ q \in Paths /\ t = Rel(q)
                        /\ \A x \in Walk : Last(x) = Last(q) => x = q
  BY UniqueIs
<1>2. IsSpelling(t)
  BY <1>1, RelTyped
<1>3. q # here.root
  <2>1. ASSUME q = here.root PROVE FALSE
    <3>1. SubSeq(q, Len(here.root) + 1, Len(q)) = <<>> /\ Within(here.root, q)
      <4>1. Len(q) \in Nat /\ SubSeq(q, 1, Len(q)) = q
        BY <1>1, SeqFacts DEF Paths
      <4>2. SubSeq(q, Len(q) + 1, Len(q)) = <<>>
        BY <1>1, <4>1 DEF Paths
      <4> QED BY <2>1, <4>1, <4>2 DEF Within, IsPrefix
    <3>2. t = Relative(<<>>)
      BY <1>1, <3>1 DEF Rel
    <3>3. IsRoot(t)
      BY <3>2 DEF IsRoot
    <3>4. p = here.root
      BY <1>2, <3>3, DestinationIs
    <3> QED BY <3>4, RootLeads
  <2> QED BY <2>1
<1>4. here.root \notin DOMAIN here.links /\ Leads(here.root) = here.root
  BY <1>3, RootLeads DEF Walk
<1>5. \A x : x \in Walk <=> /\ x \in DOMAIN stored \cup DOMAIN here.links
                            /\ Within(here.root, x)
                            /\ ~IsExcluded(SubSeq(x, Len(here.root) + 1, Len(x)))
  BY <1>4 DEF Walk
<1>6. Leads(p) = Leads(q)
  <2>1. Joined(t) = q /\ t.rooted = FALSE
    <3>1. Within(here.root, q)
      BY <1>1, <1>5
    <3> QED BY <1>1, <1>3, <3>1, RelJoins DEF Rel, Relative
  <2> QED BY <1>2, <2>1, Destined
<1>7. q \in DOMAIN stored
  <2>1. ASSUME q \in DOMAIN here.links PROVE FALSE
    BY <1>6, <2>1, LinkLeads, SiteFacts
  <2> QED BY <1>1, <1>5, <2>1
<1>8. Leads(q) = q
  BY <1>7, ExistingIsDirect DEF Existing
<1>9. ASSUME NEW g \in DOMAIN stored, g # q, Within(here.root, g), Last(g) = Last(q)
      PROVE  IsExcluded(SubSeq(g, Len(here.root) + 1, Len(g)))
  BY <1>1, <1>5, <1>9
<1> QED BY <1>4, <1>6, <1>7, <1>8, <1>9 DEF OnlyOfName

\* edit_file acts on the file of the path, in the file system or the workspace,
\* or says that it acts on the only one of the name.
LEMMA EditToolKeeps ==
  ASSUME Shape, Keys, Own, NEW s, IsSpelling(s), here' = here, NEW b, EditTool(s, b)
  PROVE  /\ Shape' /\ Keys' /\ Own'
         /\ done'.tool \in {"write", "edit"} => ReportLeadsBack' /\ ActsWhereAsked'
<1> DEFINE actual == {t \in ResolveForRead(s) : Stat(t) \cap DOMAIN stored # {}}
<1>1. CASE actual = {}
  BY <1>1, KeptAsIs DEF EditTool, Refused
<1>2. CASE actual # {}
  <2>0. PICK t \in ResolveForRead(s) :
          \E p \in Destination(t) : WriteFileAt(p, b, AnswerOf("edit", s, p, Canonical(t), t # s))
    BY <1>2 DEF EditTool
  <2>1. PICK p \in Destination(t) : WriteFileAt(p, b, AnswerOf("edit", s, p, Canonical(t), t # s))
    BY <2>0
  <2>2. IsSpelling(t) /\ (t # s => t \in UniqueByName(s))
    BY ReadTyped
  <2>3. Aimed(p) /\ Destination(t) = {p}
    BY <2>2, Aims
  <2>4. PICK answer : answer = AnswerOf("edit", s, p, Canonical(t), t # s)
    OBVIOUS
  <2>5. /\ Shape' /\ Keys' /\ Own'
        /\ \/ done' = [tool |-> "failed"]
           \/ done' = answer /\ Leads(p) \notin dirs /\ DOMAIN stored' = DOMAIN stored \cup {Leads(p)}
    BY <2>1, <2>3, <2>4, WriteFileKeeps
  <2>6. CASE done' = [tool |-> "failed"]
    BY <2>5, <2>6
  <2>7. CASE done' = answer /\ Leads(p) \notin dirs /\ DOMAIN stored' = DOMAIN stored \cup {Leads(p)}
    <3>1. PICK f : f = Leads(p)
      OBVIOUS
    <3>2. Canonical(t) = Rel(p)
      BY <2>3 DEF Canonical
    <3>3. /\ done'.tool = "edit" /\ done'.asked = s /\ done'.file = f /\ done'.told = Rel(p)
          /\ done'.note = (t # s)
      BY <2>3, <2>4, <2>7, <3>1, <3>2, DeepIs DEF AnswerOf, Aimed
    <3>4. /\ p \in Paths /\ p # here.root /\ (here.unrestricted \/ Inside(p))
          /\ \/ Leads(Joined(t)) = Leads(p)
             \/ t.rooted /\ ~here.unrestricted /\ Leads(Reanchored(t)) = Leads(p)
      BY <2>2, <2>7, Destined
    <3>5. f \in DOMAIN stored'
      BY <2>7, <3>1
    <3>6. ReportLeadsBack'
      BY <2>5, <3>1, <3>3, <3>4, <3>5, ReportsBack
    <3>7. CASE t = s
      <4>1. \/ Follow(Joined(done.asked))' = {f}
            \/ s.rooted /\ Follow(Reanchored(done.asked))' = {f}
        BY <2>5, <3>1, <3>3, <3>4, <3>5, <3>7, FollowsTo
      <4>2. ActsWhereAsked'
        BY <3>3, <3>7, <4>1 DEF ActsWhereAsked
      <4> QED BY <2>5, <3>6, <4>2
    <3>8. CASE t # s
      <4>1. f \in DOMAIN stored /\ OnlyOfName(f, DOMAIN stored)
        BY <2>2, <2>7, <3>1, <3>8, ByName
      <4>2. DOMAIN stored' = DOMAIN stored
        BY <2>7, <3>1, <4>1
      <4>3. PICK r : r = Leads(here.root)
        OBVIOUS
      <4>4. Resolved(here.root)' = r
        BY <2>5, <4>3, After
      <4>5. \A names : IsExcluded(names)' = IsExcluded(names)
        BY DEF IsExcluded
      <4>6. \A g \in DOMAIN stored \ {f} :
               Within(r, g) /\ Last(g) = Last(f) => IsExcluded(SubSeq(g, Len(r) + 1, Len(g)))'
        BY <4>1, <4>3, <4>5 DEF OnlyOfName
      <4>7. ActsWhereAsked'
        BY <3>3, <3>8, <4>2, <4>4, <4>6 DEF ActsWhereAsked
      <4> QED BY <2>5, <3>6, <4>7
    <3> QED BY <3>7, <3>8
  <2> QED BY <2>5, <2>6, <2>7
<1> QED BY <1>1, <1>2

-----------------------------------------------------------------------------
(* The paths of calls.                                                      *)

\* What is kept: the tree, the keys of the histories and the histories, and
\* what the last call answered.
PathsInv == Shape /\ Keys /\ Own /\ ReportLeadsBack /\ ActsWhereAsked

\* It holds of every tree before the first call ...
LEMMA PathsBegin == PathInit => PathsInv
<1> SUFFICES ASSUME NEW site \in Sites, PathStart(site) PROVE PathsInv
  BY DEF PathInit
<1>1. /\ here = site /\ dirs = site.dirs /\ stored = site.files
      /\ DOMAIN states = {} /\ DOMAIN replaced = {} /\ done.tool = "none"
  BY DEF PathStart, NoLookup
<1>2. IsTree(here) /\ here \in Sites
  BY <1>1, SitesAssumption
<1>3. Shape
  BY <1>1, <1>2 DEF Shape, IsTree, Existing, Paths
<1>4. Keys /\ Own
  BY <1>1 DEF Keys, Own, History, ReplacedAt
<1> QED BY <1>1, <1>3, <1>4 DEF PathsInv, ReportLeadsBack, ActsWhereAsked

\* (a step of nothing keeps what the last call answered)
LEMMA AnswersKept ==
  ASSUME UNCHANGED pathVars, ReportLeadsBack, ActsWhereAsked
  PROVE  ReportLeadsBack' /\ ActsWhereAsked'
<1> USE DEF pathVars
<1>1. \A p : Follow(p)' = Follow(p)
  <2>1. \A d, n : FollowStep(d, n)' = FollowStep(d, n)
    BY DEF FollowStep, OneLink, Existing
  <2> QED BY <2>1 DEF Follow
<1>2. ASSUME NEW p PROVE Resolved(p)' = Resolved(p)
  <2>1. PICK there : there = Follow(p)
    OBVIOUS
  <2>2. Follow(p)' = there
    BY <1>1, <2>1
  <2>3. Resolved(p) = IF there = {} THEN p ELSE CHOOSE r \in there : TRUE
    BY <2>1 DEF Resolved
  <2>4. Resolved(p)' = IF there = {} THEN p ELSE CHOOSE r \in there : TRUE
    BY <2>2 DEF Resolved
  <2> QED BY <2>3, <2>4
<1>3. \A p : DeepestReal(p)' = DeepestReal(p)
  <2>1. \A p : Depth(p)' = Depth(p)
    BY <1>1 DEF Depth
  <2> QED BY <1>2, <2>1 DEF DeepestReal
<1>4. \A p : Inside(p)' = Inside(p)
  <2>1. Resolved(here.root)' = Resolved(here.root)
    BY <1>2
  <2> QED BY <1>3, <2>1 DEF Inside
<1>5. \A t : FirstInside(t)' = FirstInside(t)
  BY <1>4 DEF FirstInside
<1>6. \A s : Joined(s)' = Joined(s) /\ Reanchored(s)' = Reanchored(s) /\ Tries(s)' = Tries(s)
  BY DEF Joined, Reanchored, Tries
<1>7. \A s : Destination(s)' = Destination(s)
  <2>1. ASSUME NEW s PROVE Resolve(s)' = Resolve(s) /\ ResolveNew(s)' = ResolveNew(s)
    <3>1. PICK j, tries : j = Joined(s) /\ tries = Tries(s)
      OBVIOUS
    <3>2. Joined(s)' = j /\ Tries(s)' = tries
      BY <1>6, <3>1
    <3>3. Resolved(Joined(s))' = Resolved(Joined(s)) /\ FirstInside(Tries(s))' = FirstInside(Tries(s))
      BY <1>2, <1>5, <3>1, <3>2
    <3>4. PICK u : u = [i \in DOMAIN tries |-> Resolved(tries[i])]
      OBVIOUS
    <3>5. [i \in DOMAIN Tries(s) |-> Resolved(Tries(s)[i])]' = u
      BY <1>2, <3>2, <3>4
    <3>6. FirstInside([i \in DOMAIN Tries(s) |-> Resolved(Tries(s)[i])])'
          = FirstInside([i \in DOMAIN Tries(s) |-> Resolved(Tries(s)[i])])
      BY <1>5, <3>1, <3>4, <3>5
    <3> QED BY <3>3, <3>6 DEF Resolve, ResolveNew, IsRoot
  <2> QED BY <2>1 DEF Destination
<1>8. \A s : Stat(s)' = Stat(s)
  BY <1>1, <1>7 DEF Stat
<1>9. ReportLeadsBack'
  BY <1>8 DEF ReportLeadsBack
<1>10. PICK j, r, root : j = Joined(done.asked) /\ r = Reanchored(done.asked) /\ root = Resolved(here.root)
  OBVIOUS
<1>11. Joined(done.asked)' = j /\ Reanchored(done.asked)' = r /\ Resolved(here.root)' = root
  BY <1>2, <1>6, <1>10
<1>12. \A names : IsExcluded(names)' = IsExcluded(names)
  BY DEF IsExcluded
<1>13. ActsWhereAsked'
  BY <1>1, <1>10, <1>11, <1>12 DEF ActsWhereAsked
<1> QED BY <1>9, <1>13

\* ... is kept by every step ...
LEMMA PathsStep == PathsInv /\ [PathNext]_pathVars => PathsInv'
<1> SUFFICES ASSUME PathsInv, [PathNext]_pathVars PROVE PathsInv'
  OBVIOUS
<1>0. Shape /\ Keys /\ Own
  BY DEF PathsInv
<1>1. CASE UNCHANGED pathVars
  BY <1>0, <1>1, KeptAsIs, AnswersKept DEF PathsInv, pathVars
<1>2. CASE PathNext
  <2>0. here' = here /\ \A s \in Spellings : IsSpelling(s)
    BY <1>2, SitesAssumption DEF PathNext, IsSpelling
  <2>1. SUFFICES /\ Shape' /\ Keys' /\ Own'
                 /\ done'.tool \in {"write", "edit"} => ReportLeadsBack' /\ ActsWhereAsked'
    BY DEF PathsInv, ReportLeadsBack, ActsWhereAsked
  <2>2. ASSUME NEW s \in Spellings, NEW b \in Bodies, WriteTool(s, b)
        PROVE  /\ Shape' /\ Keys' /\ Own'
               /\ done'.tool \in {"write", "edit"} => ReportLeadsBack' /\ ActsWhereAsked'
    BY <1>0, <2>0, <2>2, WriteToolKeeps
  <2>3. ASSUME NEW s \in Spellings, NEW b \in Bodies, EditTool(s, b)
        PROVE  /\ Shape' /\ Keys' /\ Own'
               /\ done'.tool \in {"write", "edit"} => ReportLeadsBack' /\ ActsWhereAsked'
    BY <1>0, <2>0, <2>3, EditToolKeeps
  <2>4. ASSUME NEW s \in Spellings, Rollback(s)
        PROVE  Shape' /\ Keys' /\ Own' /\ done'.tool \notin {"write", "edit"}
    BY <1>0, <2>0, <2>4, RollbackKeeps
  <2>5. ASSUME NEW file \in Beside, FromOutside(file)
        PROVE  Shape' /\ Keys' /\ Own' /\ done'.tool = "none"
    BY <1>0, <2>0, <2>5, PathsFromOutside
  <2> QED BY <1>2, <2>2, <2>3, <2>4, <2>5 DEF PathNext
<1> QED BY <1>1, <1>2

\* ... and has every file under one name.
LEMMA PathsInvIsOne == PathsInv => OneFileOneName
<1> SUFFICES ASSUME PathsInv PROVE OneHistory
  BY DEF PathsInv, OneFileOneName
<1>1. Shape /\ Own
  BY DEF PathsInv
<1>2. ASSUME NEW f \in (DOMAIN replaced \cup DOMAIN stored) \ apart PROVE History(f) = ReplacedAt(f)
  <2>1. Direct(here.links, f)
    BY <1>1, <1>2, ExistingIsDirect DEF Own, Existing
  <2> QED BY <1>1, <1>2, <2>1 DEF Own
<1> QED BY <1>2 DEF OneHistory

\* Whatever the tree and the spelling, the name a tool reports, the file it acts
\* on and the history it keeps are of one file (workspace.go: Resolve, Rel,
\* paths.go: ResolveForRead, history.go: historyKey).
THEOREM OneNameOneFile == PathSpec => []OneFileOneName
<1> QED BY PathsBegin, PathsStep, PathsInvIsOne, PTL DEF PathSpec
=============================================================================
