-------------------------- MODULE AgentConsoleProofs --------------------------
(***************************************************************************)
(* What is proved of AgentConsole for every number of lines, notified      *)
(* processes, signals, rounds and tool calls.                              *)
(*                                                                         *)
(* SingleReader is inductive by itself: the watcher is on throughout a     *)
(* call of the model and gone after "stopping".                            *)
(*                                                                         *)
(* That no line is lost or overtaken needs the order of the places a line  *)
(* passes through (Ordered): what is acted on was typed before what is     *)
(* being collected, that before what is queued, that before what is still  *)
(* in the terminal.  Every step moves lines between those places in one of *)
(* six ways (LineMove).                                                    *)
(*                                                                         *)
(* That calls and results pair up needs Answering, which says where in the *)
(* history the reply being handled is.  Every step adds to the history in  *)
(* one of five ways (HistoryMove).                                         *)
(*                                                                         *)
(* That /retry asks once needs Received: a new prompt ends in a line that  *)
(* no earlier prompt can have, for all that is in the history had already  *)
(* left the places where lines wait, and a notification is queued once     *)
(* (QueuedOnce).                                                           *)
(***************************************************************************)
EXTENDS AgentConsole, TLAPS

(* A step of the console, its clocks and its sources leaves main and the     *)
(* watcher alone.                                                            *)
LEMMA EnvironmentKeeps ==
  ASSUME \/ Environment \/ ReadInputCloses \/ EarCatchesSignal
         \/ WallclockExpires \/ \E n \in Notes : NoteSendPanics(n)
  PROVE  /\ UNCHANGED <<main, watcher, history>>
         /\ closed => closed'
<1> USE DEF inVars, turnVars
<1>1. CASE Environment
  <2>1. ASSUME NEW kind \in LineKinds, Type(kind)
        PROVE  UNCHANGED <<main, watcher, history, closed>>
    BY <2>1 DEF Type
  <2>2. CASE EndOfInput BY <2>2 DEF EndOfInput
  <2>3. CASE CtrlC BY <2>3 DEF CtrlC
  <2>4. ASSUME NEW n \in Notes, ProcessEnds(n)
        PROVE  UNCHANGED <<main, watcher, history, closed>>
    BY <2>4 DEF ProcessEnds
  <2> QED BY <1>1, <2>1, <2>2, <2>3, <2>4 DEF Environment
<1>2. CASE ReadInputCloses \/ EarCatchesSignal \/ WallclockExpires
  BY <1>2 DEF ReadInputCloses, EarCatchesSignal, WallclockExpires
<1>3. CASE \E n \in Notes : NoteSendPanics(n)
  BY <1>3 DEF NoteSendPanics
<1> QED BY <1>1, <1>2, <1>3

(* A watcher's step starts no watcher, and ends it only once the call of the *)
(* model has returned or a.lines is closed.                                  *)
LEMMA WatcherKeeps ==
  ASSUME Watcher
  PROVE  /\ UNCHANGED <<main, history, closed>>
         /\ watcher # "off"
         /\ watcher' = "off" => main = "stopping" \/ closed
<1> USE DEF inVars, turnVars
<1>1. CASE WatcherReceives BY <1>1 DEF WatcherReceives
<1>2. CASE WatcherSeesClosed BY <1>2 DEF WatcherSeesClosed
<1>3. CASE WatcherStops BY <1>3 DEF WatcherStops
<1>4. CASE StatsCatchesSignal BY <1>4 DEF StatsCatchesSignal
<1>5. CASE StatsEnds BY <1>5 DEF StatsEnds
<1> QED BY <1>1, <1>2, <1>3, <1>4, <1>5 DEF Watcher

(* The main goroutine's steps but the call of the model itself: taken with   *)
(* the watcher gone, they leave it gone or start it for a call of the model. *)
LEMMA MainKeeps ==
  ASSUME SingleReader, Repl \/ Turn
  PROVE  /\ watcher = "off"
         /\ \/ watcher' = "off" /\ main' # "model"
            \/ watcher' = "on" /\ main' = "model"
         /\ closed' = closed
<1> USE DEF SingleReader, inVars, turnVars
<1>1. ASSUME Repl PROVE watcher = "off" /\ main # "model"
  BY <1>1 DEF Repl, ReplReceives, ReplSeesClosed, ReplInterrupted,
              CommandEnds, Busy
<1>2. ASSUME Turn PROVE watcher = "off" /\ main # "model"
  BY <1>2 DEF Turn, HandleReply, WatcherStopped, CallNotRun, CallProceeds,
              PermitAnswered, PermitGivesUp, ToolEnds
<1>3. ASSUME NEW what, AnswerCall(what), watcher = "off"
      PROVE  \/ watcher' = "off" /\ main' # "model"
             \/ watcher' = "on" /\ main' = "model"
  BY <1>3 DEF AnswerCall, EndTurn, CallModel
<1>4. ASSUME NEW lines, Submit(lines), watcher = "off", main = "prompt"
      PROVE  \/ watcher' = "off" /\ main' # "model"
             \/ watcher' = "on" /\ main' = "model"
  BY <1>4 DEF Submit, Command, Retry, RunTurn, ContinueTurn, CallModel
<1>5. CASE Repl
  <2>1. CASE ReplReceives
    BY <1>1, <1>4, <1>5, <2>1 DEF ReplReceives
  <2>2. CASE ReplSeesClosed BY <1>1, <1>5, <2>2 DEF ReplSeesClosed
  <2>3. CASE ReplInterrupted BY <1>1, <1>5, <2>3 DEF ReplInterrupted
  <2>4. CASE CommandEnds BY <1>1, <1>5, <2>4 DEF CommandEnds
  <2> QED BY <1>5, <2>1, <2>2, <2>3, <2>4 DEF Repl
<1>6. CASE Turn
  <2>1. CASE HandleReply BY <1>2, <1>6, <2>1 DEF HandleReply, EndTurn
  <2>2. CASE CallNotRun BY <1>2, <1>3, <1>6, <2>2 DEF CallNotRun
  <2>3. CASE CallProceeds BY <1>2, <1>6, <2>3 DEF CallProceeds
  <2>4. CASE PermitAnswered BY <1>2, <1>3, <1>6, <2>4 DEF PermitAnswered
  <2>5. CASE PermitGivesUp BY <1>2, <1>3, <1>6, <2>5 DEF PermitGivesUp
  <2>6. CASE ToolEnds BY <1>2, <1>3, <1>6, <2>6 DEF ToolEnds
  <2> QED BY <1>6, <2>1, <2>2, <2>3, <2>4, <2>5, <2>6 DEF Turn
<1> QED BY <1>5, <1>6

(* The model's answer sends the main goroutine to stop the watcher.          *)
LEMMA ModelKeeps ==
  ASSUME ModelReturns(Replies)
  PROVE  /\ UNCHANGED <<watcher, history, closed>>
         /\ main' = "stopping"
  BY DEF ModelReturns, inVars

(* Every step keeps the channel with one reader.                             *)
LEMMA SingleReaderStep == SingleReader /\ [Next]_vars => SingleReader'
<1> SUFFICES ASSUME SingleReader, [Next]_vars PROVE SingleReader'
  OBVIOUS
<1> USE DEF SingleReader
<1>1. CASE Repl \/ Turn BY <1>1, MainKeeps
<1>2. CASE Watcher BY <1>2, WatcherKeeps
<1>3. CASE ModelReturns(Replies) BY <1>3, ModelKeeps
<1>4. CASE UNCHANGED vars BY <1>4 DEF vars, inVars
<1>5. CASE \/ Environment \/ ReadInputCloses \/ EarCatchesSignal
           \/ WallclockExpires \/ \E n \in Notes : NoteSendPanics(n)
  BY <1>5, EnvironmentKeeps
<1> QED BY <1>1, <1>2, <1>3, <1>4, <1>5 DEF Next

(* At most one receiver waits on a.lines.                                    *)
LEMMA SingleReaderHolds == Spec => []SingleReader
<1>1. Init => SingleReader BY DEF Init, SingleReader
<1> QED BY <1>1, SingleReaderStep, PTL DEF Spec

(* The watcher and the main goroutine never wait on a.lines together, and    *)
(* the watcher is there for as long as the model is asked.                   *)
THEOREM OneReader == Spec => []SingleReader
  BY SingleReaderHolds

(* The watcher of a turn touches neither the reader's channel nor what the   *)
(* turn is writing (watchForHotCommands): a.history changes only while no    *)
(* watcher, whose hot commands read it, is running.                          *)
THEOREM WatcherIsConfined == Spec => WatcherConfined
<1>1. SingleReader /\ [Next]_vars => [SingleReader' /\ (history' # history => watcher = "off")]_vars
  <2> SUFFICES ASSUME SingleReader, Next
               PROVE  SingleReader' /\ (history' # history => watcher = "off")
    OBVIOUS
  <2>1. SingleReader' BY SingleReaderStep
  <2>2. history' # history => watcher = "off"
    BY EnvironmentKeeps, WatcherKeeps, MainKeeps, ModelKeeps DEF Next
  <2> QED BY <2>1, <2>2
<1> QED BY <1>1, SingleReaderHolds, PTL DEF Spec, WatcherConfined

-----------------------------------------------------------------------------
(* The invariant behind the other properties of the console. *)

(* Typed lines wait in the order in which they were typed.                   *)
Increasing(lines) ==
  \A i, j \in DOMAIN lines :
    i < j /\ lines[i].kind # "note" /\ lines[j].kind # "note"
      => lines[i].id < lines[j].id
Waiting == IdsOf(queued) \cup IdsOf(stdin)
Ordered ==
  /\ Increasing(input) /\ Increasing(queued) /\ Increasing(stdin)
  /\ \A a \in IdsOf(input), b \in Waiting : a < b
  /\ \A a \in IdsOf(queued), b \in IdsOf(stdin) : a < b
  /\ \A a \in ActedIds, b \in IdsOf(input) \cup Waiting : a < b

(* What history has of a line has been received by repl, and for good.       *)
Tags == (1..MaxTyped) \cup {-n : n \in Notes}
Settled ==
  {tag \in Tags : IF tag > 0 THEN tag <= typed /\ tag \notin Waiting
                  ELSE note[-tag] = "told"}
Received ==
  /\ \A i \in DOMAIN input : Tag(input[i]) \in Settled
  /\ \A i \in DOMAIN lastPrompt : lastPrompt[i] \in Settled
  /\ \A i \in DOMAIN history : history[i].role = "user" =>
       \A j \in DOMAIN history[i].text : history[i].text[j] \in Settled

(* A notification that is queued is queued once.                             *)
QueuedOnce ==
  \A i \in DOMAIN queued : queued[i].kind = "note" =>
    /\ note[queued[i].id] = "queued"
    /\ \A j \in DOMAIN queued : queued[j] = queued[i] => j = i

(* The calls answered so far are those of the reply that is handled.         *)
Answering ==
  main \in {"calls", "permit", "tool"} =>
    /\ pos \in 1..Len(reply.calls)
    /\ LET a == Len(history) - (pos - 1)
       IN a > 0 /\ history[a] = Assistant(Len(reply.calls))

IInv ==
  /\ SingleReader
  /\ TypedKept
  /\ Ordered
  /\ QueuedOnce
  /\ Received
  /\ HistoryWellFormed
  /\ Answering
  /\ RetryAsksOnce

-----------------------------------------------------------------------------
(* What is in a queue of lines after one is added or taken. *)

AnyLine == Lines \cup NoteLines
Number(line) == IF line.kind = "note" THEN {} ELSE {line.id}

(* A line that was typed is no note, and has a number; a note has a name.    *)
LEMMA KindsOfLines ==
  /\ \A line \in Lines : line.kind # "note" /\ line.id \in 1..MaxTyped
  /\ \A line \in NoteLines : line.kind = "note" /\ line.id \in Notes /\ line = NoteLine(line.id)
  /\ \A n \in Notes : NoteLine(n) \in NoteLines /\ NoteLine(n).kind = "note" /\ NoteLine(n).id = n
PROOF
  <1>1. "note" \notin LineKinds
    BY ConsoleAssumption DEF AllKinds
  <1> QED
    BY <1>1 DEF Lines, NoteLines, NoteLine

(* The lines of a sequence that a line is added to.                          *)
LEMMA Adding ==
  ASSUME NEW S, NEW q \in Seq(S), NEW x \in S
  PROVE  /\ Append(q, x) \in Seq(S)
         /\ Len(q) \in Nat /\ DOMAIN q = 1..Len(q)
         /\ DOMAIN Append(q, x) = 1..(Len(q) + 1)
         /\ \A i \in DOMAIN q : i \in DOMAIN Append(q, x) /\ Append(q, x)[i] = q[i]
         /\ Append(q, x)[Len(q) + 1] = x
         /\ \A i \in DOMAIN Append(q, x) : i \in DOMAIN q \/ i = Len(q) + 1
  OBVIOUS

(* Their numbers, with that of a line that is added.                         *)
LEMMA AddingIds ==
  ASSUME NEW S, NEW q \in Seq(S), NEW x \in S
  PROVE  IdsOf(Append(q, x)) = IdsOf(q) \cup Number(x)
PROOF
  <1>1. Len(q) + 1 \in DOMAIN Append(q, x)
    BY Adding
  <1> QED
    BY <1>1, Adding DEF IdsOf, Number

(* A newer line keeps them in order.                                         *)
LEMMA AddingInOrder ==
  ASSUME NEW S, NEW q \in Seq(S), NEW x \in S, Increasing(q),
         \A a \in IdsOf(q), b \in Number(x) : a < b
  PROVE  Increasing(Append(q, x))
PROOF
  <1> SUFFICES ASSUME NEW i \in DOMAIN Append(q, x), NEW j \in DOMAIN Append(q, x), i < j,
                      Append(q, x)[i].kind # "note", Append(q, x)[j].kind # "note"
               PROVE  Append(q, x)[i].id < Append(q, x)[j].id
    BY DEF Increasing
  <1>1. i \in DOMAIN q
    BY Adding
  <1>2. CASE j \in DOMAIN q
    BY <1>1, <1>2, Adding DEF Increasing
  <1>3. CASE j = Len(q) + 1
    <2>1. Append(q, x)[i] = q[i] /\ Append(q, x)[j] = x
      BY <1>1, <1>3, Adding
    <2>2. q[i].id \in IdsOf(q)
      BY <1>1, <2>1 DEF IdsOf
    <2>3. x.id \in Number(x)
      BY <2>1 DEF Number
    <2> QED
      BY <2>1, <2>2, <2>3
  <1> QED
    BY <1>2, <1>3, Adding

(* The lines of a sequence that its first is taken from.                     *)
LEMMA Removing ==
  ASSUME NEW S, NEW q \in Seq(S), q # <<>>
  PROVE  /\ Head(q) \in S /\ Head(q) = q[1] /\ 1 \in DOMAIN q
         /\ Tail(q) \in Seq(S)
         /\ \A i \in DOMAIN Tail(q) :
              i \in Nat /\ i + 1 \in DOMAIN q /\ i + 1 # 1 /\ Tail(q)[i] = q[i + 1]
         /\ \A i \in DOMAIN q :
              i \in Nat /\ (i # 1 => i - 1 \in DOMAIN Tail(q) /\ Tail(q)[i - 1] = q[i])
  OBVIOUS

(* Their numbers.                                                            *)
LEMMA RemovingIds ==
  ASSUME NEW S, NEW q \in Seq(S), q # <<>>
  PROVE  IdsOf(q) = Number(Head(q)) \cup IdsOf(Tail(q))
PROOF
  <1>1. ASSUME NEW a \in IdsOf(q) PROVE a \in Number(Head(q)) \cup IdsOf(Tail(q))
    <2>1. PICK i \in DOMAIN q : q[i].kind # "note" /\ a = q[i].id
      BY DEF IdsOf
    <2>2. CASE i = 1
      BY <2>1, <2>2, Removing DEF Number
    <2>3. CASE i # 1
      <3>1. i - 1 \in DOMAIN Tail(q) /\ Tail(q)[i - 1] = q[i]
        BY <2>3, Removing
      <3> QED
        BY <2>1, <3>1 DEF IdsOf
    <2> QED
      BY <2>2, <2>3
  <1>2. IdsOf(Tail(q)) \subseteq IdsOf(q)
    BY Removing DEF IdsOf
  <1>3. Number(Head(q)) \subseteq IdsOf(q)
    BY Removing DEF IdsOf, Number
  <1> QED
    BY <1>1, <1>2, <1>3

(* They are still in order, after the one taken.                             *)
LEMMA RemovingInOrder ==
  ASSUME NEW S, NEW q \in Seq(S), q # <<>>, Increasing(q)
  PROVE  /\ Increasing(Tail(q))
         /\ \A a \in Number(Head(q)), b \in IdsOf(Tail(q)) : a < b
PROOF
  <1>1. Increasing(Tail(q))
    <2> SUFFICES ASSUME NEW i \in DOMAIN Tail(q), NEW j \in DOMAIN Tail(q), i < j,
                        Tail(q)[i].kind # "note", Tail(q)[j].kind # "note"
                 PROVE  Tail(q)[i].id < Tail(q)[j].id
      BY DEF Increasing
    <2>1. /\ i + 1 \in DOMAIN q /\ j + 1 \in DOMAIN q /\ i + 1 < j + 1
          /\ Tail(q)[i] = q[i + 1] /\ Tail(q)[j] = q[j + 1]
      BY Removing
    <2> QED
      BY <2>1 DEF Increasing
  <1>2. ASSUME NEW a \in Number(Head(q)), NEW b \in IdsOf(Tail(q)) PROVE a < b
    <2>1. Head(q).kind # "note" /\ a = q[1].id /\ 1 \in DOMAIN q /\ Head(q) = q[1]
      BY Removing DEF Number
    <2>2. PICK i \in DOMAIN Tail(q) : Tail(q)[i].kind # "note" /\ b = Tail(q)[i].id
      BY DEF IdsOf
    <2>3. i + 1 \in DOMAIN q /\ 1 < i + 1 /\ Tail(q)[i] = q[i + 1]
      BY Removing
    <2> QED
      BY <2>1, <2>2, <2>3 DEF Increasing
  <1> QED
    BY <1>1, <1>2

(* Lines acted on go to the end of the log, number by number.                *)
LEMMA Acting ==
  ASSUME NEW S, NEW log \in Seq(S), NEW lines \in Seq(AnyLine), Text(lines) \in Seq(S)
  PROVE  /\ log \o Text(lines) \in Seq(S)
         /\ \A i \in DOMAIN (log \o Text(lines)) :
              \/ i \in DOMAIN log /\ (log \o Text(lines))[i] = log[i]
              \/ /\ i \notin DOMAIN log /\ i - Len(log) \in DOMAIN lines
                 /\ (log \o Text(lines))[i] = Tag(lines[i - Len(log)])
         /\ \A i \in DOMAIN log :
              i \in DOMAIN (log \o Text(lines)) /\ (log \o Text(lines))[i] = log[i]
         /\ \A k \in DOMAIN lines :
              /\ Len(log) + k \in DOMAIN (log \o Text(lines))
              /\ (log \o Text(lines))[Len(log) + k] = Tag(lines[k])
PROOF
  <1> DEFINE text == Text(lines)
  <1>1. DOMAIN text = DOMAIN lines /\ \A k \in DOMAIN lines : text[k] = Tag(lines[k])
    BY DEF Text
  <1>2. Len(text) = Len(lines) /\ DOMAIN lines = 1..Len(lines) /\ Len(lines) \in Nat
    BY <1>1
  <1>3. /\ log \o text \in Seq(S)
        /\ Len(log \o text) = Len(log) + Len(text)
        /\ DOMAIN log = 1..Len(log) /\ Len(log) \in Nat
        /\ \A i \in 1..Len(log) : (log \o text)[i] = log[i]
        /\ \A k \in 1..Len(text) : (log \o text)[Len(log) + k] = text[k]
        /\ DOMAIN (log \o text) = 1..(Len(log) + Len(text))
    OBVIOUS
  <1> QED
    BY <1>1, <1>2, <1>3

-----------------------------------------------------------------------------
(* The parts of the types, which change in different steps. *)

LinesTyped ==
  /\ input \in Seq(AnyLine) /\ queued \in Seq(AnyLine) /\ stdin \in Seq(Lines)
  /\ typed \in 0..MaxTyped
  /\ note \in [Notes -> {"none", "running", "ready", "queued", "told", "answer"}]
  /\ acted \in Seq(Tags) /\ spent \subseteq 1..MaxTyped
TextsTyped == history \in Seq(Messages) /\ lastPrompt \in Seq(Tags)
TurnTyped ==
  /\ main \in Mains /\ allowed \subseteq Tools
  /\ round \in 0..MaxTurns - 1 /\ pos \in 0..MaxCalls
  /\ watcher \in {"off", "on", "stats", "cut"}
ReplyTyped == reply \in Replies
RestTyped ==
  /\ eof \in BOOLEAN /\ closed \in BOOLEAN /\ panicked \in BOOLEAN
  /\ ctx \in {"live", "cancelled", "expired"}
  /\ ear \in BOOLEAN /\ signals \in BOOLEAN /\ pressed \in 0..MaxSignals

LEMMA Parts ==
  TypeOK <=> LinesTyped /\ TextsTyped /\ TurnTyped /\ ReplyTyped /\ RestTyped
  BY DEF TypeOK, LinesTyped, TextsTyped, TurnTyped, ReplyTyped, RestTyped, AnyLine,
         Texts, Tags

LEMMA RepliesMade ==
  /\ NoReply \in Replies /\ NoReply.calls = <<>> /\ Len(NoReply.calls) = 0
  /\ \A r \in Replies :
       /\ r.calls \in Seq(Tools) /\ Len(r.calls) \in 0..MaxCalls
       /\ r.calls = <<>> <=> Len(r.calls) = 0
       /\ \A i \in 1..Len(r.calls) : r.calls[i] \in Tools
       /\ ~r.ok => r.calls = <<>>
PROOF
  <1>1. ASSUME NEW n \in 0..MaxCalls, NEW calls \in [1..n -> Tools]
        PROVE  calls \in Seq(Tools) /\ Len(calls) = n
    BY <1>1, ConsoleAssumption
  <1>2. ASSUME NEW r \in Replies
        PROVE  /\ r.calls \in Seq(Tools) /\ Len(r.calls) \in 0..MaxCalls
               /\ r.calls = <<>> <=> Len(r.calls) = 0
               /\ \A i \in 1..Len(r.calls) : r.calls[i] \in Tools
               /\ ~r.ok => r.calls = <<>>
    <2>1. r.calls \in UNION {[1..n -> Tools] : n \in 0..MaxCalls} /\ (~r.ok => r = NoReply)
      BY DEF Replies
    <2>2. PICK n \in 0..MaxCalls : r.calls \in [1..n -> Tools]
      BY <2>1
    <2>3. r.calls \in Seq(Tools) /\ Len(r.calls) = n
      BY <1>1, <2>2
    <2> QED
      BY <2>1, <2>3 DEF NoReply
  <1>3. NoReply \in Replies
    <2>1. <<>> \in [1..0 -> Tools]
      OBVIOUS
    <2>2. <<>> \in UNION {[1..n -> Tools] : n \in 0..MaxCalls}
      BY <2>1, ConsoleAssumption
    <2> QED
      BY <2>2 DEF Replies, NoReply
  <1> QED
    BY <1>2, <1>3 DEF NoReply

LEMMA MessagesMade ==
  /\ \A text \in Seq(Tags) : User(text) \in Messages
  /\ \A n \in 0..MaxCalls : Assistant(n) \in Messages
  /\ \A k \in 1..MaxCalls, what \in Results : ToolResult(k, what) \in Messages
  /\ \A m \in Messages : m.role = "user" => m.text \in Seq(Tags) /\ m = User(m.text)
  /\ \A m \in Messages : m.role = "assistant" => m.calls \in 0..MaxCalls /\ m = Assistant(m.calls)
  /\ \A m \in Messages : m.role = "tool" => m.call \in 1..MaxCalls
  BY DEF Messages, User, Assistant, ToolResult, Texts, Tags

LEMMA TextsMade ==
  ASSUME NEW lines \in Seq(AnyLine)
  PROVE  /\ Text(lines) \in Seq(Tags)
         /\ \A i \in DOMAIN lines : Tag(lines[i]) \in Tags
         /\ \A i \in DOMAIN lines : Text(lines)[i] = Tag(lines[i])
         /\ DOMAIN Text(lines) = DOMAIN lines
PROOF
  <1>1. \A line \in AnyLine : Tag(line) \in Tags
    BY KindsOfLines DEF AnyLine, Tag, Tags
  <1>2. \A i \in DOMAIN lines : Tag(lines[i]) \in Tags
    BY <1>1
  <1> QED
    BY <1>2 DEF Text

-----------------------------------------------------------------------------
(* What a step does to the lines. *)

(* What is told of a process stays told, and what is queued stays queued.    *)
NotesGoOn ==
  /\ note' \in [Notes -> {"none", "running", "ready", "queued", "told", "answer"}]
  /\ \A n \in Notes : /\ note[n] \in {"queued", "told"} => note'[n] = note[n]
                      /\ note'[n] = "queued" => note[n] = "queued"
Types ==
  \E line \in Lines :
    /\ typed < MaxTyped /\ typed' = typed + 1 /\ line.id = typed'
    /\ stdin' = Append(stdin, line)
    /\ UNCHANGED <<input, queued, acted, spent, note>>
Spends ==
  /\ stdin # <<>> /\ stdin' = Tail(stdin) /\ spent' = spent \cup {Head(stdin).id}
  /\ UNCHANGED <<input, queued, acted, typed, note>>
Discards ==
  /\ input' = <<>> /\ spent' = spent \cup IdsOf(input)
  /\ UNCHANGED <<stdin, queued, acted, typed, note>>
Queues ==
  /\ \/ /\ stdin # <<>> /\ stdin' = Tail(stdin) /\ queued' = Append(queued, Head(stdin))
        /\ UNCHANGED note
     \/ \E n \in Notes :
          /\ note[n] = "ready" /\ note' = [note EXCEPT ![n] = "queued"]
          /\ queued' = Append(queued, NoteLine(n)) /\ UNCHANGED stdin
  /\ UNCHANGED <<input, acted, spent, typed>>
(* The line that is received, and from where.                                *)
Receives(line) ==
  \/ /\ queued # <<>> /\ line = Head(queued) /\ queued' = Tail(queued)
     /\ note' = [n \in Notes |-> IF line = NoteLine(n) THEN "told" ELSE note[n]]
     /\ UNCHANGED stdin
  \/ /\ queued = <<>> /\ stdin # <<>> /\ line = Head(stdin) /\ stdin' = Tail(stdin)
     /\ UNCHANGED <<queued, note>>
  \/ /\ queued = <<>> /\ \E n \in Notes : note[n] = "ready" /\ line = NoteLine(n)
                                         /\ note' = [note EXCEPT ![n] = "told"]
     /\ UNCHANGED <<queued, stdin>>
Collects(line) == input' = Append(input, line) /\ UNCHANGED acted
Acts(line) == input' = <<>> /\ acted' = acted \o Text(Append(input, line))
LineMove ==
  \/ UNCHANGED <<stdin, queued, input, acted, spent, typed>> /\ NotesGoOn
  \/ Types
  \/ Spends
  \/ Discards
  \/ Queues
  \/ /\ \E line \in AnyLine : Receives(line) /\ (Collects(line) \/ Acts(line))
     /\ UNCHANGED <<spent, typed>>

LEMMA Offered ==
  ASSUME LinesTyped, NEW line \in Offers
  PROVE  /\ line \in AnyLine
         /\ \/ stdin # <<>> /\ line = Head(stdin) /\ line \in Lines /\ line.kind # "note"
            \/ \E n \in Notes : note[n] = "ready" /\ line = NoteLine(n) /\ line.kind = "note"
PROOF
  <1>1. CASE line \in {stdin[i] : i \in DOMAIN stdin \cap {1}}
    <2>1. stdin # <<>> /\ line = stdin[1]
      BY <1>1 DEF LinesTyped
    <2>2. Head(stdin) \in Lines /\ Head(stdin) = stdin[1]
      BY <2>1, Removing DEF LinesTyped
    <2> QED
      BY <2>1, <2>2, KindsOfLines DEF AnyLine
  <1>2. CASE line \in {NoteLine(n) : n \in {m \in Notes : note[m] = "ready"}}
    BY <1>2, KindsOfLines DEF AnyLine
  <1> QED
    BY <1>1, <1>2 DEF Offers

(* The channel gives up a line: the first one typed, or a notification.      *)
LEMMA Taken ==
  ASSUME LinesTyped, NEW line \in Offers, NEW becomes, Take(line, becomes)
  PROVE  \/ /\ line.kind # "note" /\ stdin # <<>> /\ line = Head(stdin) /\ stdin' = Tail(stdin)
            /\ UNCHANGED note
         \/ /\ line.kind = "note"
            /\ \E n \in Notes : /\ note[n] = "ready" /\ line = NoteLine(n)
                                /\ note' = [note EXCEPT ![n] = becomes]
            /\ UNCHANGED stdin
  BY Offered, KindsOfLines DEF Take

(* A step that leaves the lines alone moves none.                            *)
LEMMA NoMove ==
  ASSUME LinesTyped, UNCHANGED <<stdin, queued, input, acted, spent, typed, note>>
  PROVE  LineMove
  BY DEF LineMove, NotesGoOn, LinesTyped

(* Every step moves at most one line, in one of six ways.                    *)
LEMMA Moves == ASSUME TypeOK, Next PROVE LineMove
PROOF
  <1>0. LinesTyped
    BY Parts
  <1> USE DEF inVars, logVars
  <1>1. ASSUME NEW kind \in LineKinds, Type(kind) PROVE LineMove
    <2>1. PICK line : line = [kind |-> kind, id |-> typed + 1]
      OBVIOUS
    <2>2. line \in Lines
      BY <1>0, <1>1, <2>1, ConsoleAssumption DEF Type, Lines, LinesTyped
    <2>3. Types
      BY <1>1, <2>1, <2>2 DEF Type, Types
    <2> QED
      BY <2>3 DEF LineMove
  <1>2. ASSUME NEW n \in Notes, ProcessEnds(n) PROVE LineMove
    BY <1>0, <1>2 DEF ProcessEnds, LineMove, NotesGoOn, LinesTyped
  <1>3. CASE \/ EndOfInput \/ CtrlC \/ ReadInputCloses \/ EarCatchesSignal \/ WallclockExpires
             \/ \E n \in Notes : NoteSendPanics(n)
    <2>1. UNCHANGED <<stdin, queued, input, acted, spent, typed, note>>
      BY <1>3 DEF EndOfInput, CtrlC, ReadInputCloses, EarCatchesSignal, WallclockExpires,
                  NoteSendPanics
    <2> QED
      BY <1>0, <2>1, NoMove
  <1>4. CASE WatcherReceives
    <2>1. PICK line \in Offers :
            \/ /\ line.kind \in {"hot", "stats"} /\ Take(line, "told")
               /\ spent' = spent \cup {line.id} /\ UNCHANGED queued
            \/ /\ line.kind \notin {"hot", "stats"} /\ Take(line, "queued")
               /\ queued' = Append(queued, line) /\ UNCHANGED spent
      BY <1>4 DEF WatcherReceives, Enqueue
    <2>2. UNCHANGED <<input, typed, acted>>
      BY <1>4 DEF WatcherReceives
    <2>3. CASE line.kind \in {"hot", "stats"}
      <3>1. Spends
        BY <1>0, <2>1, <2>2, <2>3, Taken DEF Spends
      <3> QED
        BY <3>1 DEF LineMove
    <2>4. CASE line.kind \notin {"hot", "stats"}
      <3>1. Queues
        BY <1>0, <2>1, <2>2, <2>4, Taken DEF Queues
      <3> QED
        BY <3>1 DEF LineMove
    <2> QED
      BY <2>3, <2>4
  <1>5. CASE WatcherSeesClosed \/ WatcherStops \/ StatsCatchesSignal \/ StatsEnds
    <2>1. UNCHANGED <<stdin, queued, input, acted, spent, typed, note>>
      BY <1>5 DEF WatcherSeesClosed, WatcherStops, StatsCatchesSignal, StatsEnds
    <2> QED
      BY <1>0, <2>1, NoMove
  <1>6. CASE ReplReceives
    <2>1. PICK line \in IF queued # <<>> THEN {Head(queued)} ELSE Offers :
            /\ IF queued # <<>>
               THEN /\ queued' = Tail(queued)
                    /\ note' = [n \in Notes |->
                                  IF line = NoteLine(n) THEN "told" ELSE note[n]]
                    /\ UNCHANGED stdin
               ELSE Take(line, "told") /\ UNCHANGED queued
            /\ \/ Collects(line)
               \/ Submit(Append(input, line))
      BY <1>6 DEF ReplReceives, Collects
    <2>2. line \in AnyLine
      BY <1>0, <2>1, Offered, Removing DEF LinesTyped
    <2>3. Receives(line)
      <3>1. CASE queued # <<>>
        BY <2>1, <3>1 DEF Receives
      <3>2. CASE queued = <<>>
        BY <1>0, <2>1, <3>2, Taken DEF Receives
      <3> QED
        BY <3>1, <3>2
    <2>4. Collects(line) \/ Acts(line)
      BY <2>1 DEF Submit, Acts
    <2>5. UNCHANGED <<spent, typed>>
      BY <1>6 DEF ReplReceives
    <2> QED
      BY <2>2, <2>3, <2>4, <2>5 DEF LineMove
  <1>7. CASE ReplInterrupted
    <2>1. Discards
      BY <1>7 DEF ReplInterrupted, Discards
    <2> QED
      BY <2>1 DEF LineMove
  <1>8. CASE ReplSeesClosed \/ CommandEnds \/ ModelReturns(Replies)
    <2>1. UNCHANGED <<stdin, queued, input, acted, spent, typed, note>>
      BY <1>8 DEF ReplSeesClosed, CommandEnds, ModelReturns
    <2> QED
      BY <1>0, <2>1, NoMove
  <1>9. CASE HandleReply \/ CallNotRun \/ CallProceeds \/ PermitGivesUp
    <2>1. UNCHANGED <<stdin, queued, input, acted, spent, typed, note>>
      BY <1>9 DEF HandleReply, CallNotRun, CallProceeds, PermitGivesUp
    <2> QED
      BY <1>0, <2>1, NoMove
  <1>10. CASE PermitAnswered
    <2>1. PICK line \in Offers :
            /\ Take(line, "answer")
            /\ spent' = spent \cup (IF line.kind = "note" THEN {} ELSE {line.id})
      BY <1>10 DEF PermitAnswered
    <2>2. UNCHANGED <<input, queued, typed, acted>>
      BY <1>10 DEF PermitAnswered
    <2>3. CASE line.kind # "note"
      <3>1. Spends
        BY <1>0, <2>1, <2>2, <2>3, Taken DEF Spends
      <3> QED
        BY <3>1 DEF LineMove
    <2>4. CASE line.kind = "note"
      <3>1. PICK n \in Notes : note[n] = "ready" /\ note' = [note EXCEPT ![n] = "answer"]
        BY <1>0, <2>1, <2>4, Taken
      <3>2. NotesGoOn
        BY <1>0, <3>1 DEF NotesGoOn, LinesTyped
      <3>3. UNCHANGED <<stdin, spent>>
        BY <1>0, <2>1, <2>4, Taken
      <3> QED
        BY <2>2, <3>2, <3>3 DEF LineMove
    <2> QED
      BY <2>3, <2>4
  <1>11. CASE ToolEnds
    <2>1. UNCHANGED <<stdin, queued, input, acted, spent, typed>>
      BY <1>11 DEF ToolEnds
    <2>2. NotesGoOn
      BY <1>0, <1>11 DEF ToolEnds, NotesGoOn, LinesTyped
    <2> QED
      BY <2>1, <2>2 DEF LineMove
  <1> QED
    BY <1>1, <1>2, <1>3, <1>4, <1>5, <1>6, <1>7, <1>8, <1>9, <1>10, <1>11
       DEF Next, Environment, Watcher, Repl, Turn

-----------------------------------------------------------------------------
(* The lines keep their order and none is lost. *)

(* What the lines' order says, with the line that repl is about to take      *)
(* seen apart.                                                               *)
LEMMA Received1 ==
  ASSUME LinesTyped, Ordered, NothingLost, NEW line \in AnyLine, Receives(line)
  PROVE  /\ queued' \in Seq(AnyLine) /\ stdin' \in Seq(Lines)
         /\ note' \in [Notes -> {"none", "running", "ready", "queued", "told", "answer"}]
         /\ Increasing(queued)' /\ Increasing(stdin)'
         /\ Waiting = Number(line) \cup Waiting'
         /\ \A a \in Number(line), b \in Waiting' : a < b
         /\ \A a \in IdsOf(queued)', b \in IdsOf(stdin)' : a < b
PROOF
  <1>1. CASE queued # <<>> /\ line = Head(queued) /\ queued' = Tail(queued) /\ UNCHANGED stdin
    <2>1. /\ IdsOf(queued) = Number(line) \cup IdsOf(queued)'
          /\ Increasing(queued)' /\ queued' \in Seq(AnyLine)
          /\ \A a \in Number(line), b \in IdsOf(queued)' : a < b
      <3>1. /\ IdsOf(queued) = Number(line) \cup IdsOf(Tail(queued))
            /\ Increasing(Tail(queued)) /\ Tail(queued) \in Seq(AnyLine)
            /\ \A a \in Number(line), b \in IdsOf(Tail(queued)) : a < b
        BY <1>1, RemovingIds, RemovingInOrder, Removing DEF LinesTyped, Ordered
      <3> QED
        BY <1>1, <3>1
    <2>2. Increasing(stdin)' /\ IdsOf(stdin)' = IdsOf(stdin) /\ stdin' \in Seq(Lines)
      BY <1>1 DEF LinesTyped, Ordered
    <2>3. note' \in [Notes -> {"none", "running", "ready", "queued", "told", "answer"}]
      BY <1>1 DEF Receives, LinesTyped
    <2> QED
      BY <1>1, <2>1, <2>2, <2>3 DEF Waiting, Ordered
  <1>2. CASE /\ queued = <<>> /\ stdin # <<>> /\ line = Head(stdin) /\ stdin' = Tail(stdin)
             /\ UNCHANGED <<queued, note>>
    <2>1. /\ IdsOf(stdin) = Number(line) \cup IdsOf(Tail(stdin))
          /\ Increasing(Tail(stdin)) /\ Tail(stdin) \in Seq(Lines)
          /\ \A a \in Number(line), b \in IdsOf(Tail(stdin)) : a < b
      BY <1>2, RemovingIds, RemovingInOrder, Removing DEF LinesTyped, Ordered
    <2>2. IdsOf(queued) = {} /\ IdsOf(queued)' = {}
      BY <1>2 DEF IdsOf
    <2> QED
      BY <1>2, <2>1, <2>2 DEF Waiting, Ordered, LinesTyped
  <1>3. CASE /\ queued = <<>> /\ UNCHANGED <<queued, stdin>>
             /\ \E n \in Notes : line = NoteLine(n) /\ note' = [note EXCEPT ![n] = "told"]
    <2>1. Number(line) = {}
      BY <1>3, KindsOfLines DEF Number
    <2>2. note' \in [Notes -> {"none", "running", "ready", "queued", "told", "answer"}]
      BY <1>3 DEF LinesTyped
    <2>3. Waiting' = Waiting /\ IdsOf(queued)' = IdsOf(queued) /\ IdsOf(stdin)' = IdsOf(stdin)
      BY <1>3 DEF Waiting
    <2> QED
      BY <1>3, <2>1, <2>2, <2>3 DEF Ordered, LinesTyped
  <1> QED
    BY <1>1, <1>2, <1>3 DEF Receives

(* What acting on the collected lines adds to the log.                       *)
LEMMA ActedThen ==
  ASSUME LinesTyped, NEW line \in AnyLine, Acts(line)
  PROVE  /\ acted' \in Seq(Tags)
         /\ ActedIds' = ActedIds \cup IdsOf(Append(input, line))
PROOF
  <1> DEFINE lines == Append(input, line)
  <1>1. lines \in Seq(AnyLine)
    BY DEF LinesTyped
  <1>2. Text(lines) \in Seq(Tags)
    BY <1>1, TextsMade
  <1>3. /\ acted' \in Seq(Tags) /\ acted' = acted \o Text(lines)
        /\ \A i \in DOMAIN acted' :
             \/ i \in DOMAIN acted /\ acted'[i] = acted[i]
             \/ i - Len(acted) \in DOMAIN lines /\ acted'[i] = Tag(lines[i - Len(acted)])
        /\ \A i \in DOMAIN acted : i \in DOMAIN acted' /\ acted'[i] = acted[i]
        /\ \A k \in DOMAIN lines :
             Len(acted) + k \in DOMAIN acted' /\ acted'[Len(acted) + k] = Tag(lines[k])
    <2> HIDE DEF lines
    <2>1. acted' = acted \o Text(lines)
      BY DEF Acts, lines
    <2> QED
      BY <1>1, <1>2, <2>1, Acting DEF LinesTyped
  <1>4. \A k \in DOMAIN lines : /\ Tag(lines[k]) > 0 <=> lines[k].kind # "note"
                                /\ Tag(lines[k]) > 0 => Tag(lines[k]) = lines[k].id
    <2>1. \A l \in AnyLine : /\ Tag(l) > 0 <=> l.kind # "note"
                             /\ Tag(l) > 0 => Tag(l) = l.id
      BY KindsOfLines DEF AnyLine, Tag, Notes
    <2>2. \A k \in DOMAIN lines : lines[k] \in AnyLine
      BY <1>1
    <2> QED
      BY <2>1, <2>2
  <1> HIDE DEF lines
  <1>5. ActedIds' \subseteq ActedIds \cup IdsOf(lines)
    <2> SUFFICES ASSUME NEW i \in DOMAIN acted', acted'[i] > 0
                 PROVE  acted'[i] \in ActedIds \cup IdsOf(lines)
      BY DEF ActedIds
    <2>1. CASE i \in DOMAIN acted /\ acted'[i] = acted[i]
      BY <2>1 DEF ActedIds
    <2>2. ASSUME NEW k \in DOMAIN lines, acted'[i] = Tag(lines[k])
          PROVE  acted'[i] \in IdsOf(lines)
      BY <1>4, <2>2 DEF IdsOf
    <2> QED
      BY <1>3, <2>1, <2>2
  <1>6. ActedIds \subseteq ActedIds'
    BY <1>3 DEF ActedIds
  <1>7. IdsOf(lines) \subseteq ActedIds'
    <2> SUFFICES ASSUME NEW k \in DOMAIN lines, lines[k].kind # "note"
                 PROVE  lines[k].id \in ActedIds'
      BY DEF IdsOf
    <2>1. Tag(lines[k]) > 0 /\ Tag(lines[k]) = lines[k].id
      BY <1>4
    <2>2. Len(acted) + k \in DOMAIN acted' /\ acted'[Len(acted) + k] = Tag(lines[k])
      BY <1>3
    <2> QED
      BY <2>1, <2>2 DEF ActedIds
  <1> QED
    BY <1>3, <1>5, <1>6, <1>7 DEF lines

(* A line that is acted on keeps the order of those acted on.                *)
LEMMA ActedInOrder ==
  ASSUME LinesTyped, TypedOrder, NEW line \in AnyLine, Acts(line),
         Increasing(Append(input, line)),
         \A i \in DOMAIN acted : acted[i] > 0 =>
           \A b \in IdsOf(Append(input, line)) : acted[i] < b
  PROVE  TypedOrder'
PROOF
  <1> DEFINE lines == Append(input, line)
  <1>1. lines \in Seq(AnyLine)
    BY DEF LinesTyped
  <1>2. /\ Len(acted) \in Nat
        /\ \A i \in DOMAIN acted' :
             \/ i \in DOMAIN acted /\ acted'[i] = acted[i]
             \/ /\ i \notin DOMAIN acted /\ i - Len(acted) \in DOMAIN lines
                /\ acted'[i] = Tag(lines[i - Len(acted)])
        /\ DOMAIN acted = 1..Len(acted)
        /\ \A i \in DOMAIN acted' : i \in Nat \ {0}
    <2>1. Text(lines) \in Seq(Tags)
      BY <1>1, TextsMade
    <2> HIDE DEF lines
    <2>2. acted' = acted \o Text(lines)
      BY DEF Acts, lines
    <2>3. acted' \in Seq(Tags)
      BY ActedThen
    <2> QED
      BY <1>1, <2>1, <2>2, <2>3, Acting DEF LinesTyped
  <1>3. \A k \in DOMAIN lines : Tag(lines[k]) > 0 =>
          lines[k].kind # "note" /\ Tag(lines[k]) = lines[k].id
    <2>1. \A l \in AnyLine : Tag(l) > 0 => l.kind # "note" /\ Tag(l) = l.id
      BY KindsOfLines DEF AnyLine, Tag, Notes
    <2>2. \A k \in DOMAIN lines : lines[k] \in AnyLine
      BY <1>1
    <2> QED
      BY <2>1, <2>2
  <1>4. Increasing(lines) /\ \A i \in DOMAIN acted : acted[i] > 0 =>
                               \A b \in IdsOf(lines) : acted[i] < b
    OBVIOUS
  <1> HIDE DEF lines
  <1> SUFFICES ASSUME NEW i \in DOMAIN acted', NEW j \in DOMAIN acted', i < j,
                      acted'[i] > 0, acted'[j] > 0
               PROVE  acted'[i] < acted'[j]
    BY DEF TypedOrder
  <1>5. CASE i \in DOMAIN acted /\ j \in DOMAIN acted
    BY <1>2, <1>5 DEF TypedOrder
  <1>6. CASE i \in DOMAIN acted /\ j \notin DOMAIN acted
    <2>1. j - Len(acted) \in DOMAIN lines /\ acted'[j] = Tag(lines[j - Len(acted)])
      BY <1>2, <1>6
    <2>2. acted'[j] \in IdsOf(lines)
      BY <1>3, <2>1 DEF IdsOf
    <2> QED
      BY <1>2, <1>4, <1>6, <2>2
  <1>7. CASE i \notin DOMAIN acted
    <2>1. j \notin DOMAIN acted
      BY <1>2, <1>7
    <2>2. /\ i - Len(acted) \in DOMAIN lines /\ acted'[i] = Tag(lines[i - Len(acted)])
          /\ j - Len(acted) \in DOMAIN lines /\ acted'[j] = Tag(lines[j - Len(acted)])
          /\ i - Len(acted) < j - Len(acted)
      BY <1>2, <1>7, <2>1
    <2> QED
      BY <1>3, <1>4, <2>2 DEF Increasing
  <1> QED
    BY <1>5, <1>6, <1>7

(* Every step keeps that what was received is queued or settled.             *)
LEMMA ReceivedKept ==
  ASSUME LinesTyped, Ordered, TypedOrder, NothingLost, NEW line \in AnyLine, Receives(line),
         Collects(line) \/ Acts(line), UNCHANGED <<spent, typed>>
  PROVE  LinesTyped' /\ Ordered' /\ TypedOrder' /\ NothingLost'
PROOF
  <1>1. /\ queued' \in Seq(AnyLine) /\ stdin' \in Seq(Lines)
        /\ note' \in [Notes -> {"none", "running", "ready", "queued", "told", "answer"}]
        /\ Increasing(queued)' /\ Increasing(stdin)'
        /\ Waiting = Number(line) \cup Waiting'
        /\ \A a \in Number(line), b \in Waiting' : a < b
        /\ \A a \in IdsOf(queued)', b \in IdsOf(stdin)' : a < b
    BY Received1
  <1>2. /\ Append(input, line) \in Seq(AnyLine)
        /\ IdsOf(Append(input, line)) = IdsOf(input) \cup Number(line)
        /\ Increasing(Append(input, line))
    BY <1>1, Adding, AddingIds, AddingInOrder DEF LinesTyped, Ordered
  <1>3. CASE Collects(line)
    <2>1. input' = Append(input, line) /\ UNCHANGED acted /\ ActedIds' = ActedIds
      BY <1>3 DEF Collects, ActedIds
    <2>2. IdsOf(input)' = IdsOf(input) \cup Number(line) /\ Increasing(input)'
      BY <1>2, <2>1
    <2>3. LinesTyped' /\ TypedOrder'
      BY <1>1, <1>2, <2>1 DEF LinesTyped, TypedOrder
    <2>4. Ordered'
      BY <1>1, <2>1, <2>2 DEF Ordered
    <2>5. NothingLost'
      BY <1>1, <2>1, <2>2 DEF NothingLost, Waiting
    <2> QED
      BY <2>3, <2>4, <2>5
  <1>4. CASE Acts(line)
    <2>1. acted' \in Seq(Tags) /\ ActedIds' = ActedIds \cup IdsOf(input) \cup Number(line)
      BY <1>2, <1>4, ActedThen
    <2>2. IdsOf(input)' = {} /\ Increasing(input)' /\ input' \in Seq(AnyLine)
      BY <1>4 DEF Acts, IdsOf, Increasing
    <2>3. LinesTyped'
      BY <1>1, <2>1, <2>2 DEF LinesTyped
    <2>4. TypedOrder'
      <3>1. \A i \in DOMAIN acted : acted[i] > 0 =>
              \A b \in IdsOf(Append(input, line)) : acted[i] < b
        BY <1>1, <1>2 DEF Ordered, ActedIds
      <3> QED
        BY <1>2, <1>4, <3>1, ActedInOrder
    <2>5. Ordered'
      BY <1>1, <2>1, <2>2 DEF Ordered
    <2>6. NothingLost'
      BY <1>1, <2>1, <2>2 DEF NothingLost, Waiting
    <2> QED
      BY <2>3, <2>4, <2>5, <2>6
  <1> QED
    BY <1>3, <1>4

(* Every step keeps that no line is lost, and that they are in order.        *)
LEMMA LinesKept ==
  ASSUME LinesTyped, Ordered, TypedOrder, NothingLost, LineMove
  PROVE  LinesTyped' /\ Ordered' /\ TypedOrder' /\ NothingLost'
PROOF
  <1>1. CASE UNCHANGED <<stdin, queued, input, acted, spent, typed>> /\ NotesGoOn
    <2>1. ActedIds' = ActedIds /\ Waiting' = Waiting /\ IdsOf(input)' = IdsOf(input)
          /\ IdsOf(queued)' = IdsOf(queued) /\ IdsOf(stdin)' = IdsOf(stdin)
      BY <1>1 DEF ActedIds, Waiting
    <2> QED
      BY <1>1, <2>1 DEF LinesTyped, Ordered, TypedOrder, NothingLost, NotesGoOn
  <1>2. CASE Types
    <2>1. PICK line \in Lines :
            /\ typed < MaxTyped /\ typed' = typed + 1 /\ line.id = typed'
            /\ stdin' = Append(stdin, line)
            /\ UNCHANGED <<input, queued, acted, spent, note>>
      BY <1>2 DEF Types
    <2>2. Number(line) = {typed'}
      BY <2>1, KindsOfLines DEF Number
    <2>3. \A a \in IdsOf(input) \cup Waiting \cup ActedIds : a < typed'
      <3>1. \A a \in 1..typed : a < typed + 1
        BY DEF LinesTyped
      <3> QED
        BY <2>1, <3>1 DEF NothingLost, Waiting
    <2>4. /\ stdin' \in Seq(Lines) /\ IdsOf(stdin)' = IdsOf(stdin) \cup {typed'}
          /\ Increasing(stdin)'
      <3>1. \A a \in IdsOf(stdin), b \in Number(line) : a < b
        BY <2>2, <2>3 DEF Waiting
      <3>2. /\ Append(stdin, line) \in Seq(Lines)
            /\ IdsOf(Append(stdin, line)) = IdsOf(stdin) \cup {typed'}
            /\ Increasing(Append(stdin, line))
        BY <2>2, <3>1, Adding, AddingIds, AddingInOrder DEF LinesTyped, Ordered
      <3> QED
        BY <2>1, <3>2
    <2>5. typed' \in 0..MaxTyped /\ 1..typed' = 1..typed \cup {typed'}
      BY <2>1, ConsoleAssumption DEF LinesTyped
    <2>6. LinesTyped' /\ TypedOrder'
      BY <2>1, <2>4, <2>5 DEF LinesTyped, TypedOrder
    <2>7. /\ ActedIds' = ActedIds /\ Waiting' = Waiting \cup {typed'}
          /\ IdsOf(input)' = IdsOf(input) /\ IdsOf(queued)' = IdsOf(queued)
      BY <2>1, <2>4 DEF ActedIds, Waiting
    <2>8. Ordered'
      BY <2>1, <2>3, <2>4, <2>7 DEF Ordered, Waiting
    <2>9. NothingLost'
      BY <2>1, <2>4, <2>5, <2>7 DEF NothingLost
    <2> QED
      BY <2>6, <2>8, <2>9
  <1>3. CASE Spends
    <2>1. /\ Head(stdin) \in Lines /\ Tail(stdin) \in Seq(Lines) /\ Increasing(Tail(stdin))
          /\ IdsOf(stdin) = Number(Head(stdin)) \cup IdsOf(Tail(stdin))
      BY <1>3, Removing, RemovingIds, RemovingInOrder DEF Spends, LinesTyped, Ordered
    <2>2. Number(Head(stdin)) = {Head(stdin).id} /\ Head(stdin).id \in 1..MaxTyped
      BY <2>1, KindsOfLines DEF Number
    <2>3. LinesTyped' /\ TypedOrder'
      BY <1>3, <2>1, <2>2 DEF Spends, LinesTyped, TypedOrder
    <2>4. /\ ActedIds' = ActedIds /\ IdsOf(input)' = IdsOf(input) /\ IdsOf(queued)' = IdsOf(queued)
          /\ IdsOf(stdin) = {Head(stdin).id} \cup IdsOf(stdin)'
          /\ Increasing(stdin)' /\ Increasing(queued)' /\ Increasing(input)'
      BY <1>3, <2>1, <2>2 DEF Spends, ActedIds, Ordered
    <2>5. Ordered'
      BY <2>4 DEF Ordered, Waiting
    <2>6. NothingLost'
      BY <1>3, <2>4 DEF Spends, NothingLost
    <2> QED
      BY <2>3, <2>5, <2>6
  <1>4. CASE Discards
    <2>1. /\ IdsOf(input)' = {} /\ Increasing(input)' /\ input' \in Seq(AnyLine)
      BY <1>4 DEF Discards, IdsOf, Increasing
    <2>2. ActedIds' = ActedIds /\ IdsOf(queued)' = IdsOf(queued) /\ IdsOf(stdin)' = IdsOf(stdin)
          /\ Increasing(queued)' /\ Increasing(stdin)'
      BY <1>4 DEF Discards, ActedIds, Ordered
    <2>3. IdsOf(input) \subseteq 1..MaxTyped
      <3>1. 1..typed \subseteq 1..MaxTyped
        BY ConsoleAssumption DEF LinesTyped
      <3> QED
        BY <3>1 DEF NothingLost
    <2>4. LinesTyped' /\ TypedOrder'
      BY <1>4, <2>1, <2>3 DEF Discards, LinesTyped, TypedOrder
    <2>5. Ordered' /\ NothingLost'
      BY <1>4, <2>1, <2>2 DEF Discards, Ordered, NothingLost, Waiting
    <2> QED
      BY <2>4, <2>5
  <1>5. CASE Queues
    <2>1. /\ queued' \in Seq(AnyLine) /\ stdin' \in Seq(Lines)
          /\ note' \in [Notes -> {"none", "running", "ready", "queued", "told", "answer"}]
          /\ Increasing(queued)' /\ Increasing(stdin)' /\ Waiting' = Waiting
          /\ \A a \in IdsOf(queued)', b \in IdsOf(stdin)' : a < b
      <3>1. CASE /\ stdin # <<>> /\ stdin' = Tail(stdin) /\ queued' = Append(queued, Head(stdin))
                 /\ UNCHANGED note
        <4>1. /\ Head(stdin) \in Lines /\ Tail(stdin) \in Seq(Lines) /\ Increasing(Tail(stdin))
              /\ IdsOf(stdin) = Number(Head(stdin)) \cup IdsOf(Tail(stdin))
              /\ \A a \in Number(Head(stdin)), b \in IdsOf(Tail(stdin)) : a < b
          BY <3>1, Removing, RemovingIds, RemovingInOrder DEF LinesTyped, Ordered
        <4>2. Head(stdin) \in AnyLine
          BY <4>1 DEF AnyLine
        <4>3. \A a \in IdsOf(queued), b \in Number(Head(stdin)) : a < b
          BY <4>1 DEF Ordered
        <4>4. /\ Append(queued, Head(stdin)) \in Seq(AnyLine)
              /\ Increasing(Append(queued, Head(stdin)))
              /\ IdsOf(Append(queued, Head(stdin))) = IdsOf(queued) \cup Number(Head(stdin))
          BY <4>2, <4>3, Adding, AddingIds, AddingInOrder DEF LinesTyped, Ordered
        <4>5. /\ IdsOf(queued)' = IdsOf(queued) \cup Number(Head(stdin))
              /\ IdsOf(stdin)' = IdsOf(Tail(stdin))
          BY <3>1, <4>4
        <4> QED
          BY <3>1, <4>1, <4>4, <4>5 DEF Waiting, Ordered, LinesTyped
      <3>2. ASSUME NEW n \in Notes, note' = [note EXCEPT ![n] = "queued"],
                   queued' = Append(queued, NoteLine(n)), UNCHANGED stdin
            PROVE  /\ queued' \in Seq(AnyLine) /\ Increasing(queued)'
                   /\ IdsOf(queued)' = IdsOf(queued)
        <4>1. NoteLine(n) \in AnyLine /\ Number(NoteLine(n)) = {}
          BY KindsOfLines DEF AnyLine, Number
        <4>3. /\ queued \in Seq(AnyLine) /\ Increasing(queued)
              /\ \A a \in IdsOf(queued), b \in Number(NoteLine(n)) : a < b
          BY <4>1 DEF LinesTyped, Ordered
        <4>4. Increasing(Append(queued, NoteLine(n)))
          BY <4>1, <4>3, AddingInOrder
        <4>2. /\ Append(queued, NoteLine(n)) \in Seq(AnyLine)
              /\ Increasing(Append(queued, NoteLine(n)))
              /\ IdsOf(Append(queued, NoteLine(n))) = IdsOf(queued)
          BY <4>1, <4>3, <4>4, Adding, AddingIds, ZenonT(40)
        <4> QED
          BY <3>2, <4>2
      <3>3. CASE \E n \in Notes : /\ note' = [note EXCEPT ![n] = "queued"]
                                  /\ queued' = Append(queued, NoteLine(n))
                                  /\ UNCHANGED stdin
        <4>1. note' \in [Notes -> {"none", "running", "ready", "queued", "told", "answer"}]
          BY <3>3 DEF LinesTyped
        <4>2. IdsOf(stdin)' = IdsOf(stdin) /\ Increasing(stdin)' /\ stdin' \in Seq(Lines)
          BY <3>3 DEF LinesTyped, Ordered
        <4> QED
          BY <3>2, <3>3, <4>1, <4>2 DEF Waiting, Ordered
      <3> QED
        BY <1>5, <3>1, <3>3 DEF Queues
    <2>2. UNCHANGED <<input, acted, spent, typed>>
      BY <1>5 DEF Queues
    <2>3. ActedIds' = ActedIds /\ IdsOf(input)' = IdsOf(input)
      BY <2>2 DEF ActedIds
    <2>4. LinesTyped' /\ TypedOrder'
      BY <2>1, <2>2 DEF LinesTyped, TypedOrder
    <2>5. Ordered'
      BY <2>1, <2>2, <2>3 DEF Ordered
    <2>6. NothingLost'
      BY <2>1, <2>2, <2>3 DEF NothingLost, Waiting
    <2> QED
      BY <2>4, <2>5, <2>6
  <1>6. CASE /\ \E line \in AnyLine : Receives(line) /\ (Collects(line) \/ Acts(line))
             /\ UNCHANGED <<spent, typed>>
    BY <1>6, ReceivedKept
  <1> QED
    BY <1>1, <1>2, <1>3, <1>4, <1>5, <1>6 DEF LineMove

-----------------------------------------------------------------------------
(* The notifications that are queued, and what has been received. *)

(* Every step keeps that no line is queued twice.                            *)
LEMMA QueuedKept ==
  ASSUME LinesTyped, QueuedOnce, LineMove
  PROVE  QueuedOnce'
PROOF
  <1>1. CASE UNCHANGED queued /\ \A n \in Notes : note[n] = "queued" => note'[n] = "queued"
    <2>1. \A i \in DOMAIN queued : queued[i].kind = "note" => queued[i].id \in Notes
      BY KindsOfLines DEF LinesTyped, AnyLine
    <2> QED
      BY <1>1, <2>1 DEF QueuedOnce
  <1>2. CASE Queues
    <2>1. CASE /\ stdin # <<>> /\ queued' = Append(queued, Head(stdin)) /\ UNCHANGED note
      <3>1. Head(stdin) \in AnyLine /\ Head(stdin).kind # "note"
        BY <2>1, Removing, KindsOfLines DEF LinesTyped, AnyLine
      <3>2. \A i \in DOMAIN queued' :
              queued'[i].kind = "note" => i \in DOMAIN queued /\ queued'[i] = queued[i]
        BY <2>1, <3>1, Adding DEF LinesTyped
      <3> QED
        BY <2>1, <3>2 DEF QueuedOnce
    <2>2. ASSUME NEW n \in Notes, note[n] = "ready", note' = [note EXCEPT ![n] = "queued"],
                 queued' = Append(queued, NoteLine(n))
          PROVE  QueuedOnce'
      <3>1. NoteLine(n) \in AnyLine /\ NoteLine(n).id = n
        BY KindsOfLines DEF AnyLine
      <3>2. \A i \in DOMAIN queued' : \/ i \in DOMAIN queued /\ queued'[i] = queued[i]
                                      \/ i = Len(queued) + 1 /\ queued'[i] = NoteLine(n)
        <4>1. PICK x \in AnyLine : x = NoteLine(n)
          BY <3>1
        <4>2. queued \in Seq(AnyLine)
          BY DEF LinesTyped
        <4>3. \A i \in DOMAIN Append(queued, x) :
                 \/ i \in DOMAIN queued /\ Append(queued, x)[i] = queued[i]
                 \/ i = Len(queued) + 1 /\ Append(queued, x)[i] = x
          BY <4>2, Adding
        <4> QED
          BY <2>2, <4>1, <4>3
      <3>3. \A i \in DOMAIN queued : queued[i] # NoteLine(n)
        BY <2>2, KindsOfLines DEF QueuedOnce
      <3>4. \A m \in Notes : note[m] = "queued" => note'[m] = "queued"
        BY <2>2 DEF LinesTyped
      <3>5. note'[n] = "queued"
        BY <2>2 DEF LinesTyped
      <3>6. \A i \in DOMAIN queued : queued[i].kind = "note" => queued[i].id \in Notes
        BY KindsOfLines DEF LinesTyped, AnyLine
      <3> QED
        BY <3>1, <3>2, <3>3, <3>4, <3>5, <3>6 DEF QueuedOnce
    <2> QED
      BY <1>2, <2>1, <2>2 DEF Queues
  <1>3. ASSUME NEW line \in AnyLine, Receives(line) PROVE QueuedOnce'
    <2>1. CASE queued = <<>> /\ UNCHANGED queued
      BY <2>1 DEF QueuedOnce
    <2>2. CASE /\ queued # <<>> /\ line = Head(queued) /\ queued' = Tail(queued)
               /\ note' = [n \in Notes |-> IF line = NoteLine(n) THEN "told" ELSE note[n]]
      <3>1. \A i \in DOMAIN queued' :
              i \in Nat /\ i + 1 \in DOMAIN queued /\ i + 1 # 1 /\ queued'[i] = queued[i + 1]
        BY <2>2, Removing DEF LinesTyped
      <3>2. line = queued[1] /\ 1 \in DOMAIN queued
        BY <2>2, Removing DEF LinesTyped
      <3>3. ASSUME NEW i \in DOMAIN queued', queued'[i].kind = "note"
            PROVE  note'[queued'[i].id] = "queued"
        <4>1. queued'[i] \in AnyLine /\ queued'[i] = NoteLine(queued'[i].id) /\ queued'[i].id \in Notes
          BY <3>1, <3>3, KindsOfLines DEF LinesTyped, AnyLine
        <4>2. line # queued'[i]
          BY <3>1, <3>2, <3>3 DEF QueuedOnce
        <4>3. note[queued'[i].id] = "queued"
          BY <3>1, <3>3 DEF QueuedOnce
        <4> QED
          BY <2>2, <4>1, <4>2, <4>3
      <3>4. ASSUME NEW i \in DOMAIN queued', NEW j \in DOMAIN queued', queued'[i].kind = "note",
                   queued'[j] = queued'[i]
            PROVE  j = i
        <4>1. j + 1 = i + 1
          BY <3>1, <3>4 DEF QueuedOnce
        <4> QED
          BY <3>1, <4>1
      <3> QED
        BY <3>3, <3>4 DEF QueuedOnce
    <2> QED
      BY <1>3, <2>1, <2>2 DEF Receives
  <1>4. \/ UNCHANGED queued /\ \A n \in Notes : note[n] = "queued" => note'[n] = "queued"
        \/ Queues
        \/ \E line \in AnyLine : Receives(line)
    BY DEF LineMove, NotesGoOn, Types, Spends, Discards
  <1> QED
    BY <1>1, <1>2, <1>3, <1>4

(* Only typing adds to what waits.                                           *)
LEMMA WaitingLess ==
  ASSUME LinesTyped, Ordered, NothingLost, LineMove
  PROVE  Types \/ (typed' = typed /\ Waiting' \subseteq Waiting)
PROOF
  <1>1. CASE UNCHANGED <<stdin, queued, typed>>
    BY <1>1 DEF Waiting
  <1>2. CASE Spends
    <2>1. IdsOf(Tail(stdin)) \subseteq IdsOf(stdin)
      BY <1>2, RemovingIds DEF Spends, LinesTyped
    <2>2. IdsOf(stdin)' = IdsOf(Tail(stdin)) /\ IdsOf(queued)' = IdsOf(queued)
      BY <1>2 DEF Spends
    <2> QED
      BY <1>2, <2>1, <2>2 DEF Spends, Waiting
  <1>3. CASE Queues
    <2>1. CASE stdin # <<>> /\ stdin' = Tail(stdin) /\ queued' = Append(queued, Head(stdin))
      <3>1. IdsOf(stdin) = Number(Head(stdin)) \cup IdsOf(Tail(stdin))
        BY <2>1, RemovingIds DEF LinesTyped
      <3>2. PICK x \in AnyLine : x = Head(stdin)
        BY <2>1, Removing DEF LinesTyped, AnyLine
      <3>3. IdsOf(Append(queued, x)) = IdsOf(queued) \cup Number(x)
        BY AddingIds DEF LinesTyped
      <3>4. IdsOf(stdin)' = IdsOf(Tail(stdin)) /\ IdsOf(queued)' = IdsOf(Append(queued, x))
        BY <2>1, <3>2
      <3> QED
        BY <1>3, <3>1, <3>2, <3>3, <3>4 DEF Queues, Waiting
    <2>2. ASSUME NEW n \in Notes, queued' = Append(queued, NoteLine(n)), UNCHANGED stdin
          PROVE  Waiting' \subseteq Waiting
      <3>1. PICK x \in AnyLine : x = NoteLine(n) /\ Number(x) = {}
        BY KindsOfLines DEF AnyLine, Number
      <3>2. IdsOf(Append(queued, x)) = IdsOf(queued) \cup Number(x)
        BY AddingIds DEF LinesTyped
      <3>3. IdsOf(stdin)' = IdsOf(stdin) /\ IdsOf(queued)' = IdsOf(Append(queued, x))
        BY <2>2, <3>1
      <3> QED
        BY <3>1, <3>2, <3>3 DEF Waiting
    <2> QED
      BY <1>3, <2>1, <2>2 DEF Queues
  <1>4. CASE (\E line \in AnyLine : Receives(line)) /\ UNCHANGED typed
    BY <1>4, Received1
  <1>5. \/ UNCHANGED <<stdin, queued, typed>>
        \/ Types \/ Spends \/ Queues
        \/ (\E line \in AnyLine : Receives(line)) /\ UNCHANGED typed
    BY DEF LineMove, Discards
  <1> QED
    BY <1>1, <1>2, <1>3, <1>4, <1>5

(* The end of a process that was told stays told.                            *)
LEMMA ToldStays ==
  ASSUME LinesTyped, LineMove
  PROVE  \A n \in Notes : note[n] = "told" => note'[n] = "told"
PROOF
  <1> SUFFICES ASSUME NEW n \in Notes, note[n] = "told" PROVE note'[n] = "told"
    OBVIOUS
  <1>1. CASE NotesGoOn
    BY <1>1 DEF NotesGoOn
  <1>2. CASE UNCHANGED note
    BY <1>2
  <1>3. CASE Queues
    BY <1>3 DEF Queues, LinesTyped
  <1>4. ASSUME NEW line \in AnyLine, Receives(line) PROVE note'[n] = "told"
    BY <1>4 DEF Receives, LinesTyped
  <1> QED
    BY <1>1, <1>2, <1>3, <1>4 DEF LineMove, Types, Spends, Discards

(* What is settled stays so.                                                 *)
LEMMA SettledKept ==
  ASSUME LinesTyped, Ordered, NothingLost, QueuedOnce, LineMove, NEW tag \in Settled
  PROVE  tag \in Settled'
PROOF
  <1>0. tag \in Tags
    BY DEF Settled
  <1>1. CASE tag > 0
    <2>1. tag <= typed /\ tag \notin Waiting
      BY <1>1 DEF Settled
    <2>2. CASE Types
      <3>1. PICK line \in Lines : /\ typed' = typed + 1 /\ line.id = typed'
                                  /\ stdin' = Append(stdin, line) /\ UNCHANGED queued
        BY <2>2 DEF Types
      <3>2. IdsOf(stdin)' = IdsOf(stdin) \cup Number(line)
        BY <3>1, AddingIds DEF LinesTyped
      <3>3. Number(line) \subseteq {typed'}
        BY <3>1 DEF Number
      <3>4. tag <= typed' /\ tag # typed'
        BY <1>0, <2>1, <3>1 DEF LinesTyped, Tags
      <3> QED
        BY <1>0, <1>1, <2>1, <3>1, <3>2, <3>3, <3>4 DEF Settled, Waiting
    <2>3. CASE typed' = typed /\ Waiting' \subseteq Waiting
      BY <1>0, <1>1, <2>1, <2>3 DEF Settled
    <2>4. Types \/ (typed' = typed /\ Waiting' \subseteq Waiting)
      BY WaitingLess
    <2> QED
      BY <2>2, <2>3, <2>4
  <1>2. CASE ~(tag > 0)
    <2>1. -tag \in Notes /\ note[-tag] = "told"
      <3>1. PICK n \in Notes : tag = -n
        BY <1>0, <1>2 DEF Tags
      <3>2. -tag = n
        BY <3>1 DEF Notes
      <3> QED
        BY <1>2, <3>2 DEF Settled
    <2>2. \A n \in Notes : note[n] = "told" => note'[n] = "told"
      BY ToldStays
    <2> QED
      BY <1>0, <1>2, <2>1, <2>2 DEF Settled
  <1> QED
    BY <1>1, <1>2

-----------------------------------------------------------------------------
(* What a step does to the conversation. *)

Calling == main \in {"calls", "permit", "tool"}
Keeps ==
  /\ UNCHANGED <<history, lastPrompt>>
  /\ \/ ~Calling /\ ~Calling'
     \/ Calling /\ Calling' /\ UNCHANGED <<reply, pos>>
Forgets ==
  /\ history' \in {<<>>, <<Assistant(0)>>} /\ UNCHANGED lastPrompt
  /\ ~Calling /\ ~Calling'
(* A question is new, or asked again when it is not the last thing said.     *)
Asks(text) ==
  /\ lastPrompt' = text /\ history' = Append(history, User(text))
  /\ \/ text = lastPrompt /\ (history # <<>> => history[Len(history)] # User(text))
     \/ \E line \in AnyLine : /\ Receives(line) /\ UNCHANGED typed
                              /\ text = Text(Append(input, line))
  /\ ~Calling /\ ~Calling'
Hears ==
  /\ history' = Append(history, Assistant(Len(reply.calls))) /\ UNCHANGED lastPrompt
  /\ ~Calling
  /\ \/ reply.calls = <<>> /\ ~Calling'
     \/ reply.calls # <<>> /\ Calling' /\ pos' = 1 /\ UNCHANGED reply
Answers ==
  /\ Calling
  /\ \E what \in Results : history' = Append(history, ToolResult(pos, what))
  /\ UNCHANGED lastPrompt
  /\ \/ pos < Len(reply.calls) /\ Calling' /\ pos' = pos + 1 /\ UNCHANGED reply
     \/ ~(pos < Len(reply.calls)) /\ ~Calling'
HistoryMove == Keeps \/ Forgets \/ (\E text \in Texts : Asks(text)) \/ Hears \/ Answers

(* An answer to a call answers the next of them, or ends the turn.           *)
LEMMA Answered ==
  ASSUME NEW what \in Results, AnswerCall(what), Calling
  PROVE  Answers
  BY DEF AnswerCall, Answers, EndTurn, CallModel, Calling

(* What repl does with the lines it has collected.                           *)
LEMMA Submitted ==
  ASSUME TypeOK, NEW line \in AnyLine, Receives(line), Submit(Append(input, line)),
         main = "prompt", UNCHANGED typed
  PROVE  HistoryMove
PROOF
  <1> DEFINE lines == Append(input, line)
  <1>1. Text(lines) \in Texts /\ lastPrompt \in Texts
    <2>1. lines \in Seq(AnyLine)
      BY Parts DEF LinesTyped
    <2> QED
      BY <2>1, TextsMade DEF Texts, Tags, TypeOK
  <1>2. CASE RunTurn(Text(lines))
    <2>1. Asks(Text(lines))
      BY <1>2 DEF RunTurn, Asks, ContinueTurn, CallModel, Calling
    <2> QED
      BY <1>1, <2>1 DEF HistoryMove
  <1>3. CASE Command(Head(lines).kind)
    <2>1. CASE Retry
      <3>1. CASE lastPrompt = <<>>
        BY <2>1, <3>1 DEF Retry, turnVars, HistoryMove, Keeps, Calling
      <3>2. CASE history # <<>> /\ history[Len(history)] = User(lastPrompt)
        BY <2>1, <3>1, <3>2 DEF Retry, turnVars, HistoryMove, Keeps, Calling, ContinueTurn,
                                CallModel
      <3>3. CASE /\ lastPrompt # <<>>
                 /\ ~(history # <<>> /\ history[Len(history)] = User(lastPrompt))
        <4>1. RunTurn(lastPrompt)
          BY <2>1, <3>3 DEF Retry
        <4>2. Asks(lastPrompt)
          BY <3>3, <4>1 DEF RunTurn, Asks, ContinueTurn, CallModel, Calling
        <4> QED
          BY <1>1, <4>2 DEF HistoryMove
      <3> QED
        BY <3>1, <3>2, <3>3
    <2>2. CASE ~Retry
      BY <1>3, <2>2 DEF Command, turnVars, HistoryMove, Keeps, Forgets, Calling
    <2> QED
      BY <2>1, <2>2
  <1> QED
    BY <1>2, <1>3 DEF Submit

(* Every step adds to the conversation, forgets or keeps it, in one of five  *)
(* ways.                                                                     *)
LEMMA Speaks == ASSUME TypeOK, Next PROVE HistoryMove
PROOF
  <1> USE DEF turnVars
  <1>1. CASE UNCHANGED <<main, history, lastPrompt, reply, pos>>
    BY <1>1 DEF HistoryMove, Keeps, Calling
  <1>2. CASE \/ Environment \/ ReadInputCloses \/ EarCatchesSignal \/ WallclockExpires
             \/ \E n \in Notes : NoteSendPanics(n)
    <2>1. ASSUME NEW kind \in LineKinds, Type(kind)
          PROVE  UNCHANGED <<main, history, lastPrompt, reply, pos>>
      BY <2>1 DEF Type
    <2>2. CASE \/ EndOfInput \/ CtrlC \/ ReadInputCloses \/ EarCatchesSignal \/ WallclockExpires
               \/ \E n \in Notes : ProcessEnds(n) \/ NoteSendPanics(n)
      BY <1>1, <2>2 DEF EndOfInput, CtrlC, ReadInputCloses, EarCatchesSignal,
                        WallclockExpires, ProcessEnds, NoteSendPanics
    <2> QED
      BY <1>1, <1>2, <2>1, <2>2 DEF Environment
  <1>3. CASE Watcher
    BY <1>1, <1>3 DEF Watcher, WatcherReceives, WatcherSeesClosed, WatcherStops,
                      StatsCatchesSignal, StatsEnds
  <1>4. CASE ReplReceives
    <2>1. PICK line \in IF queued # <<>> THEN {Head(queued)} ELSE Offers :
            /\ IF queued # <<>>
               THEN /\ queued' = Tail(queued)
                    /\ note' = [n \in Notes |->
                                  IF line = NoteLine(n) THEN "told" ELSE note[n]]
                    /\ UNCHANGED stdin
               ELSE Take(line, "told") /\ UNCHANGED queued
            /\ \/ UNCHANGED <<main, watcher, turnVars>>
               \/ Submit(Append(input, line))
      BY <1>4 DEF ReplReceives
    <2>2. LinesTyped /\ main = "prompt" /\ UNCHANGED typed
      BY <1>4, Parts DEF ReplReceives
    <2>3. line \in AnyLine
      BY <2>1, <2>2, Offered, Removing DEF LinesTyped
    <2>4. Receives(line)
      <3>1. CASE queued # <<>>
        BY <2>1, <3>1 DEF Receives
      <3>2. CASE queued = <<>>
        BY <2>1, <2>2, <3>2, Taken DEF Receives
      <3> QED
        BY <3>1, <3>2
    <2> QED
      BY <1>1, <2>1, <2>2, <2>3, <2>4, Submitted
  <1>5. CASE ReplSeesClosed \/ ReplInterrupted \/ CommandEnds \/ ModelReturns(Replies)
    BY <1>5 DEF ReplSeesClosed, ReplInterrupted, CommandEnds, Busy, ModelReturns, HistoryMove,
                Keeps, Forgets, Calling
  <1>6. CASE HandleReply
    <2>1. reply.calls = <<>> => main' = "prompt"
      BY <1>6 DEF HandleReply, EndTurn
    <2>2. reply.calls # <<>> => main' = "calls" /\ pos' = 1 /\ UNCHANGED reply
      BY <1>6 DEF HandleReply
    <2>3. ~reply.ok => reply.calls = <<>>
      BY RepliesMade DEF TypeOK
    <2>4. main = "stopping" /\ UNCHANGED lastPrompt
      BY <1>6 DEF HandleReply
    <2>5. history' = IF reply.ok THEN Append(history, Assistant(Len(reply.calls)))
                     ELSE history
      BY <1>6 DEF HandleReply
    <2>6. CASE reply.ok
      BY <2>1, <2>2, <2>4, <2>5, <2>6 DEF HistoryMove, Hears, Calling
    <2>7. CASE ~reply.ok
      BY <2>1, <2>3, <2>4, <2>5, <2>7 DEF HistoryMove, Keeps, Calling
    <2> QED
      BY <2>6, <2>7
  <1>7. CASE CallProceeds
    BY <1>7 DEF CallProceeds, HistoryMove, Keeps, Calling
  <1>8. CASE CallNotRun \/ PermitGivesUp \/ ToolEnds
    <2>1. Calling /\ \E what \in Results : AnswerCall(what)
      BY <1>8 DEF CallNotRun, PermitGivesUp, ToolEnds, Calling, Results
    <2> QED
      BY <2>1, Answered DEF HistoryMove
  <1>9. CASE PermitAnswered
    <2>1. main = "permit" /\ \/ main' = "tool" /\ UNCHANGED <<history, lastPrompt, reply, pos>>
                             \/ AnswerCall("declined")
      BY <1>9 DEF PermitAnswered
    <2>2. "declined" \in Results
      BY DEF Results
    <2>3. Calling
      BY <2>1 DEF Calling
    <2>4. CASE main' = "tool" /\ UNCHANGED <<history, lastPrompt, reply, pos>>
      BY <2>3, <2>4 DEF HistoryMove, Keeps, Calling
    <2> QED
      BY <2>1, <2>2, <2>3, <2>4, Answered DEF HistoryMove
  <1> QED
    BY <1>2, <1>3, <1>4, <1>5, <1>6, <1>7, <1>8, <1>9 DEF Next, Repl, Turn

-----------------------------------------------------------------------------
(* The conversation stays well-formed, and asks nothing twice. *)

(* A message added to the conversation leaves those before it.               *)
LEMMA Saying ==
  ASSUME TypeOK, NEW m \in Messages, history' = Append(history, m)
  PROVE  /\ history' \in Seq(Messages)
         /\ Len(history) \in Nat /\ Len(history') = Len(history) + 1
         /\ DOMAIN history = 1..Len(history) /\ DOMAIN history' = 1..(Len(history) + 1)
         /\ \A i \in 1..Len(history) : history'[i] = history[i]
         /\ history'[Len(history) + 1] = m
PROOF
  <1>1. history \in Seq(Messages)
    BY DEF TypeOK
  <1> QED
    BY <1>1

(* While calls are answered, the next one is one of the reply.               *)
LEMMA Pending ==
  ASSUME TypeOK, Answering, Calling
  PROVE  /\ pos \in 1..MaxCalls /\ pos \in 1..Len(reply.calls)
         /\ Len(reply.calls) \in 0..MaxCalls
  <1>1. Len(reply.calls) \in 0..MaxCalls
    BY RepliesMade DEF TypeOK
  <1>2. pos \in 1..Len(reply.calls)
    BY DEF Answering, Calling
  <1> QED
    BY <1>1, <1>2, ConsoleAssumption

(* Every step keeps the types of the messages.                               *)
LEMMA TextsKept ==
  ASSUME TypeOK, Answering, HistoryMove
  PROVE  TextsTyped'
PROOF
  <1> USE DEF TextsTyped
  <1>0. history \in Seq(Messages) /\ lastPrompt \in Seq(Tags)
    BY DEF TypeOK, Texts, Tags
  <1>1. CASE Keeps
    BY <1>0, <1>1 DEF Keeps
  <1>2. CASE Forgets
    <2>1. PICK m \in Messages : m = Assistant(0)
      BY MessagesMade, ConsoleAssumption
    <2>2. <<>> \in Seq(Messages) /\ <<m>> \in Seq(Messages)
      OBVIOUS
    <2> QED
      BY <1>0, <1>2, <2>1, <2>2 DEF Forgets
  <1>3. ASSUME NEW text \in Texts, Asks(text) PROVE TextsTyped'
    <2>1. text \in Seq(Tags) /\ User(text) \in Messages
      BY MessagesMade DEF Texts, Tags
    <2> QED
      BY <1>3, <2>1, Saying DEF Asks
  <1>4. CASE Hears
    <2>1. Assistant(Len(reply.calls)) \in Messages
      BY MessagesMade, RepliesMade DEF TypeOK
    <2> QED
      BY <1>0, <1>4, <2>1, Saying DEF Hears
  <1>5. CASE Answers
    <2>1. PICK what \in Results : history' = Append(history, ToolResult(pos, what))
      BY <1>5 DEF Answers
    <2>2. ToolResult(pos, what) \in Messages
      BY <1>5, MessagesMade, Pending DEF Answers
    <2> QED
      BY <1>0, <1>5, <2>1, <2>2, Saying DEF Answers
  <1> QED
    BY <1>1, <1>2, <1>3, <1>4, <1>5 DEF HistoryMove

(* Every call of a finished turn has been answered.                          *)
LEMMA Finished ==
  ASSUME HistoryWellFormed, ~Calling, NEW i \in DOMAIN history, history[i].role = "assistant"
  PROVE  i + history[i].calls <= Len(history)
  BY DEF HistoryWellFormed, Calling

(* What is said between turns needs no answer to stand in its way.           *)
LEMMA SaidBetween ==
  ASSUME TypeOK, HistoryWellFormed, ~Calling, NEW m \in Messages,
         history' = Append(history, m), m.role # "tool",
         m.role = "assistant" /\ ~Calling' => m.calls = 0
  PROVE  HistoryWellFormed'
PROOF
  <1> DEFINE L == Len(history)
  <1>1. /\ L \in Nat /\ Len(history') = L + 1
        /\ DOMAIN history = 1..L /\ DOMAIN history' = 1..(L + 1)
        /\ \A i \in 1..L : history'[i] = history[i]
        /\ history'[L + 1] = m /\ history \in Seq(Messages)
    BY Saying DEF TypeOK
  <1> HIDE DEF L
  <1>2. ASSUME NEW i \in DOMAIN history', history'[i].role = "tool"
        PROVE  /\ i > history'[i].call
               /\ history'[i - history'[i].call].role = "assistant"
               /\ history'[i].call <= history'[i - history'[i].call].calls
    <2>1. i \in 1..L /\ history'[i] = history[i]
      BY <1>1, <1>2
    <2>2. history[i].call \in 1..MaxCalls
      BY <1>1, <1>2, <2>1, MessagesMade
    <2>3. /\ i > history[i].call
          /\ history[i - history[i].call].role = "assistant"
          /\ history[i].call <= history[i - history[i].call].calls
      BY <1>1, <1>2, <2>1 DEF HistoryWellFormed
    <2>4. i - history[i].call \in 1..L
      BY <1>1, <2>1, <2>2, <2>3
    <2> QED
      BY <1>1, <2>1, <2>3, <2>4
  <1>3. ASSUME NEW i \in DOMAIN history', history'[i].role = "assistant"
        PROVE  /\ \A k \in 1..history'[i].calls :
                    i + k \in DOMAIN history' =>
                      history'[i + k].role = "tool" /\ history'[i + k].call = k
               /\ ~Calling' => i + history'[i].calls <= Len(history')
    <2>1. CASE i \in 1..L
      <3>1. history'[i] = history[i] /\ history[i].calls \in 0..MaxCalls
        BY <1>1, <1>3, <2>1, MessagesMade
      <3>2. i + history[i].calls <= L
        BY <1>1, <1>3, <2>1, <3>1, Finished DEF L
      <3>3. ASSUME NEW k \in 1..history[i].calls
            PROVE  history'[i + k].role = "tool" /\ history'[i + k].call = k
        <4>0. PICK c \in Nat : c = history[i].calls
          BY <3>1, ConsoleAssumption
        <4>1. i + k \in 1..L
          BY <1>1, <2>1, <3>2, <4>0
        <4>2. history[i + k].role = "tool" /\ history[i + k].call = k
          BY <1>1, <1>3, <2>1, <3>1, <4>1 DEF HistoryWellFormed
        <4> QED
          BY <1>1, <4>1, <4>2
      <3> QED
        BY <1>1, <2>1, <3>1, <3>2, <3>3
    <2>2. CASE i = L + 1
      <3>1. history'[i] = m /\ m.calls \in 0..MaxCalls
        BY <1>1, <1>3, <2>2, MessagesMade
      <3>2. \A k \in 1..m.calls : i + k \notin DOMAIN history'
        BY <1>1, <2>2, <3>1
      <3> QED
        BY <1>1, <1>3, <2>2, <3>1, <3>2
    <2> QED
      BY <1>1, <2>1, <2>2
  <1> QED
    BY <1>2, <1>3 DEF HistoryWellFormed, Calling

(* A result is said where the call it answers has its place.                 *)
LEMMA SaidInTurn ==
  ASSUME TypeOK, HistoryWellFormed, Answering, Answers
  PROVE  HistoryWellFormed' /\ Answering'
PROOF
  <1> DEFINE L == Len(history)
             N == Len(reply.calls)
             a == L - (pos - 1)
  <1>0. PICK what \in Results : history' = Append(history, ToolResult(pos, what))
    BY DEF Answers
  <1>1. pos \in 1..N /\ N \in 0..MaxCalls /\ pos \in 1..MaxCalls
    BY Pending DEF Answers
  <1>2. ToolResult(pos, what) \in Messages
    BY <1>1, MessagesMade
  <1>3. /\ L \in Nat /\ Len(history') = L + 1
        /\ DOMAIN history = 1..L /\ DOMAIN history' = 1..(L + 1)
        /\ \A i \in 1..L : history'[i] = history[i]
        /\ history'[L + 1] = ToolResult(pos, what) /\ history \in Seq(Messages)
    BY <1>0, <1>2, Saying DEF TypeOK
  <1>4. a > 0 /\ history[a] = Assistant(N)
    BY DEF Answering, Answers, Calling
  <1> HIDE DEF L, N
  <1>5. a \in 1..L /\ a + pos = L + 1 /\ a + pos - 1 = L
    BY <1>1, <1>3, <1>4
  <1>6. history[a].role = "assistant" /\ history[a].calls = N
    BY <1>4 DEF Assistant
  <1> HIDE DEF a
  <1>7. ASSUME NEW i \in 1..L, history[i].role = "assistant"
        PROVE  /\ i <= a
               /\ i < a => i + history[i].calls < a
    <2>1. history[i].calls \in 0..MaxCalls
      BY <1>3, <1>7, MessagesMade
    <2>2. CASE i > a
      <3>1. PICK k \in 1..N : a + k = i
        <4>1. i - a \in 1..N /\ a + (i - a) = i
          BY <1>1, <1>3, <1>5, <2>2
        <4> QED
          BY <4>1
      <3>2. history[i].role = "tool"
        <4>1. a \in DOMAIN history /\ a + k \in DOMAIN history
          BY <1>3, <1>5, <3>1
        <4>2. history[a + k].role = "tool"
          BY <1>6, <4>1 DEF HistoryWellFormed
        <4> QED
          BY <3>1, <4>2
      <3> QED
        BY <1>7, <3>2
    <2>3. CASE i < a /\ ~(i + history[i].calls < a)
      <3>0. PICK c \in Nat : c = history[i].calls
        BY <2>1, ConsoleAssumption
      <3>1. PICK k \in 1..c : i + k = a
        <4>1. a - i \in 1..c /\ i + (a - i) = a
          BY <1>3, <1>5, <2>3, <3>0
        <4> QED
          BY <4>1
      <3>2. history[a].role = "tool"
        <4>1. i \in DOMAIN history /\ i + k \in DOMAIN history
          BY <1>3, <1>5, <3>1
        <4>2. history[i + k].role = "tool"
          BY <1>7, <3>0, <4>1 DEF HistoryWellFormed
        <4> QED
          BY <3>1, <4>2
      <3> QED
        BY <1>6, <3>2
    <2> QED
      BY <1>5, <2>2, <2>3
  <1>8. ASSUME NEW i \in DOMAIN history', history'[i].role = "tool"
        PROVE  /\ i > history'[i].call
               /\ history'[i - history'[i].call].role = "assistant"
               /\ history'[i].call <= history'[i - history'[i].call].calls
    <2>1. CASE i \in 1..L
      <3>1. history'[i] = history[i]
        BY <1>3, <2>1
      <3>2. history[i].call \in 1..MaxCalls
        BY <1>3, <1>8, <2>1, <3>1, MessagesMade
      <3>3. /\ i > history[i].call
            /\ history[i - history[i].call].role = "assistant"
            /\ history[i].call <= history[i - history[i].call].calls
        BY <1>3, <1>8, <2>1, <3>1 DEF HistoryWellFormed
      <3>4. i - history[i].call \in 1..L
        <4>1. PICK c \in 1..MaxCalls : c = history[i].call
          BY <3>2
        <4> QED
          BY <1>3, <2>1, <3>3, <4>1
      <3> QED
        BY <1>3, <3>1, <3>3, <3>4
    <2>2. CASE i = L + 1
      <3>1. history'[i].call = pos
        BY <1>3, <2>2 DEF ToolResult
      <3>2. i - pos = a /\ i > pos
        BY <1>1, <1>5, <2>2
      <3>3. history'[a] = history[a]
        BY <1>3, <1>5
      <3> QED
        BY <1>1, <1>6, <3>1, <3>2, <3>3
    <2> QED
      BY <1>3, <2>1, <2>2
  <1>9. ASSUME NEW i \in DOMAIN history', history'[i].role = "assistant"
        PROVE  /\ \A k \in 1..history'[i].calls :
                    i + k \in DOMAIN history' =>
                      history'[i + k].role = "tool" /\ history'[i + k].call = k
               /\ ~Calling' => i + history'[i].calls <= Len(history')
    <2>1. i \in 1..L /\ history'[i] = history[i]
      <3>1. ToolResult(pos, what).role # "assistant"
        BY DEF ToolResult
      <3> QED
        BY <1>3, <1>9, <3>1
    <2>2. history[i].calls \in 0..MaxCalls
      BY <1>3, <1>9, <2>1, MessagesMade
    <2>3. i <= a /\ (i < a => i + history[i].calls < a)
      BY <1>7, <1>9, <2>1
    <2>4. ASSUME NEW k \in 1..history[i].calls, i + k \in DOMAIN history'
          PROVE  history'[i + k].role = "tool" /\ history'[i + k].call = k
      <3>1. CASE i + k \in 1..L
        <4>1. history[i + k].role = "tool" /\ history[i + k].call = k
          BY <1>3, <1>9, <2>1, <3>1 DEF HistoryWellFormed
        <4> QED
          BY <1>3, <3>1, <4>1
      <3>2. CASE i + k = L + 1
        <4>1. i = a /\ k = pos
          BY <1>1, <1>5, <2>1, <2>2, <2>3, <2>4, <3>2
        <4> QED
          BY <1>3, <3>2, <4>1 DEF ToolResult
      <3> QED
        BY <1>3, <2>4, <3>1, <3>2
    <2>5. ASSUME ~Calling' PROVE i + history[i].calls <= L + 1
      <3>1. pos >= N
        BY <1>1, <2>5 DEF Answers, N
      <3>2. CASE i = a
        BY <1>1, <1>5, <1>6, <3>1, <3>2
      <3>3. CASE i < a
        <4>1. PICK c \in Nat : c = history[i].calls
          BY <2>2, ConsoleAssumption
        <4> QED
          BY <1>3, <1>5, <2>1, <2>3, <3>3, <4>1
      <3> QED
        BY <1>5, <2>1, <2>3, <3>2, <3>3
    <2> QED
      BY <1>3, <2>1, <2>4, <2>5
  <1>10. HistoryWellFormed'
    BY <1>8, <1>9 DEF HistoryWellFormed, Calling
  <1>11. Answering'
    <2>1. CASE Calling'
      <3>1. pos' = pos + 1 /\ pos' \in 1..N /\ reply' = reply
        BY <1>1, <2>1 DEF Answers, N
      <3>2. Len(history') - (pos' - 1) = a /\ history'[a] = history[a]
        BY <1>1, <1>3, <1>5, <3>1
      <3>3. a > 0
        BY <1>5
      <3> QED
        BY <1>4, <3>1, <3>2, <3>3 DEF Answering, N
    <2>2. CASE ~Calling'
      BY <2>2 DEF Answering, Calling
    <2> QED
      BY <2>1, <2>2
  <1> QED
    BY <1>10, <1>11

(* Every step keeps the conversation well formed.                            *)
LEMMA ConversationKept ==
  ASSUME TypeOK, HistoryWellFormed, Answering, HistoryMove
  PROVE  HistoryWellFormed' /\ Answering'
PROOF
  <1>1. CASE Keeps
    BY <1>1 DEF Keeps, HistoryWellFormed, Answering, Calling
  <1>2. CASE Forgets
    <2>1. CASE history' = <<>>
      BY <1>2, <2>1 DEF Forgets, HistoryWellFormed, Answering, Calling
    <2>2. CASE history' = <<Assistant(0)>>
      <3>1. DOMAIN history' = {1} /\ Len(history') = 1 /\ history'[1].role = "assistant"
            /\ history'[1].calls = 0
        BY <2>2 DEF Assistant
      <3> QED
        BY <1>2, <3>1 DEF Forgets, HistoryWellFormed, Answering, Calling
    <2> QED
      BY <1>2, <2>1, <2>2 DEF Forgets
  <1>3. ASSUME NEW text \in Texts, Asks(text) PROVE HistoryWellFormed' /\ Answering'
    <2>1. User(text) \in Messages /\ User(text).role = "user"
      BY MessagesMade DEF Texts, Tags, User
    <2>2. HistoryWellFormed'
      BY <1>3, <2>1, SaidBetween DEF Asks
    <2> QED
      BY <1>3, <2>2 DEF Asks, Answering, Calling
  <1>4. CASE Hears
    <2>1. PICK n \in 0..MaxCalls : n = Len(reply.calls) /\ (reply.calls = <<>> <=> n = 0)
      BY RepliesMade DEF TypeOK
    <2>2. Assistant(n) \in Messages /\ Assistant(n).role = "assistant" /\ Assistant(n).calls = n
      BY MessagesMade DEF Assistant
    <2>3. history' = Append(history, Assistant(n)) /\ ~Calling /\ (~Calling' => n = 0)
      BY <1>4, <2>1 DEF Hears
    <2>4. HistoryWellFormed'
      BY <2>2, <2>3, SaidBetween
    <2>5. Answering'
      <3>1. CASE Calling'
        <4>1. pos' = 1 /\ reply' = reply /\ n \in 1..MaxCalls
          BY <1>4, <2>1, <3>1 DEF Hears
        <4>2. history'[Len(history')] = Assistant(n) /\ Len(history') \in Nat \ {0}
          BY <2>2, <2>3, Saying
        <4> QED
          BY <2>1, <4>1, <4>2 DEF Answering
      <3>2. CASE ~Calling'
        BY <3>2 DEF Answering, Calling
      <3> QED
        BY <3>1, <3>2
    <2> QED
      BY <2>4, <2>5
  <1>5. CASE Answers
    BY <1>5, SaidInTurn
  <1> QED
    BY <1>1, <1>2, <1>3, <1>4, <1>5 DEF HistoryMove

(* What repl receives is settled by it, and was not before.                  *)
LEMMA SettledNow ==
  ASSUME LinesTyped, Ordered, NothingLost, QueuedOnce, NEW line \in AnyLine, Receives(line),
         UNCHANGED typed
  PROVE  Tag(line) \in Settled' \ Settled
PROOF
  <1>0. Tag(line) \in Tags
    BY KindsOfLines DEF AnyLine, Tag, Tags
  <1>1. CASE line.kind # "note"
    <2>1. line \in Lines /\ line.id \in 1..MaxTyped /\ Number(line) = {line.id}
      BY <1>1, KindsOfLines DEF AnyLine, Number
    <2>2. Tag(line) = line.id /\ Tag(line) > 0
      BY <1>1, <2>1 DEF Tag
    <2>3. Waiting = Number(line) \cup Waiting' /\ \A a \in Number(line), b \in Waiting' : a < b
      BY Received1
    <2>4. line.id \in Waiting /\ line.id \notin Waiting'
      BY <2>1, <2>3
    <2>5. line.id <= typed
      <3>1. line.id \in 1..typed
        BY <2>4 DEF NothingLost, Waiting
      <3> QED
        BY <3>1 DEF LinesTyped
    <2> QED
      BY <1>0, <2>1, <2>2, <2>4, <2>5 DEF Settled
  <1>2. CASE line.kind = "note"
    <2>1. line \in NoteLines /\ line.id \in Notes /\ line = NoteLine(line.id)
      BY <1>2, KindsOfLines DEF AnyLine
    <2>2. PICK n \in Notes : n = line.id /\ line = NoteLine(n)
      BY <2>1
    <2>3. Tag(line) = -n /\ ~(-n > 0) /\ -(-n) = n
      BY <1>2, <2>2 DEF Tag, Notes
    <2>4. note[n] # "told" /\ note'[n] = "told"
      <3>1. CASE queued # <<>> /\ line = Head(queued)
        <4>1. line = queued[1] /\ 1 \in DOMAIN queued
          BY <3>1, Removing DEF LinesTyped
        <4> QED
          BY <1>2, <2>2, <3>1, <4>1 DEF QueuedOnce, Receives
      <3>2. CASE stdin # <<>> /\ line = Head(stdin)
        BY <1>2, <3>2, Removing, KindsOfLines DEF LinesTyped
      <3>3. ASSUME NEW m \in Notes, note[m] = "ready", line = NoteLine(m),
                   note' = [note EXCEPT ![m] = "told"]
            PROVE  note[n] # "told" /\ note'[n] = "told"
        BY <2>2, <3>3, KindsOfLines DEF LinesTyped
      <3> QED
        BY <3>1, <3>2, <3>3 DEF Receives
    <2> QED
      BY <1>0, <2>3, <2>4 DEF Settled
  <1> QED
    BY <1>1, <1>2

LEMMA TagsOfText ==
  ASSUME NEW lines \in Seq(AnyLine), NEW line \in AnyLine
  PROVE  LET text == Text(Append(lines, line))
         IN /\ text \in Seq(Tags) /\ Len(text) = Len(lines) + 1 /\ Len(lines) \in Nat
            /\ DOMAIN text = 1..Len(text)
            /\ \A i \in DOMAIN text : i \in DOMAIN lines \/ i = Len(text)
            /\ \A i \in DOMAIN lines : text[i] = Tag(lines[i])
            /\ text[Len(text)] = Tag(line)
PROOF
  <1> DEFINE l == Append(lines, line)
             text == Text(l)
  <1>1. /\ l \in Seq(AnyLine) /\ Len(lines) \in Nat /\ DOMAIN lines = 1..Len(lines)
        /\ DOMAIN l = 1..(Len(lines) + 1) /\ l[Len(lines) + 1] = line
        /\ \A i \in DOMAIN lines : i \in DOMAIN l /\ l[i] = lines[i]
    BY Adding
  <1> HIDE DEF l
  <1>2. text \in Seq(Tags) /\ DOMAIN text = DOMAIN l /\ \A i \in DOMAIN l : text[i] = Tag(l[i])
    BY <1>1, TextsMade
  <1> HIDE DEF text
  <1>3. Len(text) = Len(lines) + 1
    BY <1>1, <1>2
  <1> QED
    BY <1>1, <1>2, <1>3 DEF text, l

(* Every step keeps that what was received is queued or settled.             *)
LEMMA ReceivedStays ==
  ASSUME TypeOK, Ordered, NothingLost, QueuedOnce, Received, Answering,
         LineMove, HistoryMove
  PROVE  Received'
PROOF
  <1>0. LinesTyped
    BY Parts
  <1>1. Settled \subseteq Settled'
    BY <1>0, SettledKept
  <1>2. \A i \in DOMAIN input : Tag(input[i]) \in Settled'
    BY <1>1 DEF Received
  <1>3. \A i \in DOMAIN lastPrompt : lastPrompt[i] \in Settled'
    BY <1>1 DEF Received
  <1>4. ASSUME NEW i \in DOMAIN history, history[i].role = "user"
        PROVE  \A j \in DOMAIN history[i].text : history[i].text[j] \in Settled'
    BY <1>1, <1>4 DEF Received
  <1>5. \A line \in AnyLine : Receives(line) /\ UNCHANGED typed => Tag(line) \in Settled'
    BY <1>0, SettledNow
  <1>6. \A i \in DOMAIN input' : Tag(input'[i]) \in Settled'
    <2>1. CASE input' = input
      BY <1>2, <2>1
    <2>2. CASE input' = <<>>
      BY <2>2
    <2>3. ASSUME NEW line \in AnyLine, Receives(line), UNCHANGED typed,
                 input' = Append(input, line)
          PROVE  \A i \in DOMAIN input' : Tag(input'[i]) \in Settled'
      <3>1. \A i \in DOMAIN Append(input, line) :
              \/ i \in DOMAIN input /\ Append(input, line)[i] = input[i]
              \/ Append(input, line)[i] = line
        BY <1>0, Adding DEF LinesTyped
      <3> QED
        BY <1>2, <1>5, <2>3, <3>1
    <2> QED
      BY <2>1, <2>2, <2>3 DEF LineMove, Types, Spends, Discards, Queues, Collects, Acts
  <1>7. ASSUME NEW text \in Texts, Asks(text)
        PROVE  \A j \in DOMAIN text : text[j] \in Settled'
    <2>1. CASE text = lastPrompt
      BY <1>3, <2>1
    <2>2. ASSUME NEW line \in AnyLine, Receives(line), UNCHANGED typed,
                 text = Text(Append(input, line))
          PROVE  \A j \in DOMAIN text : text[j] \in Settled'
      <3>1. /\ \A j \in DOMAIN text : j \in DOMAIN input \/ j = Len(text)
            /\ \A j \in DOMAIN input : text[j] = Tag(input[j])
            /\ text[Len(text)] = Tag(line)
        BY <1>0, <2>2, TagsOfText DEF LinesTyped
      <3> QED
        BY <1>2, <1>5, <2>2, <3>1
    <2> QED
      BY <1>7, <2>1, <2>2 DEF Asks
  <1>8. \A i \in DOMAIN lastPrompt' : lastPrompt'[i] \in Settled'
    <2>1. CASE UNCHANGED lastPrompt
      BY <1>3, <2>1
    <2>2. ASSUME NEW text \in Texts, Asks(text)
          PROVE  \A i \in DOMAIN lastPrompt' : lastPrompt'[i] \in Settled'
      BY <1>7, <2>2 DEF Asks
    <2> QED
      BY <2>1, <2>2 DEF HistoryMove, Keeps, Forgets, Hears, Answers
  <1>9. \A i \in DOMAIN history' : history'[i].role = "user" =>
          \A j \in DOMAIN history'[i].text : history'[i].text[j] \in Settled'
    <2>1. CASE UNCHANGED history
      BY <1>4, <2>1
    <2>2. CASE Forgets
      BY <2>2 DEF Forgets, Assistant
    <2>3. ASSUME NEW m \in Messages, history' = Append(history, m),
                 m.role = "user" => \A j \in DOMAIN m.text : m.text[j] \in Settled'
          PROVE  \A i \in DOMAIN history' : history'[i].role = "user" =>
                   \A j \in DOMAIN history'[i].text : history'[i].text[j] \in Settled'
      <3>1. \A i \in DOMAIN history' : \/ i \in DOMAIN history /\ history'[i] = history[i]
                                       \/ history'[i] = m
        BY <2>3, Saying
      <3> QED
        BY <1>4, <2>3, <3>1
    <2>4. ASSUME NEW text \in Texts, Asks(text)
          PROVE  /\ User(text) \in Messages /\ User(text).text = text
                 /\ history' = Append(history, User(text))
      BY <2>4, MessagesMade DEF Asks, Texts, Tags, User
    <2>5. CASE Hears
      <3>1. PICK n \in 0..MaxCalls : n = Len(reply.calls)
        BY RepliesMade DEF TypeOK
      <3>2. Assistant(n) \in Messages /\ Assistant(n).role # "user"
        BY MessagesMade DEF Assistant
      <3> QED
        BY <2>3, <2>5, <3>1, <3>2 DEF Hears
    <2>6. CASE Answers
      <3>1. PICK what \in Results : history' = Append(history, ToolResult(pos, what))
        BY <2>6 DEF Answers
      <3>2. ToolResult(pos, what) \in Messages /\ ToolResult(pos, what).role # "user"
        BY <2>6, MessagesMade, Pending DEF Answers, ToolResult
      <3> QED
        BY <2>3, <3>1, <3>2
    <2>7. CASE \E text \in Texts : Asks(text)
      BY <1>7, <2>3, <2>4, <2>7
    <2> QED
      BY <2>1, <2>2, <2>5, <2>6, <2>7 DEF HistoryMove, Keeps
  <1> QED
    BY <1>6, <1>8, <1>9 DEF Received

(* A question that is asked is not the one just asked: a new one ends in a   *)
(* line that nothing in the conversation has.                                *)
LEMMA AskedOnce ==
  ASSUME TypeOK, Ordered, NothingLost, QueuedOnce, Received, Answering, RetryAsksOnce,
         HistoryMove
  PROVE  RetryAsksOnce'
PROOF
  <1>0. LinesTyped
    BY Parts
  <1>1. CASE UNCHANGED history
    BY <1>1 DEF RetryAsksOnce
  <1>2. CASE Forgets
    BY <1>2 DEF Forgets, RetryAsksOnce
  <1>3. ASSUME NEW m \in Messages, history' = Append(history, m),
               history # <<>> /\ history[Len(history)].role = "user" =>
                 history[Len(history)] # m
        PROVE  RetryAsksOnce'
    <2>1. /\ Len(history) \in Nat
          /\ DOMAIN history = 1..Len(history) /\ DOMAIN history' = 1..(Len(history) + 1)
          /\ \A i \in 1..Len(history) : history'[i] = history[i]
          /\ history'[Len(history) + 1] = m
      BY <1>3, Saying
    <2> SUFFICES ASSUME NEW i \in DOMAIN history', i + 1 \in DOMAIN history',
                        history'[i].role = "user"
                 PROVE  history'[i + 1] # history'[i]
      BY DEF RetryAsksOnce
    <2>2. i \in 1..Len(history) /\ history'[i] = history[i]
      BY <2>1
    <2>3. CASE i + 1 \in 1..Len(history)
      BY <2>1, <2>2, <2>3 DEF RetryAsksOnce
    <2>4. CASE i = Len(history)
      BY <1>3, <2>1, <2>2, <2>4
    <2> QED
      BY <2>1, <2>2, <2>3, <2>4
  <1>4. ASSUME NEW text \in Texts, Asks(text) PROVE RetryAsksOnce'
    <2>1. User(text) \in Messages /\ User(text).text = text /\ history' = Append(history, User(text))
      BY <1>4, MessagesMade DEF Asks, Texts, Tags, User
    <2>2. ASSUME history # <<>> PROVE history[Len(history)] # User(text)
      <3>1. CASE text = lastPrompt /\ history[Len(history)] # User(text)
        BY <3>1
      <3>2. ASSUME NEW line \in AnyLine, Receives(line), UNCHANGED typed,
                   text = Text(Append(input, line)), history[Len(history)] = User(text)
            PROVE  FALSE
        <4>1. Tag(line) \notin Settled
          BY <1>0, <3>2, SettledNow
        <4>2. text[Len(text)] = Tag(line) /\ Len(text) \in DOMAIN text
          BY <1>0, <3>2, TagsOfText DEF LinesTyped
        <4>3. Len(history) \in DOMAIN history
          BY <2>2 DEF TypeOK
        <4>4. history[Len(history)].role = "user" /\ history[Len(history)].text = text
          BY <3>2 DEF User
        <4> QED
          BY <4>1, <4>2, <4>3, <4>4 DEF Received
      <3> QED
        BY <1>4, <2>2, <3>1, <3>2 DEF Asks
    <2> QED
      BY <1>3, <2>1, <2>2
  <1>5. CASE Hears
    <2>1. PICK n \in 0..MaxCalls : n = Len(reply.calls)
      BY RepliesMade DEF TypeOK
    <2>2. Assistant(n) \in Messages /\ Assistant(n).role # "user"
      BY MessagesMade DEF Assistant
    <2> QED
      BY <1>3, <1>5, <2>1, <2>2 DEF Hears
  <1>6. CASE Answers
    <2>1. PICK what \in Results : history' = Append(history, ToolResult(pos, what))
      BY <1>6 DEF Answers
    <2>2. ToolResult(pos, what) \in Messages /\ ToolResult(pos, what).role # "user"
      BY <1>6, MessagesMade, Pending DEF Answers, ToolResult
    <2> QED
      BY <1>3, <2>1, <2>2
  <1> QED
    BY <1>1, <1>2, <1>4, <1>5, <1>6 DEF HistoryMove, Keeps

-----------------------------------------------------------------------------
(* The rest of the types, and the invariant. *)

(* An answer keeps the types of the turn.                                    *)
LEMMA TurnAnswered ==
  ASSUME TypeOK, Calling, NEW what, AnswerCall(what)
  PROVE  /\ main' \in Mains /\ round' \in 0..MaxTurns - 1 /\ pos' \in 0..MaxCalls
         /\ watcher' \in {"off", "on", "stats", "cut"} /\ reply' \in Replies
         /\ ctx' \in {"live", "cancelled", "expired"} /\ ear' \in BOOLEAN
         /\ signals' \in BOOLEAN /\ pressed' \in 0..MaxSignals
PROOF
  <1>1. Len(reply.calls) \in 0..MaxCalls /\ NoReply \in Replies /\ reply \in Replies
    BY RepliesMade DEF TypeOK
  <1>2. CASE /\ pos < Len(reply.calls) /\ main' = "calls" /\ pos' = pos + 1
             /\ UNCHANGED <<watcher, round, reply, ctlVars>>
    <2>1. pos' \in 0..MaxCalls
      <3>1. pos \in 0..MaxCalls
        BY DEF TypeOK
      <3> QED
        BY <1>1, <1>2, <3>1, ConsoleAssumption
    <2> QED
      BY <1>1, <1>2, <2>1 DEF TypeOK, Mains, ctlVars
  <1>3. CASE EndTurn
    <2>1. 0 \in 0..MaxTurns - 1 /\ 0 \in 0..MaxCalls
      BY ConsoleAssumption
    <2> QED
      BY <1>1, <1>3, <2>1 DEF EndTurn, StopListening, TypeOK, Mains
  <1>4. CASE ~LastRound /\ CallModel /\ round' = round + 1 /\ UNCHANGED ctlVars
    <2>1. round' \in 0..MaxTurns - 1
      <3>1. round \in 0..MaxTurns - 1
        BY DEF TypeOK
      <3> QED
        BY <1>4, <3>1, ConsoleAssumption DEF LastRound
    <2>2. 0 \in 0..MaxCalls
      BY ConsoleAssumption
    <2> QED
      BY <1>1, <1>4, <2>1, <2>2 DEF CallModel, TypeOK, Mains, ctlVars
  <1> QED
    BY <1>2, <1>3, <1>4 DEF AnswerCall

(* So does a line that is submitted.                                         *)
LEMMA TurnSubmitted ==
  ASSUME TypeOK, main = "prompt", NEW lines, Submit(lines)
  PROVE  /\ main' \in Mains /\ allowed' \subseteq Tools
         /\ round' \in 0..MaxTurns - 1 /\ pos' \in 0..MaxCalls
         /\ watcher' \in {"off", "on", "stats", "cut"} /\ reply' \in Replies
         /\ ctx' \in {"live", "cancelled", "expired"} /\ ear' \in BOOLEAN
         /\ signals' \in BOOLEAN /\ pressed' \in 0..MaxSignals
PROOF
  <1>1. 0 \in 0..MaxTurns - 1 /\ 0 \in 0..MaxCalls /\ NoReply \in Replies
    BY ConsoleAssumption, RepliesMade
  <1>2. CASE ContinueTurn /\ UNCHANGED allowed
    BY <1>1, <1>2 DEF ContinueTurn, CallModel, ListenForSignals, TypeOK, Mains
  <1>3. CASE UNCHANGED <<watcher, allowed, round, reply, pos, ctlVars>> /\ main' \in {"prompt", "quit"}
    BY <1>3 DEF TypeOK, Mains, ctlVars
  <1>4. CASE /\ UNCHANGED <<watcher, allowed, round, reply, pos>> /\ ListenForSignals
             /\ main' \in {"stats", "compress"}
    BY <1>4 DEF TypeOK, Mains, ListenForSignals
  <1>5. \/ ContinueTurn /\ UNCHANGED allowed
        \/ UNCHANGED <<watcher, allowed, round, reply, pos, ctlVars>> /\ main' \in {"prompt", "quit"}
        \/ /\ UNCHANGED <<watcher, allowed, round, reply, pos>> /\ ListenForSignals
           /\ main' \in {"stats", "compress"}
    <2>2. CASE Retry
      BY <2>2 DEF Retry, RunTurn, turnVars
    <2>3. CASE RunTurn(Text(lines))
      BY <2>3 DEF RunTurn
    <2>4. CASE Command(Head(lines).kind) /\ ~Retry
      BY <2>4 DEF Command, turnVars
    <2> QED
      BY <2>2, <2>3, <2>4 DEF Submit
  <1> QED
    BY <1>2, <1>3, <1>4, <1>5

(* Every step keeps the types of the turn, the reply and the rest.           *)
LEMMA RestKept ==
  ASSUME TypeOK, Answering, Next
  PROVE  TurnTyped' /\ ReplyTyped' /\ RestTyped'
PROOF
  <1> USE DEF TurnTyped, ReplyTyped, RestTyped, turnVars, ctlVars, inVars, logVars
  <1>0. TurnTyped /\ ReplyTyped /\ RestTyped
    BY Parts
  <1>1. CASE \/ EndOfInput \/ ReadInputCloses \/ EarCatchesSignal \/ WallclockExpires
             \/ \E n \in Notes : ProcessEnds(n) \/ NoteSendPanics(n)
    BY <1>0, <1>1, ZenonT(40) DEF EndOfInput, ReadInputCloses, EarCatchesSignal, WallclockExpires,
                      ProcessEnds, NoteSendPanics
  <1>2. CASE CtrlC
    <2>1. pressed' \in 0..MaxSignals
      <3>1. pressed \in 0..MaxSignals
        BY <1>0
      <3> QED
        BY <1>2, <3>1, ConsoleAssumption DEF CtrlC
    <2> QED
      BY <1>0, <1>2, <2>1 DEF CtrlC
  <1>3. ASSUME NEW kind \in LineKinds, Type(kind) PROVE TurnTyped' /\ ReplyTyped' /\ RestTyped'
    BY <1>0, <1>3 DEF Type
  <1>4. CASE Watcher
    BY <1>0, <1>4 DEF Watcher, WatcherReceives, WatcherSeesClosed, WatcherStops,
                      StatsCatchesSignal, StatsEnds
  <1>5. CASE ReplReceives
    <2>1. UNCHANGED <<eof, closed, panicked>> /\ main = "prompt"
      BY <1>5 DEF ReplReceives
    <2>2. UNCHANGED <<main, watcher, turnVars, ctlVars>> \/ \E lines : Submit(lines)
      BY <1>5 DEF ReplReceives
    <2> QED
      BY <1>0, <2>1, <2>2, TurnSubmitted
  <1>6. CASE ReplSeesClosed \/ ReplInterrupted
    BY <1>0, <1>6 DEF ReplSeesClosed, ReplInterrupted, Mains
  <1>7. CASE CommandEnds
    BY <1>0, <1>7 DEF CommandEnds, StopListening, Mains
  <1>8. CASE ModelReturns(Replies)
    BY <1>0, <1>8 DEF ModelReturns, Mains
  <1>9. CASE HandleReply
    <2>1. CASE reply.calls = <<>>
      <3>1. EndTurn /\ UNCHANGED <<eof, closed, panicked, allowed>>
        BY <1>9, <2>1 DEF HandleReply
      <3>2. 0 \in 0..MaxTurns - 1 /\ 0 \in 0..MaxCalls /\ NoReply \in Replies
        BY ConsoleAssumption, RepliesMade
      <3> QED
        BY <1>0, <3>1, <3>2 DEF EndTurn, StopListening, Mains
    <2>2. CASE reply.calls # <<>>
      <3>1. 1 \in 0..MaxCalls
        <4>1. Len(reply.calls) \in 0..MaxCalls /\ Len(reply.calls) # 0
          BY <2>2, RepliesMade DEF TypeOK
        <4> QED
          BY <4>1, ConsoleAssumption
      <3> QED
        BY <1>0, <1>9, <2>2, <3>1 DEF HandleReply, Mains
    <2> QED
      BY <2>1, <2>2
  <1>10. CASE CallProceeds
    BY <1>0, <1>10 DEF CallProceeds, Mains
  <1>11. CASE CallNotRun \/ PermitGivesUp \/ ToolEnds
    <2>1. /\ UNCHANGED <<eof, closed, panicked, allowed>>
          /\ Calling /\ \E what : AnswerCall(what)
      BY <1>11 DEF CallNotRun, PermitGivesUp, ToolEnds, Calling
    <2> QED
      BY <1>0, <2>1, TurnAnswered
  <1>12. CASE PermitAnswered
    <2>1. UNCHANGED <<eof, closed, panicked>> /\ Calling
      BY <1>12 DEF PermitAnswered, Calling
    <2>2. CASE /\ main' = "tool" /\ allowed' \subseteq allowed \cup {Tool}
               /\ UNCHANGED <<watcher, history, lastPrompt, round, reply, pos, ctlVars>>
      <3>1. Tool \in Tools
        BY <2>1, Pending, RepliesMade DEF Tool, TypeOK
      <3> QED
        BY <1>0, <2>1, <2>2, <3>1 DEF Mains
    <2>3. CASE AnswerCall("declined") /\ UNCHANGED allowed
      BY <1>0, <2>1, <2>3, TurnAnswered
    <2> QED
      BY <1>12, <2>2, <2>3 DEF PermitAnswered
  <1> QED
    BY <1>1, <1>2, <1>3, <1>4, <1>5, <1>6, <1>7, <1>8, <1>9, <1>10, <1>11, <1>12
       DEF Next, Environment, Repl, Turn

(* The invariant holds at first.                                             *)
LEMMA InitHolds == Init => IInv
PROOF
  <1> SUFFICES ASSUME Init PROVE IInv
    OBVIOUS
  <1>1. LinesTyped /\ TextsTyped
    <2>1. 0 \in 0..MaxTyped
      BY ConsoleAssumption
    <2>2. <<>> \in Seq(AnyLine) /\ <<>> \in Seq(Lines) /\ <<>> \in Seq(Tags) /\ <<>> \in Seq(Messages)
      OBVIOUS
    <2>3. [n \in Notes |-> "none"]
            \in [Notes -> {"none", "running", "ready", "queued", "told", "answer"}]
      OBVIOUS
    <2> QED
      BY <2>1, <2>2, <2>3 DEF Init, LinesTyped, TextsTyped
  <1>2. TurnTyped /\ ReplyTyped /\ RestTyped
    <2>1. 0 \in 0..MaxTurns - 1 /\ 0 \in 0..MaxCalls /\ 0 \in 0..MaxSignals /\ NoReply \in Replies
      BY RepliesMade, ConsoleAssumption
    <2> QED
      BY <2>1 DEF Init, TurnTyped, ReplyTyped, RestTyped, Mains
  <1>3. SingleReader /\ Answering
    BY DEF Init, SingleReader, Answering
  <1>4. TypedOrder /\ NothingLost
    BY DEF Init, TypedOrder, NothingLost, IdsOf, ActedIds
  <1>5. Ordered
    BY DEF Init, Ordered, Increasing, IdsOf, ActedIds
  <1>6. QueuedOnce /\ Received /\ HistoryWellFormed /\ RetryAsksOnce
    BY DEF Init, QueuedOnce, Received, HistoryWellFormed, RetryAsksOnce
  <1>7. TypeOK
    BY <1>1, <1>2, Parts
  <1> QED
    BY <1>3, <1>4, <1>5, <1>6, <1>7 DEF IInv, TypedKept

(* Every step keeps it.                                                      *)
LEMMA StepHolds == IInv /\ [Next]_vars => IInv'
PROOF
  <1> SUFFICES ASSUME IInv, [Next]_vars PROVE IInv'
    OBVIOUS
  <1>1. CASE Next
    <2>1. /\ TypeOK /\ TypedOrder /\ NothingLost /\ Ordered /\ QueuedOnce /\ Received
          /\ HistoryWellFormed /\ Answering /\ RetryAsksOnce /\ SingleReader
      BY DEF IInv, TypedKept
    <2>2. LinesTyped
      BY <2>1, Parts
    <2>3. LineMove /\ HistoryMove
      BY <1>1, <2>1, Moves, Speaks
    <2>4. LinesTyped' /\ Ordered' /\ TypedOrder' /\ NothingLost'
      BY <2>1, <2>2, <2>3, LinesKept
    <2>5. TurnTyped' /\ ReplyTyped' /\ RestTyped' /\ TextsTyped'
      BY <1>1, <2>1, <2>3, RestKept, TextsKept
    <2>6. TypeOK'
      BY <2>4, <2>5 DEF TypeOK, LinesTyped, TextsTyped, TurnTyped, ReplyTyped, RestTyped,
                        AnyLine, Texts, Tags
    <2>7. QueuedOnce' /\ Received'
      BY <2>1, <2>2, <2>3, QueuedKept, ReceivedStays
    <2>8. HistoryWellFormed' /\ Answering' /\ RetryAsksOnce'
      BY <2>1, <2>3, ConversationKept, AskedOnce
    <2>9. SingleReader'
      BY <1>1, <2>1, SingleReaderStep
    <2> QED
      BY <2>4, <2>6, <2>7, <2>8, <2>9 DEF IInv, TypedKept
  <1>2. CASE UNCHANGED vars
    <2>1. /\ UNCHANGED <<main, input, queued, stdin, eof, closed, typed, note, watcher, history,
                         lastPrompt, allowed, round>>
          /\ UNCHANGED <<reply, pos, ctx, ear, signals, pressed, acted, spent, panicked>>
      BY <1>2 DEF vars, inVars, turnVars, ctlVars, logVars
    <2>2. Waiting' = Waiting /\ ActedIds' = ActedIds /\ IdsOf(input)' = IdsOf(input)
          /\ IdsOf(queued)' = IdsOf(queued) /\ IdsOf(stdin)' = IdsOf(stdin) /\ Settled' = Settled
      BY <2>1 DEF Waiting, ActedIds, Settled
    <2>3. TypeOK' /\ TypedOrder' /\ NothingLost' /\ Ordered' /\ QueuedOnce'
      BY <2>1, <2>2 DEF IInv, TypedKept, TypeOK, TypedOrder, NothingLost, Ordered, QueuedOnce
    <2>4. Received' /\ HistoryWellFormed' /\ Answering' /\ RetryAsksOnce' /\ SingleReader'
      BY <2>1, <2>2 DEF IInv, Received, HistoryWellFormed, Answering, RetryAsksOnce, SingleReader
    <2> QED
      BY <2>3, <2>4 DEF IInv, TypedKept
  <1> QED
    BY <1>1, <1>2

(* The lines typed, the conversation and the question that /retry would ask  *)
(* are always as the properties need them (AgentConsole).                    *)
THEOREM Invariance == Spec => []IInv
  BY InitHolds, StepHolds, PTL DEF Spec

(* Of the lines typed at the console none is lost and none overtakes another *)
(* on its way to repl, however many readers a.lines has had since            *)
(* (readInput, hotCommand, repl).                                            *)
THEOREM NoLineLost == Spec => []TypedKept
  <1>1. IInv => TypedKept
    BY DEF IInv
  <1> QED
    BY <1>1, Invariance, PTL

(* Each tool call of the model is followed by its result, in its order and   *)
(* once, and a turn leaves none open (continueTurn).                         *)
THEOREM EveryCallAnswered == Spec => []HistoryWellFormed
  <1>1. IInv => HistoryWellFormed
    BY DEF IInv
  <1> QED
    BY <1>1, Invariance, PTL

(* No prompt is followed by itself: /retry continues the one that has had no *)
(* reply (repl).                                                             *)
THEOREM AsksOnce == Spec => []RetryAsksOnce
  <1>1. IInv => RetryAsksOnce
    BY DEF IInv
  <1> QED
    BY <1>1, Invariance, PTL
=============================================================================
