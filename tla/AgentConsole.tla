----------------------------- MODULE AgentConsole -----------------------------
(***************************************************************************)
(* The console of `codemcp agent` (agent.go): one goroutine runs the       *)
(* prompt (repl) and the model/tool loop of a turn (continueTurn, permit); *)
(* others feed it and compete with it for the channel a.lines - readInput  *)
(* with what is typed, the watcher of watchForHotCommands while the model  *)
(* is answering, and one goroutine per background process that was started *)
(* with notify (watchForProcessCompletion) - or for a.signals, the         *)
(* goroutines of interruptible.                                            *)
(*                                                                         *)
(* A line is a record: what it says as far as its readers tell it apart,   *)
(* and its number.  What the model says, what tools do and what is printed *)
(* are left out; the end of a background process is an input here, and the *)
(* subject of ProcessRegistry.                                             *)
(***************************************************************************)
EXTENDS Integers, Sequences, FiniteSets

CONSTANTS
  LineKinds,   (* what the user types, a subset of AllKinds                  *)
  Tools,       (* what the model calls, a subset of AllTools                 *)
  MaxTyped,    (* bound of the model: lines the user types                   *)
  MaxNotes,    (* bound of the model: processes started with notify          *)
  MaxSignals,  (* bound of the model: times Ctrl-C is pressed                *)
  MaxTurns,    (* a.maxTurns: model/tool round trips of one turn             *)
  MaxCalls,    (* bound of the model: tool calls of one reply                *)
  Wallclock    (* whether a.wallclock bounds a turn                          *)

(* "text" is a prompt, and a reason when it answers a question; "partial"    *)
(* ends in a backslash; "hot" stands for the commands in hotCommands that    *)
(* end at once and "stats" for /stats, which may take its time; the others   *)
(* are answers or commands by name.                                          *)
AllKinds == {"text", "partial", "yes", "always", "hot", "stats", "retry",
             "clear", "compress", "exit"}
Commands == {"hot", "stats", "retry", "clear", "compress", "exit"}

(* "read" runs without asking, "write" asks, and "start" asks and leaves a   *)
(* process whose end the model wants to hear of.                             *)
AllTools == {"read", "write", "start"}

ASSUME ConsoleAssumption ==
  /\ LineKinds \subseteq AllKinds
  /\ Tools \subseteq AllTools
  /\ MaxTyped \in Nat
  /\ MaxNotes \in Nat
  /\ MaxSignals \in Nat
  /\ MaxTurns \in Nat \ {0}
  /\ MaxCalls \in Nat
  /\ Wallclock \in BOOLEAN

Lines == [kind : LineKinds, id : 1..MaxTyped]
Notes == 1..MaxNotes
NoteLine(n) == [kind |-> "note", id |-> n]
NoteLines == {NoteLine(n) : n \in Notes}

VARIABLES
  main,      (* where the main goroutine is                                  *)
  input,     (* the lines repl has collected of the prompt being typed       *)
  queued,    (* a.queuedLines                                                *)
  stdin,     (* lines typed and not yet received: readInput offers the first *)
  eof,       (* whether the terminal has been closed                         *)
  closed,    (* whether readInput has closed a.lines                         *)
  typed,     (* how many lines have been typed                               *)
  note,      (* of each process started with notify: "none", "running",      *)
             (* "ready" (its goroutine is sending), "queued", "told" or      *)
             (* "answer"                                                     *)
  watcher,   (* "off", "on", or "stats" while it runs /stats                 *)
  history,   (* a.history                                                    *)
  lastPrompt,(* a.lastPrompt                                                 *)
  allowed,   (* a.allowed                                                    *)
  round,     (* continueTurn's turn counter                                  *)
  reply,     (* what the model returned, while the main goroutine handles it *)
  pos,       (* which of its tool calls is being handled                     *)
  ctx,       (* the turn's context: "live", "cancelled" or "expired"         *)
  ear,       (* whether interruptible's goroutine of the turn still listens  *)
  signals,   (* whether a Ctrl-C is in a.signals                             *)
  pressed,   (* how often Ctrl-C was pressed                                 *)
  acted,     (* the lines repl acted on, in that order, as history has them  *)
  spent,     (* numbers of the lines that went elsewhere: hot commands run,  *)
             (* answers given, text discarded by Ctrl-C                      *)
  panicked   (* whether a send on the closed a.lines ended the program       *)

inVars   == <<stdin, eof, closed, typed>>
turnVars == <<history, lastPrompt, allowed, round, reply, pos>>
ctlVars  == <<ctx, ear, signals, pressed>>
logVars  == <<acted, spent>>
vars == <<main, input, queued, inVars, note, watcher, turnVars, ctlVars,
          logVars, panicked>>

User(text) == [role |-> "user", text |-> text]
Assistant(n) == [role |-> "assistant", calls |-> n]
ToolResult(k, what) == [role |-> "tool", call |-> k, result |-> what]

NoReply == [ok |-> FALSE, calls |-> <<>>, cut |-> FALSE]

Init ==
  /\ main = "prompt"
  /\ input = <<>>
  /\ queued = <<>>
  /\ stdin = <<>>
  /\ eof = FALSE
  /\ closed = FALSE
  /\ typed = 0
  /\ note = [n \in Notes |-> "none"]
  /\ watcher = "off"
  /\ history = <<>>
  /\ lastPrompt = <<>>
  /\ allowed = {}
  /\ round = 0
  /\ reply = NoReply
  /\ pos = 0
  /\ ctx = "live"
  /\ ear = FALSE
  /\ signals = FALSE
  /\ pressed = 0
  /\ acted = <<>>
  /\ spent = {}
  /\ panicked = FALSE

Alive == main # "quit" /\ ~panicked
InTurn == main \in {"model", "stopping", "calls", "permit", "tool"}
Busy == main \in {"compress", "stats"}

Mains == {"prompt", "model", "stopping", "calls", "permit", "tool",
          "compress", "stats", "quit"}

-----------------------------------------------------------------------------
(* What happens to the console: typing, Ctrl-C, processes that end. *)

Type(kind) ==
  /\ Alive
  /\ ~eof
  /\ typed < MaxTyped
  /\ typed' = typed + 1
  /\ stdin' = Append(stdin, [kind |-> kind, id |-> typed'])
  /\ UNCHANGED <<main, input, queued, eof, closed, note, watcher, turnVars,
                 ctlVars, logVars, panicked>>

EndOfInput ==
  /\ Alive
  /\ ~eof
  /\ eof' = TRUE
  /\ UNCHANGED <<main, input, queued, stdin, closed, typed, note, watcher,
                 turnVars, ctlVars, logVars, panicked>>

(* readInput closes a.lines once everything typed has been received.         *)
ReadInputCloses ==
  /\ Alive
  /\ eof /\ stdin = <<>> /\ ~closed
  /\ closed' = TRUE
  /\ UNCHANGED <<main, input, queued, stdin, eof, typed, note, watcher,
                 turnVars, ctlVars, logVars, panicked>>

(* a.signals holds one Ctrl-C; signal.Notify drops what does not fit.        *)
CtrlC ==
  /\ Alive
  /\ pressed < MaxSignals
  /\ pressed' = pressed + 1
  /\ signals' = TRUE
  /\ UNCHANGED <<main, input, queued, inVars, note, watcher, turnVars, ctx,
                 ear, logVars, panicked>>

ProcessEnds(n) ==
  /\ Alive
  /\ note[n] = "running"
  /\ note' = [note EXCEPT ![n] = "ready"]
  /\ UNCHANGED <<main, input, queued, inVars, watcher, turnVars, ctlVars,
                 logVars, panicked>>

(* A send on a closed channel panics.                                        *)
NoteSendPanics(n) ==
  /\ Alive
  /\ note[n] = "ready" /\ closed
  /\ panicked' = TRUE
  /\ UNCHANGED <<main, input, queued, inVars, note, watcher, turnVars,
                 ctlVars, logVars>>

-----------------------------------------------------------------------------
(* The unbuffered channel a.lines: whoever receives takes one sender's line. *)
Offers ==
  IF closed THEN {}
  ELSE {stdin[i] : i \in DOMAIN stdin \cap {1}}
         \cup {NoteLine(n) : n \in {m \in Notes : note[m] = "ready"}}

Take(line, becomes) ==
  IF line.kind = "note"
  THEN note' = [note EXCEPT ![line.id] = becomes] /\ UNCHANGED stdin
  ELSE stdin' = Tail(stdin) /\ UNCHANGED note

IdsOf(lines) == {lines[i].id : i \in {j \in DOMAIN lines : lines[j].kind # "note"}}

-----------------------------------------------------------------------------
(* The watcher of watchForHotCommands, around the call of the model. *)

EnqueueFirst(line) == <<line>> \o queued  \* mutant: last in, first out
Enqueue(line) == Append(queued, line)

(* hotCommand: run it, or queue the line for repl.                           *)
WatcherReceives ==
  /\ Alive
  /\ watcher = "on"
  /\ \E line \in Offers :
       \/ /\ line.kind \in {"hot", "stats"}
          /\ Take(line, "told")
          /\ watcher' = IF line.kind = "stats" THEN "stats" ELSE "on"
          /\ spent' = spent \cup {line.id}
          /\ UNCHANGED queued
       \/ /\ line.kind \notin {"hot", "stats"}
          /\ Take(line, "queued")
          /\ queued' = Enqueue(line)
          /\ UNCHANGED <<watcher, spent>>
  /\ UNCHANGED <<main, input, eof, closed, typed, turnVars, ctlVars, acted,
                 panicked>>

WatcherSeesClosed ==
  /\ Alive
  /\ watcher = "on" /\ closed
  /\ watcher' = "off"
  /\ UNCHANGED <<main, input, queued, inVars, note, turnVars, ctlVars,
                 logVars, panicked>>

(* stop closes done; the watcher leaves when it next selects.                *)
WatcherStops ==
  /\ Alive
  /\ main = "stopping" /\ watcher = "on"
  /\ watcher' = "off"
  /\ UNCHANGED <<main, input, queued, inVars, note, turnVars, ctlVars,
                 logVars, panicked>>

(* /stats listens for Ctrl-C through an interruptible of its own.            *)
StatsCatchesSignal ==
  /\ Alive
  /\ watcher = "stats" /\ signals
  /\ watcher' = "cut"
  /\ signals' = FALSE
  /\ UNCHANGED <<main, input, queued, inVars, note, turnVars, ctx, ear,
                 pressed, logVars, panicked>>

StatsEnds ==
  /\ Alive
  /\ watcher \in {"stats", "cut"}
  /\ watcher' = "on"
  /\ UNCHANGED <<main, input, queued, inVars, note, turnVars, ctlVars,
                 logVars, panicked>>

-----------------------------------------------------------------------------
(* interruptible, and the ends of a turn. *)

ListenForSignals == ctx' = "live" /\ ear' = TRUE /\ UNCHANGED <<signals, pressed>>

(* The returned func closes done; a Ctrl-C already in a.signals may still be *)
(* the one the goroutine's select picks.                                     *)
StopListening ==
  /\ ctx' = "live"
  /\ ear' = FALSE
  /\ signals' \in {signals} \cup (IF ear THEN {FALSE} ELSE {})
  /\ UNCHANGED pressed

EarCatchesSignal ==
  /\ Alive
  /\ ear /\ signals
  /\ ctx' = IF ctx = "live" THEN "cancelled" ELSE ctx
  /\ ear' = FALSE
  /\ signals' = FALSE
  /\ UNCHANGED <<main, input, queued, inVars, note, watcher, turnVars,
                 pressed, logVars, panicked>>

WallclockExpires ==
  /\ Alive
  /\ Wallclock /\ InTurn /\ ctx = "live"
  /\ ctx' = "expired"
  /\ UNCHANGED <<main, input, queued, inVars, note, watcher, turnVars, ear,
                 signals, pressed, logVars, panicked>>

(* continueTurn's return to repl.                                            *)
EndTurn ==
  /\ main' = "prompt"
  /\ StopListening
  /\ round' = 0 /\ reply' = NoReply /\ pos' = 0
  /\ UNCHANGED watcher

CallModel == main' = "model" /\ watcher' = "on" /\ reply' = NoReply /\ pos' = 0

-----------------------------------------------------------------------------
(* repl and its commands. *)

(* continueTurn, at its first round.                                         *)
ContinueTurn ==
  /\ CallModel
  /\ ListenForSignals
  /\ round' = 0

RunTurn(text) ==
  /\ lastPrompt' = text
  /\ history' = Append(history, User(text))
  /\ ContinueTurn
  /\ UNCHANGED allowed

RetryAgain ==  \* mutant: the question is always asked anew
  IF lastPrompt = <<>> THEN UNCHANGED <<main, watcher, turnVars, ctlVars>>
  ELSE RunTurn(lastPrompt)
(* /retry: a prompt that never got a reply is continued, not asked again.    *)
Retry ==
  IF lastPrompt = <<>> THEN UNCHANGED <<main, watcher, turnVars, ctlVars>>
  ELSE IF history # <<>> /\ history[Len(history)] = User(lastPrompt)
  THEN ContinueTurn /\ UNCHANGED <<history, lastPrompt, allowed>>
  ELSE RunTurn(lastPrompt)

Command(kind) ==
  \/ kind = "exit" /\ main' = "quit" /\ UNCHANGED <<watcher, turnVars, ctlVars>>
  \/ /\ kind = "clear"
     /\ history' = <<>>
     /\ UNCHANGED <<main, watcher, lastPrompt, allowed, round, reply, pos,
                    ctlVars>>
  \/ kind = "retry" /\ Retry
  \/ kind = "hot" /\ UNCHANGED <<main, watcher, turnVars, ctlVars>>
  \/ /\ kind \in {"stats", "compress"}
     /\ main' = kind
     /\ ListenForSignals
     /\ UNCHANGED <<watcher, turnVars>>

(* What history keeps of a line: its number, negative for a notification.    *)
Tag(line) == IF line.kind = "note" THEN -line.id ELSE line.id
Text(lines) == [i \in DOMAIN lines |-> Tag(lines[i])]

Submit(lines) ==
  /\ input' = <<>>
  /\ acted' = acted \o Text(lines)
  /\ IF Head(lines).kind \in Commands
     THEN Command(Head(lines).kind)
     ELSE RunTurn(Text(lines))

(* A queued line goes before anything new is received.                       *)
ReplReceives ==
  /\ Alive
  /\ main = "prompt"
  /\ \E line \in IF queued # <<>> THEN {Head(queued)} ELSE Offers :
       /\ IF queued # <<>>
          THEN /\ queued' = Tail(queued)
               /\ note' = [n \in Notes |->
                             IF line = NoteLine(n) THEN "told" ELSE note[n]]
               /\ UNCHANGED stdin
          ELSE Take(line, "told") /\ UNCHANGED queued
       /\ IF line.kind = "partial"
          THEN /\ input' = Append(input, line)
               /\ UNCHANGED <<main, watcher, turnVars, ctlVars, acted>>
          ELSE Submit(Append(input, line))
  /\ UNCHANGED <<eof, closed, typed, spent, panicked>>

ReplSeesClosed ==
  /\ Alive
  /\ main = "prompt" /\ queued = <<>> /\ closed
  /\ main' = "quit"
  /\ UNCHANGED <<input, queued, inVars, note, watcher, turnVars, ctlVars,
                 logVars, panicked>>

(* Ctrl-C discards what is typed; at an empty prompt it quits.               *)
ReplInterrupted ==
  /\ Alive
  /\ main = "prompt" /\ queued = <<>> /\ signals
  /\ signals' = FALSE
  /\ main' = IF input = <<>> THEN "quit" ELSE "prompt"
  /\ input' = <<>>
  /\ spent' = spent \cup IdsOf(input)
  /\ UNCHANGED <<queued, inVars, note, watcher, turnVars, ctx, ear, pressed,
                 acted, panicked>>

(* /compress and /stats at the prompt end; a summary the model did return    *)
(* replaces the history.                                                     *)
CommandEnds ==
  /\ Alive
  /\ Busy
  /\ main' = "prompt"
  /\ \/ UNCHANGED history
     \/ main = "compress" /\ history # <<>> /\ history' = <<Assistant(0)>>
  /\ StopListening
  /\ UNCHANGED <<input, queued, inVars, note, watcher, lastPrompt, allowed,
                 round, reply, pos, logVars, panicked>>

-----------------------------------------------------------------------------
(* The model/tool loop of continueTurn. *)

Replies ==
  {r \in [ok : BOOLEAN, calls : UNION {[1..n -> Tools] : n \in 0..MaxCalls},
          cut : BOOLEAN] :
     /\ r.cut => r.calls # <<>>
     /\ ~r.ok => r = NoReply}

ModelReturns(replies) ==
  /\ Alive
  /\ main = "model"
  /\ \E r \in replies : reply' = r
  /\ main' = "stopping"
  /\ UNCHANGED <<input, queued, inVars, note, watcher, history, lastPrompt,
                 allowed, round, pos, ctlVars, logVars, panicked>>

WatcherTold == watcher \in {"on", "off"}  \* mutant: stop does not wait
(* stopWatching returns only when the watcher is gone.                       *)
WatcherStopped == watcher = "off"

HandleReply ==
  /\ Alive
  /\ main = "stopping" /\ WatcherStopped
  /\ history' = IF reply.ok THEN Append(history, Assistant(Len(reply.calls)))
                ELSE history
  /\ IF reply.calls = <<>> THEN EndTurn
     ELSE /\ main' = "calls"
          /\ pos' = 1
          /\ UNCHANGED <<watcher, round, reply, ctlVars>>
  /\ UNCHANGED <<input, queued, inVars, note, lastPrompt, allowed, logVars,
                 panicked>>

LastRound == round + 1 >= MaxTurns

(* The result of a call enters history, and the loop goes on.                *)
AnswerCall(what) ==
  /\ history' = Append(history, ToolResult(pos, what))
  /\ IF pos < Len(reply.calls)
     THEN /\ main' = "calls" /\ pos' = pos + 1
          /\ UNCHANGED <<watcher, round, reply, ctlVars>>
     ELSE IF ctx # "live" \/ LastRound
     THEN EndTurn
     ELSE CallModel /\ round' = round + 1 /\ UNCHANGED ctlVars
  /\ UNCHANGED lastPrompt

Tool == reply.calls[pos]
CutShort == reply.cut /\ pos = Len(reply.calls)

CallDropped ==  \* mutant: Ctrl-C leaves the rest of the calls unanswered
  /\ Alive
  /\ main = "calls"
  /\ \/ ctx # "live" /\ EndTurn /\ UNCHANGED <<history, lastPrompt>>
     \/ ctx = "live" /\ AnswerCall("refused")
  /\ UNCHANGED <<input, queued, inVars, note, allowed, logVars, panicked>>
(* A call that is not run: the turn is over, or the reply was cut off in it, *)
(* or it names no tool or carries no valid JSON, which any call may.         *)
CallNotRun ==
  /\ Alive
  /\ main = "calls"
  /\ \/ ctx # "live" /\ AnswerCall("cancelled")
     \/ ctx = "live" /\ AnswerCall("refused")
  /\ UNCHANGED <<input, queued, inVars, note, allowed, logVars, panicked>>

CallProceeds ==
  /\ Alive
  /\ main = "calls"
  /\ ctx = "live" /\ ~CutShort
  /\ IF Tool = "read" \/ Tool \in allowed
     THEN main' = "tool"
     ELSE main' = "permit"
  /\ UNCHANGED <<input, queued, inVars, note, watcher, turnVars, ctlVars,
                 logVars, panicked>>

(* permit: the first line received is the answer.                            *)
PermitAnswered ==
  /\ Alive
  /\ main = "permit"
  /\ \E line \in Offers :
       /\ Take(line, "answer")
       /\ spent' = spent \cup (IF line.kind = "note" THEN {} ELSE {line.id})
       /\ IF line.kind \in {"yes", "always"}
          THEN /\ main' = "tool"
               /\ allowed' = IF line.kind = "always" THEN allowed \cup {Tool}
                             ELSE allowed
               /\ UNCHANGED <<watcher, history, lastPrompt, round, reply, pos,
                              ctlVars>>
          ELSE AnswerCall("declined") /\ UNCHANGED allowed
  /\ UNCHANGED <<input, queued, eof, closed, typed, acted, panicked>>

PermitWaits ==  \* mutant: the question outlives the turn
  /\ Alive
  /\ main = "permit"
  /\ closed
  /\ AnswerCall("declined")
  /\ UNCHANGED <<input, queued, inVars, note, allowed, logVars, panicked>>
(* An unanswered question ends with the turn or the terminal.                *)
PermitGivesUp ==
  /\ Alive
  /\ main = "permit"
  /\ ctx # "live" \/ closed
  /\ AnswerCall("declined")
  /\ UNCHANGED <<input, queued, inVars, note, allowed, logVars, panicked>>

(* The tool returned a result or failed; a process it started with notify    *)
(* that outlives the call gets a goroutine that waits for it.                *)
ToolEnds ==
  /\ Alive
  /\ main = "tool"
  /\ \/ UNCHANGED note /\ AnswerCall("ran")
     \/ /\ Tool = "start"
        /\ \E n \in Notes :
             note[n] = "none" /\ note' = [note EXCEPT ![n] = "running"]
        /\ AnswerCall("ran")
  /\ UNCHANGED <<input, queued, inVars, allowed, logVars, panicked>>

-----------------------------------------------------------------------------

Environment ==
  \/ \E kind \in LineKinds : Type(kind)
  \/ EndOfInput
  \/ CtrlC
  \/ \E n \in Notes : ProcessEnds(n)

Watcher ==
  \/ WatcherReceives
  \/ WatcherSeesClosed
  \/ WatcherStops
  \/ StatsCatchesSignal
  \/ StatsEnds

Repl ==
  \/ ReplReceives
  \/ ReplSeesClosed
  \/ ReplInterrupted
  \/ CommandEnds

Turn ==
  \/ HandleReply
  \/ CallNotRun
  \/ CallProceeds
  \/ PermitAnswered
  \/ PermitGivesUp
  \/ ToolEnds

Next ==
  \/ Environment
  \/ ReadInputCloses
  \/ \E n \in Notes : NoteSendPanics(n)
  \/ EarCatchesSignal
  \/ WallclockExpires
  \/ Watcher
  \/ Repl
  \/ ModelReturns(Replies)
  \/ Turn

Spec == Init /\ [][Next]_vars

(* The goroutines run; a request to the model ends with an error once its    *)
(* context is done, a tool and /stats end, and a select that stays ready for *)
(* a line is eventually taken.  Nothing makes the user type, the model       *)
(* answer an uncancelled request, or a process end.                          *)
Fairness ==
  /\ WF_vars(ReadInputCloses)
  /\ \A n \in Notes : WF_vars(NoteSendPanics(n))
  /\ WF_vars(EarCatchesSignal)
  /\ WF_vars(WatcherStops)
  /\ WF_vars(WatcherReceives)
  /\ WF_vars(StatsEnds)
  /\ WF_vars(Repl)
  /\ WF_vars(Turn)
  /\ WF_vars(ctx # "live" /\ ModelReturns({NoReply}))

FairSpec == Spec /\ Fairness

-----------------------------------------------------------------------------
(* Properties. *)

Texts == Seq((1..MaxTyped) \cup {-n : n \in Notes})
Results == {"ran", "declined", "cancelled", "refused"}
Messages == [role : {"user"}, text : Texts]
              \cup [role : {"assistant"}, calls : 0..MaxCalls]
              \cup [role : {"tool"}, call : 1..MaxCalls, result : Results]

TypeOK ==
  /\ main \in Mains
  /\ input \in Seq(Lines \cup NoteLines)
  /\ queued \in Seq(Lines \cup NoteLines)
  /\ stdin \in Seq(Lines)
  /\ eof \in BOOLEAN /\ closed \in BOOLEAN /\ panicked \in BOOLEAN
  /\ typed \in 0..MaxTyped
  /\ note \in [Notes -> {"none", "running", "ready", "queued", "told",
                         "answer"}]
  /\ watcher \in {"off", "on", "stats", "cut"}
  /\ history \in Seq(Messages)
  /\ lastPrompt \in Texts
  /\ allowed \subseteq Tools
  /\ round \in 0..MaxTurns - 1
  /\ reply \in Replies
  /\ pos \in 0..MaxCalls
  /\ ctx \in {"live", "cancelled", "expired"}
  /\ ear \in BOOLEAN
  /\ signals \in BOOLEAN
  /\ pressed \in 0..MaxSignals
  /\ acted \in Texts
  /\ spent \subseteq 1..MaxTyped

(* No two goroutines wait on a.lines at once: the watcher is gone before     *)
(* repl or permit takes the channel back (the synchronous stop of            *)
(* watchForHotCommands), and a.history changes only while it is gone.        *)
SingleReader ==
  /\ watcher # "off" => main \in {"model", "stopping"}
  /\ main = "model" => watcher # "off" \/ closed
WatcherConfined == [][SingleReader' /\ (history' # history => watcher = "off")]_vars

(* Every message a model is sent is one it can accept: each tool call of an  *)
(* assistant message is followed by its result, in order and exactly once,   *)
(* and nothing else intervenes - however the turn ended, by Ctrl-C, a        *)
(* declined call, a cut-off reply or a failure.                              *)
HistoryWellFormed ==
  \A i \in DOMAIN history :
    /\ history[i].role = "tool" =>
         /\ i > history[i].call
         /\ LET a == history[i - history[i].call]
            IN a.role = "assistant" /\ history[i].call <= a.calls
    /\ history[i].role = "assistant" =>
         /\ \A k \in 1..history[i].calls :
              i + k \in DOMAIN history =>
                history[i + k].role = "tool" /\ history[i + k].call = k
         /\ main \notin {"calls", "permit", "tool"} =>
              i + history[i].calls <= Len(history)

(* Of what is typed nothing is lost and nothing overtakes, whether it came   *)
(* while a turn was running or at the prompt: every line is still waiting to *)
(* be read, queued, part of the prompt being typed or acted on in its order, *)
(* or was used as an answer, run as a hot command or discarded by Ctrl-C     *)
(* (readInput, hotCommand, repl).                                            *)
TypedOrder ==
  \A i, j \in DOMAIN acted :
    i < j /\ acted[i] > 0 /\ acted[j] > 0 => acted[i] < acted[j]
ActedIds == {acted[i] : i \in {j \in DOMAIN acted : acted[j] > 0}}
NothingLost ==
  1..typed = IdsOf(stdin) \cup IdsOf(queued) \cup IdsOf(input) \cup ActedIds
               \cup spent
TypedKept == TypeOK /\ TypedOrder /\ NothingLost

(* /retry does not ask a question twice: no user message is followed at once *)
(* by itself.                                                                *)
RetryAsksOnce ==
  \A i \in DOMAIN history :
    i + 1 \in DOMAIN history /\ history[i].role = "user" =>
      history[i + 1] # history[i]

(* Nothing waits for ever while the console goes on: a turn whose context is *)
(* done returns to the prompt, even out of a permission question nobody      *)
(* answers (permit), and the end of a background process that was to be      *)
(* reported is (watchForProcessCompletion).                                  *)
CancelReturns == ctx # "live" ~> ctx = "live" \/ ~Alive
NotesLeave ==
  \A n \in Notes : note[n] = "ready" ~> note[n] # "ready" \/ ~Alive
NothingHangs == CancelReturns /\ NotesLeave

=============================================================================
