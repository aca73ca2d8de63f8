--------------------------- MODULE McpClientProofs ---------------------------
(***************************************************************************)
(* What is proved of McpClient for any number of requests, processes,      *)
(* pages, cancellations and lines the server says unasked: a call is given *)
(* no other call's answer, and no process or session is left behind.       *)
(***************************************************************************)
EXTENDS McpClient, Functions, TLAPS

(* Which request the agent's goroutine is about to make, and that as many as *)
(* a connection may still need are left.                                     *)
Steps ==
  /\ goal = "quit" => phase \in {"close", "closing", "ended"}
  /\ phase \in {"close", "closing"} => goal \in {"connect", "quit"}
  /\ phase = "start" => goal = "connect"
  /\ phase \in {"close", "closing", "start"} /\ goal = "connect" => Room(1 + MaxPages)
  /\ phase \in {"write", "wait"} => method # ""
  /\ phase \in {"write", "wait"} /\ method = "initialize" => page = 0
  /\ phase = "write" =>
       /\ method = "initialize" => Room(1 + MaxPages)
       /\ method = "tools/list" => Room(MaxPages - page)
       /\ method = "tools/call" => Room(1)
  /\ phase = "wait" =>
       /\ method = "initialize" => Room(MaxPages)
       /\ method = "tools/list" => Room(MaxPages - page - 1)
  /\ phase = "notify" => page = 0 /\ Room(MaxPages)

(* A request's line and its answer are in the pipes of the process it was    *)
(* sent to, and nowhere once another process is asked.                       *)
IsAnswer(line) == line.kind \in {"reply", "error"}
Mine(line, g) ==
  /\ line.id \in 1..nextID
  /\ phase = "wait" /\ line.id = nextID => g = proc
RequestOf(line, g) == line.kind = "call" => Mine(line, g)
AnswerOf(line, g) == IsAnswer(line) => Mine(line, g) /\ line.by = g
Held(line) == IsAnswer(line) => Mine(line, line.by)
Pipes ==
  /\ \A g \in Processes :
       /\ \A line \in Range(servers[g].in) : RequestOf(line, g)
       /\ \A line \in Range(servers[g].out) : AnswerOf(line, g)
  /\ \A r \in RequestIds : Held(reader[r].line)

(* Which process runs, and when none does.                                   *)
OneProcess ==
  /\ \A g \in Processes : Running(g) => g = proc /\ phase \notin {"start", "ended"}
  /\ phase \in {"closing", "cancelling"} => proc # 0 /\ ~Running(proc)
  /\ phase \in {"wait", "notify"} /\ transport = "stdio" => proc # 0
  /\ \A r \in RequestIds : reader[r].at = "reading" => reader[r].from # 0

(* Which session is the client's own, and when there is none.                *)
OneSession ==
  /\ \A s \in live : s \in astray \/ s = session
  /\ \/ phase \in {"closing", "cancelling", "start", "ended"}
     \/ phase = "write" /\ method = "initialize"
     => live \subseteq astray

IInv == McpTypeOK /\ Steps /\ Pipes /\ OneProcess /\ OneSession /\ AnswersTheCall

-----------------------------------------------------------------------------
(* A pipe: what is appended is in it, what is left was in it.                *)
LEMMA Appending ==
  ASSUME NEW S, NEW pipe \in Seq(S), NEW line \in S
  PROVE  /\ Append(pipe, line) \in Seq(S)
         /\ Range(Append(pipe, line)) = Range(pipe) \cup {line}
PROOF
  <1>1. /\ Append(pipe, line) \in Seq(S)
        /\ DOMAIN Append(pipe, line) = 1..(Len(pipe) + 1)
        /\ DOMAIN pipe = 1..Len(pipe)
        /\ \A i \in 1..Len(pipe) : Append(pipe, line)[i] = pipe[i]
        /\ Append(pipe, line)[Len(pipe) + 1] = line
    OBVIOUS
  <1>2. Len(pipe) \in Nat
    OBVIOUS
  <1>3. \A i \in 1..(Len(pipe) + 1) : i \in 1..Len(pipe) \/ i = Len(pipe) + 1
    BY <1>2
  <1>4. \A i \in 1..Len(pipe) : i \in 1..(Len(pipe) + 1)
    BY <1>2
  <1>5. Len(pipe) + 1 \in 1..(Len(pipe) + 1)
    BY <1>2
  <1> QED
    BY <1>1, <1>3, <1>4, <1>5, Zenon DEF Range

(* What is left of a pipe was in it, and so was the line that was taken.     *)
LEMMA Reading ==
  ASSUME NEW S, NEW pipe \in Seq(S), pipe # <<>>
  PROVE  /\ Tail(pipe) \in Seq(S)
         /\ Head(pipe) \in S
         /\ Head(pipe) \in Range(pipe)
         /\ Range(Tail(pipe)) \subseteq Range(pipe)
PROOF
  <1>1. /\ Tail(pipe) \in Seq(S)
        /\ Head(pipe) \in S
        /\ Head(pipe) = pipe[1]
        /\ 1 \in DOMAIN pipe
        /\ \A i \in DOMAIN Tail(pipe) :
             i + 1 \in DOMAIN pipe /\ Tail(pipe)[i] = pipe[i + 1]
    OBVIOUS
  <1> QED
    BY <1>1, ZenonT(40) DEF Range

(* There is nothing in an empty pipe.                                        *)
LEMMA NothingInIt == Range(<<>>) = {}
  BY DEF Range

(* The outcomes of an answer, one by one.                                    *)
LEMMA Outcomes ==
  ASSUME NEW good \in BOOLEAN, NEW more, Answered(good, more)
  PROVE  \/ ~good /\ Return(FALSE) /\ UNCHANGED <<method, page>>
         \/ /\ good /\ method = "initialize" /\ phase' = "notify"
            /\ UNCHANGED <<connected, method, page>>
         \/ /\ good /\ method = "tools/list" /\ more /\ page + 1 < MaxPages
            /\ phase' = "write" /\ page' = page + 1
            /\ UNCHANGED <<connected, method>>
         \/ Return(TRUE) /\ UNCHANGED <<method, page>>
  BY DEF Answered

(* A close ends the agent, a start goes on, or a call returns its failure.   *)
LEMMA Afterwards ==
  ASSUME AfterClose
  PROVE  \/ goal = "quit" /\ phase' = "ended" /\ UNCHANGED connected
         \/ /\ goal # "quit" /\ phase \in {"close", "closing"}
            /\ phase' = "start" /\ UNCHANGED connected
         \/ goal # "quit" /\ phase \notin {"close", "closing"} /\ Return(FALSE)
  BY DEF AfterClose

-----------------------------------------------------------------------------
(* What the steps do to the processes and their pipes, with what is in a     *)
(* pipe for the pipe.                                                        *)
Ins(g) == Range(servers[g].in)
Outs(g) == Range(servers[g].out)
State(g) == servers[g].state
ServersTyped ==
  servers \in [Processes -> [state : {"none", "running", "killed", "dead"},
                            in : Seq(Lines), out : Seq(Lines)]]

(* A state changes; when a process dies what it was not asked yet is lost.   *)
Becomes(g, state) ==
  /\ ServersTyped'
  /\ State(g)' = state
  /\ Ins(g)' \subseteq Ins(g)
  /\ \A h \in Processes \ {g} : State(h)' = State(h) /\ Ins(h)' = Ins(h)
  /\ \A h \in Processes : Outs(h)' = Outs(h)

(* The states stay, and what is in the pipes besides new lines was in them.  *)
Passes(g, in, out) ==
  /\ ServersTyped'
  /\ \A h \in Processes : State(h)' = State(h)
  /\ Ins(g)' \subseteq Ins(g) \cup in /\ Outs(g)' \subseteq Outs(g) \cup out
  /\ \A h \in Processes \ {g} : Ins(h)' = Ins(h) /\ Outs(h)' = Outs(h)

(* A change of a process's state leaves the pipes as they were.              *)
LEMMA Changing ==
  ASSUME ServersTyped, NEW g \in Processes,
         NEW state \in {"none", "running", "killed", "dead"},
         servers' = [servers EXCEPT ![g].state = state]
  PROVE  Becomes(g, state)
PROOF
  <1>1. ServersTyped'
    BY DEF ServersTyped
  <1>2. /\ servers'[g].state = state
        /\ \A h \in Processes : /\ servers'[h].in = servers[h].in
                                /\ servers'[h].out = servers[h].out
        /\ \A h \in Processes \ {g} : servers'[h].state = servers[h].state
    BY DEF ServersTyped
  <1> QED
    BY <1>1, <1>2, Zenon DEF Becomes, State, Ins, Outs

(* A process that dies loses what it was not asked yet.                      *)
LEMMA Dying ==
  ASSUME ServersTyped, NEW g \in Processes,
         servers' = [servers EXCEPT ![g].state = "dead", ![g].in = <<>>]
  PROVE  Becomes(g, "dead")
PROOF
  <1>1. ServersTyped'
    <2>1. <<>> \in Seq(Lines)
      OBVIOUS
    <2> QED
      BY <2>1 DEF ServersTyped
  <1>2. /\ servers'[g].state = "dead" /\ servers'[g].in = <<>>
        /\ \A h \in Processes : servers'[h].out = servers[h].out
        /\ \A h \in Processes \ {g} :
             servers'[h].state = servers[h].state /\ servers'[h].in = servers[h].in
    BY DEF ServersTyped
  <1>3. Ins(g)' = {}
    BY <1>2, NothingInIt DEF Ins
  <1> QED
    BY <1>1, <1>2, <1>3, Zenon DEF Becomes, State, Ins, Outs

(* A line that the client says is in the pipe of its process.                *)
LEMMA Saying ==
  ASSUME ServersTyped, NEW g \in Processes, g = proc, NEW line \in Lines, Say(line)
  PROVE  Passes(g, {line}, {})
PROOF
  <1>1. servers[g].in \in Seq(Lines)
    BY DEF ServersTyped
  <1>2. /\ Append(servers[g].in, line) \in Seq(Lines)
        /\ Range(Append(servers[g].in, line)) = Ins(g) \cup {line}
    BY <1>1, Appending DEF Ins
  <1>3. ServersTyped'
    BY <1>2 DEF ServersTyped, Say
  <1>4. /\ servers'[g].in = Append(servers[g].in, line)
        /\ \A h \in Processes : /\ servers'[h].state = servers[h].state
                                /\ servers'[h].out = servers[h].out
        /\ \A h \in Processes \ {g} : servers'[h].in = servers[h].in
    BY DEF ServersTyped, Say
  <1>5. Ins(g)' = Ins(g) \cup {line}
    BY <1>2, <1>4 DEF Ins
  <1> QED
    BY <1>3, <1>4, <1>5, Zenon DEF Passes, State, Ins, Outs

(* A line that a process says is in its pipe.                                *)
LEMMA Speaking ==
  ASSUME ServersTyped, NEW g \in Processes, NEW line \in Lines,
         servers' = [servers EXCEPT ![g].out = Append(@, line)]
  PROVE  Passes(g, {}, {line})
PROOF
  <1>1. servers[g].out \in Seq(Lines)
    BY DEF ServersTyped
  <1>2. /\ Append(servers[g].out, line) \in Seq(Lines)
        /\ Range(Append(servers[g].out, line)) = Outs(g) \cup {line}
    BY <1>1, Appending DEF Outs
  <1>3. ServersTyped'
    BY <1>2 DEF ServersTyped
  <1>4. /\ servers'[g].out = Append(servers[g].out, line)
        /\ \A h \in Processes : /\ servers'[h].state = servers[h].state
                                /\ servers'[h].in = servers[h].in
        /\ \A h \in Processes \ {g} : servers'[h].out = servers[h].out
    BY DEF ServersTyped
  <1>5. Outs(g)' = Outs(g) \cup {line}
    BY <1>2, <1>4 DEF Outs
  <1> QED
    BY <1>3, <1>4, <1>5, Zenon DEF Passes, State, Ins, Outs

(* A line that is taken was there.                                           *)
LEMMA Taking ==
  ASSUME ServersTyped, NEW g \in Processes, servers[g].out # <<>>,
         servers' = [servers EXCEPT ![g].out = Tail(@)]
  PROVE  /\ Passes(g, {}, {})
         /\ Head(servers[g].out) \in Outs(g) /\ Head(servers[g].out) \in Lines
PROOF
  <1>1. servers[g].out \in Seq(Lines)
    BY DEF ServersTyped
  <1>2. /\ Tail(servers[g].out) \in Seq(Lines)
        /\ Range(Tail(servers[g].out)) \subseteq Outs(g)
        /\ Head(servers[g].out) \in Outs(g) /\ Head(servers[g].out) \in Lines
    BY <1>1, Reading DEF Outs
  <1>3. ServersTyped'
    BY <1>2 DEF ServersTyped
  <1>4. /\ servers'[g].out = Tail(servers[g].out)
        /\ \A h \in Processes : /\ servers'[h].state = servers[h].state
                                /\ servers'[h].in = servers[h].in
        /\ \A h \in Processes \ {g} : servers'[h].out = servers[h].out
    BY DEF ServersTyped
  <1>5. Outs(g)' \subseteq Outs(g)
    BY <1>2, <1>4 DEF Outs
  <1> QED
    BY <1>2, <1>3, <1>4, <1>5, Zenon DEF Passes, State, Ins, Outs

(* One line is taken; a request is answered with its id, anything else with  *)
(* nothing.                                                                  *)
LEMMA Serving ==
  ASSUME ServersTyped, NEW g \in Processes, ServeLine(g)
  PROVE  \/ Passes(g, {}, {})
         \/ \E call \in Ins(g), kind \in {"reply", "error"} :
              /\ call \in Lines /\ call.kind = "call"
              /\ Passes(g, {}, {[kind |-> kind, id |-> call.id, by |-> g]})
PROOF
  <1>1. servers[g].in \in Seq(Lines) /\ servers[g].out \in Seq(Lines)
    BY DEF ServersTyped
  <1>2. servers[g].in # <<>>
    BY DEF ServeLine
  <1> DEFINE line == Head(servers[g].in)
             in == Tail(servers[g].in)
             answer(kind) == [kind |-> kind, id |-> line.id, by |-> g]
             said(kind) == IF line.kind = "call"
                           THEN Append(servers[g].out, answer(kind)) ELSE servers[g].out
  <1>3. /\ in \in Seq(Lines) /\ Range(in) \subseteq Ins(g)
        /\ line \in Ins(g) /\ line \in Lines
    BY <1>1, <1>2, Reading DEF Ins
  <1>4. PICK kind \in {"reply", "error"} :
          servers' = [servers EXCEPT ![g].in = Tail(@),
                        ![g].out = IF line.kind = "call"
                                   THEN Append(@, answer(kind)) ELSE @]
    BY DEF ServeLine
  <1>5. g \in 0..MaxStarts
    BY McpAssumption DEF Processes
  <1>6. answer(kind) \in Lines
    BY <1>3, <1>5 DEF Lines
  <1>7. /\ said(kind) \in Seq(Lines)
        /\ line.kind = "call" => Range(said(kind)) = Outs(g) \cup {answer(kind)}
        /\ line.kind # "call" => Range(said(kind)) = Outs(g)
    <2> HIDE DEF answer, line
    <2> QED
      BY <1>1, <1>6, Appending DEF Outs
  <1> HIDE DEF answer, line, in
  <1>8. servers' = [servers EXCEPT ![g] = [@ EXCEPT !.in = in, !.out = said(kind)]]
    BY <1>4 DEF ServersTyped, in
  <1>9. ServersTyped'
    <2> HIDE DEF said
    <2> QED
      BY <1>3, <1>7, <1>8 DEF ServersTyped
  <1>10. /\ servers'[g].in = in /\ servers'[g].out = said(kind)
         /\ \A h \in Processes : servers'[h].state = servers[h].state
         /\ \A h \in Processes \ {g} :
              servers'[h].in = servers[h].in /\ servers'[h].out = servers[h].out
    <2> HIDE DEF said
    <2> QED
      BY <1>8 DEF ServersTyped
  <1>11. /\ Ins(g)' \subseteq Ins(g)
         /\ line.kind = "call" => Outs(g)' = Outs(g) \cup {answer(kind)}
         /\ line.kind # "call" => Outs(g)' = Outs(g)
    BY <1>3, <1>7, <1>10 DEF Ins, Outs
  <1>12. line.kind # "call" => Passes(g, {}, {})
    BY <1>9, <1>10, <1>11, Zenon DEF Passes, State, Ins, Outs
  <1>13. line.kind = "call" => Passes(g, {}, {answer(kind)})
    BY <1>9, <1>10, <1>11, Zenon DEF Passes, State, Ins, Outs
  <1> QED
    BY <1>3, <1>12, <1>13, Zenon DEF answer

-----------------------------------------------------------------------------
(* The types. *)

(* The bounds are numbers.                                                   *)
LEMMA Numbers ==
  /\ MaxPages \in Nat \ {0} /\ MaxCalls \in Nat /\ MaxStarts \in Nat
  /\ MaxSpeaks \in Nat /\ MaxCancels \in Nat
  BY McpAssumption

(* A process is known by its number; 0 is none.                              *)
LEMMA Constants ==
  /\ 0 \in 0..MaxStarts /\ 0 \notin Processes
  /\ \A g \in 0..MaxStarts : g # 0 => g \in Processes
  /\ \A g \in Processes : g \in 0..MaxStarts
  BY Numbers DEF Processes

(* The lines that are said are lines.                                        *)
LEMMA LinesMade ==
  /\ NoLine \in Lines
  /\ \A kind \in {"call", "note", "ask", "answer", "reply", "error", "closed"},
        id \in Nat, by \in 0..MaxStarts :
       [kind |-> kind, id |-> id, by |-> by] \in Lines
  BY Constants DEF NoLine, Lines

(* The readers that are started are readers.                                 *)
LEMMA ReadersMade ==
  /\ NoReader \in [at : {"none", "loop", "reading", "holding", "gone"},
                   from : 0..MaxStarts, line : Lines]
  /\ Looping = [at |-> "loop", from |-> 0, line |-> NoLine]
  /\ GoneReader = [at |-> "gone", from |-> 0, line |-> NoLine]
  BY Constants, LinesMade DEF NoReader, Looping, GoneReader

(* The parts of the types, which change in different steps.                  *)
ClientTyped ==
  /\ transport \in {"stdio", "http"}
  /\ phase \in {"idle", "close", "closing", "start", "write", "wait", "notify",
               "cancel", "cancelling", "ended"}
  /\ goal \in {"connect", "call", "quit"}
  /\ method \in {"", "initialize", "tools/list", "tools/call"}
  /\ page \in 0..(MaxPages - 1) /\ ctx \in {"live", "cancelled"}
  /\ nextID \in 0..MaxCalls /\ connected \in BOOLEAN
  /\ proc \in 0..MaxStarts
  /\ crashed \in BOOLEAN
  /\ speaks \in 0..MaxSpeaks /\ cancels \in 0..MaxCancels
ReadersTyped ==
  reader \in [RequestIds -> [at : {"none", "loop", "reading", "holding", "gone"},
                            from : 0..MaxStarts, line : Lines]]
SessionsTyped ==
  session \in 0..MaxStarts /\ live \subseteq 1..MaxStarts /\ issued \in 0..MaxStarts

(* The parts of the invariant's types.                                       *)
LEMMA Parts ==
  McpTypeOK <=> ClientTyped /\ done \in Lines /\ ServersTyped /\ ReadersTyped /\ SessionsTyped
  BY DEF McpTypeOK, ClientTyped, ServersTyped, ReadersTyped, SessionsTyped

(* The types hold at first.                                                  *)
LEMMA InitTyped == McpInit => McpTypeOK
PROOF
  <1> SUFFICES ASSUME McpInit PROVE McpTypeOK
    OBVIOUS
  <1>1. ServersTyped
    <2>1. <<>> \in Seq(Lines)
      OBVIOUS
    <2> QED
      BY <2>1 DEF McpInit, ServersTyped, NoServer
  <1>2. ClientTyped
    <2>1. /\ 0 \in 0..MaxCalls /\ 0 \in 0..MaxStarts /\ 0 \in 0..MaxSpeaks
          /\ 0 \in 0..MaxCancels /\ 0 \in 0..(MaxPages - 1)
      BY Numbers
    <2> QED
      BY <2>1 DEF McpInit, ClientTyped
  <1>3. ReadersTyped
    BY ReadersMade DEF McpInit, ReadersTyped
  <1>4. done \in Lines
    BY LinesMade DEF McpInit
  <1>5. SessionsTyped
    <2>1. 0 \in 0..MaxStarts
      BY Constants
    <2> QED
      BY <2>1 DEF McpInit, SessionsTyped
  <1> QED
    BY <1>1, <1>2, <1>3, <1>4, <1>5, Parts

(* There is an id left for the request that is about to be made.             *)
LEMMA Fits ==
  ASSUME ClientTyped, Steps, phase = "write"
  PROVE  /\ nextID + 1 \in RequestIds /\ nextID + 1 \in 0..MaxCalls
         /\ nextID \in Nat
PROOF
  <1>1. method \in {"initialize", "tools/list", "tools/call"}
    BY DEF ClientTyped, Steps
  <1>2. /\ nextID \in Nat /\ MaxCalls \in Nat
        /\ MaxPages \in Nat /\ MaxPages # 0 /\ page \in 0..(MaxPages - 1)
    <2>1. MaxCalls \in Nat /\ MaxPages \in Nat \ {0}
      BY Numbers
    <2>2. nextID \in 0..MaxCalls /\ page \in 0..(MaxPages - 1)
      BY DEF ClientTyped
    <2> QED
      BY <2>1, <2>2
  <1>3. CASE method = "initialize"
    BY <1>2, <1>3 DEF Steps, Room, RequestIds
  <1>4. CASE method = "tools/list"
    BY <1>2, <1>4 DEF Steps, Room, RequestIds
  <1>5. CASE method = "tools/call"
    BY <1>2, <1>5 DEF Steps, Room, RequestIds
  <1> QED
    BY <1>1, <1>3, <1>4, <1>5

(* Every step keeps the types of the client's own variables.                 *)
LEMMA TypedClient == ASSUME IInv, McpNext PROVE ClientTyped'
PROOF
  <1> USE DEF agentVars, stdio, http
  <1>0. ClientTyped /\ Steps
    BY Parts DEF IInv
  <1>1. CASE Connect \/ CallTool \/ Quit
    BY <1>0, <1>1 DEF ClientTyped, Connect, CallTool, Quit
  <1>2. CASE Cancel
    <2>1. cancels' \in 0..MaxCancels
      <3>1. MaxCancels \in Nat /\ cancels \in 0..MaxCancels
        BY <1>0, Numbers DEF ClientTyped
      <3> QED
        BY <1>2, <3>1 DEF Cancel
    <2> QED
      BY <1>0, <1>2, <2>1 DEF ClientTyped, Cancel
  <1>14. CASE TimesOut \/ Cancelled
    BY <1>0, <1>14 DEF ClientTyped, TimesOut, Cancelled
  <1>3. CASE Close
    <2>1. phase' \in {"idle", "start", "ended", "closing", "cancelling"} /\ connected' \in BOOLEAN
      BY <1>0, <1>3, Afterwards DEF ClientTyped, Close, Return
    <2> QED
      BY <1>0, <1>3, <2>1 DEF ClientTyped, Close
  <1>4. CASE Closed
    <2>1. phase' \in {"idle", "start", "ended"} /\ connected' \in BOOLEAN
      BY <1>0, <1>4, Afterwards DEF ClientTyped, Closed, Return
    <2>2. proc' = 0 /\ 0 \in 0..MaxStarts
      BY <1>4, Constants DEF Closed
    <2>3. UNCHANGED <<transport, goal, method, page, ctx, nextID, stdio, cancels>>
      BY <1>4 DEF Closed
    <2> QED
      BY <1>0, <2>1, <2>2, <2>3 DEF ClientTyped
  <1>5. CASE Start
    <2>1. proc' \in 0..MaxStarts
      BY <1>0, <1>5, Constants DEF ClientTyped, Start
    <2>2. page' = 0 /\ 0 \in 0..(MaxPages - 1)
      BY <1>5, Numbers DEF Start
    <2>3. /\ phase' \in {"write", "idle"} /\ connected' \in BOOLEAN
          /\ method' \in {method, "initialize"}
      BY <1>0, <1>5 DEF ClientTyped, Start, Return
    <2>4. UNCHANGED <<transport, goal, ctx, nextID, crashed, speaks, cancels>>
      BY <1>5 DEF Start
    <2> QED
      BY <1>0, <2>1, <2>2, <2>3, <2>4 DEF ClientTyped
  <1>6. CASE Write
    BY <1>0, <1>6, Fits DEF ClientTyped, Write, Return
  <1>7. ASSUME NEW good \in BOOLEAN, NEW more, Answered(good, more)
        PROVE  /\ phase' \in {"idle", "write", "notify"} /\ connected' \in BOOLEAN
               /\ method' = method /\ page' \in 0..(MaxPages - 1)
    <2>1. page \in 0..(MaxPages - 1) /\ connected \in BOOLEAN
      BY <1>0 DEF ClientTyped
    <2>2. page + 1 < MaxPages => page + 1 \in 0..(MaxPages - 1)
      BY <2>1, Numbers
    <2> QED
      BY <1>7, <2>1, <2>2, Outcomes DEF Return
  <1>8. ASSUME NEW more, Receive(more) PROVE ClientTyped'
    <2>1. Answered(done.kind = "reply", more)
      BY <1>8 DEF Receive
    <2> QED
      BY <1>0, <1>7, <1>8, <2>1 DEF ClientTyped, Receive
  <1>9. ASSUME NEW more, Post(more) PROVE ClientTyped'
    <2>1. \E good \in BOOLEAN : Answered(good, more)
      BY <1>9 DEF Post
    <2>2. /\ phase = "write" /\ nextID' = nextID + 1
          /\ UNCHANGED <<transport, goal, ctx, proc, stdio, cancels>>
      BY <1>9 DEF Post
    <2> QED
      BY <1>0, <1>7, <2>1, <2>2, Fits DEF ClientTyped
  <1>10. CASE Notify
    BY <1>0, <1>10 DEF ClientTyped, Notify
  <1>11. ASSUME NEW r \in RequestIds, Reader(r) PROVE ClientTyped'
    BY <1>0, <1>11 DEF ClientTyped, Reader, Loop, ReadLine, ReadFails, Handle
  <1>12. ASSUME NEW g \in Processes, ServeLine(g) \/ Die(g) PROVE ClientTyped'
    <2>1. UNCHANGED <<transport, agentVars, crashed, speaks, cancels>>
      BY <1>12 DEF ServeLine, Die
    <2> QED
      BY <1>0, <2>1 DEF ClientTyped
  <1>15. ASSUME NEW g \in Processes, NEW kind, Speak(g, kind) PROVE ClientTyped'
    <2>1. UNCHANGED <<transport, agentVars, crashed, cancels>>
      BY <1>15 DEF Speak
    <2>2. speaks' \in 0..MaxSpeaks
      <3>1. MaxSpeaks \in Nat /\ speaks \in 0..MaxSpeaks
        BY <1>0, Numbers DEF ClientTyped
      <3> QED
        BY <1>15, <3>1 DEF Speak
    <2> QED
      BY <1>0, <2>1, <2>2 DEF ClientTyped
  <1>13. CASE Forget
    BY <1>0, <1>13 DEF ClientTyped, Forget
  <1> QED
    BY <1>1, <1>2, <1>14, <1>3, <1>4, <1>5, <1>6, <1>8, <1>9, <1>10, <1>11, <1>12, <1>15, <1>13
       DEF McpNext, Agent

(* Every step keeps the type of the answer.                                  *)
LEMMA TypedDone == ASSUME IInv, McpNext PROVE done' \in Lines
PROOF
  <1>0. done \in Lines /\ ReadersTyped
    BY Parts DEF IInv
  <1>1. \A r \in RequestIds : reader[r].line \in Lines
    BY <1>0 DEF ReadersTyped
  <1>2. [kind |-> "closed", id |-> 0, by |-> 0] \in Lines /\ NoLine \in Lines
    BY LinesMade, Constants
  <1>3. \A r : ReadFails(r) => done' \in Lines
    BY <1>0, <1>2 DEF ReadFails, Delivers
  <1>4. \A r \in RequestIds : Handle(r) => done' \in Lines
    BY <1>0, <1>1 DEF Handle, Delivers
  <1>5. Write => done' \in Lines
    BY <1>2 DEF Write
  <1>6. UNCHANGED done => done' \in Lines
    BY <1>0
  <1>7. \/ UNCHANGED done \/ Write
        \/ \E r \in RequestIds : ReadFails(r) \/ Handle(r)
    BY DEF McpNext, Agent, Connect, CallTool, Quit, Cancel, TimesOut, Close, Closed, Start,
           Cancelled, Notify, Receive, Post, Reader, Loop, ReadLine, ServeLine, Die, Speak,
           Forget, agentVars, stdio
  <1> QED
    BY <1>3, <1>4, <1>5, <1>6, <1>7

-----------------------------------------------------------------------------
(* What every step does to the processes. *)

ServerStep ==
  \/ UNCHANGED servers
  \/ Start /\ \E g \in Processes : proc' = g /\ Becomes(g, "running")
  \/ \E g \in Processes, state \in {"killed", "dead"} :
       /\ (Close /\ g = proc /\ state = "killed") \/ (Die(g) /\ state = "dead")
       /\ Becomes(g, state)
  \/ \E g \in Processes :
       Write /\ g = proc /\ Passes(g, {[kind |-> "call", id |-> nextID', by |-> 0]}, {})
  \/ \E g \in Processes : \E call \in Ins(g), kind \in {"reply", "error"} :
       /\ ServeLine(g) /\ call.kind = "call"
       /\ Passes(g, {}, {[kind |-> kind, id |-> call.id, by |-> g]})
  \/ \E g \in Processes, line \in Lines :
       /\ line.kind \in {"note", "ask", "answer"}
       /\ \/ Passes(g, {}, {}) \/ Passes(g, {line}, {}) \/ Passes(g, {}, {line})

(* Every step does one of the things that are done to the processes.         *)
LEMMA ServerSteps == ASSUME IInv, McpNext PROVE ServerStep
PROOF
  <1>0. ServersTyped /\ OneProcess /\ ClientTyped /\ Steps /\ ReadersTyped
    BY Parts DEF IInv
  <1>1. UNCHANGED servers => ServerStep
    BY DEF ServerStep
  <1>2. ASSUME NEW line \in Lines, proc # 0, Say(line)
        PROVE  \E g \in Processes : g = proc /\ Passes(g, {line}, {})
    <2>1. PICK g \in Processes : g = proc
      BY <1>0, <1>2, Constants DEF ClientTyped
    <2> QED
      BY <1>0, <1>2, <2>1, Saying
  <1>3. CASE Close
    BY <1>0, <1>1, <1>3, Changing, Constants DEF Close, ClientTyped, ServerStep
  <1>4. CASE Start
    BY <1>0, <1>1, <1>4, Changing DEF Start, ServerStep
  <1>5. CASE Write
    <2>1. [kind |-> "call", id |-> nextID', by |-> 0] \in Lines
      <3>1. nextID' \in Nat
        BY <1>0, <1>5, Fits DEF Write
      <3> QED
        BY <3>1, LinesMade, Constants
    <2> QED
      BY <1>1, <1>2, <1>5, <2>1 DEF Write, ServerStep
  <1>6. CASE Notify
    <2>1. [kind |-> "note", id |-> 0, by |-> 0] \in Lines
      BY LinesMade, Constants
    <2>2. transport = "stdio" => proc # 0
      BY <1>0, <1>6 DEF Notify, OneProcess
    <2> QED
      BY <1>1, <1>2, <1>6, <2>1, <2>2 DEF Notify, ServerStep
  <1>7. ASSUME NEW r \in RequestIds, ReadLine(r) PROVE ServerStep
    <2>1. PICK g \in Processes : g = reader[r].from
      BY <1>0, <1>7, Constants DEF ReadLine, OneProcess, ReadersTyped
    <2>2. Passes(g, {}, {})
      BY <1>0, <1>7, <2>1, Taking DEF ReadLine
    <2>3. [kind |-> "note", id |-> 0, by |-> 0] \in Lines
      BY LinesMade, Constants
    <2> QED
      BY <2>2, <2>3 DEF ServerStep
  <1>8. ASSUME NEW r \in RequestIds, Handle(r) PROVE ServerStep
    <2>1. [kind |-> "answer", id |-> reader[r].line.id, by |-> 0] \in Lines
      BY <1>0, LinesMade, Constants DEF ReadersTyped, Lines
    <2> QED
      BY <1>1, <1>2, <1>8, <2>1 DEF Handle, Decline, ServerStep
  <1>9. ASSUME NEW g \in Processes, ServeLine(g) PROVE ServerStep
    <2>1. [kind |-> "note", id |-> 0, by |-> 0] \in Lines
      BY LinesMade, Constants
    <2> QED
      BY <1>0, <1>9, <2>1, Serving DEF ServerStep
  <1>10. ASSUME NEW g \in Processes, NEW kind \in {"note", "ask"}, Speak(g, kind)
         PROVE  ServerStep
    <2>1. [kind |-> kind, id |-> 1, by |-> g] \in Lines
      BY LinesMade, Constants
    <2> QED
      BY <1>0, <1>10, <2>1, Speaking DEF Speak, ServerStep
  <1>11. ASSUME NEW g \in Processes, Die(g) PROVE ServerStep
    BY <1>0, <1>11, Dying DEF Die, ServerStep
  <1>12. \/ UNCHANGED servers \/ Close \/ Start \/ Write \/ Notify
         \/ \E r \in RequestIds : ReadLine(r) \/ Handle(r)
         \/ \E g \in Processes :
              ServeLine(g) \/ Die(g) \/ \E kind \in {"note", "ask"} : Speak(g, kind)
    BY DEF McpNext, Agent, Connect, CallTool, Quit, Cancel, TimesOut, Closed, Cancelled,
           Receive, Post, Reader, Loop, ReadFails, Forget, stdio
  <1> QED
    BY <1>1, <1>3, <1>4, <1>5, <1>6, <1>7, <1>8, <1>9, <1>10, <1>11, <1>12

(* Every step keeps the types of the processes and their pipes.              *)
LEMMA TypedServers == ASSUME IInv, McpNext PROVE ServersTyped'
  BY ServerSteps, Parts DEF ServerStep, Becomes, Passes, ServersTyped, IInv

(* Every step does one of the things that are done to the readers.           *)
LEMMA ReaderSteps ==
  ASSUME McpNext
  PROVE  \/ UNCHANGED reader \/ Write
         \/ \E r \in RequestIds : Loop(r) \/ ReadLine(r) \/ ReadFails(r) \/ Handle(r)
  BY DEF McpNext, Agent, Connect, CallTool, Quit, Cancel, TimesOut, Close, Closed, Start,
         Cancelled, Notify, Receive, Post, Reader, ServeLine, Die, Speak, Forget, stdio

(* Every step keeps the types of the readers.                                *)
LEMMA TypedReaders == ASSUME IInv, McpNext PROVE ReadersTyped'
PROOF
  <1> USE Constants
  <1>0. ReadersTyped /\ ServersTyped /\ OneProcess /\ ClientTyped /\ Steps
    BY Parts DEF IInv
  <1>1. CASE UNCHANGED reader
    BY <1>0, <1>1 DEF ReadersTyped
  <1>2. ASSUME NEW r \in RequestIds, \/ reader' = [reader EXCEPT ![r] = Looping]
                                   \/ reader' = [reader EXCEPT ![r] = GoneReader]
        PROVE  ReadersTyped'
    BY <1>0, <1>2, LinesMade, ReadersMade DEF ReadersTyped
  <1>3. CASE Write
    BY <1>0, <1>1, <1>2, <1>3, Fits DEF Write
  <1>4. ASSUME NEW r \in RequestIds, Loop(r) PROVE ReadersTyped'
    BY <1>0, <1>1, <1>4, ZenonT(40) DEF Loop, ReadersTyped, ClientTyped
  <1>5. ASSUME NEW r \in RequestIds, ReadLine(r) PROVE ReadersTyped'
    <2>1. reader[r].from \in Processes
      BY <1>0, <1>5 DEF ReadLine, OneProcess, ReadersTyped
    <2>2. Head(servers[reader[r].from].out) \in Lines
      BY <1>0, <1>5, <2>1, Taking DEF ReadLine
    <2> QED
      BY <1>0, <1>5, <2>2 DEF ReadLine, ReadersTyped
  <1>6. ASSUME NEW r \in RequestIds, ReadFails(r) \/ Handle(r) PROVE ReadersTyped'
    BY <1>2, <1>6 DEF ReadFails, Handle
  <1> QED
    BY <1>1, <1>3, <1>4, <1>5, <1>6, ReaderSteps

(* Every step keeps the types of the sessions.                               *)
LEMMA TypedSessions == ASSUME IInv, McpNext PROVE SessionsTyped'
PROOF
  <1>0. SessionsTyped
    BY Parts DEF IInv
  <1>1. UNCHANGED http => SessionsTyped'
    BY <1>0 DEF SessionsTyped, http
  <1>2. CASE Close
    <2>1. session' = 0 /\ 0 \in 0..MaxStarts /\ issued' = issued
      BY <1>2, Constants DEF Close
    <2>2. live' \subseteq live
      BY <1>2 DEF Close
    <2> QED
      BY <1>0, <2>1, <2>2 DEF SessionsTyped
  <1>3. ASSUME NEW more, Post(more) PROVE SessionsTyped'
    <2>1. \/ UNCHANGED http
          \/ /\ issued < MaxStarts /\ issued' = issued + 1 /\ live' = live \cup {issued'}
             /\ session' = issued' \/ session' = session
      BY <1>3 DEF Post
    <2>2. issued < MaxStarts => issued + 1 \in 0..MaxStarts /\ issued + 1 \in 1..MaxStarts
      BY <1>0, Numbers DEF SessionsTyped
    <2> QED
      BY <1>0, <1>1, <2>1, <2>2 DEF SessionsTyped
  <1>4. CASE Forget
    BY <1>0, <1>4 DEF Forget, SessionsTyped
  <1>5. UNCHANGED http \/ Close \/ (\E more \in BOOLEAN : Post(more)) \/ Forget
    BY DEF McpNext, Agent, Connect, CallTool, Quit, Cancel, TimesOut, Closed, Start, Write,
           Cancelled, Notify, Receive, Reader, Loop, ReadLine, ReadFails, Handle, ServeLine,
           Die, Speak
  <1> QED
    BY <1>1, <1>2, <1>3, <1>4, <1>5

(* Every step keeps the types.                                               *)
LEMMA Typed == ASSUME IInv, McpNext PROVE McpTypeOK'
PROOF
  <1>1. /\ ClientTyped' /\ done' \in Lines /\ ServersTyped'
        /\ ReadersTyped' /\ SessionsTyped'
    BY TypedClient, TypedDone, TypedServers, TypedReaders, TypedSessions
  <1>2. Lines' = Lines
    BY DEF Lines
  <1> QED
    BY <1>1, <1>2 DEF McpTypeOK, ClientTyped, ServersTyped, ReadersTyped, SessionsTyped

-----------------------------------------------------------------------------
(* The requests the client's goroutine makes. *)

(* The steps that leave alone what Steps is about.                           *)
LEMMA Elsewhere ==
  ASSUME McpNext
  PROVE  \/ UNCHANGED <<phase, goal, method, page, nextID>>
         \/ Connect \/ CallTool \/ Quit \/ Close \/ Closed \/ Start \/ Write
         \/ Cancelled \/ Notify \/ \E more \in BOOLEAN : Receive(more) \/ Post(more)
  BY DEF McpNext, Agent, Reader, Cancel, TimesOut, Loop, ReadLine, ReadFails, Handle, ServeLine,
         Die, Speak, Forget, agentVars

(* The counters only grow, and within their bounds.                          *)
LEMMA Counts ==
  ASSUME ClientTyped
  PROVE  nextID \in Nat /\ nextID \in Int /\ page \in Int /\ MaxPages \in Int /\ MaxCalls \in Int
PROOF
  <1>1. nextID \in 0..MaxCalls /\ page \in 0..(MaxPages - 1)
    BY DEF ClientTyped
  <1>2. MaxPages \in Nat /\ MaxCalls \in Nat
    BY Numbers
  <1> QED
    BY <1>1, <1>2

(* Making a request takes one id.                                            *)
LEMMA OneIdLess ==
  ASSUME ClientTyped
  PROVE  /\ nextID + (1 + MaxPages) <= MaxCalls => nextID + 1 + MaxPages <= MaxCalls
         /\ nextID + (MaxPages - page) <= MaxCalls
              => nextID + 1 + (MaxPages - page - 1) <= MaxCalls
         /\ MaxPages - page - 1 = MaxPages - (page + 1)
         /\ MaxPages - 0 = MaxPages
  BY Counts

(* What is left for later requests after an answer, when one more id is used.*)
LEMMA Onward ==
  ASSUME ClientTyped, Steps, NEW good \in BOOLEAN, NEW more, Answered(good, more),
         UNCHANGED goal, goal # "quit",
         method # "" /\ method \in {"initialize", "tools/list", "tools/call"},
         method = "initialize" => page = 0 /\ nextID' + MaxPages <= MaxCalls,
         method = "tools/list" => nextID' + (MaxPages - page - 1) <= MaxCalls
  PROVE  Steps'
PROOF
  <1>2. CASE Return(FALSE) \/ Return(TRUE)
    BY <1>2 DEF Steps, Return
  <1>3. CASE phase' = "notify" /\ UNCHANGED page /\ method = "initialize"
    BY <1>3 DEF Steps, Room
  <1>4. CASE /\ method = "tools/list" /\ phase' = "write" /\ page' = page + 1
             /\ UNCHANGED method
    <2>1. nextID' + (MaxPages - page') <= MaxCalls
      <3>1. MaxPages - page - 1 = MaxPages - (page + 1)
        BY OneIdLess
      <3> QED
        BY <1>4, <3>1
    <2> QED
      BY <1>4, <2>1 DEF Steps, Room
  <1> QED
    BY <1>2, <1>3, <1>4, Outcomes

(* Every step keeps what is known of the step that a call is at.             *)
LEMMA StepsKept == ASSUME IInv, McpNext PROVE Steps'
PROOF
  <1>0. ClientTyped /\ Steps /\ OneProcess
    BY Parts DEF IInv
  <1>1. CASE UNCHANGED <<phase, goal, method, page, nextID>>
    BY <1>0, <1>1 DEF Steps, Room
  <1>2. CASE Connect
    BY <1>0, <1>2 DEF Connect, Steps, Room
  <1>11. CASE Quit
    BY <1>0, <1>11 DEF Quit, Steps, Room
  <1>12. CASE Cancelled
    BY <1>0, <1>12 DEF Cancelled, Steps, Room
  <1>10. CASE CallTool
    BY <1>0, <1>10 DEF CallTool, Steps, Room
  <1>3. CASE Close
    BY <1>0, <1>3, Afterwards DEF Close, Steps, Room, Return
  <1>4. CASE Closed
    BY <1>0, <1>4, Afterwards DEF Closed, Steps, Room, Return, stdio, http
  <1>5. CASE Start
    BY <1>0, <1>5 DEF Start, Steps, Room, Return
  <1>6. CASE Write
    <2>1. /\ UNCHANGED <<goal, method, page>>
          /\ phase = "write" /\ nextID' = nextID + 1
          /\ phase' = "wait" \/ Return(FALSE)
      BY <1>6 DEF Write
    <2> QED
      BY <1>0, <2>1, OneIdLess DEF Steps, Room, Return
  <1>7. CASE Notify
    <2>1. UNCHANGED <<goal, nextID, page>> /\ phase = "notify" /\ phase' = "write"
          /\ method' = "tools/list"
      BY <1>7 DEF Notify
    <2>2. page = 0 /\ nextID + MaxPages <= MaxCalls
      BY <1>0, <2>1 DEF Steps, Room
    <2> QED
      BY <1>0, <2>1, <2>2, OneIdLess DEF Steps, Room
  <1>8. ASSUME NEW more, Receive(more) PROVE Steps'
    <2>1. /\ phase = "wait" /\ Answered(done.kind = "reply", more)
          /\ UNCHANGED <<goal, nextID>>
      BY <1>8 DEF Receive
    <2>2. method # "" /\ method \in {"initialize", "tools/list", "tools/call"} /\ goal # "quit"
      BY <1>0, <2>1 DEF Steps, ClientTyped
    <2>3. /\ method = "initialize" => page = 0 /\ nextID' + MaxPages <= MaxCalls
          /\ method = "tools/list" => nextID' + (MaxPages - page - 1) <= MaxCalls
      BY <1>0, <2>1 DEF Steps, Room
    <2> QED
      BY <1>0, <2>1, <2>2, <2>3, Onward
  <1>9. ASSUME NEW more, Post(more) PROVE Steps'
    <2>1. PICK good \in BOOLEAN : Answered(good, more)
      BY <1>9 DEF Post
    <2>2. phase = "write" /\ UNCHANGED goal /\ nextID' = nextID + 1
      BY <1>9 DEF Post
    <2>3. method # "" /\ method \in {"initialize", "tools/list", "tools/call"} /\ goal # "quit"
      BY <1>0, <2>2 DEF Steps, ClientTyped
    <2>4. /\ method = "initialize" => page = 0 /\ nextID' + MaxPages <= MaxCalls
          /\ method = "tools/list" => nextID' + (MaxPages - page - 1) <= MaxCalls
      BY <1>0, <2>2, OneIdLess DEF Steps, Room
    <2> QED
      BY <1>0, <2>1, <2>2, <2>3, <2>4, Onward
  <1> QED
    BY <1>1, <1>2, <1>3, <1>4, <1>5, <1>6, <1>7, <1>8, <1>9, <1>10,
       <1>11, <1>12, Elsewhere

-----------------------------------------------------------------------------
(* The processes. *)

(* Only Start makes a process run.                                           *)
LEMMA NoneStarts ==
  ASSUME IInv, McpNext, ~Start
  PROVE  \A g \in Processes : Running(g)' => Running(g)
  BY ServerSteps DEF ServerStep, Becomes, Passes, State, Running

(* Every step keeps that no process runs but the client's own.               *)
LEMMA OneProcessKept == ASSUME IInv, McpNext PROVE OneProcess'
PROOF
  <1>0. ClientTyped /\ OneProcess /\ ServersTyped /\ ReadersTyped
    BY Parts DEF IInv
  <1> DEFINE Same == \A g \in Processes : Running(g)' => Running(g)
  <1>1. Start \/ Same
    BY NoneStarts
  <1>2. 0 \notin Processes
    BY Constants
  <1>3. ASSUME \A r \in RequestIds : reader'[r].at = "reading" => reader'[r].from # 0,
               /\ \A g \in Processes : Running(g)' => g = proc' /\ phase' \notin {"start", "ended"}
               /\ phase' \in {"closing", "cancelling"} => proc' # 0 /\ ~Running(proc)'
               /\ phase' \in {"wait", "notify"} /\ transport' = "stdio" => proc' # 0
        PROVE  OneProcess'
    BY <1>3 DEF OneProcess
  <1>4. \A r \in RequestIds : reader'[r].at = "reading" => reader'[r].from # 0
    <2>1. CASE UNCHANGED reader
      BY <1>0, <2>1 DEF OneProcess
    <2>2. ASSUME NEW r \in RequestIds, NEW rd, reader' = [reader EXCEPT ![r] = rd],
                 rd.at = "reading" => rd.from # 0
          PROVE  \A q \in RequestIds : reader'[q].at = "reading" => reader'[q].from # 0
      BY <1>0, <2>2 DEF OneProcess, ReadersTyped
    <2>3. CASE Write
      BY <1>0, <2>1, <2>2, <2>3, Fits, ReadersMade, Parts DEF Write, IInv
    <2>4. ASSUME NEW r \in RequestIds, Loop(r) \/ ReadLine(r)
          PROVE  \A q \in RequestIds : reader'[q].at = "reading" => reader'[q].from # 0
      BY <1>0, <2>4 DEF Loop, ReadLine, OneProcess, ReadersTyped
    <2>5. ASSUME NEW r \in RequestIds, ReadFails(r) \/ Handle(r)
          PROVE  \A q \in RequestIds : reader'[q].at = "reading" => reader'[q].from # 0
      BY <2>2, <2>5, ReadersMade DEF ReadFails, Handle
    <2> QED
      BY <2>1, <2>3, <2>4, <2>5, ReaderSteps
  <1>5. CASE Start
    <2>1. phase = "start" /\ \A g \in Processes : ~Running(g)
      BY <1>0, <1>5 DEF Start, OneProcess
    <2>2. CASE UNCHANGED servers
      BY <1>2, <1>3, <1>4, <1>5, <2>1, <2>2 DEF Start, Return, Running
    <2>3. ASSUME NEW g \in Processes, proc' = g, Becomes(g, "running"),
                 phase' = "write"
          PROVE  OneProcess'
      <3>1. \A h \in Processes : Running(h)' => h = g
        BY <2>1, <2>3 DEF Becomes, State, Running
      <3> QED
        BY <1>3, <1>4, <2>3, <3>1
    <2>4. ASSUME NEW g \in Processes, proc' = g, phase' = "write",
                 servers' = [servers EXCEPT ![g].state = "running"]
          PROVE  OneProcess'
      <3>1. Becomes(g, "running")
        BY <1>0, <2>4, Changing
      <3> QED
        BY <2>3, <2>4, <3>1
    <2> QED
      BY <1>5, <2>2, <2>4 DEF Start
  <1>6. CASE Close
    <2>1. proc' = proc /\ (Start \/ Same)
      BY <1>1, <1>6 DEF Close
    <2>2. ~Start
      BY <1>6 DEF Close, Start
    <2>3. CASE proc = 0
      <3>1. \A g \in Processes : ~Running(g)'
        BY <1>0, <1>2, <2>1, <2>2, <2>3 DEF OneProcess
      <3>2. phase' \in {"ended", "start", "idle"}
        BY <1>6, <2>3, Afterwards DEF Close, Return
      <3> QED
        BY <1>3, <1>4, <3>1, <3>2
    <2>4. CASE proc # 0
      <3>1. PICK g \in Processes : g = proc
        BY <1>0, <2>4, Constants DEF ClientTyped
      <3>2. phase' \in {"closing", "cancelling"}
        BY <1>6, <2>4 DEF Close
      <3>3. ~Running(g)'
        <4>1. CASE UNCHANGED servers /\ ~Running(g)
          BY <4>1 DEF Running
        <4>2. CASE servers' = [servers EXCEPT ![g].state = "killed"]
          <5>1. Becomes(g, "killed")
            BY <1>0, <4>2, Changing
          <5> QED
            BY <5>1 DEF Becomes, State, Running
        <4> QED
          BY <1>6, <2>4, <3>1, <4>1, <4>2 DEF Close
      <3> QED
        BY <1>0, <1>3, <1>4, <2>1, <2>2, <2>4, <3>1, <3>2, <3>3 DEF OneProcess, Running
    <2> QED
      BY <2>3, <2>4
  <1>7. CASE Closed
    <2>1. /\ proc' = 0 /\ UNCHANGED servers /\ ~Running(proc)
          /\ phase \in {"closing", "cancelling"}
      BY <1>7 DEF Closed, stdio, Running
    <2>2. \A g \in Processes : ~Running(g)'
      BY <1>0, <2>1 DEF OneProcess, Running
    <2>3. phase' \in {"ended", "start", "idle"}
      BY <1>7, Afterwards DEF Closed, Return
    <2> QED
      BY <1>3, <1>4, <2>2, <2>3
  <1>8. CASE /\ UNCHANGED proc /\ ~Start
             /\ phase' \notin {"start", "ended", "closing", "cancelling"}
             /\ phase' \in {"wait", "notify"} /\ transport' = "stdio" => proc # 0
    BY <1>0, <1>1, <1>3, <1>4, <1>8 DEF OneProcess
  <1>9. CASE UNCHANGED <<phase, proc, transport>> /\ ~Start
    <2>1. proc # 0 => proc \in Processes
      BY <1>0, Constants DEF ClientTyped
    <2> QED
      BY <1>0, <1>1, <1>3, <1>4, <1>9, <2>1 DEF OneProcess
  <1>10. \/ Start \/ Close \/ Closed
         \/ UNCHANGED <<phase, proc, transport>> /\ ~Start
         \/ /\ UNCHANGED proc /\ ~Start
            /\ phase' \notin {"start", "ended", "closing", "cancelling"}
            /\ phase' \in {"wait", "notify"} /\ transport' = "stdio" => proc # 0
    <2>1. CASE Connect \/ CallTool \/ Quit \/ Cancelled \/ Notify
      BY <2>1 DEF Connect, CallTool, Quit, Cancelled, Notify
    <2>2. CASE Write
      BY <2>2 DEF Write, Return
    <2>3. ASSUME NEW more, Receive(more)
          PROVE  /\ UNCHANGED <<proc, transport>> /\ phase = "wait"
                 /\ phase' \in {"idle", "notify", "write"}
      <3>1. Answered(done.kind = "reply", more)
        BY <2>3 DEF Receive
      <3> QED
        BY <2>3, <3>1, Outcomes DEF Receive, Return
    <2>4. ASSUME NEW more, Post(more)
          PROVE  /\ UNCHANGED <<proc, transport>> /\ transport = "http"
                 /\ phase = "write" /\ phase' \in {"idle", "notify", "write"}
      <3>1. \E good \in BOOLEAN : Answered(good, more)
        BY <2>4 DEF Post
      <3> QED
        BY <2>4, <3>1, Outcomes DEF Post, Return
    <2>5. Start => phase = "start" /\ phase' # "start"
      BY DEF Start, Return
    <2>6. \/ UNCHANGED <<phase, proc, transport>>
          \/ Write \/ Connect \/ CallTool \/ Quit \/ Cancelled \/ Notify \/ Close
          \/ Closed \/ Start \/ \E more \in BOOLEAN : Receive(more) \/ Post(more)
      BY DEF McpNext, Agent, Reader, Cancel, TimesOut, Loop, ReadLine, ReadFails, Handle,
             ServeLine, Die, Speak, Forget, agentVars
    <2> QED
      BY <1>0, <2>1, <2>2, <2>3, <2>4, <2>5, <2>6 DEF OneProcess
  <1> QED
    BY <1>5, <1>6, <1>7, <1>8, <1>9, <1>10

-----------------------------------------------------------------------------
(* The pipes. *)

(* A line of an earlier request stays one.                                   *)
LEMMA MineKept ==
  ASSUME IInv, McpNext, NEW line, NEW g, line.id \in Nat, Mine(line, g)
  PROVE  Mine(line, g)'
PROOF
  <1>0. ClientTyped
    BY Parts DEF IInv
  <1>1. CASE UNCHANGED nextID /\ (phase' = "wait" => phase = "wait" /\ UNCHANGED proc)
    BY <1>1 DEF Mine
  <1>2. CASE nextID' = nextID + 1
    <2>1. nextID \in Nat
      BY <1>0, Counts
    <2> QED
      BY <1>2, <2>1 DEF Mine
  <1>3. \/ nextID' = nextID + 1
        \/ UNCHANGED nextID /\ (phase' = "wait" => phase = "wait" /\ UNCHANGED proc)
    <2>1. CASE Write \/ \E more \in BOOLEAN : Post(more)
      BY <2>1 DEF Write, Post
    <2>2. CASE Connect \/ CallTool \/ Quit \/ Cancelled \/ Notify
      BY <2>2 DEF Connect, CallTool, Quit, Cancelled, Notify
    <2>3. CASE Close \/ Closed
      BY <2>3, Afterwards DEF Close, Closed, Return
    <2>4. CASE Start
      BY <2>4 DEF Start, Return
    <2>5. ASSUME NEW more, Receive(more)
          PROVE  UNCHANGED <<nextID, proc>> /\ phase = "wait"
      BY <2>5 DEF Receive
    <2>6. CASE UNCHANGED <<phase, nextID, proc>>
      BY <2>6
    <2>7. \/ UNCHANGED <<phase, nextID, proc>>
          \/ Write \/ Connect \/ CallTool \/ Quit \/ Cancelled \/ Notify \/ Close
          \/ Closed \/ Start \/ \E more \in BOOLEAN : Receive(more) \/ Post(more)
      BY DEF McpNext, Agent, Reader, Cancel, TimesOut, Loop, ReadLine, ReadFails, Handle,
             ServeLine, Die, Speak, Forget, agentVars
    <2> QED
      BY <2>1, <2>2, <2>3, <2>4, <2>5, <2>6, <2>7
  <1> QED
    BY <1>1, <1>2, <1>3

(* Every step keeps what may be in the pipes.                                *)
LEMMA PipesKept == ASSUME IInv, McpNext PROVE Pipes'
PROOF
  <1>0. ClientTyped /\ OneProcess /\ ServersTyped /\ ReadersTyped /\ Pipes
    BY Parts DEF IInv
  <1>1. \A g \in Processes : /\ Ins(g) \subseteq Lines /\ Outs(g) \subseteq Lines
                             /\ \A line \in Ins(g) : RequestOf(line, g)
                             /\ \A line \in Outs(g) : AnswerOf(line, g)
    <2>1. \A g \in Processes : servers[g].in \in Seq(Lines) /\ servers[g].out \in Seq(Lines)
      BY <1>0 DEF ServersTyped
    <2>2. \A pipe \in Seq(Lines) : Range(pipe) \subseteq Lines
      BY DEF Range
    <2> QED
      BY <1>0, <2>1, <2>2, Zenon DEF Pipes, Ins, Outs
  <1>2. \A r \in RequestIds : reader[r].line \in Lines /\ Held(reader[r].line)
    BY <1>0 DEF Pipes, ReadersTyped
  <1>3. \A line \in Lines :
          /\ \A g : /\ RequestOf(line, g) => RequestOf(line, g)'
                    /\ AnswerOf(line, g) => AnswerOf(line, g)'
          /\ Held(line) => Held(line)'
    <2>1. \A line \in Lines : line.id \in Nat
      BY DEF Lines
    <2> QED
      BY <2>1, MineKept DEF RequestOf, AnswerOf, Held
  <1>4. \A g \in Processes : /\ \A line \in Ins(g)' : RequestOf(line, g)'
                             /\ \A line \in Outs(g)' : AnswerOf(line, g)'
    <2>1. CASE UNCHANGED servers
      BY <1>1, <1>3, <2>1 DEF Ins, Outs
    <2>2. ASSUME NEW g \in Processes, NEW state, Becomes(g, state)
          PROVE  \A h \in Processes : /\ \A line \in Ins(h)' : RequestOf(line, h)'
                                      /\ \A line \in Outs(h)' : AnswerOf(line, h)'
      BY <1>1, <1>3, <2>2 DEF Becomes
    <2>3. ASSUME NEW g \in Processes, NEW in, NEW out, Passes(g, in, out),
                 \A line \in in : RequestOf(line, g)', \A line \in out : AnswerOf(line, g)'
          PROVE  \A h \in Processes : /\ \A line \in Ins(h)' : RequestOf(line, h)'
                                      /\ \A line \in Outs(h)' : AnswerOf(line, h)'
      BY <1>1, <1>3, <2>3 DEF Passes
    <2>4. ASSUME NEW g \in Processes, NEW line, Write, g = proc,
                 line.kind = "call", line.id = nextID'
          PROVE  RequestOf(line, g)'
      <3>1. nextID' \in 1..nextID' /\ proc' = proc
        BY <1>0, <2>4, Counts DEF Write
      <3> QED
        BY <2>4, <3>1 DEF RequestOf, Mine
    <2>5. ASSUME NEW g \in Processes, NEW call \in Ins(g), call.kind = "call", NEW line,
                 line.id = call.id, line.by = g
          PROVE  AnswerOf(line, g)'
      <3>1. RequestOf(call, g)'
        BY <1>1, <1>3
      <3> QED
        BY <2>5, <3>1 DEF RequestOf, AnswerOf, Mine
    <2>6. \A line : line.kind \in {"note", "ask", "answer"} =>
            \A g : RequestOf(line, g)' /\ AnswerOf(line, g)'
      BY DEF RequestOf, AnswerOf, IsAnswer
    <2>7. ASSUME NEW g \in Processes, Write, g = proc,
                 Passes(g, {[kind |-> "call", id |-> nextID', by |-> 0]}, {})
          PROVE  \A h \in Processes : /\ \A line \in Ins(h)' : RequestOf(line, h)'
                                      /\ \A line \in Outs(h)' : AnswerOf(line, h)'
      <3>1. PICK line : line = [kind |-> "call", id |-> nextID', by |-> 0]
        OBVIOUS
      <3>2. RequestOf(line, g)'
        BY <2>4, <2>7, <3>1
      <3> QED
        BY <2>3, <2>7, <3>1, <3>2
    <2>8. ASSUME NEW g \in Processes, NEW call \in Ins(g), call.kind = "call",
                 NEW kind \in {"reply", "error"},
                 Passes(g, {}, {[kind |-> kind, id |-> call.id, by |-> g]})
          PROVE  \A h \in Processes : /\ \A line \in Ins(h)' : RequestOf(line, h)'
                                      /\ \A line \in Outs(h)' : AnswerOf(line, h)'
      <3>1. PICK line : line = [kind |-> kind, id |-> call.id, by |-> g]
        OBVIOUS
      <3>2. AnswerOf(line, g)'
        BY <2>5, <2>8, <3>1
      <3> QED
        BY <2>3, <2>8, <3>1, <3>2
    <2>9. ASSUME NEW g \in Processes, NEW line \in Lines, line.kind \in {"note", "ask", "answer"},
                 Passes(g, {}, {}) \/ Passes(g, {line}, {}) \/ Passes(g, {}, {line})
          PROVE  \A h \in Processes : /\ \A found \in Ins(h)' : RequestOf(found, h)'
                                      /\ \A found \in Outs(h)' : AnswerOf(found, h)'
      <3>1. RequestOf(line, g)' /\ AnswerOf(line, g)'
        BY <2>6, <2>9
      <3> QED
        BY <2>3, <2>9, <3>1
    <2> QED
      BY <2>1, <2>2, <2>7, <2>8, <2>9, ServerSteps DEF ServerStep
  <1>5. \A r \in RequestIds : Held(reader[r].line)'
    <2>1. CASE UNCHANGED reader
      BY <1>2, <1>3, <2>1
    <2>2. ASSUME NEW r \in RequestIds, NEW rd, reader' = [reader EXCEPT ![r] = rd],
                 rd.line \in Lines, Held(rd.line)'
          PROVE  \A q \in RequestIds : Held(reader[q].line)'
      BY <1>0, <1>2, <1>3, <2>2 DEF ReadersTyped
    <2>3. Held(NoLine)'
      BY DEF Held, IsAnswer, NoLine
    <2>4. CASE Write
      <3>1. CASE reader' = [reader EXCEPT ![nextID'] = Looping]
        <4>1. nextID' \in RequestIds
          BY <1>0, <2>4, Fits, Parts DEF Write, IInv
        <4>2. Looping.line = NoLine /\ NoLine \in Lines
          BY ReadersMade, LinesMade
        <4>3. \A q \in RequestIds : reader'[q].line \in {NoLine, reader[q].line}
          BY <1>0, <3>1, <4>1, <4>2 DEF ReadersTyped
        <4> QED
          BY <1>2, <1>3, <2>3, <4>3
      <3> QED
        BY <2>1, <2>4, <3>1 DEF Write
    <2>5. ASSUME NEW r \in RequestIds, Loop(r) PROVE \A q \in RequestIds : Held(reader[q].line)'
      BY <1>0, <1>2, <1>3, <2>5 DEF Loop, ReadersTyped
    <2>6. ASSUME NEW r \in RequestIds, ReadLine(r)
          PROVE  \A q \in RequestIds : Held(reader[q].line)'
      <3>1. PICK g \in Processes : g = reader[r].from
        BY <1>0, <2>6, Constants DEF ReadLine, OneProcess, ReadersTyped
      <3>2. PICK line : line = Head(servers[g].out)
        OBVIOUS
      <3>3. line \in Lines /\ line \in Outs(g)
        BY <1>0, <2>6, <3>1, <3>2, Taking DEF ReadLine
      <3>4. AnswerOf(line, g)'
        BY <1>1, <1>3, <3>3
      <3>5. Held(line)'
        BY <3>4 DEF AnswerOf, Held
      <3>6. /\ reader'[r].line = line
            /\ \A q \in RequestIds \ {r} : reader'[q].line = reader[q].line
        BY <1>0, <2>6, <3>1, <3>2 DEF ReadLine, ReadersTyped
      <3> QED
        BY <1>2, <1>3, <3>5, <3>6
    <2>7. ASSUME NEW r \in RequestIds, ReadFails(r) \/ Handle(r)
          PROVE  \A q \in RequestIds : Held(reader[q].line)'
      BY <2>2, <2>3, <2>7, ReadersMade, LinesMade DEF ReadFails, Handle
    <2> QED
      BY <2>1, <2>4, <2>5, <2>6, <2>7, ReaderSteps
  <1> QED
    BY <1>4, <1>5, Zenon DEF Pipes, Ins, Outs

-----------------------------------------------------------------------------
(* The answers and the sessions. *)

(* Every step keeps that an answer is the call's own.                        *)
LEMMA AnswersKept == ASSUME IInv, McpNext PROVE AnswersTheCall'
PROOF
  <1>0. Pipes /\ AnswersTheCall
    BY DEF IInv
  <1>1. ASSUME UNCHANGED done, phase' = "wait" => phase = "wait" /\ UNCHANGED <<nextID, proc>>
        PROVE  AnswersTheCall'
    BY <1>0, <1>1 DEF AnswersTheCall
  <1>2. CASE Write
    BY <1>2 DEF Write, AnswersTheCall
  <1>3. ASSUME NEW r \in RequestIds, ReadFails(r) PROVE AnswersTheCall'
    BY <1>0, <1>3 DEF ReadFails, Delivers, AnswersTheCall
  <1>4. ASSUME NEW r \in RequestIds, Handle(r) PROVE AnswersTheCall'
    <2>1. UNCHANGED <<phase, nextID, proc>> /\ Held(reader[r].line)
      BY <1>0, <1>4 DEF Handle, Pipes
    <2>2. CASE UNCHANGED done
      BY <1>1, <2>1, <2>2
    <2>3. CASE /\ r = nextID /\ done' = reader[r].line
               /\ IsAnswer(reader[r].line) /\ reader[r].line.id = r
      BY <2>1, <2>3 DEF AnswersTheCall, Held, Mine, IsAnswer
    <2> QED
      BY <1>4, <2>2, <2>3 DEF Handle, Delivers, IsAnswer
  <1>5. \/ Write \/ \E r \in RequestIds : ReadFails(r) \/ Handle(r)
        \/ /\ UNCHANGED done
           /\ phase' = "wait" => phase = "wait" /\ UNCHANGED <<nextID, proc>>
    <2>1. CASE Connect \/ CallTool \/ Quit \/ Cancelled \/ Notify
      BY <2>1 DEF Connect, CallTool, Quit, Cancelled, Notify
    <2>2. CASE Close \/ Closed
      BY <2>2, Afterwards DEF Close, Closed, Return
    <2>3. CASE Start
      BY <2>3 DEF Start, Return
    <2>4. ASSUME NEW more, Receive(more)
          PROVE  UNCHANGED <<done, nextID, proc>> /\ phase = "wait"
      BY <2>4 DEF Receive
    <2>5. ASSUME NEW more, Post(more) PROVE UNCHANGED done /\ phase' # "wait"
      <3>1. \E good \in BOOLEAN : Answered(good, more)
        BY <2>5 DEF Post
      <3> QED
        BY <2>5, <3>1, Outcomes DEF Post, Return
    <2>6. \/ UNCHANGED <<phase, nextID, proc, done>>
          \/ Write \/ Connect \/ CallTool \/ Quit \/ Cancelled \/ Notify \/ Close
          \/ Closed \/ Start \/ \E more \in BOOLEAN : Receive(more) \/ Post(more)
          \/ \E r \in RequestIds : ReadFails(r) \/ Handle(r)
      BY DEF McpNext, Agent, Reader, Cancel, TimesOut, Loop, ReadLine, ServeLine, Die, Speak,
             Forget, agentVars
    <2> QED
      BY <2>1, <2>2, <2>3, <2>4, <2>5, <2>6
  <1> QED
    BY <1>1, <1>2, <1>3, <1>4, <1>5

(* Every step keeps that no session is open but its own, or one gone astray. *)
LEMMA OneSessionKept == ASSUME IInv, McpNext PROVE OneSession'
PROOF
  <1>0. OneSession
    BY DEF IInv
  <1> DEFINE Without == \/ phase \in {"closing", "cancelling", "start", "ended"}
                        \/ phase = "write" /\ method = "initialize"
  <1>1. ASSUME UNCHANGED http, Without' => Without PROVE OneSession'
    BY <1>0, <1>1 DEF OneSession, http
  <1>2. CASE Close
    BY <1>0, <1>2 DEF Close, OneSession
  <1>3. CASE Forget
    BY <1>0, <1>3 DEF Forget, OneSession
  <1>4. ASSUME NEW more, Post(more) PROVE OneSession'
    <2>1. PICK good \in BOOLEAN : Answered(good, more)
      BY <1>4 DEF Post
    <2>2. ~Without'
      BY <2>1, Outcomes DEF Return
    <2>3. CASE UNCHANGED http
      BY <1>1, <2>2, <2>3
    <2>4. CASE /\ method = "initialize" /\ live' = live \cup {issued'}
               /\ \/ astray' = astray \cup {issued'} /\ UNCHANGED session
                  \/ session' = issued' /\ UNCHANGED astray
      BY <1>0, <1>4, <2>2, <2>4 DEF OneSession, Post
    <2> QED
      BY <1>4, <2>3, <2>4 DEF Post
  <1>5. \/ Close \/ Forget \/ (\E more \in BOOLEAN : Post(more))
        \/ UNCHANGED http /\ (Without' => Without)
    <2>1. CASE Connect \/ CallTool \/ Quit \/ Cancelled \/ Notify
      BY <2>1 DEF Connect, CallTool, Quit, Cancelled, Notify
    <2>2. CASE Closed
      BY <2>2 DEF Closed, http
    <2>3. CASE Start
      BY <2>3 DEF Start, Return
    <2>4. CASE Write
      BY <2>4 DEF Write, Return
    <2>5. ASSUME NEW more, Receive(more) PROVE UNCHANGED http /\ ~Without'
      <3>1. Answered(done.kind = "reply", more)
        BY <2>5 DEF Receive
      <3> QED
        BY <2>5, <3>1, Outcomes DEF Receive, Return
    <2>6. \/ UNCHANGED <<phase, method, http>>
          \/ Close \/ Forget \/ Write \/ Connect \/ CallTool \/ Quit \/ Cancelled
          \/ Notify \/ Closed \/ Start \/ \E more \in BOOLEAN : Receive(more) \/ Post(more)
      BY DEF McpNext, Agent, Reader, Cancel, TimesOut, Loop, ReadLine, ReadFails, Handle,
             ServeLine, Die, Speak, agentVars
    <2> QED
      BY <2>1, <2>2, <2>3, <2>4, <2>5, <2>6
  <1> QED
    BY <1>1, <1>2, <1>3, <1>4, <1>5

-----------------------------------------------------------------------------
(* The theorems. *)

(* The invariant holds at first.                                             *)
LEMMA Initially == McpInit => IInv
PROOF
  <1> SUFFICES ASSUME McpInit PROVE IInv
    OBVIOUS
  <1>1. Steps
    BY DEF McpInit, Steps
  <1>2. Pipes
    BY NothingInIt
       DEF McpInit, Pipes, NoServer, NoReader, NoLine, RequestOf, AnswerOf, Held, IsAnswer
  <1>3. OneProcess
    BY DEF McpInit, OneProcess, Running, NoServer, NoReader
  <1>4. OneSession /\ AnswersTheCall
    BY DEF McpInit, OneSession, AnswersTheCall
  <1> QED
    BY <1>1, <1>2, <1>3, <1>4, InitTyped DEF IInv

(* The invariant is inductive: it holds at first and every step, of the      *)
(* agent, a reader, a server or nobody, keeps it.                            *)
THEOREM Invariance == McpSpec => []IInv
PROOF
  <1>1. IInv /\ UNCHANGED mcpVars => IInv'
    <2> SUFFICES ASSUME IInv, UNCHANGED mcpVars PROVE IInv'
      OBVIOUS
    <2> USE DEF mcpVars, agentVars, stdio, http
    <2>1. McpTypeOK'
      BY Parts, ZenonT(40) DEF IInv, McpTypeOK
    <2>2. Steps' /\ AnswersTheCall'
      BY DEF IInv, Steps, Room, AnswersTheCall
    <2>3. Pipes'
      BY DEF IInv, Pipes, RequestOf, AnswerOf, Held, Mine
    <2>4. OneProcess' /\ OneSession'
      BY DEF IInv, OneProcess, Running, OneSession
    <2> QED
      BY <2>1, <2>2, <2>3, <2>4 DEF IInv
  <1>2. IInv /\ McpNext => IInv'
    BY Typed, StepsKept, PipesKept, OneProcessKept, OneSessionKept, AnswersKept DEF IInv
  <1> QED
    BY <1>1, <1>2, Initially, PTL DEF McpSpec

(* roundTripStdio and roundTripHTTP (agent_mcp.go): what a call takes for    *)
(* its answer is its own request's, from the process that was asked, however *)
(* many calls were cancelled, processes launched and lines said unasked.     *)
THEOREM AnswerIsTheCallsOwn == McpSpec => []AnswersTheCall
  BY Invariance, PTL DEF IInv

(* closeLocked and startProcess: every process but the connection's own has  *)
(* been killed or has died, none survives the agent, and a live session is   *)
(* the connection's own or one it was not told of or could not end.          *)
THEOREM NothingIsLeft == McpSpec => []NothingLeftBehind
PROOF
  <1>1. IInv => NothingLeftBehind
    BY DEF IInv, NothingLeftBehind, OneProcess, OneSession
  <1> QED
    BY <1>1, Invariance, PTL
=============================================================================
