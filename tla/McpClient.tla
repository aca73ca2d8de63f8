------------------------------ MODULE McpClient ------------------------------
(***************************************************************************)
(* The agent's client of an external MCP server (mcpClient of              *)
(* agent_mcp.go), and the server at the other end.  Over stdio the client  *)
(* launches the server's process and exchanges lines with it; every call   *)
(* has a goroutine of its own that reads lines until the answer comes.     *)
(* Cancelling a call kills the process.  Over HTTP a call is one POST, in  *)
(* the session the server issued.  The agent makes one call at a time.     *)
(*                                                                         *)
(* The server is stdio.go's loop, which answers the requests it is sent    *)
(* one after the other; other servers may also send notifications and      *)
(* requests of their own, and any may die.  That a line too long for the   *)
(* pipe blocks its writer is left out.                                     *)
(***************************************************************************)
EXTENDS Integers, Sequences, FiniteSets

CONSTANTS
  Legacy,    (* whether the server still answers initialize                  *)
  MaxPages,  (* the pages its list of tools may have; connect reads 50       *)
  MaxCalls,  (* bound of the model: requests made in all                     *)
  MaxStarts, (* bound of the model: processes launched, or sessions opened   *)
  MaxSpeaks, (* bound of the model: what the server sends unasked            *)
  MaxCancels (* bound of the model: interrupted or timed out connections and *)
             (* calls                                                        *)

ASSUME McpAssumption ==
  /\ Legacy \in BOOLEAN
  /\ MaxPages \in 1..50
  /\ {MaxCalls, MaxStarts, MaxSpeaks, MaxCancels} \subseteq Nat

VARIABLES
  transport, (* "stdio" or "http"                                            *)
  phase,     (* what the agent's goroutine is about to do                    *)
  goal,      (* "connect" or "call"                                          *)
  method,    (* of the request that is made                                  *)
  page,      (* how many pages of tools have been read                       *)
  ctx,       (* "live" or "cancelled"                                        *)
  nextID,    (* c.nextID, and so the id of the request that is waited for    *)
  done,      (* the channel of that request                                  *)
  connected, (* conn.connected                                               *)
  proc,      (* c.cmd, c.stdin and c.stdout: which process, 0 when nil       *)
  servers,   (* the processes launched: their state and their two pipes      *)
  reader,    (* of each request, the goroutine that reads its answer         *)
  crashed,   (* whether the agent has panicked                               *)
  session,   (* c.session, 0 when there is none                              *)
  live,      (* the sessions the HTTP server knows                           *)
  issued,    (* how many it has issued                                       *)
  astray,    (* those the client was not told of, or could not end; not part *)
             (* of the code                                                  *)
  speaks,
  cancels

agentVars == <<phase, goal, method, page, ctx, nextID, done, connected, proc>>
stdio == <<servers, reader, crashed, speaks>>
http == <<session, live, issued, astray>>
mcpVars == <<transport, agentVars, stdio, http, cancels>>

RequestIds == 1..MaxCalls
Processes == 1..MaxStarts
NoLine == [kind |-> "none", id |-> 0, by |-> 0]
NoServer == [state |-> "none", in |-> <<>>, out |-> <<>>]
NoReader == [at |-> "none", from |-> 0, line |-> NoLine]
Looping == [NoReader EXCEPT !.at = "loop"]
GoneReader == [NoReader EXCEPT !.at = "gone"]
Running(g) == servers[g].state = "running"

McpInit ==
  /\ transport \in {"stdio", "http"}
  /\ phase = "idle" /\ goal = "connect" /\ method = "" /\ page = 0
  /\ ctx = "live" /\ nextID = 0 /\ done = NoLine
  /\ connected = FALSE
  /\ proc = 0
  /\ servers = [g \in Processes |-> NoServer]
  /\ reader = [r \in RequestIds |-> NoReader]
  /\ crashed = FALSE
  /\ session = 0 /\ live = {} /\ issued = 0 /\ astray = {}
  /\ speaks = 0 /\ cancels = 0

-----------------------------------------------------------------------------
(* The agent's goroutine: /connect, and a tool's call. *)

(* An error of a connection leaves it not connected; an error of a call      *)
(* leaves it as it is.                                                       *)
Return(ok) ==
  /\ phase' = "idle"
  /\ connected' = IF goal = "connect" THEN ok ELSE connected

Room(requests) == nextID + requests <= MaxCalls

ConnectKeepsProcess ==  \* mutant: the old process is not closed first
  /\ phase = "idle" /\ Room(1 + MaxPages)
  /\ goal' = "connect" /\ ctx' = "live" /\ phase' = "start"
  /\ UNCHANGED <<transport, method, page, nextID, done, connected, proc, stdio,
                 http, cancels>>
Connect ==
  /\ phase = "idle" /\ Room(1 + MaxPages)
  /\ goal' = "connect" /\ ctx' = "live" /\ phase' = "close"
  /\ UNCHANGED <<transport, method, page, nextID, done, connected, proc, stdio,
                 http, cancels>>

CallTool ==
  /\ phase = "idle" /\ connected /\ Room(1)
  /\ goal' = "call" /\ ctx' = "live" /\ phase' = "write" /\ method' = "tools/call"
  /\ UNCHANGED <<transport, page, nextID, done, connected, proc, stdio, http,
                 cancels>>

(* closeConnections, when the agent ends.                                    *)
Quit ==
  /\ phase = "idle"
  /\ goal' = "quit" /\ phase' = "close"
  /\ UNCHANGED <<transport, method, page, ctx, nextID, done, connected, proc,
                 stdio, http, cancels>>

AfterClose ==
  CASE goal = "quit" -> phase' = "ended" /\ UNCHANGED connected
    [] goal # "quit" /\ phase \in {"close", "closing"} ->
         phase' = "start" /\ UNCHANGED connected
    [] OTHER -> Return(FALSE)

(* closeLocked: the process is killed and waited for; an HTTP session is     *)
(* ended, if the server can be reached.                                      *)
Close ==
  /\ phase \in {"close", "cancel"}
  /\ IF proc = 0
     THEN AfterClose /\ UNCHANGED servers
     ELSE /\ phase' = IF phase = "close" THEN "closing" ELSE "cancelling"
          /\ servers' = IF Running(proc)
                        THEN [servers EXCEPT ![proc].state = "killed"] ELSE servers
          /\ UNCHANGED connected
  /\ session' = 0
  /\ \E reached \in BOOLEAN :
       /\ live' = IF reached THEN live \ {session} ELSE live
       /\ astray' = IF reached THEN astray ELSE astray \cup {session}
  /\ UNCHANGED <<transport, goal, method, page, ctx, nextID, done, proc,
                 reader, crashed, speaks, issued, cancels>>

(* Wait returns once the process is gone, and what holds its pipes.          *)
Closed ==
  /\ phase \in {"closing", "cancelling"}
  /\ servers[proc].state = "dead"
  /\ proc' = 0
  /\ AfterClose
  /\ UNCHANGED <<transport, goal, method, page, ctx, nextID, done, stdio, http,
                 cancels>>

(* startProcess; then initialize.                                            *)
Start ==
  /\ phase = "start"
  /\ page' = 0
  /\ IF transport = "http"
     THEN /\ phase' = "write" /\ method' = "initialize"
          /\ UNCHANGED <<proc, servers, connected>>
     ELSE \/ Return(FALSE) /\ UNCHANGED <<proc, servers, method>>
          \/ \E g \in Processes :
               /\ servers[g].state = "none"
               /\ \A h \in 1..(g - 1) : servers[h].state # "none"
               /\ proc' = g
               /\ servers' = [servers EXCEPT ![g].state = "running"]
               /\ phase' = "write" /\ method' = "initialize"
               /\ UNCHANGED connected
  /\ UNCHANGED <<transport, goal, ctx, nextID, done, reader, crashed, speaks,
                 http, cancels>>

Say(line) == servers' = [servers EXCEPT ![proc].in = Append(@, line)]

(* writeStdio fails when there is no process or it is gone.                  *)
Write ==
  /\ phase = "write" /\ transport = "stdio"
  /\ nextID' = nextID + 1
  /\ done' = NoLine
  /\ IF proc # 0 /\ Running(proc)
     THEN /\ Say([kind |-> "call", id |-> nextID', by |-> 0])
          /\ reader' = [reader EXCEPT ![nextID'] = Looping]
          /\ phase' = "wait"
          /\ UNCHANGED connected
     ELSE Return(FALSE) /\ UNCHANGED <<servers, reader>>
  /\ UNCHANGED <<transport, goal, method, page, ctx, proc, crashed, speaks,
                 http, cancels>>

(* What a request's answer leads to: the next request of a connection, or    *)
(* its end.  A list that goes on has another page.                           *)
Answered(good, more) ==
  CASE ~good -> Return(FALSE) /\ UNCHANGED <<method, page>>
    [] good /\ method = "initialize" ->
         phase' = "notify" /\ UNCHANGED <<connected, method, page>>
    [] good /\ method = "tools/list" /\ more /\ page + 1 < MaxPages ->
         phase' = "write" /\ page' = page + 1 /\ UNCHANGED <<connected, method>>
    [] OTHER -> Return(TRUE) /\ UNCHANGED <<method, page>>

Receive(more) ==
  /\ phase = "wait" /\ done # NoLine
  /\ Answered(done.kind = "reply", more)
  /\ UNCHANGED <<transport, goal, ctx, nextID, done, proc, stdio, http, cancels>>

Cancelled ==
  /\ phase = "wait" /\ ctx = "cancelled"
  /\ phase' = "cancel"
  /\ UNCHANGED <<transport, goal, method, page, ctx, nextID, done, connected,
                 proc, stdio, http, cancels>>

(* notifications/initialized; that it could not be written does not matter.  *)
Notify ==
  /\ phase = "notify"
  /\ phase' = "write" /\ method' = "tools/list"
  /\ IF transport = "stdio" /\ Running(proc) THEN Say([kind |-> "note", id |-> 0, by |-> 0])
                                             ELSE UNCHANGED servers
  /\ UNCHANGED <<transport, goal, page, ctx, nextID, done, connected, proc,
                 reader, crashed, speaks, http, cancels>>

(* Ctrl-C, or the wall clock of the turn; and a connection's 45 seconds.     *)
Cancel ==
  /\ phase # "idle" /\ ctx = "live" /\ cancels < MaxCancels
  /\ ctx' = "cancelled" /\ cancels' = cancels + 1
  /\ UNCHANGED <<transport, phase, goal, method, page, nextID, done, connected,
                 proc, stdio, http>>

TimesOut ==
  /\ goal = "connect" /\ phase = "wait" /\ ctx = "live"
  /\ ctx' = "cancelled"
  /\ UNCHANGED <<transport, phase, goal, method, page, nextID, done, connected,
                 proc, stdio, http, cancels>>

-----------------------------------------------------------------------------
(* The goroutine that reads the answer to request r. *)

(* It takes c.stdout anew for every line.                                    *)
Loop(r) ==
  /\ reader[r].at = "loop"
  /\ IF proc = 0
     THEN crashed' = TRUE /\ UNCHANGED reader
     ELSE /\ reader' = [reader EXCEPT ![r].at = "reading", ![r].from = proc]
          /\ UNCHANGED crashed
  /\ UNCHANGED <<transport, agentVars, servers, speaks, http, cancels>>

ReadLine(r) ==
  /\ reader[r].at = "reading"
  /\ LET g == reader[r].from IN
     /\ servers[g].out # <<>>
     /\ servers' = [servers EXCEPT ![g].out = Tail(@)]
     /\ reader' = [reader EXCEPT ![r].at = "holding", ![r].line = Head(servers[g].out)]
  /\ UNCHANGED <<transport, agentVars, crashed, speaks, http, cancels>>

Delivers(r, line) == done' = IF r = nextID THEN line ELSE done

(* The process closed its output, or it was closed under the reader.         *)
ReadFails(r) ==
  /\ reader[r].at = "reading" /\ servers[reader[r].from].state = "dead"
  /\ Delivers(r, [kind |-> "closed", id |-> 0, by |-> 0])
  /\ reader' = [reader EXCEPT ![r] = GoneReader]
  /\ UNCHANGED <<transport, phase, goal, method, page, ctx, nextID, connected,
                 proc, servers, crashed, speaks, http, cancels>>

Decline(line) ==
  IF line.kind = "ask" /\ proc # 0 /\ Running(proc)
  THEN Say([kind |-> "answer", id |-> line.id, by |-> 0])
  ELSE UNCHANGED servers

(* A request of the server's is declined; of everything else only the answer *)
(* with the right id matters.                                                *)
TakesAnything(r) ==  \* mutant: the id of an answer is not looked at
  /\ reader[r].at = "holding"
  /\ Decline(reader[r].line)
  /\ IF reader[r].line.kind # "ask"
     THEN /\ Delivers(r, reader[r].line)
          /\ reader' = [reader EXCEPT ![r] = GoneReader]
     ELSE reader' = [reader EXCEPT ![r] = Looping] /\ UNCHANGED done
  /\ UNCHANGED <<transport, phase, goal, method, page, ctx, nextID, connected,
                 proc, crashed, speaks, http, cancels>>
StopsAtRequest(r) ==  \* mutant: the reader is done once it has declined
  /\ reader[r].at = "holding"
  /\ Decline(reader[r].line)
  /\ IF reader[r].line.kind = "reply" /\ reader[r].line.id = r
     THEN Delivers(r, reader[r].line) ELSE UNCHANGED done
  /\ reader' = [reader EXCEPT ![r] =
       IF reader[r].line.kind = "note" THEN Looping ELSE GoneReader]
  /\ UNCHANGED <<transport, phase, goal, method, page, ctx, nextID, connected,
                 proc, crashed, speaks, http, cancels>>
Handle(r) ==
  /\ reader[r].at = "holding"
  /\ Decline(reader[r].line)
  /\ IF reader[r].line.kind \in {"reply", "error"} /\ reader[r].line.id = r
     THEN /\ Delivers(r, reader[r].line)
          /\ reader' = [reader EXCEPT ![r] = GoneReader]
     ELSE reader' = [reader EXCEPT ![r] = Looping] /\ UNCHANGED done
  /\ UNCHANGED <<transport, phase, goal, method, page, ctx, nextID, connected,
                 proc, crashed, speaks, http, cancels>>

-----------------------------------------------------------------------------
(* The server at the other end of the pipes. *)

(* StdioTransport.Serve: one line; only a request is answered.               *)
ServeLine(g) ==
  /\ Running(g) /\ servers[g].in # <<>>
  /\ LET line == Head(servers[g].in) IN
     \E kind \in {"reply", "error"} :
       /\ line.kind = "call" /\ method = "initialize" => (kind = "reply" <=> Legacy)
       /\ servers' = [servers EXCEPT ![g].in = Tail(@),
                        ![g].out = IF line.kind = "call"
                                   THEN Append(@, [kind |-> kind, id |-> line.id, by |-> g]) ELSE @]
  /\ UNCHANGED <<transport, agentVars, reader, crashed, speaks, http, cancels>>

Speak(g, kind) ==
  /\ Running(g) /\ speaks < MaxSpeaks
  /\ speaks' = speaks + 1
  /\ servers' = [servers EXCEPT ![g].out = Append(@, [kind |-> kind, id |-> 1, by |-> g])]
  /\ UNCHANGED <<transport, agentVars, reader, crashed, http, cancels>>

Die(g) ==
  /\ servers[g].state \in {"running", "killed"}
  /\ servers' = [servers EXCEPT ![g].state = "dead", ![g].in = <<>>]
  /\ UNCHANGED <<transport, agentVars, reader, crashed, speaks, http, cancels>>

-----------------------------------------------------------------------------
(* The HTTP transport. *)

(* The server answers initialize in a new session, anything else in a        *)
(* session it knows; or it answers with an error, or the stream ends without *)
(* the answer, or the answer is lost or too late.  The client takes the      *)
(* session from any answer.                                                  *)
Post(more) ==
  /\ phase = "write" /\ transport = "http"
  /\ nextID' = nextID + 1
  /\ \E good, lost \in BOOLEAN :
       /\ good => IF method = "initialize" THEN Legacy /\ issued < MaxStarts
                                           ELSE session \in live
       /\ Answered(good /\ ~lost, more)
       /\ IF good /\ method = "initialize"
          THEN /\ issued' = issued + 1 /\ live' = live \cup {issued'}
               /\ IF lost THEN astray' = astray \cup {issued'} /\ UNCHANGED session
                          ELSE session' = issued' /\ UNCHANGED astray
          ELSE UNCHANGED http
  /\ UNCHANGED <<transport, goal, ctx, done, proc, stdio, cancels>>

(* The HTTP server restarts.                                                 *)
Forget ==
  /\ live # {} /\ live' = {}
  /\ UNCHANGED <<transport, agentVars, stdio, session, issued, astray, cancels>>

-----------------------------------------------------------------------------
Agent ==
  \/ TimesOut \/ Close \/ Closed \/ Start \/ Write \/ Cancelled \/ Notify
  \/ \E more \in BOOLEAN : Receive(more) \/ Post(more)
Reader(r) == Loop(r) \/ ReadLine(r) \/ ReadFails(r) \/ Handle(r)

McpNext ==
  /\ ~crashed
  /\ \/ Connect \/ CallTool \/ Quit \/ Cancel \/ Agent
     \/ \E r \in RequestIds : Reader(r)
     \/ \E g \in Processes :
          ServeLine(g) \/ Die(g) \/ \E kind \in {"note", "ask"} : Speak(g, kind)
     \/ Forget

(* The goroutines go on; the server answers what it is asked and, killed,    *)
(* ends.                                                                     *)
McpFairness ==
  /\ WF_mcpVars(~crashed /\ Agent) /\ WF_mcpVars(~crashed /\ TimesOut)
  /\ \A r \in RequestIds : WF_mcpVars(~crashed /\ Reader(r))
  /\ \A g \in Processes :
       /\ WF_mcpVars(~crashed /\ ServeLine(g))
       /\ WF_mcpVars(~crashed /\ servers[g].state = "killed" /\ Die(g))

McpSpec == McpInit /\ [][McpNext]_mcpVars /\ McpFairness

-----------------------------------------------------------------------------
(* Properties. *)

Lines == [kind : {"none", "call", "note", "ask", "answer", "reply", "error", "closed"},
          id : Nat, by : 0..MaxStarts]

(* The client and the servers have their types.                              *)
McpTypeOK ==
  /\ transport \in {"stdio", "http"}
  /\ phase \in {"idle", "close", "closing", "start", "write", "wait", "notify",
               "cancel", "cancelling", "ended"}
  /\ goal \in {"connect", "call", "quit"}
  /\ method \in {"", "initialize", "tools/list", "tools/call"}
  /\ page \in 0..(MaxPages - 1) /\ ctx \in {"live", "cancelled"}
  /\ nextID \in 0..MaxCalls /\ done \in Lines /\ connected \in BOOLEAN
  /\ proc \in 0..MaxStarts
  /\ servers \in [Processes -> [state : {"none", "running", "killed", "dead"},
                               in : Seq(Lines), out : Seq(Lines)]]
  /\ reader \in [RequestIds -> [at : {"none", "loop", "reading", "holding", "gone"},
                               from : 0..MaxStarts, line : Lines]]
  /\ crashed \in BOOLEAN
  /\ session \in 0..MaxStarts /\ live \subseteq 1..MaxStarts
  /\ issued \in 0..MaxStarts /\ speaks \in 0..MaxSpeaks /\ cancels \in 0..MaxCancels

(* What a call is given as its answer is the answer to its own request, by   *)
(* the process it was sent to - also after another call was cancelled, and   *)
(* among what a server says of its own accord.                               *)
AnswersTheCall ==
  phase = "wait" /\ done # NoLine =>
    \/ done.kind = "closed"
    \/ done.kind \in {"reply", "error"} /\ done.id = nextID /\ done.by = proc

(* A connection has one process at most, whatever fails or is cancelled, and *)
(* none is left when the agent ends; and of the sessions it opened only its  *)
(* own is left, apart from those it was not told of or could not end.        *)
NothingLeftBehind ==
  /\ McpTypeOK
  /\ \A g \in Processes : Running(g) => g = proc /\ phase # "ended"
  /\ \A s \in live : s \in astray \/ (s = session /\ phase # "ended")

(* roundTripStdio's comment on the reader of a cancelled call                *)
(* (agent_mcp.go:346): it "is left with a pipe that is about to close".  But *)
(* a reader that has just read a line looks for the next one in c.stdout.    *)
LeftReaderKeepsItsPipe ==
  ~crashed /\ \A r, q \in RequestIds :
    r # q /\ reader[r].at = "reading" /\ reader[q].at = "reading"
      => reader[r].from # reader[q].from

(* /connect and the end of the agent come to an end, whatever the server     *)
(* does: it answers, it dies, or the 45 seconds are over and it is killed.   *)
(* A tool's call ends when the server answers or dies, whatever else it says *)
(* or asks in between; unless the reader of a cancelled call is still there  *)
(* to take the answer (connect, closeConnections, roundTripStdio).           *)
Resting == phase \in {"idle", "ended"} \/ crashed
LeftReader == \E r \in 1..(nextID - 1) : reader[r].at \notin {"none", "gone"}
CallEnds == ~Resting ~> Resting \/ (goal = "call" /\ LeftReader)
===============================================================================
