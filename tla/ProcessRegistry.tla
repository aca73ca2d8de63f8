--------------------------- MODULE ProcessRegistry ---------------------------
(***************************************************************************)
(* The background processes of a codemcp server: processRegistry and       *)
(* managedProcess (process.go), and the tools run_process,                 *)
(* check_process_id and stop_process that drive them                       *)
(* (tools_processes.go).                                                   *)
(*                                                                         *)
(* Several threads act on one process: the tool calls of the clients, the  *)
(* goroutine of wait that reaps it and enforces its timeout, stopAll at    *)
(* shutdown, and the operating system, where the shell (the leader of its  *)
(* process group) and what it left in the background end when they please. *)
(*                                                                         *)
(* Processes are numbered in the order their handlers took p.started, so   *)
(* "oldest" is "smallest".  The printed id, command, output and clock are  *)
(* left out.                                                               *)
(***************************************************************************)
EXTENDS Integers, FiniteSets

CONSTANTS
  MaxStarts,     (* bound of the model: how many processes are ever launched *)
  MaxProcesses,  (* maxProcesses: how many are tracked before one is evicted *)
  Clients,       (* tool calls that may be in progress at once               *)
  Codes          (* exit codes a command can end with by itself              *)

ASSUME ProcessAssumption ==
  /\ MaxStarts \in Nat
  /\ MaxProcesses \in Nat \ {0}
  /\ Codes \subseteq Nat

Procs == 1..MaxStarts

NoProc == 0
ASSUME NoProcAssumption == NoProc \notin Procs

(* How the shell ended: a code of its own, a signal, a Wait that failed, or  *)
(* not at all yet.                                                           *)
Signal == -1
Broken == -2
Unended == -3
Statuses == Codes \cup {Signal, Broken, Unended}

(* exitCode of a process that did not end with a code of its own.            *)
NoCode == -1

VARIABLES
  launched,  (* how many processes cmd.Start has started                     *)
  all,       (* r.all: the processes the registry tracks                     *)
  leader,    (* the shell: "none", "running", "zombie" or "reaped"           *)
  status,    (* how the shell ended, an element of Statuses                  *)
  child,     (* whether a background descendant in the shell's process group *)
             (* still holds the output pipes                                 *)
  wait,      (* where the goroutine of p.wait is                             *)
  exited, timedOut, killed, failure, exitCode,  (* the fields p.mu guards    *)
  call,      (* where each client's tool call is                             *)
  target,    (* the process that call is about                               *)
  said,      (* the last answer the client got                               *)
  main,      (* the server: "serving", "stopping" (stopAll) or "gone"        *)
  doomed,    (* what stopAll's snapshot still holds                          *)
  victim     (* the process stopAll has marked and not yet signalled         *)

osVars     == <<leader, status, child>>
fieldVars  == <<exited, timedOut, killed, failure, exitCode>>
callVars   == <<call, target, said>>
mainVars   == <<main, doomed, victim>>
vars == <<launched, all, osVars, wait, fieldVars, callVars, mainVars>>

WaitStates == {"none", "select", "expired", "draining", "ended", "settled",
               "closed"}
CallStates == {"idle", "starting", "waiting", "stopping", "killing"}

NoAnswer == [kind |-> "none"]
Refused  == [kind |-> "error"]
Answers  == [kind : {"status"}, proc : Procs, running : BOOLEAN,
             code : Codes \cup {NoCode}, timedOut : BOOLEAN,
             killed : BOOLEAN, failure : BOOLEAN]

TypeOK ==
  /\ launched \in 0..MaxStarts
  /\ all \in SUBSET Procs
  /\ leader \in [Procs -> {"none", "running", "zombie", "reaped"}]
  /\ status \in [Procs -> Statuses]
  /\ child \in [Procs -> BOOLEAN]
  /\ wait \in [Procs -> WaitStates]
  /\ exited \in [Procs -> BOOLEAN]
  /\ timedOut \in [Procs -> BOOLEAN]
  /\ killed \in [Procs -> BOOLEAN]
  /\ failure \in [Procs -> BOOLEAN]
  /\ exitCode \in [Procs -> Codes \cup {NoCode}]
  /\ call \in [Clients -> CallStates]
  /\ target \in [Clients -> Procs \cup {NoProc}]
  /\ said \in [Clients -> Answers \cup {NoAnswer, Refused}]
  /\ main \in {"serving", "stopping", "gone"}
  /\ doomed \in SUBSET Procs
  /\ victim \in Procs \cup {NoProc}

Init ==
  /\ launched = 0
  /\ all = {}
  /\ leader = [p \in Procs |-> "none"]
  /\ status = [p \in Procs |-> Unended]
  /\ child = [p \in Procs |-> FALSE]
  /\ wait = [p \in Procs |-> "none"]
  /\ exited = [p \in Procs |-> FALSE]
  /\ timedOut = [p \in Procs |-> FALSE]
  /\ killed = [p \in Procs |-> FALSE]
  /\ failure = [p \in Procs |-> FALSE]
  /\ exitCode = [p \in Procs |-> NoCode]
  /\ call = [c \in Clients |-> "idle"]
  /\ target = [c \in Clients |-> NoProc]
  /\ said = [c \in Clients |-> NoAnswer]
  /\ main = "serving"
  /\ doomed = {}
  /\ victim = NoProc

-----------------------------------------------------------------------------
(* The operating system. *)

(* The shell ends by itself, leaving a zombie until Wait reaps it.           *)
ShellExits(p) ==
  /\ leader[p] = "running"
  /\ \E s \in Statuses \ {Unended} : status' = [status EXCEPT ![p] = s]
  /\ leader' = [leader EXCEPT ![p] = "zombie"]
  /\ UNCHANGED <<launched, all, child, wait, fieldVars, callVars, mainVars>>

(* What the shell left in the background ends, or closes its output.         *)
ChildExits(p) ==
  /\ child[p]
  /\ child' = [child EXCEPT ![p] = FALSE]
  /\ UNCHANGED <<launched, all, leader, status, wait, fieldVars, callVars,
                 mainVars>>

(* killProcessTree finds the group through the leader's pid: once the leader *)
(* is reaped, Getpgid fails and so does the fallback Process.Kill, and what  *)
(* is left of the group is not signalled.                                    *)
Reachable(p) == leader[p] \in {"running", "zombie"}

KillProcessTree(p) ==
  IF Reachable(p)
  THEN /\ leader' = [leader EXCEPT ![p] = "zombie"]
       /\ status' = [status EXCEPT ![p] = IF @ = Unended THEN Signal ELSE @]
       /\ child' = [child EXCEPT ![p] = FALSE]
  ELSE UNCHANGED osVars

-----------------------------------------------------------------------------
(* The goroutine of wait. *)

(* cmd.Wait reaps the leader first ...                                       *)
Reap(p) ==
  /\ main # "gone"
  /\ wait[p] # "none"
  /\ leader[p] = "zombie"
  /\ leader' = [leader EXCEPT ![p] = "reaped"]
  /\ UNCHANGED <<launched, all, status, child, wait, fieldVars, callVars,
                 mainVars>>

ShellReaped(p) == leader[p] = "reaped"  \* mutant: pipes are not waited for
(* ... and returns once the output pipes have no writer left.                *)
Waited(p) == leader[p] = "reaped" /\ ~child[p]

WaitReturns(p) ==
  /\ main # "gone"
  /\ wait[p] \in {"select", "draining"}
  /\ Waited(p)
  /\ wait' = [wait EXCEPT ![p] = "ended"]
  /\ UNCHANGED <<launched, all, osVars, fieldVars, callVars, mainVars>>

TimerFires(p) ==
  /\ main # "gone"
  /\ wait[p] = "select"
  /\ timedOut' = [timedOut EXCEPT ![p] = TRUE]
  /\ wait' = [wait EXCEPT ![p] = "expired"]
  /\ UNCHANGED <<launched, all, osVars, exited, killed, failure, exitCode,
                 callVars, mainVars>>

TimeoutMarks(p) ==  \* mutant: the timer marks and does not kill
  /\ main # "gone"
  /\ wait[p] = "expired"
  /\ wait' = [wait EXCEPT ![p] = "draining"]
  /\ UNCHANGED <<launched, all, osVars, fieldVars, callVars, mainVars>>
TimeoutKill(p) ==
  /\ main # "gone"
  /\ wait[p] = "expired"
  /\ KillProcessTree(p)
  /\ wait' = [wait EXCEPT ![p] = "draining"]
  /\ UNCHANGED <<launched, all, fieldVars, callVars, mainVars>>

CodeOfShell(p) ==    \* mutant: a stopped process reports its shell's code
  IF status[p] \notin Codes THEN NoCode ELSE status[p]
CodeOf(p) ==
  IF timedOut[p] \/ killed[p] \/ status[p] \notin Codes THEN NoCode ELSE status[p]

(* The exit fields are written in one critical section of p.mu.              *)
Settle(p) ==
  /\ main # "gone"
  /\ wait[p] = "ended"
  /\ exited' = [exited EXCEPT ![p] = TRUE]
  /\ exitCode' = [exitCode EXCEPT ![p] = CodeOf(p)]
  /\ failure' = [failure EXCEPT ![p] =
                    ~timedOut[p] /\ ~killed[p] /\ status[p] = Broken]
  /\ wait' = [wait EXCEPT ![p] = "settled"]
  /\ UNCHANGED <<launched, all, osVars, timedOut, killed, callVars, mainVars>>

CloseDone(p) ==
  /\ main # "gone"
  /\ wait[p] = "settled"
  /\ wait' = [wait EXCEPT ![p] = "closed"]
  /\ UNCHANGED <<launched, all, osVars, fieldVars, callVars, mainVars>>

Done(p) == wait[p] = "closed"

-----------------------------------------------------------------------------
(* The tool calls. *)

Goto(c, state, p) ==
  /\ call' = [call EXCEPT ![c] = state]
  /\ target' = [target EXCEPT ![c] = p]

Reply(c, answer) ==
  /\ said' = [said EXCEPT ![c] = answer]
  /\ Goto(c, "idle", NoProc)

StatusOf(p) ==
  [kind |-> "status", proc |-> p, running |-> ~exited[p],
   code |-> exitCode[p], timedOut |-> timedOut[p], killed |-> killed[p],
   failure |-> failure[p]]

(* run_process: cmd.Start has returned, the registry does not know it yet.   *)
(* The command line may leave a descendant in the background.                *)
Launch(c) ==
  /\ main # "gone"
  /\ call[c] = "idle"
  /\ launched < MaxStarts
  /\ launched' = launched + 1
  /\ leader' = [leader EXCEPT ![launched'] = "running"]
  /\ \E background \in BOOLEAN : child' = [child EXCEPT ![launched'] = background]
  /\ Goto(c, "starting", launched')
  /\ UNCHANGED <<all, status, wait, fieldVars, said, mainVars>>

(* run_process when cmd.Start fails: nothing is registered.                  *)
LaunchFails(c) ==
  /\ main # "gone"
  /\ call[c] = "idle"
  /\ Reply(c, Refused)
  /\ UNCHANGED <<launched, all, osVars, wait, fieldVars, mainVars>>

(* evictLocked: while S is too large its oldest finished process goes.       *)
ExcessEarly(S) == Cardinality(S) - MaxProcesses + 1  \* mutant: off by one
Excess(S) == Cardinality(S) - MaxProcesses
Finished(S) == {p \in S : exited[p]}
Evicted(S) ==
  {p \in Finished(S) : Cardinality({q \in Finished(S) : q < p}) < Excess(S)}

(* The rest of start: register, evict, and let wait go.                      *)
Register(c) ==
  LET p == target[c]
      S == all \cup {p}
  IN /\ main # "gone"
     /\ call[c] = "starting"
     /\ all' = S \ Evicted(S)
     /\ wait' = [wait EXCEPT ![p] = "select"]
     /\ Goto(c, "waiting", p)
     /\ UNCHANGED <<launched, osVars, fieldVars, said, mainVars>>

(* check_process_id and stop_process look the id up under r.mu; the pointer  *)
(* they get outlives a later eviction.                                       *)
Lookup(c, next) ==
  /\ main # "gone"
  /\ call[c] = "idle"
  /\ \/ \E p \in all : Goto(c, next, p) /\ UNCHANGED said
     \/ (1..launched) \ all # {} /\ Reply(c, Refused)
  /\ UNCHANGED <<launched, all, osVars, wait, fieldVars, mainVars>>

(* The locked part of stop, which returns at once for an exited process.     *)
StopMark(c) ==
  LET p == target[c]
  IN /\ main # "gone"
     /\ call[c] = "stopping"
     /\ \/ /\ exited[p]
           /\ Goto(c, "waiting", p)
           /\ UNCHANGED killed
        \/ /\ ~exited[p]
           /\ killed' = [killed EXCEPT ![p] = TRUE]
           /\ Goto(c, "killing", p)
     /\ UNCHANGED <<launched, all, osVars, wait, exited, timedOut, failure,
                    exitCode, said, mainVars>>

(* The unlocked part: the signal, and an error when it cannot be delivered.  *)
StopKill(c) ==
  LET p == target[c]
  IN /\ main # "gone"
     /\ call[c] = "killing"
     /\ KillProcessTree(p)
     /\ IF Reachable(p)
        THEN Goto(c, "waiting", p) /\ UNCHANGED said
        ELSE Reply(c, Refused)
     /\ UNCHANGED <<launched, all, wait, fieldVars, mainVars>>

(* The wait for done, a timer or the request's context is over: whichever    *)
(* came first, the answer is the status of that moment.                      *)
Answer(c) ==
  /\ main # "gone"
  /\ call[c] = "waiting"
  /\ Reply(c, StatusOf(target[c]))
  /\ UNCHANGED <<launched, all, osVars, wait, fieldVars, mainVars>>

-----------------------------------------------------------------------------
(* Shutdown: stopAll over a snapshot of the registry. *)

StopAllBegins ==
  /\ main = "serving"
  /\ main' = "stopping"
  /\ doomed' = all
  /\ UNCHANGED <<launched, all, osVars, wait, fieldVars, callVars, victim>>

(* p.stop for the oldest left in the snapshot: its locked part ...           *)
StopAllMark ==
  /\ main = "stopping"
  /\ victim = NoProc
  /\ \E p \in doomed :
       /\ \A q \in doomed : p <= q
       /\ doomed' = doomed \ {p}
       /\ \/ exited[p] /\ UNCHANGED <<killed, victim>>
          \/ ~exited[p] /\ killed' = [killed EXCEPT ![p] = TRUE] /\ victim' = p
  /\ UNCHANGED <<launched, all, osVars, wait, exited, timedOut, failure,
                 exitCode, callVars, main>>

(* ... and its signal, whose error stopAll ignores.                          *)
StopAllKill ==
  /\ main = "stopping"
  /\ victim # NoProc
  /\ KillProcessTree(victim)
  /\ victim' = NoProc
  /\ UNCHANGED <<launched, all, wait, fieldVars, callVars, main, doomed>>

(* run returns and the program ends, taking every goroutine with it.         *)
MainReturns ==
  /\ main = "stopping"
  /\ doomed = {}
  /\ victim = NoProc
  /\ main' = "gone"
  /\ UNCHANGED <<launched, all, osVars, wait, fieldVars, callVars, doomed,
                 victim>>

-----------------------------------------------------------------------------

Reaper(p) ==
  \/ Reap(p)
  \/ WaitReturns(p)
  \/ TimerFires(p)
  \/ TimeoutKill(p)
  \/ Settle(p)
  \/ CloseDone(p)

Client(c) ==
  \/ Launch(c)
  \/ LaunchFails(c)
  \/ Register(c)
  \/ Lookup(c, "waiting")
  \/ Lookup(c, "stopping")
  \/ StopMark(c)
  \/ StopKill(c)
  \/ Answer(c)

Main ==
  \/ StopAllBegins
  \/ StopAllMark
  \/ StopAllKill
  \/ MainReturns

Next ==
  \/ \E p \in Procs : ShellExits(p) \/ ChildExits(p) \/ Reaper(p)
  \/ \E c \in Clients : Client(c)
  \/ Main

Spec == Init /\ [][Next]_vars

(* The Go scheduler runs the goroutine of wait and its timer fires; a call   *)
(* that has begun is carried through; stopAll runs once it has begun.        *)
(* Nothing is assumed of the shell, its children, or the arrival of calls.   *)
Fairness ==
  /\ \A p \in Procs : WF_vars(Reaper(p))
  /\ \A c \in Clients : WF_vars(Register(c) \/ StopMark(c) \/ StopKill(c)
                                  \/ Answer(c))
  /\ WF_vars(StopAllMark \/ StopAllKill \/ MainReturns)

FairSpec == Spec /\ Fairness

-----------------------------------------------------------------------------
(* Properties. *)

(* Eviction (evictLocked) never forgets a process that is still running,     *)
(* forgets the finished ones oldest first, and leaves the registry within    *)
(* maxProcesses unless everything in it is running.                          *)
EvictionSound ==
  [][/\ \A p \in all \ all' :
          exited[p] /\ \A q \in all' : exited[q] => p < q
     /\ all' # all =>
          \/ Cardinality(all') <= MaxProcesses
          \/ \A p \in all' : ~exited[p]]_vars

(* A process is reported as ended only when its shell has been reaped and    *)
(* nothing in its group can still write to its output, whichever of the      *)
(* reaper, a stop call and the timeout came first.                           *)
EndedMeansGone ==
  \A p \in Procs : exited[p] => leader[p] = "reaped" /\ ~child[p]

(* The answer a client got about a process that had ended stays true: no     *)
(* stop, timeout or second call changes what was reported.                   *)
FinalAnswers ==
  \A c \in Clients :
    said[c].kind = "status" /\ ~said[c].running => said[c] = StatusOf(said[c].proc)

(* An ended process reports the shell's own code unless it was stopped or    *)
(* timed out, a call blocked on done is released only with the final fields, *)
(* and a process is marked timed out only by a timer that was running.       *)
VerdictTrue ==
  \A p \in Procs :
    /\ Done(p) => exited[p]
    /\ exited[p] /\ exitCode[p] # NoCode =>
         exitCode[p] = status[p] /\ ~timedOut[p] /\ ~killed[p]
    /\ exited[p] /\ status[p] \in Codes /\ exitCode[p] = NoCode =>
         timedOut[p] \/ killed[p]

(* What a client is told of an ended process is so, and stays so.            *)
AnswersTrue == FinalAnswers /\ VerdictTrue

(* What is left of a process group whose leader was reaped: nothing the      *)
(* server does signals it any more.                                          *)
Orphaned(p) == leader[p] = "reaped" /\ child[p]

(* Every registered process is eventually done: the timer bounds it, and the *)
(* kill reaches it, unless its shell ended first and left a descendant       *)
(* behind, or the server itself is gone.                                     *)
BoundedLife ==
  \A p \in Procs :
    wait[p] = "select" ~> Done(p) \/ Orphaned(p) \/ main = "gone"

(* What the registry promises its callers, as an abstract specification.     *)
Table == INSTANCE ProcessTable WITH
  life <- [p \in Procs |-> IF exited[p] THEN "ended"
                           ELSE IF p <= launched THEN "running" ELSE "unborn"],
  verdict <- [p \in Procs |->
                IF exited[p]
                THEN [code |-> exitCode[p], forced |-> timedOut[p] \/ killed[p]]
                ELSE [code |-> NoCode, forced |-> FALSE]],
  table <- all

(* The reaper, the stop calls, the timeout, the evictions and the shutdown   *)
(* together implement that promise.                                          *)
TableSpec == Table!Spec

=============================================================================
