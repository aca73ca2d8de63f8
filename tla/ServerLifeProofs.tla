-------------------------- MODULE ServerLifeProofs --------------------------
(***************************************************************************)
(* Proofs about the server's life: the registry of processes, for every    *)
(* number of processes, every limit, every set of clients and every set of *)
(* exit codes; the download links, whatever the cap and the callers; the   *)
(* listeners and the end of the program, whatever the listeners; and the   *)
(* self-update, whatever releases there are.                               *)
(***************************************************************************)
EXTENDS ProcessRegistry, DownloadLinks, Listeners, SelfUpdate, FiniteSetTheorems,
        WellFoundedInduction, TLAPS

-----------------------------------------------------------------------------
(* The registry of processes. *)

(* A call that is under way is about a process.                              *)
TargetsTyped == \A c \in Clients : call[c] # "idle" => target[c] \in Procs

(* The initial states are well typed.                                        *)
LEMMA InitTypeOK == Init => TypeOK
  BY ProcessAssumption DEF Init, TypeOK, NoProc, NoCode, NoAnswer, Statuses,
     Unended, Signal, Broken, Procs, WaitStates, CallStates

(* The steps of the operating system and of a reaper keep the types.         *)
LEMMA ReaperTypeOK ==
  ASSUME TypeOK, NEW p \in Procs,
         ShellExits(p) \/ ChildExits(p) \/ Reaper(p)
  PROVE  TypeOK'
<1> USE DEF TypeOK, osVars, fieldVars, callVars, mainVars
<1>1. CASE ShellExits(p)  BY <1>1 DEF ShellExits
<1>2. CASE ChildExits(p)  BY <1>2 DEF ChildExits
<1>3. CASE Reap(p)        BY <1>3 DEF Reap
<1>4. CASE WaitReturns(p) BY <1>4 DEF WaitReturns, WaitStates
<1>5. CASE TimerFires(p)  BY <1>5 DEF TimerFires, WaitStates
<1>6. CASE TimeoutKill(p)
  BY <1>6 DEF TimeoutKill, KillProcessTree, WaitStates, Statuses
<1>7. CASE Settle(p)
  BY <1>7, Zenon DEF Settle, CodeOf, WaitStates
<1>8. CASE CloseDone(p)   BY <1>8 DEF CloseDone, WaitStates
<1> QED
  BY <1>1, <1>2, <1>3, <1>4, <1>5, <1>6, <1>7, <1>8 DEF Reaper

(* The steps of a tool call keep the types.                                  *)
LEMMA ClientTypeOK ==
  ASSUME TypeOK, TargetsTyped, NEW c \in Clients, Client(c)
  PROVE  TypeOK'
<1> USE DEF TypeOK, TargetsTyped, osVars, fieldVars, callVars, mainVars, Goto,
            CallStates
<1>1. CASE Launch(c)
  <2>1. launched' \in Procs BY <1>1, ProcessAssumption DEF Launch, Procs
  <2> QED BY <1>1, <2>1, ProcessAssumption DEF Launch, Procs
<1>2. CASE LaunchFails(c) BY <1>2 DEF LaunchFails, Reply
<1>3. CASE Register(c)
  BY <1>3 DEF Register, WaitStates
<1>4. ASSUME NEW next \in {"waiting", "stopping"}, Lookup(c, next)
      PROVE  TypeOK'
  <2>1. CASE Reply(c, Refused) BY <1>4, <2>1 DEF Lookup, Reply
  <2>2. CASE \E p \in all : Goto(c, next, p) /\ UNCHANGED said
    BY <1>4, <2>2 DEF Lookup
  <2> QED BY <1>4, <2>1, <2>2 DEF Lookup
<1>5. CASE StopMark(c) BY <1>5 DEF StopMark
<1>6. CASE StopKill(c)
  <2>1. /\ leader' \in [Procs -> {"none", "running", "zombie", "reaped"}]
        /\ status' \in [Procs -> Statuses]
        /\ child' \in [Procs -> BOOLEAN]
    BY <1>6 DEF StopKill, KillProcessTree, Statuses
  <2>2. /\ call' \in [Clients -> CallStates]
        /\ target' \in [Clients -> Procs \cup {NoProc}]
        /\ said' \in [Clients -> Answers \cup {NoAnswer, Refused}]
    BY <1>6 DEF StopKill, Reply
  <2> QED BY <1>6, <2>1, <2>2 DEF StopKill
<1>7. CASE Answer(c)
  <2>1. target[c] \in Procs BY <1>7 DEF Answer
  <2>2. StatusOf(target[c]) \in Answers BY <2>1, Zenon DEF StatusOf, Answers
  <2>3. said' \in [Clients -> Answers \cup {NoAnswer, Refused}]
    BY <1>7, <2>2 DEF Answer, Reply
  <2> QED BY <1>7, <2>3 DEF Answer, Reply
<1> QED
  BY <1>1, <1>2, <1>3, <1>4, <1>5, <1>6, <1>7 DEF Client

(* The steps of the shutdown keep the types.                                 *)
LEMMA MainTypeOK == ASSUME TypeOK, Main PROVE TypeOK'
<1> USE DEF TypeOK, osVars, fieldVars, callVars, mainVars
<1>1. CASE StopAllBegins BY <1>1 DEF StopAllBegins
<1>2. CASE StopAllMark   BY <1>2 DEF StopAllMark
<1>3. CASE StopAllKill
  BY <1>3 DEF StopAllKill, KillProcessTree, Statuses, NoProc
<1>4. CASE MainReturns   BY <1>4 DEF MainReturns
<1> QED BY <1>1, <1>2, <1>3, <1>4 DEF Main

(* A call that is under way is about a process.                              *)
LEMMA TargetsTypedStep ==
  ASSUME TypeOK, TargetsTyped, [Next]_vars
  PROVE  TargetsTyped'
<1> USE DEF TypeOK, TargetsTyped, Goto
<1>1. ASSUME NEW c \in Clients, Client(c) PROVE TargetsTyped'
  <2>1. CASE Launch(c)
    BY <2>1, ProcessAssumption DEF Launch, Procs
  <2>2. CASE LaunchFails(c) BY <2>2 DEF LaunchFails, Reply
  <2>3. CASE Register(c) BY <2>3 DEF Register
  <2>4. CASE Lookup(c, "waiting") BY <2>4 DEF Lookup, Reply
  <2>5. CASE Lookup(c, "stopping") BY <2>5 DEF Lookup, Reply
  <2>6. CASE StopMark(c) BY <2>6 DEF StopMark
  <2>7. CASE StopKill(c) BY <2>7 DEF StopKill, Reply
  <2>8. CASE Answer(c) BY <2>8 DEF Answer, Reply
  <2> QED BY <1>1, <2>1, <2>2, <2>3, <2>4, <2>5, <2>6, <2>7, <2>8 DEF Client
<1>2. ASSUME UNCHANGED callVars PROVE TargetsTyped'
  BY <1>2 DEF callVars
<1>3. ASSUME NEW p \in Procs, ShellExits(p) \/ ChildExits(p) \/ Reaper(p)
      PROVE  UNCHANGED callVars
  BY <1>3 DEF ShellExits, ChildExits, Reaper, Reap, WaitReturns, TimerFires,
              TimeoutKill, Settle, CloseDone
<1>4. ASSUME Main PROVE UNCHANGED callVars
  BY <1>4 DEF Main, StopAllBegins, StopAllMark, StopAllKill, MainReturns
<1> QED BY <1>1, <1>2, <1>3, <1>4 DEF Next, vars

-----------------------------------------------------------------------------

Typed == TypeOK /\ TargetsTyped

(* Type correctness: every variable keeps its type, whatever the clients,    *)
(* the reapers, the operating system and the shutdown do.                    *)
THEOREM TypeCorrect == Spec => []TypeOK
<1>1. Init => Typed
  BY InitTypeOK DEF Init, Typed, TargetsTyped
<1>2. Typed /\ [Next]_vars => Typed'
  <2> SUFFICES ASSUME Typed, [Next]_vars PROVE Typed'
    OBVIOUS
  <2>1. CASE Next
    BY <2>1, ReaperTypeOK, ClientTypeOK, MainTypeOK, TargetsTypedStep
       DEF Next, Typed
  <2>2. CASE UNCHANGED vars
    BY <2>2, TargetsTypedStep, Zenon
       DEF Typed, TypeOK, vars, osVars, fieldVars, callVars, mainVars
  <2> QED BY <2>1, <2>2
<1>3. Typed => TypeOK BY DEF Typed
<1> QED BY <1>1, <1>2, <1>3, PTL DEF Spec

-----------------------------------------------------------------------------
(* The inductive invariant.  The properties alone are not inductive: that an *)
(* ended process is gone rests on where the goroutine of wait is, and that a *)
(* start does not revive an ended process on no two calls starting the same. *)

Phases ==
  \A p \in Procs :
    /\ p > launched => leader[p] = "none"
    /\ leader[p] = "none" => wait[p] = "none"
    /\ exited[p] <=> wait[p] \in {"settled", "closed"}
    /\ wait[p] \in {"ended", "settled", "closed"} => Waited(p)
    /\ exited[p] => exitCode[p] = CodeOf(p)

Starts ==
  /\ \A c \in Clients : call[c] = "starting" =>
       leader[target[c]] # "none" /\ wait[target[c]] = "none"
  /\ \A c, d \in Clients :
       call[c] = "starting" /\ call[d] = "starting" /\ target[c] = target[d]
         => c = d

IInv == TypeOK /\ TargetsTyped /\ Phases /\ Starts /\ FinalAnswers

(* What p.mu guards does not change once the process has ended.              *)
FieldsFinal ==
  \A p \in Procs : exited[p] =>
    /\ exited'[p] = TRUE
    /\ exitCode'[p] = exitCode[p]
    /\ timedOut'[p] = timedOut[p]
    /\ killed'[p] = killed[p]
    /\ failure'[p] = failure[p]

(* No step reopens an ended process.                                         *)
LEMMA EndedIsFinal ==
  ASSUME IInv, Next
  PROVE  FieldsFinal
<1> USE DEF IInv, TypeOK, FieldsFinal
<1>1. ASSUME UNCHANGED fieldVars PROVE FieldsFinal
  BY <1>1 DEF fieldVars
<1>2. ASSUME NEW p \in Procs, ShellExits(p) \/ ChildExits(p) \/ Reaper(p)
      PROVE  FieldsFinal
  <2>1. CASE TimerFires(p) BY <2>1 DEF TimerFires, Phases
  <2>2. CASE Settle(p)
    <3>1. ~exited[p] BY <2>2 DEF Settle, Phases
    <3> QED BY <2>2, <3>1 DEF Settle
  <2>3. CASE ShellExits(p) \/ ChildExits(p) \/ Reap(p) \/ WaitReturns(p)
               \/ TimeoutKill(p) \/ CloseDone(p)
    BY <2>3, <1>1 DEF ShellExits, ChildExits, Reap, WaitReturns, TimeoutKill,
                      CloseDone
  <2> QED BY <1>2, <2>1, <2>2, <2>3 DEF Reaper
<1>3. ASSUME NEW c \in Clients, Client(c) PROVE FieldsFinal
  <2>1. CASE StopMark(c) BY <2>1 DEF StopMark
  <2>2. CASE ~StopMark(c)
    BY <1>3, <2>2, <1>1 DEF Client, Launch, LaunchFails, Register, Lookup,
                            StopKill, Answer
  <2> QED BY <2>1, <2>2
<1>4. ASSUME Main PROVE FieldsFinal
  <2>1. CASE StopAllMark BY <2>1 DEF StopAllMark
  <2>2. CASE StopAllBegins \/ StopAllKill \/ MainReturns
    BY <2>2, <1>1 DEF StopAllBegins, StopAllKill, MainReturns
  <2> QED BY <1>4, <2>1, <2>2 DEF Main
<1> QED BY <1>2, <1>3, <1>4 DEF Next

(* A kill reaches only a leader that is not reaped yet, and never un-reaps.  *)
LEMMA KillKeepsWaited ==
  ASSUME TypeOK, NEW p \in Procs, KillProcessTree(p), NEW q \in Procs
  PROVE  /\ Waited(q) => Waited(q)'
         /\ leader[q] = "none" <=> leader'[q] = "none"
         /\ Waited(q) => status'[q] = status[q]
  BY DEF TypeOK, KillProcessTree, Reachable, Waited, osVars

(* The phases of a process are kept by the OS and the reaper.                *)
LEMMA ReaperPhases ==
  ASSUME IInv, NEW p \in Procs, ShellExits(p) \/ ChildExits(p) \/ Reaper(p)
  PROVE  Phases'
<1> USE DEF IInv, TypeOK, Phases, Waited, CodeOf, fieldVars, osVars
<1>1. CASE ShellExits(p) BY <1>1 DEF ShellExits
<1>2. CASE ChildExits(p) BY <1>2 DEF ChildExits
<1>3. CASE Reap(p) BY <1>3 DEF Reap
<1>4. CASE WaitReturns(p) BY <1>4 DEF WaitReturns
<1>5. CASE TimerFires(p) BY <1>5 DEF TimerFires
<1>6. CASE TimeoutKill(p)
  BY <1>6, KillKeepsWaited DEF TimeoutKill, KillProcessTree, Reachable
<1>7. CASE Settle(p) BY <1>7 DEF Settle
<1>8. CASE CloseDone(p) BY <1>8 DEF CloseDone
<1> QED
  BY <1>1, <1>2, <1>3, <1>4, <1>5, <1>6, <1>7, <1>8 DEF Reaper

(* ... by the tool calls ...                                                 *)
LEMMA ClientPhases ==
  ASSUME IInv, NEW c \in Clients, Client(c)
  PROVE  Phases'
<1> USE DEF IInv, TypeOK, Phases, Waited, CodeOf, fieldVars, osVars, TargetsTyped
<1>1. CASE Launch(c) BY <1>1, ProcessAssumption DEF Launch, Procs
<1>2. CASE Register(c)
  BY <1>2, ProcessAssumption DEF Register, Starts, Procs
<1>3. CASE StopMark(c)
  BY <1>3 DEF StopMark
<1>4. CASE StopKill(c)
  BY <1>4, KillKeepsWaited DEF StopKill, KillProcessTree, Reachable
<1>5. CASE LaunchFails(c) \/ Lookup(c, "waiting") \/ Lookup(c, "stopping")
             \/ Answer(c)
  BY <1>5 DEF LaunchFails, Lookup, Answer
<1> QED BY <1>1, <1>2, <1>3, <1>4, <1>5 DEF Client

(* ... and by the shutdown.                                                  *)
LEMMA MainPhases ==
  ASSUME IInv, Main
  PROVE  Phases'
<1> USE DEF IInv, TypeOK, Phases, Waited, CodeOf, fieldVars, osVars
<1>1. CASE StopAllBegins BY <1>1 DEF StopAllBegins
<1>2. CASE StopAllMark BY <1>2 DEF StopAllMark
<1>3. CASE StopAllKill
  BY <1>3, KillKeepsWaited, NoProcAssumption
     DEF StopAllKill, KillProcessTree, Reachable
<1>4. CASE MainReturns BY <1>4 DEF MainReturns
<1> QED BY <1>1, <1>2, <1>3, <1>4 DEF Main

(* A process some call is starting has a shell and no goroutine yet, and no  *)
(* other call starts it.                                                     *)
LEMMA StartsStep ==
  ASSUME IInv, Next
  PROVE  Starts'
<1> USE DEF IInv, TypeOK, Starts, fieldVars, osVars, callVars, TargetsTyped
<1>1. ASSUME NEW p \in Procs, ShellExits(p) \/ ChildExits(p) \/ Reaper(p)
      PROVE  Starts'
  <2>1. UNCHANGED callVars
    BY <1>1 DEF ShellExits, ChildExits, Reaper, Reap, WaitReturns, TimerFires,
                TimeoutKill, Settle, CloseDone
  <2>2. \A q \in Procs : wait[q] = "none" => wait'[q] = "none"
    BY <1>1 DEF ShellExits, ChildExits, Reaper, Reap, WaitReturns, TimerFires,
                TimeoutKill, Settle, CloseDone
  <2>3. \A q \in Procs : leader[q] # "none" => leader'[q] # "none"
    BY <1>1, KillKeepsWaited
       DEF ShellExits, ChildExits, Reaper, Reap, WaitReturns, TimerFires,
           TimeoutKill, Settle, CloseDone
  <2> QED BY <2>1, <2>2, <2>3
<1>2. ASSUME NEW c \in Clients, Client(c) PROVE Starts'
  <2>1. CASE Launch(c)
    <3>1. /\ launched' = launched + 1 /\ launched' \in Procs
          /\ leader[launched'] = "none" /\ wait[launched'] = "none"
      BY <2>1, ProcessAssumption DEF Launch, Phases, Procs
    <3>2. \A d \in Clients : call[d] = "starting" => target[d] # launched'
      BY <3>1
    <3>3. /\ call' = [call EXCEPT ![c] = "starting"]
          /\ target' = [target EXCEPT ![c] = launched']
          /\ leader' = [leader EXCEPT ![launched'] = "running"]
          /\ wait' = wait
      BY <2>1 DEF Launch, Goto
    <3> HIDE DEF Procs
    <3> QED BY <3>1, <3>2, <3>3
  <2>2. CASE Register(c) BY <2>2 DEF Register, Goto
  <2>3. CASE StopKill(c)
    <3>1. \A q \in Procs : leader[q] # "none" => leader'[q] # "none"
      BY <2>3, KillKeepsWaited DEF StopKill
    <3> QED BY <2>3, <3>1 DEF StopKill, Goto, Reply
  <2>4. CASE LaunchFails(c) BY <2>4 DEF LaunchFails, Goto, Reply
  <2>5. CASE Lookup(c, "waiting") BY <2>5 DEF Lookup, Goto, Reply
  <2>6. CASE Lookup(c, "stopping") BY <2>6 DEF Lookup, Goto, Reply
  <2>7. CASE StopMark(c) BY <2>7 DEF StopMark, Goto
  <2>8. CASE Answer(c) BY <2>8 DEF Answer, Goto, Reply
  <2> QED
    BY <1>2, <2>1, <2>2, <2>3, <2>4, <2>5, <2>6, <2>7, <2>8 DEF Client
<1>3. ASSUME Main PROVE Starts'
  <2>1. UNCHANGED callVars /\ UNCHANGED wait
    BY <1>3 DEF Main, StopAllBegins, StopAllMark, StopAllKill, MainReturns
  <2>2. \A q \in Procs : leader[q] # "none" => leader'[q] # "none"
    BY <1>3, KillKeepsWaited, NoProcAssumption
       DEF Main, StopAllBegins, StopAllMark, StopAllKill, MainReturns
  <2> QED BY <2>1, <2>2
<1> QED BY <1>1, <1>2, <1>3 DEF Next

(* What a client was told of an ended process stays true: the answer copies  *)
(* fields that are final.                                                    *)
LEMMA FinalAnswersStep ==
  ASSUME IInv, Next
  PROVE  FinalAnswers'
<1> USE DEF IInv, TypeOK, FinalAnswers
<1>1. FieldsFinal BY EndedIsFinal
<1>2. ASSUME NEW p \in Procs, exited[p] PROVE StatusOf(p)' = StatusOf(p)
  BY <1>1, <1>2 DEF FieldsFinal, StatusOf
<1>3. ASSUME NEW c \in Clients, said'[c] = said[c]
      PROVE  said'[c].kind = "status" /\ ~said'[c].running
               => said'[c] = StatusOf(said[c].proc)'
  <2> SUFFICES ASSUME said[c].kind = "status", ~said[c].running
               PROVE  said[c] = StatusOf(said[c].proc)'
    BY <1>3
  <2>1. said[c] \in Answers BY DEF NoAnswer, Refused
  <2>2. said[c] = StatusOf(said[c].proc) OBVIOUS
  <2>3. said[c].proc \in Procs BY <2>1 DEF Answers
  <2>4. said[c].running = ~exited[said[c].proc] BY <2>2 DEF StatusOf
  <2> QED BY <1>2, <1>3, <2>2, <2>3, <2>4 DEF StatusOf
<1>4. ASSUME NEW c \in Clients, said' = [said EXCEPT ![c] = Refused]
      PROVE  FinalAnswers'
  <2>1. said'[c].kind = "error" BY <1>4 DEF Refused
  <2>2. \A d \in Clients \ {c} : said'[d] = said[d] BY <1>4
  <2> QED BY <1>3, <2>1, <2>2
<1>5. ASSUME NEW c \in Clients, Answer(c) PROVE FinalAnswers'
  <2>1. said' = [said EXCEPT ![c] = StatusOf(target[c])]
    BY <1>5 DEF Answer, Reply
  <2>2. UNCHANGED <<exited, exitCode, timedOut, killed, failure>>
    BY <1>5 DEF Answer, fieldVars
  <2>3. said'[c] = StatusOf(said[c].proc)'
    BY <2>1, <2>2 DEF StatusOf
  <2> QED BY <1>3, <2>1, <2>3
<1>6. CASE UNCHANGED said BY <1>3, <1>6
<1>7. ASSUME NEW c \in Clients, Client(c) PROVE FinalAnswers'
  BY <1>4, <1>5, <1>6, <1>7
     DEF Client, Launch, LaunchFails, Register, Lookup, StopMark, StopKill,
         Reply
<1>8. ASSUME NEW p \in Procs, ShellExits(p) \/ ChildExits(p) \/ Reaper(p)
      PROVE  UNCHANGED said
  BY <1>8 DEF ShellExits, ChildExits, Reaper, Reap, WaitReturns, TimerFires,
              TimeoutKill, Settle, CloseDone, callVars
<1>9. ASSUME Main PROVE UNCHANGED said
  BY <1>9 DEF Main, StopAllBegins, StopAllMark, StopAllKill, MainReturns,
              callVars
<1> QED BY <1>6, <1>7, <1>8, <1>9 DEF Next
(* The invariant holds initially ...                                         *)
LEMMA InitIInv == Init => IInv
<1> SUFFICES ASSUME Init PROVE IInv
  OBVIOUS
<1>1. TypeOK BY InitTypeOK
<1>2. TargetsTyped /\ Starts BY DEF Init, TargetsTyped, Starts
<1>3. Phases BY DEF Init, Phases
<1>4. FinalAnswers BY DEF Init, FinalAnswers, NoAnswer
<1> QED BY <1>1, <1>2, <1>3, <1>4 DEF IInv

(* ... and every step keeps it.                                              *)
LEMMA NextIInv == IInv /\ [Next]_vars => IInv'
<1> SUFFICES ASSUME IInv, [Next]_vars PROVE IInv'
  OBVIOUS
<1>1. CASE Next
  <2>1. TypeOK'
    BY <1>1, ReaperTypeOK, ClientTypeOK, MainTypeOK DEF Next, IInv
  <2>2. TargetsTyped' BY TargetsTypedStep DEF IInv
  <2>3. Phases' BY <1>1, ReaperPhases, ClientPhases, MainPhases DEF Next
  <2>4. Starts' BY <1>1, StartsStep
  <2>5. FinalAnswers' BY <1>1, FinalAnswersStep
  <2> QED BY <2>1, <2>2, <2>3, <2>4, <2>5 DEF IInv
<1>2. CASE UNCHANGED vars
  BY <1>2, Zenon
     DEF IInv, TypeOK, TargetsTyped, Phases, Starts, FinalAnswers, StatusOf, CodeOf,
         Waited, vars, osVars, fieldVars, callVars, mainVars
<1> QED BY <1>1, <1>2

LEMMA Inductive == Spec => []IInv
  BY InitIInv, NextIInv, PTL DEF Spec

(* A process reported as ended has no shell and no writer left, for any      *)
(* interleaving of reaper, stops, timeout, eviction and shutdown.            *)
THEOREM EndedIsGone == Spec => []EndedMeansGone
<1>1. IInv => EndedMeansGone
  BY DEF IInv, Phases, EndedMeansGone, Waited
<1> QED BY <1>1, Inductive, PTL

(* What a client was told of an ended process stays true.                    *)
THEOREM AnswersAreFinal == Spec => []FinalAnswers
<1>1. IInv => FinalAnswers BY DEF IInv
<1> QED BY <1>1, Inductive, PTL

(* The verdict is the shell's own code, or a stop or timeout that was marked *)
(* before the process ended; done is closed on final fields only.            *)
THEOREM VerdictIsTrue == Spec => []VerdictTrue
<1>1. IInv => VerdictTrue
  <2> SUFFICES ASSUME IInv, NEW p \in Procs
               PROVE  /\ Done(p) => exited[p]
                      /\ exited[p] /\ exitCode[p] # NoCode =>
                           exitCode[p] = status[p] /\ ~timedOut[p] /\ ~killed[p]
                      /\ exited[p] /\ status[p] \in Codes /\ exitCode[p] = NoCode =>
                           timedOut[p] \/ killed[p]
    BY DEF VerdictTrue
  <2>1. \A s \in Codes : s # NoCode BY ProcessAssumption DEF NoCode
  <2> QED BY <2>1 DEF IInv, Phases, CodeOf, Done
<1> QED BY <1>1, Inductive, PTL

(* What a client is told of an ended process is true and stays true.         *)
THEOREM AnswersAreTrue == Spec => []AnswersTrue
<1>1. FinalAnswers /\ VerdictTrue => AnswersTrue BY DEF AnswersTrue
<1> QED BY <1>1, AnswersAreFinal, VerdictIsTrue, PTL

-----------------------------------------------------------------------------
(* Eviction. *)

(* A non-empty set of processes has an oldest one.                           *)
LEMMA Oldest ==
  ASSUME NEW S \in SUBSET Nat, S # {}
  PROVE  \E p \in S : \A q \in S : p <= q
<1>1. PICK p \in S : \A q \in S : ~(<<q, p>> \in OpToRel(<, Nat))
  BY WFMin, NatLessThanWellFounded
<1>2. \A q \in S : ~(q < p)
  BY <1>1 DEF OpToRel
<1> QED BY <1>2

(* Sets of processes are finite.                                             *)
LEMMA ProcsFinite ==
  ASSUME NEW S \in SUBSET Procs
  PROVE  /\ IsFiniteSet(S)
         /\ Cardinality(S) \in Nat
         /\ \A T \in SUBSET S : Cardinality(T) <= Cardinality(S)
<1>1. IsFiniteSet(Procs) BY FS_Interval, ProcessAssumption DEF Procs
<1>2. IsFiniteSet(S) BY <1>1, FS_Subset
<1> QED BY <1>2, FS_Subset, FS_CardinalityType

(* evictLocked drops a finished process only while the registry is too       *)
(* large, drops the oldest first, and stops short of its limit only when     *)
(* nothing finished is left.                                                 *)
LEMMA EvictsOldest ==
  ASSUME TypeOK, NEW S \in SUBSET Procs
  PROVE  /\ Evicted(S) \subseteq Finished(S)
         /\ Evicted(S) # {} => Cardinality(S) > MaxProcesses
         /\ \A p \in Evicted(S), q \in Finished(S) \ Evicted(S) : p < q
         /\ \/ Cardinality(S \ Evicted(S)) <= MaxProcesses
            \/ Finished(S) \subseteq Evicted(S)
<1> DEFINE Older(p) == {q \in Finished(S) : q < p}
<1>1. Finished(S) \in SUBSET Procs BY DEF Finished
<1>2. \A p \in Procs : Cardinality(Older(p)) \in Nat
  BY <1>1, ProcsFinite
<1>3. Cardinality(S) \in Nat /\ Excess(S) \in Int
  BY ProcsFinite, ProcessAssumption DEF Excess
<1>4. \A p \in Procs : p \in Evicted(S) <=>
                         p \in Finished(S) /\ Cardinality(Older(p)) < Excess(S)
  BY <1>1 DEF Evicted
<1>5. Evicted(S) \subseteq Finished(S) BY DEF Evicted
<1>6. ASSUME NEW p \in Evicted(S) PROVE Cardinality(S) > MaxProcesses
  <2>1. Cardinality(Older(p)) \in Nat /\ Cardinality(Older(p)) < Excess(S)
    BY <1>1, <1>2, <1>4, <1>5
  <2> HIDE DEF Older
  <2> QED BY <1>3, <2>1, ProcessAssumption DEF Excess
<1>7. ASSUME NEW p \in Evicted(S), NEW q \in Finished(S) \ Evicted(S)
      PROVE  p < q
  <2>1. p \in Procs /\ q \in Procs BY <1>1, <1>5
  <2>2. Cardinality(Older(p)) < Cardinality(Older(q))
    BY <1>2, <1>3, <1>4, <1>7, <2>1
  <2>3. q <= p => Older(q) \subseteq Older(p)
    BY <1>1, <2>1 DEF Procs
  <2>4. q <= p => Cardinality(Older(q)) <= Cardinality(Older(p))
    BY <1>1, <2>3, ProcsFinite
  <2>5. Cardinality(Older(p)) \in Nat /\ Cardinality(Older(q)) \in Nat
    BY <1>2, <2>1
  <2> HIDE DEF Older
  <2> QED BY <2>1, <2>2, <2>4, <2>5 DEF Procs
<1>8. ASSUME ~(Finished(S) \subseteq Evicted(S))
      PROVE  Cardinality(S \ Evicted(S)) <= MaxProcesses
  <2>1. Finished(S) \ Evicted(S) \in SUBSET Nat /\ Finished(S) \ Evicted(S) # {}
    BY <1>1, <1>8 DEF Procs
  <2>2. PICK p \in Finished(S) \ Evicted(S) :
          \A q \in Finished(S) \ Evicted(S) : p <= q
    BY <2>1, Oldest
  <2>3. p \in Procs BY <1>1
  <2>4. Older(p) \subseteq Evicted(S)
    BY <1>1, <2>2, <2>3 DEF Procs
  <2>5. Excess(S) <= Cardinality(Older(p))
    BY <1>2, <1>3, <1>4, <2>3
  <2>6. Evicted(S) \in SUBSET S /\ Evicted(S) \in SUBSET Procs
    BY <1>5 DEF Finished
  <2>7. Cardinality(Older(p)) <= Cardinality(Evicted(S))
    BY <2>4, <2>6, ProcsFinite
  <2>8. Cardinality(S \ Evicted(S)) = Cardinality(S) - Cardinality(Evicted(S))
    <3>1. S \cap Evicted(S) = Evicted(S) BY <2>6
    <3> QED BY <3>1, FS_Difference, ProcsFinite
  <2>9. Cardinality(Evicted(S)) \in Nat /\ Cardinality(Older(p)) \in Nat
    BY <1>2, <2>3, <2>6, ProcsFinite
  <2> HIDE DEF Older
  <2> QED BY <1>3, <2>5, <2>7, <2>8, <2>9, ProcessAssumption DEF Excess
<1> QED BY <1>5, <1>6, <1>7, <1>8

(* The process a call is registering runs, and is not in the registry's      *)
(* finished part.                                                            *)
LEMMA StartingRuns ==
  ASSUME IInv, NEW c \in Clients, call[c] = "starting"
  PROVE  /\ target[c] \in Procs
         /\ target[c] <= launched
         /\ ~exited[target[c]]
  BY DEF IInv, TypeOK, TargetsTyped, Starts, Phases, Procs

(* Only registering changes the registry.                                    *)
LEMMA OnlyRegisterChangesAll ==
  ASSUME Next, all' # all
  PROVE  \E c \in Clients : Register(c)
<1>1. ASSUME NEW p \in Procs, ShellExits(p) \/ ChildExits(p) \/ Reaper(p)
      PROVE  FALSE
  BY <1>1 DEF ShellExits, ChildExits, Reaper, Reap, WaitReturns, TimerFires,
              TimeoutKill, Settle, CloseDone
<1>2. ASSUME Main PROVE FALSE
  BY <1>2 DEF Main, StopAllBegins, StopAllMark, StopAllKill, MainReturns
<1>3. ASSUME NEW c \in Clients, Client(c) PROVE Register(c)
  BY <1>3 DEF Client, Launch, LaunchFails, Lookup, StopMark, StopKill, Answer
<1> QED BY <1>1, <1>2, <1>3 DEF Next

(* Eviction forgets no running process, forgets the finished ones oldest     *)
(* first, and ends within maxProcesses unless everything left is running.    *)
THEOREM EvictionIsSound == Spec => EvictionSound
<1> DEFINE A == /\ \A p \in all \ all' :
                     exited[p] /\ \A q \in all' : exited[q] => p < q
                /\ all' # all =>
                     \/ Cardinality(all') <= MaxProcesses
                     \/ \A p \in all' : ~exited[p]
<1>1. IInv /\ [Next]_vars => [A]_vars
  <2> SUFFICES ASSUME IInv, Next, all' # all PROVE A
    OBVIOUS
  <2>1. PICK c \in Clients : Register(c) BY OnlyRegisterChangesAll
  <2> DEFINE S == all \cup {target[c]}
  <2>2. all' = S \ Evicted(S) /\ call[c] = "starting"
    BY <2>1 DEF Register
  <2>3. S \in SUBSET Procs BY <2>2, StartingRuns DEF IInv, TypeOK
  <2>4. TypeOK BY DEF IInv
  <2>5. \A p \in S : p \in Finished(S) <=> exited[p] BY DEF Finished
  <2> HIDE DEF S
  <2>6. all \ all' \subseteq Evicted(S) BY <2>2 DEF S
  <2>7. all' \subseteq S BY <2>2
  <2>8. \A p \in Evicted(S) : exited[p]
    BY DEF Evicted, Finished
  <2>9. \A p \in all \ all' :
          exited[p] /\ \A q \in all' : exited[q] => p < q
    <3>1. \A p \in Evicted(S), q \in Finished(S) \ Evicted(S) : p < q
      BY <2>3, <2>4, EvictsOldest
    <3> QED BY <2>2, <2>5, <2>6, <2>8, <3>1
  <2>10. Cardinality(all') <= MaxProcesses \/ Finished(S) \subseteq Evicted(S)
    BY <2>2, <2>3, <2>4, EvictsOldest
  <2> QED BY <2>2, <2>5, <2>9, <2>10
<1>2. Spec => [][A]_vars
  <2> HIDE DEF A
  <2> QED BY <1>1, Inductive, PTL DEF Spec
<1> QED BY <1>2 DEF EvictionSound

-----------------------------------------------------------------------------
(* The process registry implements ProcessTable, for every value of the      *)
(* constants: starting a process maps to Begin, registering it to Enter,     *)
(* settling it to End, and every other step leaves the table, the lives and  *)
(* the verdicts as they are.                                                 *)

(* What ProcessTable sees of a state.                                        *)
Lives == [p \in Procs |-> IF exited[p] THEN "ended"
                          ELSE IF p <= launched THEN "running" ELSE "unborn"]
Verdict(p) == IF exited[p]
              THEN [code |-> exitCode[p], forced |-> timedOut[p] \/ killed[p]]
              ELSE [code |-> NoCode, forced |-> FALSE]
TableView == <<Lives, [p \in Procs |-> Verdict(p)], all>>

(* The initial states map to the abstract ones.                              *)
LEMMA InitRefines == Init => Table!Init
<1> SUFFICES ASSUME Init PROVE Table!Init
  OBVIOUS
<1>1. \A p \in Procs : ~(p <= launched) BY DEF Init, Procs
<1> QED
  BY <1>1 DEF Init, Table!Init, Table!Procs, Table!NoVerdict, Table!NoCode,
              Procs, NoCode

(* A step that starts, registers and settles nothing is a stutter: whatever  *)
(* it marks, it marks on a process that has not ended.                       *)
LEMMA StutterRefines ==
  ASSUME IInv, Next, UNCHANGED <<launched, all, exited>>
  PROVE  UNCHANGED TableView
<1>1. FieldsFinal BY EndedIsFinal
<1>2. \A p \in Procs : Verdict(p)' = Verdict(p)
  BY <1>1 DEF FieldsFinal, Verdict
<1>3. Lives' = Lives BY DEF Lives
<1>4. [p \in Procs |-> Verdict(p)]' = [p \in Procs |-> Verdict(p)]
  BY <1>2 DEF Procs
<1> QED BY <1>3, <1>4 DEF TableView
(* run_process starting the shell is the birth of the next process.          *)
LEMMA LaunchRefines ==
  ASSUME IInv, NEW c \in Clients, Launch(c)
  PROVE  \E p \in Procs : Table!Begin(p)
<1>0. PICK p \in Procs : p = launched + 1
  BY ProcessAssumption DEF Launch, IInv, TypeOK, Procs
<1>1. /\ launched' = p /\ p \in Procs
      /\ UNCHANGED <<all, exited, exitCode, timedOut, killed>>
  BY <1>0 DEF Launch, fieldVars
<1>2. ~exited[p]
  BY <1>0 DEF IInv, TypeOK, Phases, Procs
<1>3. Lives[p] = "unborn" /\ \A q \in Procs : q < p => Lives[q] # "unborn"
  BY <1>0, <1>2 DEF Lives, IInv, TypeOK, Procs
<1>4. Lives' = [Lives EXCEPT ![p] = "running"]
  <2>1. \A q \in Procs : q <= launched' <=> q <= launched \/ q = p
    BY <1>0, <1>1 DEF IInv, TypeOK, Procs
  <2> HIDE DEF Procs
  <2> QED BY <1>1, <1>2, <2>1 DEF Lives
<1>5. UNCHANGED <<[q \in Procs |-> Verdict(q)], all>>
  BY <1>1 DEF Verdict
<1>6. Table!Begin(p)
  BY <1>3, <1>4, <1>5, Zenon
     DEF Table!Begin, Table!Procs, Lives, Verdict, Procs
<1> QED BY <1>1, <1>6

(* The rest of start is the entry of a running process, and what evictLocked *)
(* drops has ended and made room the table needed.                           *)
LEMMA RegisterRefines ==
  ASSUME IInv, NEW c \in Clients, Register(c)
  PROVE  \E p \in Procs : Table!Enter(p)
<1>0. PICK p \in Procs : p = target[c]
  BY StartingRuns DEF Register
<1> DEFINE S == all \cup {p}
<1>1. /\ p <= launched /\ ~exited[p]
      /\ all' = S \ Evicted(S)
      /\ UNCHANGED <<launched, exited, exitCode, timedOut, killed>>
  BY <1>0, StartingRuns DEF Register, fieldVars
<1>2. S \in SUBSET Procs BY <1>1 DEF IInv, TypeOK
<1>3. /\ \A q \in Evicted(S) : q \in all /\ exited[q]
      /\ Evicted(S) # {} => Cardinality(S) > MaxProcesses
  <2>1. \A q \in Evicted(S) : q \in S /\ exited[q] BY DEF Evicted, Finished
  <2> QED BY <1>1, <1>2, <2>1, EvictsOldest DEF IInv
<1>4. Evicted(S) \in SUBSET {q \in all : Lives[q] = "ended"}
  BY <1>2, <1>3 DEF Lives
<1>5. Lives[p] = "running" BY <1>1 DEF Lives
<1>6. UNCHANGED <<Lives, [q \in Procs |-> Verdict(q)]>>
  BY <1>1 DEF Lives, Verdict
<1>7. Table!Enter(p)
  <2>1. all' = (all \cup {p}) \ Evicted(S) BY <1>1
  <2>2. Evicted(S) # {} => Table!Cardinality(all \cup {p}) > MaxProcesses
    <3>1. Table!Cardinality(S) = Cardinality(S)
      BY Zenon DEF Table!Cardinality, Cardinality
    <3> QED BY <1>3, <3>1
  <2> HIDE DEF S
  <2> QED
    BY <1>4, <1>5, <1>6, <2>1, <2>2, Zenon
       DEF Table!Enter, Lives, Verdict
<1> QED BY <1>1, <1>7

(* wait writing the exit fields is the end, with the verdict it writes.      *)
LEMMA SettleRefines ==
  ASSUME IInv, NEW p \in Procs, Settle(p)
  PROVE  Table!End(p)
<1> DEFINE v == [code |-> exitCode'[p], forced |-> timedOut[p] \/ killed[p]]
<1>1. /\ exited' = [exited EXCEPT ![p] = TRUE]
      /\ exitCode' = [exitCode EXCEPT ![p] = exitCode'[p]]
      /\ timedOut[p] \/ killed[p] => exitCode'[p] = NoCode
      /\ UNCHANGED <<launched, all, timedOut, killed>>
      /\ wait[p] = "ended"
  BY DEF Settle, CodeOf, IInv, TypeOK
<1>2. ~exited[p] /\ p <= launched
  BY <1>1 DEF IInv, TypeOK, Phases, Procs
<1>3. exitCode'[p] \in Codes \cup {NoCode}
  BY DEF Settle, CodeOf, IInv, TypeOK
<1>4. v \in Table!Verdicts
  BY <1>1, <1>3 DEF Table!Verdicts, Table!NoCode, NoCode, IInv, TypeOK
<1>5. Lives[p] = "running" BY <1>2 DEF Lives
<1>6. Lives' = [Lives EXCEPT ![p] = "ended"]
  BY <1>1, <1>2 DEF Lives, IInv, TypeOK
<1>7. [q \in Procs |-> Verdict(q)]' = [[q \in Procs |-> Verdict(q)] EXCEPT ![p] = v]
  BY <1>1, <1>2 DEF Verdict, IInv, TypeOK
<1> HIDE DEF v
<1> QED
  BY <1>1, <1>4, <1>5, <1>6, <1>7
     DEF Table!End, Lives, Verdict

(* Every step starts, registers or settles one process, or stutters.         *)
LEMMA StepRefines ==
  ASSUME IInv, [Next]_vars
  PROVE  [Table!Next]_TableView
<1>1. ASSUME Next, UNCHANGED <<launched, all, exited>> PROVE UNCHANGED TableView
  BY <1>1, StutterRefines
<1>2. ASSUME NEW p \in Procs, ShellExits(p) \/ ChildExits(p) \/ Reaper(p)
      PROVE  Settle(p) \/ UNCHANGED <<launched, all, exited>>
  BY <1>2 DEF ShellExits, ChildExits, Reaper, Reap, WaitReturns, TimerFires,
              TimeoutKill, CloseDone, fieldVars
<1>3. ASSUME NEW c \in Clients, Client(c)
      PROVE  Launch(c) \/ Register(c) \/ UNCHANGED <<launched, all, exited>>
  BY <1>3 DEF Client, LaunchFails, Lookup, StopMark, StopKill, Answer, fieldVars
<1>4. ASSUME Main PROVE UNCHANGED <<launched, all, exited>>
  BY <1>4 DEF Main, StopAllBegins, StopAllMark, StopAllKill, MainReturns,
              fieldVars
<1>5. CASE Next
  BY <1>1, <1>2, <1>3, <1>4, <1>5, LaunchRefines, RegisterRefines,
     SettleRefines DEF Next, Table!Next, Table!Procs, Procs
<1>6. CASE UNCHANGED vars
  BY <1>6 DEF vars, fieldVars, TableView, Lives, Verdict
<1> QED BY <1>5, <1>6

(* The processes of the server keep the promise ProcessTable makes to the    *)
(* callers of run_process, check_process_id and stop_process.                *)
THEOREM RegistryImplementsTable == Spec => TableSpec
<1>1. IInv /\ [Next]_vars => [Table!Next]_TableView
  BY StepRefines
<1>2. Spec => Table!Init /\ [][Table!Next]_TableView
  BY <1>1, InitRefines, Inductive, PTL DEF Spec
<1> QED BY <1>2, PTL DEF TableSpec, Table!Spec, TableView, Lives, Verdict

-----------------------------------------------------------------------------
(* The download links. *)

(* What the lock of the table keeps, and where a socket may be: the listener *)
(* and the URLs change together until Close; what Close took away was a      *)
(* listener; and a call that is about to insert has minted its token.        *)
LinksInv ==
  /\ WithinBounds
  /\ ~closed => srv = base
  /\ closer = "shutdown" => closing # Nobody
  /\ \A c \in Callers : progress[c] = "insert" => fresh[c].token \in Tokens

LEMMA LinksInit == DownloadInit => LinksInv
<1> SUFFICES ASSUME DownloadInit PROVE LinksInv
  OBVIOUS
<1> USE DownloadAssumption DEF DownloadInit
<1>1. DOMAIN links = {}
  OBVIOUS
<1>2. Cardinality(DOMAIN links) = 0
  BY <1>1, FS_EmptySet
<1>3. DownloadTypeOK
  <2>1. \A t \in DOMAIN links : links[t] \in Nat
    BY <1>1
  <2>2. fresh \in [Callers -> [token : Nat, at : Nat, expires : Nat]]
    BY DEF NoLink
  <2>3. minted \in 0 .. MaxToken /\ now \in 0 .. MaxTime
    BY DEF DownloadAssumption
  <2>4. progress \in [Callers -> {"idle", "listen", "install", "undo", "refuse",
                              "mint", "insert", "done"}]
    OBVIOUS
  <2> QED
    BY <1>1, <2>1, <2>2, <2>3, <2>4 DEF DownloadTypeOK
<1> QED
  BY <1>1, <1>2, <1>3 DEF DownloadAssumption, LinksInv, WithinBounds

LEMMA TableIsFinite == DownloadTypeOK => IsFiniteSet(DOMAIN links)
<1>1. IsFiniteSet(Tokens)
  BY DownloadAssumption, FS_Interval DEF DownloadAssumption, Tokens
<1> QED
  BY <1>1, FS_Subset DEF DownloadTypeOK

(* A table from which links were only taken is still within its bounds.      *)
LEMMA Shrinks ==
  ASSUME LinksInv, NEW gone, links' = Without(gone)
  PROVE  /\ DOMAIN links' \subseteq DOMAIN links
         /\ \A t \in DOMAIN links' : links'[t] = links[t]
         /\ MaxLinks > 0 => Cardinality(DOMAIN links') <= MaxLinks
<1>1. DOMAIN links' = DOMAIN links \ gone
  BY DEF Without
<1>2. \A t \in DOMAIN links' : links'[t] = links[t]
  BY <1>1 DEF Without
<1>3. IsFiniteSet(DOMAIN links)
  BY TableIsFinite DEF LinksInv, WithinBounds
<1>4. /\ Cardinality(DOMAIN links') <= Cardinality(DOMAIN links)
      /\ Cardinality(DOMAIN links') \in Nat /\ Cardinality(DOMAIN links) \in Nat
  BY <1>1, <1>3, FS_Subset, FS_CardinalityType
<1> QED
  BY <1>1, <1>2, <1>4, DownloadAssumption DEF DownloadAssumption, LinksInv, WithinBounds

(* What a step must do for LinksBounded.                                     *)
Kept == LinksInv' /\ RoomIsMadeBySoonest /\ OnlyLiveLinksServe

(* A step that takes links and is about nothing else keeps the bounds.       *)
LEMMA TakingKeeps ==
  ASSUME LinksInv, NEW gone, links' = Without(gone),
         UNCHANGED <<server, minted, now, ports, progress, fresh, closeVars, serving>>
  PROVE  Kept
<1>1. DOMAIN links' \subseteq DOMAIN links /\ \A t \in DOMAIN links' : links'[t] = links[t]
  BY Shrinks
<1>2. DownloadTypeOK'
  BY <1>1 DEF LinksInv, WithinBounds, DownloadTypeOK, server, ports, closeVars
<1>3. WithinBounds'
  BY <1>1, <1>2, Shrinks DEF LinksInv, WithinBounds, server, ports
<1>4. LinksInv'
  BY <1>3 DEF LinksInv, server, closeVars
<1> QED
  BY <1>1, <1>4 DEF Kept, RoomIsMadeBySoonest, OnlyLiveLinksServe

(* A step that leaves the table and the browsers alone has to keep types and *)
(* sockets only.                                                             *)
LEMMA OtherKeeps ==
  ASSUME LinksInv, UNCHANGED <<links, serving>>, closed' = closed, DownloadTypeOK',
         \A c \in sockets' : progress'[c] \in {"install", "undo", "refuse"} \/ (c = base' /\ ~attached'),
         srv' # Nobody => srv' = base', ~closed' => srv' = base',
         closer' = "shutdown" => closing' # Nobody,
         \A c \in Callers : progress'[c] = "insert" => fresh'[c].token \in Tokens
  PROVE  Kept
BY DEF Kept, LinksInv, WithinBounds, RoomIsMadeBySoonest, OnlyLiveLinksServe

(* A call puts its link into the table: what the purge and the cap leave, and *)
(* the new one.                                                              *)
LEMMA InsertKeeps ==
  ASSUME LinksInv, NEW c \in Callers, Insert(c)
  PROVE  Kept
<1> USE DEF server, ports, closeVars, Advance
<1>0. DownloadTypeOK /\ DownloadAssumption
  BY DownloadAssumption DEF LinksInv, WithinBounds
<1>1. /\ progress' \in [Callers -> {"idle", "listen", "install", "undo", "refuse",
                                 "mint", "insert", "done"}]
      /\ fresh' \in [Callers -> [token : Nat, at : Nat, expires : Nat]]
  BY <1>0 DEF Insert, DownloadTypeOK, NoLink
<1>2. \A d \in Callers : progress'[d] = "insert" => fresh'[d].token \in Tokens
  BY <1>0 DEF Insert, DownloadTypeOK, LinksInv
<1>3. CASE UNCHANGED links
  <2>1. DownloadTypeOK'
    BY <1>0, <1>1, <1>3 DEF Insert, DownloadTypeOK
  <2>2. \A d \in sockets' : progress'[d] \in {"install", "undo", "refuse"} \/ (d = base' /\ ~attached')
    BY <1>0 DEF Insert, LinksInv, WithinBounds, DownloadTypeOK
  <2>3. /\ srv' # Nobody => srv' = base'
        /\ ~closed' => srv' = base'
        /\ closer' = "shutdown" => closing' # Nobody
        /\ closed' = closed /\ serving' = serving
    BY DEF Insert, LinksInv, WithinBounds
  <2> QED
    BY <1>2, <1>3, <2>1, <2>2, <2>3, OtherKeeps
<1>4. CASE ~closed
  <2> DEFINE f == fresh[c]
             left == DOMAIN links \ Expired(f.at)
             full == MaxLinks > 0 /\ Cardinality(left) >= MaxLinks
  <2>1. CASE ~UNCHANGED links
    <3>1. PICK out \in IF full THEN {{t} : t \in Soonest(left)} ELSE {{}} :
            links' = [t \in (left \ out) \cup {f.token} |->
                        IF t = f.token THEN f.expires ELSE links[t]]
      BY <2>1 DEF Insert
    <3>2. f.token \in Tokens /\ f.at \in Nat /\ f.expires \in Nat
      BY <1>0 DEF Insert, DownloadTypeOK, LinksInv
    <3>3. DOMAIN links' = (left \ out) \cup {f.token}
      BY <3>1
    <3>4. \A t \in DOMAIN links' \ {f.token} : links'[t] = links[t]
      BY <3>1
    <3>5. links'[f.token] = f.expires
      BY <3>1
    <3>6. DownloadTypeOK'
      <4>1. DOMAIN links' \subseteq Tokens
        BY <1>0, <3>2, <3>3 DEF DownloadTypeOK
      <4>2. \A t \in DOMAIN links' : links'[t] \in Nat
        BY <1>0, <3>2, <3>3, <3>4, <3>5 DEF DownloadTypeOK
      <4> QED
        BY <1>0, <1>1, <4>1, <4>2 DEF Insert, DownloadTypeOK
    <3>7. MaxLinks > 0 => Cardinality(DOMAIN links') <= MaxLinks
      <4> SUFFICES ASSUME MaxLinks > 0 PROVE Cardinality(DOMAIN links') <= MaxLinks
        OBVIOUS
      <4>1. MaxLinks \in Nat
        BY <1>0 DEF DownloadAssumption
      <4>2. IsFiniteSet(left) /\ Cardinality(left) \in Nat /\ Cardinality(left) <= MaxLinks
        <5>1. IsFiniteSet(DOMAIN links) /\ Cardinality(DOMAIN links) <= MaxLinks
          BY <1>0, TableIsFinite DEF LinksInv, WithinBounds
        <5>2. IsFiniteSet(left) /\ Cardinality(left) <= Cardinality(DOMAIN links)
          BY <5>1, FS_Subset
        <5>3. Cardinality(left) \in Nat /\ Cardinality(DOMAIN links) \in Nat
          BY <5>1, <5>2, FS_CardinalityType
        <5> QED
          BY <4>1, <5>1, <5>2, <5>3
      <4> DEFINE rest == left \ out
      <4>3. IsFiniteSet(rest) /\ Cardinality(rest) \in Nat /\ Cardinality(rest) < MaxLinks
        <5>1. CASE full
          <6>1. PICK t \in left : out = {t}
            BY <3>1, <5>1 DEF Soonest
          <6>2. IsFiniteSet(left \ {t}) /\ Cardinality(left \ {t}) = Cardinality(left) - 1
            BY <4>2, <6>1, FS_RemoveElement
          <6>3. Cardinality(left \ {t}) \in Nat
            BY <6>2, FS_CardinalityType
          <6>4. Cardinality(left \ {t}) < MaxLinks
            BY <4>1, <4>2, <6>2, <6>3
          <6> QED
            BY <6>1, <6>2, <6>3, <6>4
        <5>2. CASE ~full
          <6>1. rest = left
            BY <3>1, <5>2
          <6>2. Cardinality(left) < MaxLinks
            BY <4>1, <4>2, <5>2
          <6> QED
            BY <4>2, <6>1, <6>2
        <5> QED
          BY <5>1, <5>2
      <4> HIDE DEF rest
      <4>4. Cardinality(rest \cup {f.token}) \in {Cardinality(rest), Cardinality(rest) + 1}
        BY <4>3, FS_AddElement
      <4>5. DOMAIN links' = rest \cup {f.token}
        BY <3>3 DEF rest
      <4>6. Cardinality(rest \cup {f.token}) <= MaxLinks
        BY <4>1, <4>3, <4>4
      <4> QED
        BY <4>5, <4>6
    <3>8. RoomIsMadeBySoonest
      <4> SUFFICES ASSUME NEW t \in DOMAIN links \ DOMAIN links',
                          NEW u \in DOMAIN links \cap DOMAIN links',
                          DOMAIN links' \ DOMAIN links # {}
                   PROVE  links[t] <= links[u]
        BY DEF RoomIsMadeBySoonest
      <4>1. u \in left /\ u \notin out
        BY <3>3
      <4>2. links[t] \in Nat /\ links[u] \in Nat
        BY <1>0 DEF DownloadTypeOK
      <4>3. CASE t \in Expired(f.at)
        BY <3>2, <4>1, <4>2, <4>3 DEF Expired
      <4>4. CASE t \in left
        <5>1. t \in out
          BY <3>3, <4>4
        <5> QED
          BY <3>1, <4>1, <5>1 DEF Soonest
      <4> QED
        BY <4>3, <4>4
    <3>9. WithinBounds'
      BY <1>0, <1>4, <3>6, <3>7 DEF Insert, LinksInv, WithinBounds, DownloadTypeOK
    <3>10. LinksInv'
      BY <1>2, <3>9 DEF Insert, LinksInv
    <3> QED
      BY <3>8, <3>10 DEF Insert, Kept, OnlyLiveLinksServe
  <2> QED
    BY <1>3, <2>1
<1> QED
  BY <1>3, <1>4 DEF Insert

(* The steps of a call.                                                     *)
LEMMA CallsKeep ==
  ASSUME LinksInv, NEW c \in Callers, CallStep(c)
  PROVE  Kept
<1> USE DEF server, ports, closeVars, Advance
<1>0. DownloadTypeOK /\ DownloadAssumption
  BY DownloadAssumption DEF LinksInv, WithinBounds
<1>1. CASE AddBegins(c)
  <2>1. DownloadTypeOK'
    BY <1>0, <1>1 DEF AddBegins, DownloadTypeOK
  <2> QED
    BY <1>0, <1>1, <2>1, OtherKeeps DEF AddBegins, LinksInv, WithinBounds, DownloadTypeOK
<1>2. CASE OpenSocket(c)
  <2>1. DownloadTypeOK'
    BY <1>0, <1>2 DEF OpenSocket, DownloadTypeOK
  <2> QED
    BY <1>0, <1>2, <2>1, OtherKeeps, SMTT(30) DEF OpenSocket, LinksInv, WithinBounds, DownloadTypeOK
<1>3. CASE Install(c)
  <2>1. DownloadTypeOK'
    BY <1>0, <1>3 DEF Install, DownloadTypeOK
  <2>2. CASE srv' = c /\ srv = Nobody /\ ~closed /\ ~attached
    <3>1. base = Nobody /\ base' = c
      BY <1>3, <2>2 DEF Install, LinksInv
    <3>2. \A d \in sockets' : progress'[d] \in {"install", "undo", "refuse"} \/ (d = base' /\ ~attached')
      BY <1>0, <1>3, <2>2, <3>1
         DEF Install, LinksInv, WithinBounds, DownloadTypeOK, DownloadAssumption
    <3> QED
      BY <1>0, <1>3, <2>1, <2>2, <3>1, <3>2, OtherKeeps DEF Install, LinksInv, DownloadTypeOK
  <2>3. CASE UNCHANGED <<srv, base>>
    <3>1. \A d \in sockets' : progress'[d] \in {"install", "undo", "refuse"} \/ (d = base' /\ ~attached')
      BY <1>0, <1>3, <2>3 DEF Install, LinksInv, WithinBounds, DownloadTypeOK
    <3> QED
      BY <1>0, <1>3, <2>1, <2>3, <3>1, OtherKeeps, SMTT(30)
         DEF Install, LinksInv, WithinBounds, DownloadTypeOK
  <2> QED
    BY <1>3, <2>2, <2>3 DEF Install
<1>4. CASE GiveUpSocket(c)
  <2>1. DownloadTypeOK'
    BY <1>0, <1>4 DEF GiveUpSocket, DownloadTypeOK
  <2> QED
    BY <1>0, <1>4, <2>1, OtherKeeps DEF GiveUpSocket, LinksInv, WithinBounds, DownloadTypeOK
<1>5. CASE Mint(c)
  <2>1. fresh' \in [Callers -> [token : Nat, at : Nat, expires : Nat]]
    BY <1>0, <1>5 DEF Mint, DownloadTypeOK, DownloadAssumption
  <2>2. minted' \in 0 .. MaxToken /\ fresh'[c].token \in Tokens
    BY <1>0, <1>5 DEF Mint, DownloadTypeOK, DownloadAssumption, Tokens
  <2>3. DownloadTypeOK'
    BY <1>0, <1>5, <2>1, <2>2 DEF Mint, DownloadTypeOK
  <2>4. \A d \in Callers : progress'[d] = "insert" => fresh'[d].token \in Tokens
    BY <1>0, <1>5, <2>2 DEF Mint, LinksInv, DownloadTypeOK
  <2> QED
    BY <1>0, <1>5, <2>3, <2>4, OtherKeeps DEF Mint, LinksInv, WithinBounds, DownloadTypeOK
<1>6. CASE Insert(c)
  BY <1>6, InsertKeeps
<1>7. CASE NextCall(c)
  <2>1. DownloadTypeOK'
    BY <1>0, <1>7 DEF NextCall, DownloadTypeOK
  <2> QED
    BY <1>0, <1>7, <2>1, OtherKeeps DEF NextCall, LinksInv, WithinBounds, DownloadTypeOK
<1> QED
  BY <1>1, <1>2, <1>3, <1>4, <1>5, <1>6, <1>7 DEF CallStep

(* The table's other operations, the browsers and the clock.                 *)
LEMMA TableStepsKeep ==
  ASSUME LinksInv,
         \/ \E t \in Tokens : RevokeLink(t) \/ Fetch(t)
         \/ FetchEnds \/ ListLinks \/ JanitorTick \/ Tick
  PROVE  Kept
<1>0. DownloadTypeOK
  BY DEF LinksInv, WithinBounds
<1>1. ASSUME NEW t \in Tokens, RevokeLink(t) PROVE Kept
  BY <1>1, TakingKeeps DEF RevokeLink
<1>2. CASE ListLinks
  BY <1>2, TakingKeeps DEF ListLinks
<1>3. CASE JanitorTick
  BY <1>3, TakingKeeps DEF JanitorTick
<1>4. ASSUME NEW t \in Tokens, Fetch(t) PROVE Kept
  <2>1. CASE now < links[t]
    <3>1. DownloadTypeOK'
      BY <1>0, <1>4, <2>1 DEF Fetch, DownloadTypeOK, server, ports, closeVars
    <3>2. LinksInv'
      BY <1>4, <2>1, <3>1 DEF Fetch, LinksInv, WithinBounds, server, ports, closeVars
    <3>3. OnlyLiveLinksServe
      BY <1>4, <2>1 DEF Fetch, OnlyLiveLinksServe, LinksInv, WithinBounds
    <3> QED
      BY <1>4, <2>1, <3>2, <3>3 DEF Fetch, Kept, RoomIsMadeBySoonest
  <2>2. CASE ~(now < links[t])
    BY <1>4, <2>2, TakingKeeps DEF Fetch
  <2> QED
    BY <2>1, <2>2
<1>5. CASE FetchEnds
  <2>1. DownloadTypeOK'
    BY <1>0, <1>5 DEF FetchEnds, DownloadTypeOK, server, ports, closeVars
  <2>2. LinksInv'
    BY <1>5, <2>1 DEF FetchEnds, LinksInv, WithinBounds, server, ports, closeVars
  <2> QED
    BY <1>5, <2>2 DEF FetchEnds, Kept, RoomIsMadeBySoonest, OnlyLiveLinksServe
<1>6. CASE Tick
  <2>1. now' \in 0 .. MaxTime
    BY <1>0, <1>6, DownloadAssumption DEF Tick, DownloadTypeOK, DownloadAssumption
  <2>2. DownloadTypeOK'
    BY <1>0, <1>6, <2>1 DEF Tick, DownloadTypeOK, server, ports, closeVars
  <2>3. LinksInv'
    BY <1>6, <2>2 DEF Tick, LinksInv, WithinBounds, server, ports, closeVars
  <2> QED
    BY <1>6, <2>3 DEF Tick, Kept, RoomIsMadeBySoonest, OnlyLiveLinksServe
<1> QED
  BY <1>1, <1>2, <1>3, <1>4, <1>5, <1>6

(* The listener's goroutine and Close.                                       *)
LEMMA ClosingKeeps ==
  ASSUME LinksInv,
         CloseLocks \/ CloseStep \/ \E c \in Callers : ServeTakesOver(c)
  PROVE  Kept
<1> USE DEF server, ports, closeVars
<1>0. DownloadTypeOK
  BY DEF LinksInv, WithinBounds
<1>1. CASE CloseLocks
  <2>1. DOMAIN links' = {}
    BY <1>1 DEF CloseLocks, Without
  <2>2. MaxLinks > 0 => Cardinality(DOMAIN links') <= MaxLinks
    BY <1>1, Shrinks DEF CloseLocks
  <2>3. DownloadTypeOK'
    BY <1>0, <1>1, <2>1 DEF CloseLocks, DownloadTypeOK
  <2>4. WithinBounds'
    BY <1>1, <2>1, <2>2, <2>3 DEF CloseLocks, LinksInv, WithinBounds
  <2>5. LinksInv'
    BY <1>1, <2>4 DEF CloseLocks, LinksInv
  <2> QED
    BY <1>1, <2>1, <2>5 DEF CloseLocks, Kept, RoomIsMadeBySoonest, OnlyLiveLinksServe
<1>2. CASE CloseShutsDown
  <2>1. closing \in Callers
    BY <1>0, <1>2 DEF CloseShutsDown, LinksInv, DownloadTypeOK
  <2>2. DownloadTypeOK'
    BY <1>0, <1>2, <2>1 DEF CloseShutsDown, DownloadTypeOK
  <2> QED
    BY <1>2, <2>2, OtherKeeps DEF CloseShutsDown, LinksInv, WithinBounds
<1>3. CASE CloseReturns
  <2>1. DownloadTypeOK'
    BY <1>0, <1>3 DEF CloseReturns, DownloadTypeOK
  <2> QED
    BY <1>3, <2>1, OtherKeeps DEF CloseReturns, LinksInv, WithinBounds
<1>4. ASSUME NEW c \in Callers, ServeTakesOver(c) PROVE Kept
  <2>1. DownloadTypeOK'
    BY <1>0, <1>4 DEF ServeTakesOver, DownloadTypeOK
  <2> QED
    BY <1>4, <2>1, OtherKeeps DEF ServeTakesOver, LinksInv, WithinBounds
<1> QED
  BY <1>1, <1>2, <1>3, <1>4 DEF CloseStep

LEMMA LinksStepKeeps ==
  LinksInv /\ [DownloadStep \/ CloseLocks \/ CloseStep]_dlVars => [Kept]_dlVars /\ LinksInv'
<1> SUFFICES ASSUME LinksInv, [DownloadStep \/ CloseLocks \/ CloseStep]_dlVars
             PROVE  [Kept]_dlVars /\ LinksInv'
  OBVIOUS
<1>1. CASE UNCHANGED dlVars
  BY <1>1 DEF dlVars, LinksInv, WithinBounds, DownloadTypeOK
<1>2. CASE DownloadStep \/ CloseLocks \/ CloseStep
  BY <1>2, CallsKeep, TableStepsKeep, ClosingKeeps DEF DownloadStep, Kept
<1> QED
  BY <1>1, <1>2

(* However calls, browsers, the clock and Close interleave, and for any cap: *)
(* the table stays within it and is empty once closed, room is made at the   *)
(* expense of what expires first, nothing is served under a link that is     *)
(* gone or expired, and the only socket besides one a call is still deciding *)
(* about is the listener the URLs name (downloads.go).                       *)
THEOREM LinksStayBounded == DownloadSpec => LinksBounded
<1>1. [Kept]_dlVars => [WithinBounds' /\ RoomIsMadeBySoonest /\ OnlyLiveLinksServe]_dlVars
  BY DEF Kept, LinksInv
<1> QED
  BY <1>1, LinksInit, LinksStepKeeps, PTL DEF DownloadSpec, LinksBounded

-----------------------------------------------------------------------------
(* The listeners and the end of the program. *)

ListenerFailed == \E i \in 1 .. Len(errs) : errs[i] = "err"

Ended == {l \in Ports : one[l] = "ended"}

(* The channel holds one result for each listener that has ended, so that    *)
(* when ServeAll has taken as many as there are listeners all have ended;    *)
(* and the error it keeps is one of those it took.                           *)
ServeInv ==
  /\ ListenersTypeOK
  /\ taken <= Len(errs)
  /\ Cardinality(Ended) = Len(errs)
  /\ \A l \in bound : one[l] \in {"bound", "serving"}
  /\ ~Listening => errs = <<>> /\ first = "none" /\ \A l \in Ports : one[l] = "off"
  /\ first # "nil"
  /\ first = "none" => \A i \in 1 .. taken : errs[i] # "err"
  /\ first = "err" => \E i \in 1 .. taken : errs[i] = "err"
  /\ first = "returned" => \A l \in Ports : one[l] = "ended"

(* Run's channel holds one result for each half that is over, an error among *)
(* them when one failed; run has heard both before it leaves.                *)
MainInv ==
  /\ tunnel = "none" <=> mode \notin {"both", "tunnel"}
  /\ mode = "both" =>
       /\ Len(halves) = (IF first = "returned" THEN 1 ELSE 0)
                          + (IF tunnel = "running" THEN 0 ELSE 1)
       /\ (\E i \in 1 .. Len(halves) : halves[i] = "err")
            <=> (first = "returned" /\ ListenerFailed) \/ tunnel = "err"
       /\ heard <= Len(halves)
       /\ exit = "err" <=> \E i \in 1 .. heard : halves[i] = "err"
       /\ exit # IF run = "serving" THEN "nil" ELSE "none"
       /\ run # "serving" => heard = 2
  /\ mode # "both" => halves = <<>> /\ heard = 0
  /\ mode = "listeners" =>
       /\ run # "serving" <=> first = "returned"
       /\ run # "serving" => (exit = "err" <=> ListenerFailed)
  /\ mode = "tunnel" =>
       /\ run # "serving" <=> tunnel # "running"
       /\ run # "serving" => exit = tunnel

LifeInv == ServeInv /\ MainInv

LEMMA LifeInitHolds == ListenersInit => LifeInv
<1> SUFFICES ASSUME ListenersInit PROVE LifeInv
  OBVIOUS
<1> USE DEF ListenersInit, Listening
<1>1. Ended = {}
  BY DEF Ended
<1>2. Cardinality(Ended) = 0
  BY <1>1, FS_EmptySet
<1>3. ListenersTypeOK
  <2>1. Cardinality(Ports) \in Nat
    BY PortsAssumption, FS_CardinalityType DEF PortsAssumption
  <2>2. errs \in Seq(Outcomes) /\ halves \in Seq(Outcomes)
    OBVIOUS
  <2>3. one \in [Ports -> {"off", "start", "bound", "serving", "ended"}]
    OBVIOUS
  <2>4. mode \in {"stdio", "listeners", "both", "tunnel"}
        /\ tunnel \in {"none", "running", "nil", "err"}
    OBVIOUS
  <2>5. taken \in 0 .. Cardinality(Ports) /\ heard \in 0 .. 2
    BY <2>1
  <2>6. /\ {signalled, halved, dropped} \subseteq BOOLEAN
        /\ {bound, told} \subseteq SUBSET Ports
        /\ {first, exit} \subseteq Results /\ run \in {"serving", "leaving", "gone"}
    BY DEF Results
  <2> HIDE DEF ListenersInit
  <2> QED
    BY <2>2, <2>3, <2>4, <2>5, <2>6 DEF ListenersTypeOK
<1>4. ServeInv
  BY <1>2, <1>3 DEF ServeInv
<1>5. MainInv
  BY DEF MainInv
<1> QED
  BY <1>4, <1>5 DEF LifeInv

(* A listener that ends adds its result, and itself, to those that have.     *)
LEMMA OneMoreEnds ==
  ASSUME ServeInv, NEW l \in Ports, one[l] # "ended", NEW o \in Outcomes, Ends(l, o)
  PROVE  /\ one' \in [Ports -> {"off", "start", "bound", "serving", "ended"}]
         /\ errs' \in Seq(Outcomes) /\ Len(errs') = Len(errs) + 1
         /\ \A i \in 1 .. Len(errs) : errs'[i] = errs[i]
         /\ Cardinality(Ended') = Len(errs')
<1>1. /\ errs' \in Seq(Outcomes) /\ Len(errs') = Len(errs) + 1
      /\ \A i \in 1 .. Len(errs) : errs'[i] = errs[i]
  BY DEF Ends, ServeInv, ListenersTypeOK
<1>2. one' \in [Ports -> {"off", "start", "bound", "serving", "ended"}]
  BY DEF Ends, ServeInv, ListenersTypeOK
<1>3. Ended' = Ended \cup {l} /\ l \notin Ended
  BY DEF Ends, ServeInv, ListenersTypeOK, Ended
<1>4. IsFiniteSet(Ended)
  BY PortsAssumption, FS_Subset DEF PortsAssumption, Ended
<1>5. Cardinality(Ended') = Cardinality(Ended) + 1
  BY <1>3, <1>4, FS_AddElement
<1> QED
  BY <1>1, <1>2, <1>5 DEF ServeInv

(* ... which keeps the invariant when no half is over with it.               *)
LEMMA EndingKeeps ==
  ASSUME LifeInv, NEW l \in Ports, one[l] \in {"start", "bound", "serving"},
         NEW o \in Outcomes, Ends(l, o), bound' = bound \ {l},
         UNCHANGED <<mode, signalled, halved, dropped, told, taken, first,
                     tunnel, halves, heard, run, exit>>
  PROVE  LifeInv'
<1>1. /\ one' \in [Ports -> {"off", "start", "bound", "serving", "ended"}]
      /\ errs' \in Seq(Outcomes) /\ Len(errs') = Len(errs) + 1
      /\ \A i \in 1 .. Len(errs) : errs'[i] = errs[i]
      /\ Cardinality(Ended') = Len(errs')
  BY OneMoreEnds DEF LifeInv
<1>2. first # "returned" /\ Listening
  BY DEF LifeInv, ServeInv
<1>3. ListenersTypeOK'
  BY <1>1 DEF LifeInv, ServeInv, ListenersTypeOK
<1>4. /\ Len(errs) \in Nat /\ taken \in Nat
      /\ \A k \in Ports \ {l} : one'[k] = one[k]
  BY PortsAssumption, FS_CardinalityType
     DEF PortsAssumption, LifeInv, ServeInv, ListenersTypeOK, Ends
<1>5. ServeInv'
  <2>1. taken' <= Len(errs') /\ taken <= Len(errs)
    BY <1>1, <1>4 DEF LifeInv, ServeInv
  <2>2. \A k \in bound' : one'[k] \in {"bound", "serving"}
    BY <1>4 DEF LifeInv, ServeInv, ListenersTypeOK
  <2>3. \A i \in 1 .. taken : errs'[i] = errs[i]
    BY <1>1, <1>4, <2>1
  <2> QED
    BY <1>1, <1>2, <1>3, <2>1, <2>2, <2>3 DEF LifeInv, ServeInv, Listening
<1>6. MainInv'
  BY <1>2 DEF LifeInv, MainInv, Listening
<1> QED
  BY <1>5, <1>6 DEF LifeInv

(* The steps of the listeners.                                               *)
LEMMA ListenerStepsKeep ==
  ASSUME LifeInv, NEW l \in Ports,
         ListenOn(l) \/ ShutDown(l) \/ ServeBegins(l) \/ ServeReturns(l)
  PROVE  LifeInv'
<1>0. ServeInv /\ MainInv /\ ListenersTypeOK
  BY DEF LifeInv, ServeInv
<1>1. ASSUME NEW b \in SUBSET Ports, NEW g \in {"bound", "serving"},
             one[l] \in {"start", "bound", "serving"},
             one' = [one EXCEPT ![l] = g] \/ one' = one, bound' = b,
             told' \subseteq Ports, b \subseteq bound \cup {k \in {l} : one' # one},
             UNCHANGED <<mode, signalled, halved, dropped, errs, taken, first,
                         tunnel, halves, heard, run, exit>>
      PROVE  LifeInv'
  <2>1. one' \in [Ports -> {"off", "start", "bound", "serving", "ended"}]
    BY <1>0, <1>1 DEF ListenersTypeOK
  <2>2. ListenersTypeOK'
    BY <1>0, <1>1, <2>1 DEF ListenersTypeOK
  <2>3. Ended' = Ended
    BY <1>0, <1>1 DEF Ended, ListenersTypeOK
  <2>4. first # "returned" /\ Listening
    BY <1>0, <1>1 DEF ServeInv
  <2>5. \A k \in bound' : one'[k] \in {"bound", "serving"}
    BY <1>0, <1>1 DEF ServeInv, ListenersTypeOK
  <2>6. ServeInv'
    BY <1>0, <1>1, <2>2, <2>3, <2>4, <2>5 DEF ServeInv, Listening
  <2>7. MainInv'
    BY <1>0, <1>1 DEF MainInv, ListenerFailed
  <2> QED
    BY <2>6, <2>7 DEF LifeInv
<1>2. CASE ListenOn(l)
  <2>1. CASE Ends(l, "err") /\ UNCHANGED bound
    <3>1. l \notin bound
      BY <1>0, <1>2 DEF ListenOn, ServeInv
    <3>2. bound' = bound \ {l}
      BY <2>1, <3>1
    <3> QED
      BY <1>2, <2>1, <3>2, EndingKeeps DEF ListenOn, Outcomes
  <2>2. CASE bound' = bound \cup {l} /\ one' = [one EXCEPT ![l] = "bound"] /\ UNCHANGED errs
    <3>1. one' # one
      BY <1>0, <1>2, <2>2 DEF ListenOn, ListenersTypeOK
    <3> QED
      BY <1>0, <1>1, <1>2, <2>2, <3>1 DEF ListenOn, ListenersTypeOK
  <2> QED
    BY <1>2, <2>1, <2>2 DEF ListenOn
<1>3. CASE ShutDown(l)
  BY <1>0, <1>1, <1>3 DEF ShutDown, ListenersTypeOK
<1>4. CASE ServeBegins(l)
  <2>1. CASE l \in told
    BY <1>4, <2>1, EndingKeeps DEF ServeBegins, Outcomes
  <2>2. CASE l \notin told
    BY <1>0, <1>1, <1>4, <2>2 DEF ServeBegins, ListenersTypeOK
  <2> QED
    BY <2>1, <2>2
<1>5. CASE ServeReturns(l)
  BY <1>5, EndingKeeps DEF ServeReturns, Outcomes
<1> QED
  BY <1>2, <1>3, <1>4, <1>5

(* ServeAll's loop and its end.                                              *)
LEMMA ServeAllKeeps ==
  ASSUME LifeInv, ServeAllTakes \/ ServeAllReturns
  PROVE  LifeInv'
<1>0. ServeInv /\ MainInv /\ ListenersTypeOK /\ Cardinality(Ports) \in Nat
  BY PortsAssumption, FS_CardinalityType DEF PortsAssumption, LifeInv, ServeInv
<1>1. Cardinality(Ended) <= Cardinality(Ports)
      /\ (Cardinality(Ended) = Cardinality(Ports) => Ended = Ports)
  BY PortsAssumption, FS_Subset DEF PortsAssumption, Ended
<1>2. Len(errs) <= Cardinality(Ports) /\ Len(errs) \in Nat
  BY <1>0, <1>1 DEF ServeInv, ListenersTypeOK
<1>3. CASE ServeAllTakes
  <2>1. taken' = taken + 1 /\ taken' \in 1 .. Len(errs)
    BY <1>0, <1>2, <1>3 DEF ServeAllTakes, ListenersTypeOK
  <2>2. first' \in {first, "err"} /\ dropped' \in BOOLEAN
    BY <1>0, <1>3 DEF ServeAllTakes, ListenersTypeOK
  <2>3. ListenersTypeOK'
    BY <1>0, <1>2, <1>3, <2>1, <2>2 DEF ServeAllTakes, ListenersTypeOK, Results, Outcomes
  <2>4. /\ first' = "none" => \A i \in 1 .. taken' : errs'[i] # "err"
        /\ first' = "err" => \E i \in 1 .. taken' : errs'[i] = "err"
    BY <1>0, <1>2, <1>3, <2>1 DEF ServeAllTakes, ServeInv, ListenersTypeOK
  <2>5. first' = "returned" <=> first = "returned"
    BY <1>3 DEF ServeAllTakes
  <2>6. Ended' = Ended
    BY <1>3 DEF ServeAllTakes, Ended
  <2>7. ~Listening' => first' = "none"
    BY <1>0, <1>2, <1>3, <2>1 DEF ServeAllTakes, ServeInv, Listening
  <2>8. ServeInv'
    BY <1>0, <1>3, <2>1, <2>3, <2>4, <2>5, <2>6, <2>7 DEF ServeAllTakes, ServeInv, Listening
  <2>9. MainInv'
    BY <1>0, <1>3, <2>5 DEF ServeAllTakes, MainInv, ListenerFailed
  <2> QED
    BY <2>8, <2>9 DEF LifeInv
<1>4. CASE ServeAllReturns
  <2> DEFINE o == IF first = "err" THEN "err" ELSE "nil"
  <2>1. Len(errs) = taken /\ \A l \in Ports : one[l] = "ended"
    <3>1. Len(errs) = taken /\ Cardinality(Ended) = Cardinality(Ports)
      BY <1>0, <1>2, <1>4 DEF ServeAllReturns, ServeInv, ListenersTypeOK
    <3> QED
      BY <1>1, <3>1 DEF Ended
  <2>2. o = "err" <=> ListenerFailed
    BY <1>0, <1>4, <2>1 DEF ServeAllReturns, ServeInv, ListenersTypeOK, ListenerFailed, Results, Outcomes
  <2>3. first' = "returned" /\ first # "returned" /\ Listening /\ o \in Outcomes
    BY <1>4 DEF ServeAllReturns, Outcomes
  <2>4. ListenersTypeOK'
    <3>1. halves' \in Seq(Outcomes) /\ exit' \in Results
          /\ run' \in {"serving", "leaving", "gone"}
      BY <1>0, <1>4, <2>3 DEF ServeAllReturns, HalfEnds, ListenersTypeOK, Results
    <3> QED
      BY <1>0, <1>4, <3>1 DEF ServeAllReturns, ListenersTypeOK
  <2>5. ServeInv'
    <3>1. UNCHANGED <<mode, one, bound, errs, taken>> /\ Listening' = Listening /\ Ended' = Ended
      BY <1>4 DEF ServeAllReturns, Ended, Listening
    <3>2. taken' <= Len(errs') /\ Cardinality(Ended') = Len(errs')
          /\ \A l \in bound' : one'[l] \in {"bound", "serving"}
      BY <1>0, <3>1 DEF ServeInv
    <3> QED
      BY <2>1, <2>3, <2>4, <3>1, <3>2 DEF ServeInv
  <2>6. ListenerFailed' <=> ListenerFailed
    BY <1>4 DEF ServeAllReturns, ListenerFailed
  <2>7. CASE mode = "both"
    <3>1. halves' = Append(halves, o) /\ UNCHANGED <<run, exit>>
      BY <1>4, <2>7 DEF ServeAllReturns, HalfEnds
    <3>2. /\ Len(halves') = Len(halves) + 1 /\ halves'[Len(halves) + 1] = o
          /\ \A i \in 1 .. Len(halves) : halves'[i] = halves[i]
          /\ Len(halves) \in Nat
      BY <1>0, <3>1 DEF ListenersTypeOK
    <3>3. (\E i \in 1 .. Len(halves') : halves'[i] = "err")
            <=> (\E i \in 1 .. Len(halves) : halves[i] = "err") \/ o = "err"
      BY <3>2
    <3>4. \A i \in 1 .. heard : halves'[i] = halves[i]
      BY <1>0, <2>7, <3>2 DEF MainInv, ListenersTypeOK
    <3> QED
      <4>1. MainInv'
        BY <1>0, <1>4, <2>2, <2>3, <2>6, <2>7, <3>1, <3>2, <3>3, <3>4
           DEF ServeAllReturns, MainInv, ListenersTypeOK
      <4> QED
        BY <2>5, <4>1 DEF LifeInv
  <2>8. CASE mode # "both"
    <3>1. run' = "leaving" /\ exit' = o /\ UNCHANGED halves
      BY <1>4, <2>8 DEF ServeAllReturns, HalfEnds
    <3>2. mode = "listeners"
      BY <2>3, <2>8 DEF Listening
    <3>3. MainInv'
      BY <1>0, <1>4, <2>2, <2>3, <2>6, <3>1, <3>2 DEF ServeAllReturns, MainInv
    <3> QED
      BY <2>5, <3>3 DEF LifeInv
  <2> QED
    BY <2>7, <2>8
<1> QED
  BY <1>3, <1>4

(* The tunnel and run.                                                       *)
LEMMA MainKeeps ==
  ASSUME LifeInv, TunnelEnds \/ MainTakesHalf \/ BothHeard \/ StdioEnds \/ SignalComes \/ MainGoes
  PROVE  LifeInv'
<1>0. ServeInv /\ MainInv /\ ListenersTypeOK
  BY DEF LifeInv, ServeInv
<1>1. ASSUME ListenersTypeOK', UNCHANGED <<mode, one, errs, taken, first>>, bound' \subseteq bound
      PROVE  ServeInv'
  BY <1>0, <1>1 DEF ServeInv, Ended, Listening
<1>2. CASE TunnelEnds
  <2>1. tunnel' \in Outcomes /\ tunnel = "running"
    BY <1>2 DEF TunnelEnds, Outcomes
  <2>2. ListenersTypeOK'
    <3>1. halves' \in Seq(Outcomes) /\ exit' \in Results
          /\ run' \in {"serving", "leaving", "gone"}
      BY <1>0, <1>2, <2>1 DEF TunnelEnds, HalfEnds, ListenersTypeOK, Results
    <3> QED
      BY <1>0, <1>2, <2>1, <3>1 DEF TunnelEnds, ListenersTypeOK, Outcomes
  <2>3. ServeInv'
    BY <1>1, <1>2, <2>2 DEF TunnelEnds
  <2>4. ListenerFailed' <=> ListenerFailed
    BY <1>2 DEF TunnelEnds, ListenerFailed
  <2>5. CASE mode = "both"
    <3>1. halves' = Append(halves, tunnel') /\ UNCHANGED <<run, exit>>
      BY <1>2, <2>5 DEF TunnelEnds, HalfEnds
    <3>2. /\ Len(halves') = Len(halves) + 1 /\ halves'[Len(halves) + 1] = tunnel'
          /\ \A i \in 1 .. Len(halves) : halves'[i] = halves[i]
          /\ Len(halves) \in Nat
      BY <1>0, <2>1, <3>1 DEF ListenersTypeOK
    <3>3. (\E i \in 1 .. Len(halves') : halves'[i] = "err")
            <=> (\E i \in 1 .. Len(halves) : halves[i] = "err") \/ tunnel' = "err"
      BY <3>2
    <3>4. \A i \in 1 .. heard : halves'[i] = halves[i]
      BY <1>0, <2>5, <3>2 DEF MainInv, ListenersTypeOK
    <3>5. MainInv'
      <4>1. /\ mode' = "both" /\ first' = first /\ heard' = heard /\ run' = "serving"
            /\ tunnel' # "running" /\ tunnel' # "none"
        BY <1>2, <2>1, <2>5, <3>1 DEF TunnelEnds, Outcomes
      <4>2. /\ Len(halves') = (IF first' = "returned" THEN 1 ELSE 0) + 1
            /\ heard' <= Len(halves')
        <5>1. Len(halves) = (IF first = "returned" THEN 1 ELSE 0) /\ heard <= Len(halves)
          BY <1>0, <2>1, <2>5 DEF MainInv
        <5>2. heard \in Nat
          BY <1>0 DEF ListenersTypeOK
        <5> QED
          BY <3>2, <4>1, <5>1, <5>2
      <4>3. (\E i \in 1 .. Len(halves') : halves'[i] = "err")
              <=> (first' = "returned" /\ ListenerFailed') \/ tunnel' = "err"
        BY <1>0, <2>1, <2>4, <2>5, <3>3, <4>1 DEF MainInv
      <4>4. exit' = "err" <=> \E i \in 1 .. heard' : halves'[i] = "err"
        BY <1>0, <2>5, <3>1, <3>4, <4>1 DEF MainInv
      <4> QED
        BY <1>0, <1>2, <2>5, <3>1, <4>1, <4>2, <4>3, <4>4 DEF TunnelEnds, MainInv
    <3> QED
      BY <2>3, <3>5 DEF LifeInv
  <2>6. CASE mode # "both"
    <3>1. run' = "leaving" /\ exit' = tunnel' /\ UNCHANGED halves
      BY <1>2, <2>6 DEF TunnelEnds, HalfEnds
    <3>2. MainInv'
      BY <1>0, <1>2, <2>1, <2>6, <3>1 DEF TunnelEnds, MainInv, Outcomes
    <3> QED
      BY <2>3, <3>2 DEF LifeInv
  <2> QED
    BY <2>5, <2>6
<1>3. CASE MainTakesHalf
  <2>1. mode = "both" /\ run = "serving" /\ heard' = heard + 1 /\ heard' \in 1 .. Len(halves)
    BY <1>0, <1>3 DEF MainTakesHalf, MainInv, ListenersTypeOK
  <2>2. Len(halves) <= 2
    BY <1>0, <2>1 DEF MainInv
  <2>3. exit' \in {exit, "err"} /\ halved' \in BOOLEAN
    BY <1>0, <1>3 DEF MainTakesHalf, ListenersTypeOK
  <2>4. ListenersTypeOK'
    BY <1>0, <1>3, <2>1, <2>2, <2>3 DEF MainTakesHalf, ListenersTypeOK, Results, Outcomes
  <2>5. ServeInv'
    BY <1>1, <1>3, <2>4 DEF MainTakesHalf
  <2>6. exit' = "err" <=> exit = "err" \/ (halves[heard + 1] = "err" /\ exit = "none")
    BY <1>3 DEF MainTakesHalf
  <2>7. exit \in {"none", "err"}
    BY <1>0, <1>3, <2>1 DEF MainInv, ListenersTypeOK, Results, Outcomes
  <2>8. exit' = "err" <=> \E i \in 1 .. heard' : halves'[i] = "err"
    BY <1>0, <1>3, <2>1, <2>6, <2>7 DEF MainTakesHalf, MainInv, ListenersTypeOK
  <2>9. MainInv'
    BY <1>0, <1>3, <2>1, <2>8 DEF MainTakesHalf, MainInv, ListenerFailed
  <2> QED
    BY <2>5, <2>9 DEF LifeInv
<1>4. CASE BothHeard
  <2>1. mode = "both" /\ exit' \in Outcomes /\ (exit' = "err" <=> exit = "err")
    BY <1>0, <1>4 DEF BothHeard, MainInv, ListenersTypeOK, Results, Outcomes
  <2>2. ListenersTypeOK'
    BY <1>0, <1>4, <2>1 DEF BothHeard, ListenersTypeOK, Results, Outcomes
  <2>3. ServeInv'
    BY <1>1, <1>4, <2>2 DEF BothHeard
  <2>4. MainInv'
    BY <1>0, <1>4, <2>1 DEF BothHeard, MainInv, ListenerFailed, Outcomes
  <2> QED
    BY <2>3, <2>4 DEF LifeInv
<1>5. CASE StdioEnds
  <2>1. ListenersTypeOK'
    BY <1>0, <1>5 DEF StdioEnds, ListenersTypeOK, Results, Outcomes
  <2>2. ServeInv'
    BY <1>1, <1>5, <2>1 DEF StdioEnds
  <2>3. MainInv'
    BY <1>0, <1>5 DEF StdioEnds, MainInv
  <2> QED
    BY <2>2, <2>3 DEF LifeInv
<1>6. CASE SignalComes
  <2>1. ListenersTypeOK'
    BY <1>0, <1>6 DEF SignalComes, ListenersTypeOK
  <2>2. ServeInv'
    BY <1>1, <1>6, <2>1 DEF SignalComes
  <2>3. MainInv'
    BY <1>0, <1>6 DEF SignalComes, MainInv, ListenerFailed
  <2> QED
    BY <2>2, <2>3 DEF LifeInv
<1>7. CASE MainGoes
  <2>1. ListenersTypeOK'
    BY <1>0, <1>7 DEF MainGoes, ListenersTypeOK
  <2>2. ServeInv'
    BY <1>1, <1>7, <2>1 DEF MainGoes
  <2>3. MainInv'
    BY <1>0, <1>7 DEF MainGoes, MainInv, ListenerFailed
  <2> QED
    BY <2>2, <2>3 DEF LifeInv
<1> QED
  BY <1>2, <1>3, <1>4, <1>5, <1>6, <1>7

LEMMA LifeStepKeeps == LifeInv /\ [ServerStep \/ MainGoes]_lsVars => LifeInv'
<1> SUFFICES ASSUME LifeInv, [ServerStep \/ MainGoes]_lsVars PROVE LifeInv'
  OBVIOUS
<1>1. CASE ServerStep \/ MainGoes
  BY <1>1, ListenerStepsKeep, ServeAllKeeps, MainKeeps DEF ServerStep
<1>2. CASE UNCHANGED lsVars
  BY <1>2 DEF lsVars, LifeInv, ServeInv, MainInv, ListenersTypeOK, Ended, Listening, ListenerFailed
<1> QED
  BY <1>1, <1>2

(* A half that is over stays as it ended, so what run heard is what failed.  *)
LEMMA LifeInvSuffices == LifeInv => ExitTellsFailure
<1> SUFFICES ASSUME LifeInv PROVE ExitTellsFailure
  OBVIOUS
<1>0. ServeInv /\ MainInv /\ ListenersTypeOK
  BY DEF LifeInv, ServeInv
<1>1. first = "returned" => (bound = {} /\ \A l \in Ports : one[l] = "ended")
  BY <1>0 DEF ServeInv, ListenersTypeOK
<1>2. ASSUME run # "serving", mode # "stdio" PROVE exit = "err" <=> Failed
  <2>1. CASE mode = "both"
    <3>1. heard = 2 /\ Len(halves) = 2 /\ first = "returned"
      BY <1>0, <1>2, <2>1 DEF MainInv
    <3>2. exit = "err" <=> \E i \in 1 .. Len(halves) : halves[i] = "err"
      BY <1>0, <2>1, <3>1 DEF MainInv
    <3> QED
      BY <1>0, <2>1, <3>1, <3>2 DEF MainInv, Failed, ListenerFailed
  <2>2. CASE mode = "listeners"
    BY <1>0, <1>2, <2>2 DEF MainInv, Failed, ListenerFailed
  <2>3. CASE mode = "tunnel"
    <3>1. ~ListenerFailed
      BY <1>0, <2>3 DEF ServeInv, Listening, ListenerFailed
    <3> QED
      BY <1>0, <1>2, <2>3, <3>1 DEF MainInv, Failed, ListenerFailed
  <2> QED
    BY <1>0, <1>2, <2>1, <2>2, <2>3 DEF ListenersTypeOK
<1> QED
  BY <1>0, <1>1, <1>2 DEF ExitTellsFailure

(* Whatever the listeners, and however their ends, the tunnel's and a signal *)
(* interleave: once run leaves, it returns an error exactly when a listener  *)
(* or the tunnel failed; and ServeAll returns only when every listener has   *)
(* ended and none is bound (ServeAll, run).                                  *)
THEOREM TheExitTells == ListenersSpec => []ExitTellsFailure
<1>1. ListenersSpec => []LifeInv
  BY LifeInitHolds, LifeStepKeeps, PTL DEF ListenersSpec
<1> QED
  BY <1>1, LifeInvSuffices, PTL

-----------------------------------------------------------------------------
(* The self-update. *)

(* What an update has in hand at each of its steps: the executable it found  *)
(* until it is moved aside, that one under exe.old and the whole new release *)
(* in the staging file between the two renames, the new one afterwards.      *)
AtStep ==
  /\ step # "idle" => before # 0 /\ release # 0
  /\ step \in {"fetch", "write", "clear", "aside"} => exe = before
  /\ step \in {"write", "clear", "aside", "install"} => staged.of = release
  /\ step \in {"clear", "aside", "install"} => staged.whole = TRUE
  /\ step \in {"install", "restore"} => exe = 0 /\ backup = before
  /\ step = "tidy" => exe = release

(* What is left when it is over.                                             *)
Left ==
  /\ step \in {"idle", "drop"} /\ exe = 0 => backup # 0 /\ stranded
  /\ step = "drop" => /\ exe \in {0, before, release}
                      /\ answer = "ok" => exe = release
                      /\ answer = "failed" => exe = before \/ stranded

UpdateInv == UpdateTypeOK /\ AtStep /\ Left

StagedFiles == [whole : BOOLEAN, of : Releases]

LEMMA NoFileIsOne == NoFile \in StagedFiles
BY ReleasesAssumption DEF ReleasesAssumption, NoFile, StagedFiles, Releases

LEMMA UpdateInitHolds == UpdateInit => UpdateInv
<1> SUFFICES ASSUME UpdateInit PROVE UpdateInv
  OBVIOUS
<1>1. UpdateTypeOK
  <2>1. staged \in StagedFiles
    BY NoFileIsOne DEF UpdateInit
  <2>2. {exe, backup, before, release} \subseteq Releases
    BY ReleasesAssumption DEF ReleasesAssumption, UpdateInit, Releases
  <2>3. {windows, stranded} \subseteq BOOLEAN
    BY DEF UpdateInit
  <2> QED
    BY <2>1, <2>2, <2>3 DEF UpdateInit, UpdateTypeOK, StagedFiles
<1>2. AtStep /\ Left
  BY DEF UpdateInit, AtStep, Left
<1> QED
  BY <1>1, <1>2 DEF UpdateInv

LEMMA UpdateStepKeeps == UpdateInv /\ [UpdateStep]_suVars => UpdateInv'
<1> SUFFICES ASSUME UpdateInv, [UpdateStep]_suVars PROVE UpdateInv'
  OBVIOUS
<1> USE ReleasesAssumption DEF ReleasesAssumption, UpdateInv, UpdateTypeOK, AtStep, Left, Releases
<1>1. CASE UpdateBegins
  <2>1. release' \in Releases /\ release' # 0
    BY <1>1 DEF UpdateBegins
  <2>2. UpdateTypeOK'
    BY <1>1, <2>1 DEF UpdateBegins
  <2>3. AtStep' /\ Left'
    BY <1>1, <2>1 DEF UpdateBegins
  <2> QED
    BY <2>2, <2>3
<1>2. CASE ChecksumDecides
  <2>1. [whole |-> FALSE, of |-> release] \in StagedFiles
    BY DEF StagedFiles
  <2>2. UpdateTypeOK'
    BY <1>2, <2>1 DEF ChecksumDecides, Fails, StagedFiles
  <2>3. CASE step' = "drop"
    BY <1>2, <2>2, <2>3 DEF ChecksumDecides, Fails
  <2>4. CASE step' = "write"
    BY <1>2, <2>2, <2>4 DEF ChecksumDecides, Fails
  <2> QED
    BY <1>2, <2>3, <2>4 DEF ChecksumDecides, Fails
<1>3. CASE StageBinary
  <2>1. UpdateTypeOK'
    BY <1>3 DEF StageBinary, Fails
  <2>2. CASE step' = "drop"
    BY <1>3, <2>1, <2>2 DEF StageBinary, Fails
  <2>3. CASE step' = "clear"
    BY <1>3, <2>1, <2>3 DEF StageBinary, Fails
  <2> QED
    BY <1>3, <2>2, <2>3 DEF StageBinary, Fails
<1>4. CASE ClearBackup
  BY <1>4 DEF ClearBackup, Removed
<1>5. CASE MoveAside
  BY <1>5 DEF MoveAside, Fails
<1>6. CASE InstallStaged
  BY <1>6, NoFileIsOne DEF InstallStaged, StagedFiles
<1>7. CASE PutBack
  BY <1>7 DEF PutBack, Fails
<1>8. CASE TidyBackup
  BY <1>8 DEF TidyBackup, Removed
<1>9. CASE DropStaged
  BY <1>9, NoFileIsOne DEF DropStaged, LetsGo, StagedFiles
<1>10. CASE CutShort
  BY <1>10, NoFileIsOne DEF CutShort, LetsGo, StagedFiles
<1>11. CASE ServerStarts
  BY <1>11 DEF ServerStarts
<1>12. ASSUME NEW r \in Releases, ServerEnds(r) PROVE UpdateInv'
  BY <1>12 DEF ServerEnds
<1>13. CASE UNCHANGED suVars
  BY <1>13 DEF suVars
<1> QED
  BY <1>1, <1>2, <1>3, <1>4, <1>5, <1>6, <1>7, <1>8, <1>9, <1>10, <1>11, <1>12, <1>13
     DEF UpdateStep

LEMMA UpdateInvSuffices == UpdateInv => BinaryNeverLost
BY DEF UpdateInv, UpdateTypeOK, AtStep, Left, BinaryNeverLost

(* Whatever fails and wherever an update stops, a whole release is under the *)
(* executable's name or, only between the two renames or after being cut     *)
(* short or not rolled back there, under exe.old; and its answer is true     *)
(* (replaceExecutable, runUpdate).                                           *)
THEOREM NoUpdateLosesTheBinary == UpdateSpec => []BinaryNeverLost
<1>1. UpdateSpec => []UpdateInv
  BY UpdateInitHolds, UpdateStepKeeps, PTL DEF UpdateSpec
<1> QED
  BY <1>1, UpdateInvSuffices, PTL

=============================================================================
