------------------------------ MODULE Listeners ------------------------------
(***************************************************************************)
(* The server's listeners, its tunnel and its end: HTTPTransport.ServeAll  *)
(* and ServeOne (http.go), Tunnel.Run as main uses it (tunnel.go), the     *)
(* stdio loop as far as its end goes (stdio.go), and run (main.go) from    *)
(* the first listener to its deferred calls.                               *)
(*                                                                         *)
(* Contexts are three flags, each true once its context is done.  The      *)
(* tunnel's client is a library: it runs until its context is done or      *)
(* fails before.                                                           *)
(***************************************************************************)
EXTENDS Naturals, Sequences, FiniteSets

CONSTANTS
  Ports         \* the listeners of the configuration

ASSUME PortsAssumption == Ports # {} /\ IsFiniteSet(Ports)

VARIABLES
  mode,      \* "stdio", "listeners", "both" or "tunnel": what run starts
  signalled, \* the context of signal.NotifyContext is done
  halved,    \* run's own context is done: one half failed
  dropped,   \* ServeAll's context is done: one listener failed
  one,       \* where the goroutine of each ServeOne is
  bound,     \* the listeners whose socket is open
  told,      \* the listeners whose server was told to Shutdown
  errs,      \* ServeAll's channel: the listeners' results, in order
  taken,     \* how many of them ServeAll has received
  first,     \* the error ServeAll keeps
  tunnel,    \* "none", "running", "nil" or "err"
  halves,    \* run's channel: the results of the two halves, in order
  heard,     \* how many of them run has received
  run,       \* "serving", "leaving" (its deferred calls) or "gone"
  exit       \* what run returns

lsVars == <<mode, signalled, halved, dropped, one, bound, told, errs, taken,
            first, tunnel, halves, heard, run, exit>>

Outcomes == {"nil", "err"}
Results == {"none"} \cup Outcomes

(* TLC: every variable keeps its type.                                      *)
ListenersTypeOK ==
  /\ mode \in {"stdio", "listeners", "both", "tunnel"}
  /\ {signalled, halved, dropped} \subseteq BOOLEAN
  /\ one \in [Ports -> {"off", "start", "bound", "serving", "ended"}]
  /\ bound \subseteq Ports /\ told \subseteq Ports
  /\ errs \in Seq(Outcomes) /\ halves \in Seq(Outcomes)
  /\ taken \in 0 .. Cardinality(Ports)
  /\ first \in Results \cup {"returned"} /\ exit \in Results
  /\ heard \in 0 .. 2
  /\ tunnel \in {"none", "running", "nil", "err"}
  /\ run \in {"serving", "leaving", "gone"}

Listening == mode \in {"listeners", "both"}

(* The goroutines ServeAll and run have started. *)
ListenersInit ==
  /\ mode \in {"stdio", "listeners", "both", "tunnel"}
  /\ signalled = FALSE /\ halved = FALSE /\ dropped = FALSE
  /\ one = [l \in Ports |-> IF Listening THEN "start" ELSE "off"]
  /\ bound = {} /\ told = {}
  /\ errs = <<>> /\ taken = 0 /\ first = "none"
  /\ tunnel = IF mode \in {"both", "tunnel"} THEN "running" ELSE "none"
  /\ halves = <<>> /\ heard = 0
  /\ run = "serving" /\ exit = "none"

(* Which contexts are done: each is derived from the one before.             *)
MainDone == signalled \/ halved
AllDone == MainDone \/ dropped

Alive == run # "gone"

-----------------------------------------------------------------------------
(* ServeOne, one goroutine for each listener. *)

Ends(l, outcome) ==
  /\ one' = [one EXCEPT ![l] = "ended"]
  /\ errs' = Append(errs, outcome)

(* net.Listen; an https listener without a certificate fails here too.       *)
ListenOn(l) ==
  /\ Alive /\ one[l] = "start"
  /\ \/ Ends(l, "err") /\ UNCHANGED bound
     \/ /\ bound' = bound \cup {l}
        /\ one' = [one EXCEPT ![l] = "bound"]
        /\ UNCHANGED errs
  /\ UNCHANGED <<mode, signalled, halved, dropped, told, taken, first, tunnel,
                 halves, heard, run, exit>>

(* The goroutine that waits for the context: Shutdown closes the socket of a *)
(* server that serves, and marks one that does not yet.                      *)
ShutDown(l) ==
  /\ Alive /\ AllDone
  /\ one[l] \in {"bound", "serving"} /\ l \notin told
  /\ told' = told \cup {l}
  /\ bound' = IF one[l] = "serving" THEN bound \ {l} ELSE bound
  /\ UNCHANGED <<mode, signalled, halved, dropped, one, errs, taken, first,
                 tunnel, halves, heard, run, exit>>

(* srv.Serve begins: one told to shut down closes its socket and returns.    *)
ServeBegins(l) ==
  /\ Alive /\ one[l] = "bound"
  /\ IF l \in told
     THEN Ends(l, "nil") /\ bound' = bound \ {l}
     ELSE one' = [one EXCEPT ![l] = "serving"] /\ UNCHANGED <<errs, bound>>
  /\ UNCHANGED <<mode, signalled, halved, dropped, told, taken, first, tunnel,
                 halves, heard, run, exit>>

(* ... and returns: at once when it is shut down, which counts as no error,  *)
(* or because accepting failed.                                              *)
ServeReturns(l) ==
  /\ Alive /\ one[l] = "serving"
  /\ \/ l \in told /\ Ends(l, "nil")
     \/ l \notin told /\ Ends(l, "err")
  /\ bound' = bound \ {l}
  /\ UNCHANGED <<mode, signalled, halved, dropped, told, taken, first, tunnel,
                 halves, heard, run, exit>>

-----------------------------------------------------------------------------
(* ServeAll's loop, and the tunnel beside it. *)

(* The result of a half, or of the only one: in mode "both" run waits for    *)
(* the two, otherwise it returns what it is given.                           *)
HalfEnds(outcome) ==
  IF mode = "both"
  THEN halves' = Append(halves, outcome) /\ UNCHANGED <<run, exit>>
  ELSE run' = "leaving" /\ exit' = outcome /\ UNCHANGED halves

TakesTheLast ==  \* mutant: a later clean end overwrites the error
  /\ Alive /\ taken < Len(errs)
  /\ taken' = taken + 1
  /\ first' = errs[taken + 1]
  /\ dropped' = (dropped \/ errs[taken + 1] = "err")
  /\ UNCHANGED <<mode, signalled, halved, one, bound, told, errs, tunnel,
                 halves, heard, run, exit>>

TakesWithoutCancel ==  \* mutant: the error is kept and the others are left alone
  /\ Alive /\ taken < Len(errs)
  /\ taken' = taken + 1
  /\ first' = IF errs[taken + 1] = "err" THEN "err" ELSE first
  /\ UNCHANGED <<mode, signalled, halved, dropped, one, bound, told, errs,
                 tunnel, halves, heard, run, exit>>

(* One result received: the first error cancels the others.                  *)
ServeAllTakes ==
  /\ Alive /\ taken < Len(errs)
  /\ taken' = taken + 1
  /\ IF errs[taken + 1] = "err" /\ first = "none"
     THEN first' = "err" /\ dropped' = TRUE
     ELSE UNCHANGED <<first, dropped>>
  /\ UNCHANGED <<mode, signalled, halved, one, bound, told, errs, tunnel,
                 halves, heard, run, exit>>

(* Every listener has been heard: ServeAll returns, and cancels.             *)
ServeAllReturns ==
  /\ run = "serving" /\ Listening
  /\ taken = Cardinality(Ports) /\ first # "returned"
  /\ first' = "returned"
  /\ dropped' = TRUE
  /\ HalfEnds(IF first = "err" THEN "err" ELSE "nil")
  /\ UNCHANGED <<mode, signalled, halved, one, bound, told, errs, taken, tunnel,
                 heard>>

(* Tunnel.Run returns: because its context is done, or by a failure.         *)
TunnelEnds ==
  /\ run = "serving" /\ tunnel = "running"
  /\ \/ MainDone /\ tunnel' = "nil"
     \/ tunnel' = "err"
  /\ HalfEnds(tunnel')
  /\ UNCHANGED <<mode, signalled, halved, dropped, one, bound, told, errs,
                 taken, first, heard>>

-----------------------------------------------------------------------------
(* run. *)

(* The loop over the two halves: the first error cancels the other.          *)
MainTakesHalf ==
  /\ run = "serving"
  /\ heard < Len(halves)
  /\ heard' = heard + 1
  /\ IF halves[heard + 1] = "err" /\ exit = "none"
     THEN exit' = "err" /\ halved' = TRUE
     ELSE UNCHANGED <<exit, halved>>
  /\ UNCHANGED <<mode, signalled, dropped, one, bound, told, errs, taken,
                 first, tunnel, halves, run>>

BothHeard ==
  /\ run = "serving" /\ heard = 2
  /\ run' = "leaving"
  /\ exit' = IF exit = "none" THEN "nil" ELSE exit
  /\ UNCHANGED <<mode, signalled, halved, dropped, one, bound, told, errs,
                 taken, first, tunnel, halves, heard>>

(* The stdio loop looks at its context only when a line has come: the input  *)
(* ends or fails, or a line comes after the signal.                          *)
StdioEnds ==
  /\ run = "serving" /\ mode = "stdio"
  /\ run' = "leaving"
  /\ exit' \in Outcomes
  /\ UNCHANGED <<mode, signalled, halved, dropped, one, bound, told, errs,
                 taken, first, tunnel, halves, heard>>

(* SIGINT or SIGTERM. *)
SignalComes ==
  /\ Alive /\ ~signalled
  /\ signalled' = TRUE
  /\ UNCHANGED <<mode, halved, dropped, one, bound, told, errs, taken, first,
                 tunnel, halves, heard, run, exit>>

(* The deferred calls are done and the program ends, with every goroutine    *)
(* and every socket it still has.                                            *)
MainGoes ==
  /\ run = "leaving"
  /\ run' = "gone"
  /\ bound' = {}
  /\ UNCHANGED <<mode, signalled, halved, dropped, one, told, errs, taken,
                 first, tunnel, halves, heard, exit>>

-----------------------------------------------------------------------------

ServerStep ==
  \/ \E l \in Ports : ListenOn(l) \/ ShutDown(l) \/ ServeBegins(l) \/ ServeReturns(l)
  \/ ServeAllTakes \/ ServeAllReturns
  \/ TunnelEnds
  \/ MainTakesHalf \/ BothHeard
  \/ StdioEnds
  \/ SignalComes

ListenersSpec == ListenersInit /\ [][ServerStep \/ MainGoes]_lsVars

-----------------------------------------------------------------------------
(* Properties. *)

(* What failed: a listener, or the tunnel. *)
Failed == \/ \E i \in 1 .. Len(errs) : errs[i] = "err"
          \/ tunnel = "err"

(* All or nothing: once one listener or the tunnel has failed, the program   *)
(* ends, and with it every other listener (http.go:778-780, main.go:389-391).*)
(* A signal ends a server that listens or tunnels too.  (A stdio server      *)
(* blocked on its input sees the signal only with the next line.)            *)
HalfUpNeverStays ==
  Failed \/ (signalled /\ mode # "stdio") ~> (run = "gone" /\ bound = {})

(* run returns an error exactly when some half failed, however late another  *)
(* half's clean end was heard; and it goes on to close what requests use     *)
(* only when every listener has ended and none is bound (http.go:795-802,    *)
(* main.go:397-404).                                                         *)
ExitTellsFailure ==
  /\ ListenersTypeOK
  /\ (run # "serving" /\ mode # "stdio") => (exit = "err" <=> Failed)
  /\ first = "returned" => (bound = {} /\ \A l \in Ports : one[l] = "ended")

=============================================================================
