-------------------------- MODULE MCProcessRegistry --------------------------
(***************************************************************************)
(* ProcessRegistry for TLC: over the first process two calls, the timer    *)
(* and the reaper race in every way; it is the lone client's, as clients   *)
(* are alike, and the shutdown races that client's calls.  From the second *)
(* launch on, which is what eviction takes, one client is left, its        *)
(* commands leave nothing behind, and nothing is stopped, timed out or     *)
(* shut down: those races are the first process's.  What a second launch   *)
(* would have to give up is not launched (Bound).                          *)
(***************************************************************************)
EXTENDS ProcessRegistry

LoneClient == CHOOSE c \in Clients : TRUE

Quiet ==
  /\ main = "serving"
  /\ \A p \in Procs : ~child[p] /\ ~timedOut[p] /\ ~killed[p] /\ status[p] \in {0, Unended}
  /\ \A c \in Clients \ {LoneClient} : said[c] = NoAnswer /\ target[c] = NoProc

Bound ==
  /\ \A c \in Clients \ {LoneClient} :
       /\ call[c] # "starting"
       /\ main # "serving" => said[c] = NoAnswer /\ target[c] = NoProc
  /\ launched <= 1 \/ Quiet

=============================================================================
