---------------------------- MODULE MCServerLife ----------------------------
(***************************************************************************)
(* The background processes, the download links, the listeners with the    *)
(* end of the server, and the self-update, for TLC.  They share no state:  *)
(* the model has one of the four running and the others at rest, all four  *)
(* in one run.                                                             *)
(***************************************************************************)
EXTENDS MCProcessRegistry, DownloadLinks, Listeners, SelfUpdate

VARIABLE part   \* which of the four runs

lifeVars == <<part, vars, dlVars, lsVars, suVars>>

(* The others rest in one of their initial states.                          *)
LifeInit ==
  /\ part \in {"processes", "links", "listeners", "update"}
  /\ Init
  /\ DownloadInit /\ (part # "links" => attached)
  /\ ListenersInit /\ (part # "listeners" => mode = "stdio")
  /\ UpdateInit /\ (part # "update" => windows)

Processing == part = "processes" /\ UNCHANGED <<part, dlVars, lsVars, suVars>>
Links == part = "links" /\ UNCHANGED <<part, vars, lsVars, suVars>>
Serving == part = "listeners" /\ UNCHANGED <<part, vars, dlVars, suVars>>
Updating == part = "update" /\ UNCHANGED <<part, vars, dlVars, lsVars>>

ProcessStep == Processing /\ Next /\ Bound'
(* The last link is minted when no other call is at work: the one that makes *)
(* a full table give way races Close, the clock and the browsers only.       *)
LastLinkAlone ==
  minted = MaxToken =>
    Cardinality({c \in Callers : progress[c] \notin {"idle", "done", "mint"}}) <= 1

LinkStep == Links /\ (DownloadStep \/ CloseLocks \/ CloseStep) /\ LastLinkAlone'
ListenStep == Serving /\ (ServerStep \/ MainGoes)
ReplaceStep == Updating /\ UpdateStep

LifeNext == ProcessStep \/ LinkStep \/ ListenStep \/ ReplaceStep

(* A call that has begun is carried through, the goroutines the code starts  *)
(* run, and the janitor's ticker fires; the tunnel's client returns once its *)
(* context is done.  Nothing is assumed of clients, browsers, the clock,     *)
(* signals, failures or the standard input.                                  *)
LifeFairness ==
  /\ Fairness
  /\ \A c \in Callers :
       /\ WF_lifeVars(Links /\ progress[c] \notin {"idle", "done"} /\ CallStep(c))
       /\ WF_lifeVars(Links /\ ServeTakesOver(c))
  /\ WF_lifeVars(Links /\ JanitorTick)
  /\ WF_lifeVars(Links /\ CloseStep)
  /\ \A l \in Ports :
       /\ WF_lifeVars(Serving /\ ListenOn(l))
       /\ WF_lifeVars(Serving /\ ShutDown(l))
       /\ WF_lifeVars(Serving /\ ServeBegins(l))
       /\ WF_lifeVars(Serving /\ l \in told /\ ServeReturns(l))
  /\ WF_lifeVars(Serving /\ (ServeAllTakes \/ ServeAllReturns))
  /\ WF_lifeVars(Serving /\ MainDone /\ TunnelEnds)
  /\ WF_lifeVars(Serving /\ (MainTakesHalf \/ BothHeard))
  /\ WF_lifeVars(Serving /\ MainGoes)

LifeSpec == LifeInit /\ [][LifeNext]_lifeVars /\ LifeFairness

=============================================================================
