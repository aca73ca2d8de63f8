---------------------------- MODULE MCHttpSessions ----------------------------
(* Instances of HttpSessions for TLC.                                        *)
EXTENDS HttpSessions, TLC

(* Handlers are interchangeable; sound here, as no run checks liveness.      *)
Symmetry == Permutations(Handlers)

(* The store is all that handlers share.  Of two requests in progress, one  *)
(* at least is a call on a session: the one that a teardown, a new session,  *)
(* the timeout or a restart may surprise.                                    *)
Working(h) == req[h].step \notin {"idle", "replied"}
CallsOn(h) == req[h].method = "call" /\ req[h].id # NoId
MeetsACall ==
  \A h, g \in Handlers :
    h # g /\ Working(h) /\ Working(g) => CallsOn(h) \/ CallsOn(g)

===============================================================================
