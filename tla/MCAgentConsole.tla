--------------------------- MODULE MCAgentConsole ---------------------------
(***************************************************************************)
(* AgentConsole for TLC, in one of two sessions.  In one, lines are typed  *)
(* ahead of, during and after a turn, among hot commands, a background     *)
(* process that reports its end, and a time limit.  In the other, turns    *)
(* of two rounds and two calls are asked for, retried, cleared away and    *)
(* compressed, and the tools need permission or not.                       *)
(***************************************************************************)
EXTENDS AgentConsole

VARIABLE session

Typed == IF session = "lines"
         THEN {"text", "partial", "hot", "stats", "yes", "exit"}
         ELSE {"text", "always", "retry", "clear", "compress"}
Called == IF session = "lines" THEN {"write", "start"} ELSE {"read", "write"}

(* Bounds of what the user types, the model answers and the clock does.  The *)
(* second call of a reply is one that is asked about.                        *)
Bound ==
  /\ \A i \in DOMAIN stdin : stdin[i].kind \in Typed
  /\ \A i \in DOMAIN reply.calls : reply.calls[i] \in Called
  /\ Len(reply.calls) = 2 => reply.calls[2] = "write"
  /\ session = "lines" => Len(reply.calls) <= IF round = 0 THEN 1 ELSE 0
  /\ session = "turns" => typed <= 2 /\ ctx # "expired" /\ ~eof

BoundedSpec ==
  /\ session \in {"lines", "turns"}
  /\ Init
  /\ [][Next /\ UNCHANGED session /\ Bound']_<<vars, session>>
  /\ Fairness

=============================================================================
