----------------------------- MODULE MCRequests -----------------------------
(***************************************************************************)
(* Requests in progress, at the two ends of a connection, for TLC: those   *)
(* the agent makes of an external MCP server (McpClient), and those a      *)
(* server serves while its configuration is re-read (ConfigReload).  They  *)
(* share no state: the model has one running and the other at rest.        *)
(***************************************************************************)
EXTENDS McpClient, MCConfigReload

VARIABLE part   \* which of the two runs

requestVars == <<part, mcpVars, vars>>

(* What is bounded of the client is what nobody has to do: connecting,       *)
(* calling, cancelling and speaking unasked.  Five requests are a whole      *)
(* connection and two calls, or two connections, the second after a first    *)
(* that went well and was left alone; the pages of the second come without a *)
(* cancellation.  The server speaks while it owes an answer, and neither     *)
(* speaks nor ends of its own accord over the list of its tools.             *)
EndsItself == \E g \in Processes : Running(g) /\ servers'[g].state = "dead"
Begins(what) == phase = "idle" /\ phase' # "idle" /\ goal' = what
McpBound ==
  /\ Begins("call") => nextID <= 3
  /\ Begins("connect") /\ nextID = 2 => connected /\ cancels = 0 /\ speaks = 0
  /\ goal = "connect" /\ nextID = 4 => UNCHANGED cancels
  /\ speaks' # speaks => phase = "wait" /\ method # "tools/list"
  /\ EndsItself => method # "tools/list"

(* The other rests in one of its initial states.                             *)
RequestsInit ==
  /\ part \in {"client", "server"}
  /\ McpInit /\ (part # "client" => transport = "http")
  /\ Init /\ file \in Told /\ (part # "server" => explicit /\ file = plain)

ClientStep == part = "client" /\ UNCHANGED <<part, vars>> /\ McpNext /\ McpBound
(* Of two requests the server has, one at least is a call.                   *)
ServerStep ==
  /\ part = "server" /\ UNCHANGED <<part, mcpVars>>
  /\ Next /\ Bound
  /\ \E q \in Requests : ask'[q].kind = "call"
RequestsNext == ClientStep \/ ServerStep

(* What rests has nothing the fairness of its module asks for.               *)
RequestsSpec ==
  RequestsInit /\ [][RequestsNext]_requestVars /\ McpFairness /\ Fairness
=============================================================================
