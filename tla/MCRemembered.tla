---------------------------- MODULE MCRemembered ----------------------------
(***************************************************************************)
(* What the two ends of a connection remember and must not trust for too   *)
(* long, for TLC: the agent's conversation the files it has read           *)
(* (ReadTracking), the server its HTTP sessions (HttpSessions).  They      *)
(* share no state: the model has one running and the other at rest.        *)
(***************************************************************************)
EXTENDS MCReadTracking, MCHttpSessions

VARIABLE part   \* which of the two runs

rememberedVars == <<part, trackingVars, vars>>

\* The other rests in one of its initial states.
RememberedInit ==
    /\ part \in {"reads", "sessions"}
    /\ TrackingInit
    /\ Init /\ (part # "sessions" => legacy /\ recovery)

(* Once its last call is answered the conversation has shown what it can;    *)
(* of two requests one at least is a call.                                   *)
ReadStep ==
  /\ part = "reads" /\ UNCHANGED <<part, vars>>
  /\ made < MaxCalls \/ calls # <<>>
  /\ TrackingNext
SessionStep == part = "sessions" /\ UNCHANGED <<part, trackingVars>> /\ Next /\ MeetsACall'
RememberedNext == ReadStep \/ SessionStep

RememberedSpec == RememberedInit /\ [][RememberedNext]_rememberedVars

RememberedSymmetry == Symmetry \cup IdSymmetry

(* What a handler has replied is read by no action and no property: it is    *)
(* viewed as free again.                                                     *)
RememberedView == <<part, trackingVars, boots, configVars, storeVars, silence, quit,
                    [h \in Handlers |-> IF Free(h) THEN Idle ELSE req[h]]>>
=============================================================================
