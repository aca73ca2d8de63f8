-------------------------- MODULE ConfigReloadProofs --------------------------
(***************************************************************************)
(* What reloads keep, for any number of requests, configurations, tools    *)
(* and edits.  The invariant says for each place a reload can be at what   *)
(* is of the old configuration and what of the new one; what requests were *)
(* told follows, because both configurations are among those in effect.    *)
(***************************************************************************)
EXTENDS ConfigReload, TLAPS

ReloadPlaces ==
  {"agent", "apply", "close", "instruct", "clear", "register", "mark", "update"}
(* The places where cfg is what is replaced, and where it is replaced.       *)
Before == {"agent", "apply"}
After  == {"close", "instruct", "clear", "register", "mark", "update"}
Served == {"lookup", "exposes", "unavailable", "run", "spawn", "list",
           "listing", "answered"}

(* r.mu is held by the one request that is in a reload.                      *)
Holding ==
  \A q \in Requests :
    /\ at[q] \in ReloadPlaces <=> holder = q
    /\ holder = q => loaded \in Configs

Resting == holder = NoOne \/ at[holder] \in Before

(* All is of one configuration ...                                           *)
Rest ==
  Resting => /\ applied = cfg /\ previous = cfg /\ notes = cfg /\ api = cfg
             /\ table = TableOf(cfg) /\ off = OffOf(cfg)
             /\ (holder # NoOne => loaded # cfg)

(* ... or some of it still of the one before.                                *)
Upto(n, c) == [t \in Tools |-> IF t < n THEN TableOf(c)[t] ELSE NoConfig]
OffUpto(n, c) == [t \in Tools |-> IF t < n THEN OffOf(c)[t] ELSE NoConfig]
Halfway ==
  ~Resting =>
    LET place == at[holder] IN
    /\ cfg = loaded /\ previous # cfg /\ applied = previous /\ api = previous
    /\ place \in {"close", "instruct", "clear"} =>
         table = TableOf(previous) /\ off = OffOf(previous)
    /\ place \notin {"close", "instruct"} => notes = cfg
    /\ place = "register" => table = Upto(next, cfg) /\ off = Nothing
    /\ place = "mark" => table = TableOf(cfg) /\ off = OffUpto(next, cfg)
    /\ place = "update" => table = TableOf(cfg) /\ off = OffOf(cfg)

(* The directories that exist.                                               *)
Shims ==
  /\ sudo # NoAgent <=> cfg \in WithSudo
  /\ (holder = NoOne \/ at[holder] # "close" => old = NoAgent)
  /\ holder # NoOne /\ at[holder] = "apply" =>
       /\ fresh # NoAgent <=> loaded \in WithSudo
       /\ fresh # NoAgent => fresh # sudo
       /\ shims = {sudo, fresh} \ {NoAgent}
  /\ holder # NoOne /\ at[holder] = "close" =>
       /\ old # NoAgent => old # sudo
       /\ shims = {sudo, old} \ {NoAgent}
  /\ (holder = NoOne \/ at[holder] \notin {"apply", "close"} =>
       shims = {sudo} \ {NoAgent})

(* A loader has seen what it loads.                                          *)
Loaded ==
  /\ \A q \in Requests :
       /\ onDisk[q] # {} => file \in onDisk[q]
       /\ at[q] \in {"refresh"} \cup ReloadPlaces => onDisk[q] # {}
       /\ holder # NoOne /\ onDisk[q] # {} /\ at[q] # "refresh" =>
            \E content \in onDisk[q] : loaded = Load(content)
  /\ file \in Configs => file \in known
  /\ explicit => {cfg, loaded} \subseteq known \cup {NoConfig}

(* The configurations in effect are among those a request may answer from.   *)
Effective ==
  \A q \in Requests :
    /\ at[q] \in Served => valid[q] # {}
    /\ valid[q] # {} => InEffect \subseteq valid[q]

(* What a request has found is of one of them.                               *)
FoundTrue(q) ==
  LET t == ask[q].tool IN
  /\ at[q] = "exposes" => found[q] \in valid[q] /\ t \in ToolsOf[found[q]]
  /\ at[q] = "unavailable" =>
       IF found[q] = NoConfig THEN Raced(q) \/ t \notin ToolsOf[cfg]
       ELSE \E c \in valid[q] : t \notin ExposedBy[c]
  /\ answer[q] # "none" => at[q] = "answered"

Told(q) == FoundTrue(q) /\ AnswerTrue(q) /\ ListTrue(q) /\ ShimOf(q)

Staged == Holding /\ Rest /\ Halfway /\ Shims
IInv ==
  /\ TypeOK /\ Staged /\ Loaded /\ Effective /\ NextCallSeesEdit
  /\ \A q \in Requests : Told(q)

-----------------------------------------------------------------------------
(* Types. *)

LEMMA LoadTypes == ASSUME TypeOK PROVE Load(file) \in Configs \cup {NoConfig}
  BY ConfigAssumption DEF TypeOK, Load, Contents

LEMMA TableTypes ==
  ASSUME NEW c \in Configs
  PROVE  /\ TableOf(c) \in [Tools -> Configs \cup {NoConfig}]
         /\ OffOf(c) \in [Tools -> Configs \cup {NoConfig}]
         /\ Nothing \in [Tools -> Configs \cup {NoConfig}]
  BY DEF TableOf, OffOf, Nothing

LEMMA OnwardTypes ==
  ASSUME TypeOK, NEW q \in Requests, NEW after \in Places, Onward(q, after)
  PROVE  next' \in Tools /\ at' \in [Requests -> Places]
<1>1. next' \in Tools
  BY ConfigAssumption DEF Onward, TypeOK, Tools
<1> QED BY <1>1 DEF Onward, TypeOK

LEMMA RefreshTypeOK ==
  ASSUME TypeOK, NEW q \in Requests, Refresh(q)
  PROVE  TypeOK'
<1> USE LoadTypes DEF TypeOK, Places, Refreshed, Dispatched, fileVars,
        reloadVars, shimVars, stateVars, lockVars, callVars, pastVars
<1>1. CASE RefreshFails(q) BY <1>1 DEF RefreshFails
<1>2. CASE RefreshUnchanged(q) BY <1>2 DEF RefreshUnchanged
<1>3. CASE RefreshBegins(q) BY <1>3 DEF RefreshBegins
<1> QED BY <1>1, <1>2, <1>3 DEF Refresh

LEMMA ApplyTypeOK ==
  ASSUME TypeOK, NEW q \in Requests, at[q] \in ReloadPlaces => loaded \in Configs,
         Apply(q)
  PROVE  TypeOK'
<1> USE DEF TypeOK, Places, ReloadPlaces, Refreshed, Dispatched, MayWrite, MayRead,
        NoAgent, fileVars, reloadVars, shimVars, stateVars, lockVars, callVars,
        pastVars
<1>0. 0 \in 0..minted OBVIOUS
<1>1. CASE NewSudoAgent(q)
  <2>1. CASE loaded \in WithSudo
    <3> DEFINE m == minted + 1
    <3>1. /\ m \in Nat /\ m \in 1..m /\ m \in 0..m
          /\ 1..minted \subseteq 1..m /\ 0..minted \subseteq 0..m
      OBVIOUS
    <3>2. minted' = m /\ shims' = shims \cup {m} /\ fresh' = m
      BY <1>1, <2>1 DEF NewSudoAgent
    <3> HIDE DEF m
    <3>3. agent \in [Requests -> 0..m] BY <3>1
    <3>4. shims' \subseteq 1..m /\ {fresh', old, sudo} \subseteq 0..m
      BY <3>1, <3>2
    <3> QED BY <1>1, <3>1, <3>2, <3>3, <3>4 DEF NewSudoAgent
  <2>2. CASE loaded \notin WithSudo BY <1>0, <1>1, <2>2 DEF NewSudoAgent
  <2> QED BY <2>1, <2>2
<1>2. CASE SudoAgentFails(q) BY <1>2 DEF SudoAgentFails
<1>3. CASE ApplyConfig(q) BY <1>3 DEF ApplyConfig
<1>4. CASE CloseOldAgent(q) BY <1>0, <1>4 DEF CloseOldAgent
<1>5. CASE SetInstructions(q) BY <1>5 DEF SetInstructions
<1>6. CASE Clear(q)
  <2>1. 1 \in Tools BY ConfigAssumption DEF Tools
  <2>2. Nothing \in [Tools -> Configs \cup {NoConfig}] BY DEF Nothing
  <2> QED BY <1>6, <2>1, <2>2 DEF Clear
<1>7. CASE RegisterTool(q)
  <2>1. next' \in Tools /\ at' \in [Requests -> Places]
    BY <1>7, OnwardTypes DEF RegisterTool
  <2> QED BY <1>7, <2>1 DEF RegisterTool
<1>8. CASE MarkUnavailable(q)
  <2>1. next' \in Tools /\ at' \in [Requests -> Places]
    BY <1>8, OnwardTypes DEF MarkUnavailable
  <2> QED BY <1>8, <2>1 DEF MarkUnavailable
<1>9. CASE ReloadEnds(q) BY <1>9 DEF ReloadEnds
<1>10. CASE LockAnnounced(q) BY <1>10 DEF LockAnnounced
<1> QED
  BY <1>1, <1>2, <1>3, <1>4, <1>5, <1>6, <1>7, <1>8, <1>9, <1>10 DEF Apply

LEMMA ServeTypeOK ==
  ASSUME TypeOK, NEW q \in Requests, Serve(q)
  PROVE  TypeOK'
<1> USE DEF TypeOK, Places, Looked, Replied, NoAgent, fileVars, reloadVars,
        shimVars, stateVars, lockVars, callVars, pastVars, unconfigured
<1>0. ask[q].tool \in Tools BY DEF Asks
<1>1. CASE Lookup(q) BY <1>0, <1>1 DEF Lookup
<1>2. CASE Exposes(q) BY <1>2 DEF Exposes
<1>3. CASE Refuse(q) BY <1>3 DEF Refuse, Answers
<1>4. CASE TakeAgent(q) BY <1>4 DEF TakeAgent
<1>5. CASE RunShell(q) BY <1>5 DEF RunShell, Answers
<1>6. CASE ListTools(q) BY <1>6 DEF ListTools, Registered
<1>7. CASE ListToolsEnds(q)
  BY <1>7, ConfigAssumption DEF ListToolsEnds, Unasked, Asks, Kinds, Tools, Answers
<1>8. CASE CallToolEnds(q)
  BY <1>8, ConfigAssumption DEF CallToolEnds, Unasked, Asks, Kinds, Tools, Answers
<1> QED BY <1>1, <1>2, <1>3, <1>4, <1>5, <1>6, <1>7, <1>8 DEF Serve

LEMMA OtherTypeOK ==
  ASSUME TypeOK, Edit \/ \E q \in Requests : Arrive(q)
  PROVE  TypeOK'
<1> USE DEF TypeOK, Places, fileVars, reloadVars, shimVars, stateVars, lockVars,
        callVars, pastVars, unconfigured
<1>1. CASE Edit
  BY <1>1, ConfigAssumption DEF Edit
<1>2. ASSUME NEW q \in Requests, Arrive(q) PROVE TypeOK'
  BY <1>2 DEF Arrive, InEffect
<1> QED BY <1>1, <1>2

LEMMA TypeOKStep ==
  ASSUME TypeOK, Holding, [Next]_vars
  PROVE  TypeOK'
<1>1. CASE UNCHANGED vars
  BY <1>1 DEF TypeOK, vars, fileVars, reloadVars, shimVars, stateVars, lockVars,
              callVars, pastVars
<1>2. ASSUME NEW q \in Requests, Apply(q) PROVE TypeOK'
  BY <1>2, ApplyTypeOK DEF Holding
<1> QED BY <1>1, <1>2, RefreshTypeOK, ServeTypeOK, OtherTypeOK DEF Next

-----------------------------------------------------------------------------
(* The places of a reload. *)

(* A step that leaves the configuration alone.                               *)
Aside ==
  /\ UNCHANGED <<reloadVars, shimVars, stateVars>>
  /\ \A q \in Requests : at'[q] # at[q] =>
       at[q] \notin ReloadPlaces /\ at'[q] \notin ReloadPlaces

LEMMA AsideKeeps ==
  ASSUME TypeOK, Staged, Aside
  PROVE  Staged'
<1> USE DEF Aside, Staged, reloadVars, shimVars, stateVars
<1>1. holder # NoOne => at'[holder] = at[holder]
  BY DEF Holding, TypeOK
<1>2. Holding' BY DEF Holding
<1>3. Resting' = Resting BY <1>1 DEF Resting
<1>4. Rest' BY <1>3 DEF Rest
<1>5. Halfway' BY <1>1, <1>3 DEF Halfway, Resting
<1>6. Shims' BY <1>1 DEF Shims
<1> QED BY <1>2, <1>4, <1>5, <1>6

(* All steps are such steps but for those of a reload that begins or goes on.*)
Onwards(q) ==
  \/ RefreshBegins(q) \/ NewSudoAgent(q) \/ SudoAgentFails(q)
  \/ ApplyConfig(q) \/ CloseOldAgent(q) \/ SetInstructions(q) \/ Clear(q)
  \/ RegisterTool(q) \/ MarkUnavailable(q) \/ ReloadEnds(q)

LEMMA MostStepsAside ==
  ASSUME TypeOK, [Next]_vars, \A q \in Requests : ~Onwards(q)
  PROVE  Aside
<1> USE DEF Aside, TypeOK, ReloadPlaces, unconfigured
<1>1. CASE UNCHANGED vars BY <1>1 DEF vars
<1>2. CASE Edit BY <1>2 DEF Edit
<1>3. ASSUME NEW q \in Requests, Arrive(q) PROVE Aside BY <1>3 DEF Arrive
<1>4. ASSUME NEW q \in Requests, Refresh(q) PROVE Aside
  BY <1>4 DEF Refresh, Onwards, RefreshFails, RefreshUnchanged, Refreshed,
              Dispatched
<1>5. ASSUME NEW q \in Requests, Apply(q) PROVE Aside
  BY <1>5 DEF Apply, Onwards, LockAnnounced
<1>6. ASSUME NEW q \in Requests, Serve(q) PROVE Aside
  BY <1>6 DEF Serve, Lookup, Exposes, Refuse, TakeAgent, RunShell, ListTools,
              ListToolsEnds, CallToolEnds, Replied
<1> QED BY <1>1, <1>2, <1>3, <1>4, <1>5, <1>6 DEF Next

(* Whoever moves on in a reload holds r.mu.                                  *)
LEMMA HoldingStep ==
  ASSUME TypeOK, Holding, NEW q \in Requests, Onwards(q)
  PROVE  Holding' /\ holder = IF at[q] = "refresh" THEN NoOne ELSE q
<1> USE ConfigAssumption, LoadTypes
    DEF Holding, TypeOK, ReloadPlaces, Refreshed, Dispatched, Onward
<1>1. CASE RefreshBegins(q) BY <1>1 DEF RefreshBegins
<1>2. CASE NewSudoAgent(q) BY <1>2 DEF NewSudoAgent
<1>3. CASE SudoAgentFails(q) BY <1>3 DEF SudoAgentFails
<1>4. CASE ApplyConfig(q) BY <1>4 DEF ApplyConfig
<1>5. CASE CloseOldAgent(q) BY <1>5 DEF CloseOldAgent
<1>6. CASE SetInstructions(q) BY <1>6 DEF SetInstructions, reloadVars
<1>7. CASE Clear(q) BY <1>7 DEF Clear
<1>8. CASE RegisterTool(q) BY <1>8 DEF RegisterTool
<1>9. CASE MarkUnavailable(q) BY <1>9 DEF MarkUnavailable
<1>10. CASE ReloadEnds(q) BY <1>10 DEF ReloadEnds
<1> QED
  BY <1>1, <1>2, <1>3, <1>4, <1>5, <1>6, <1>7, <1>8, <1>9, <1>10 DEF Onwards

LEMMA NoOneIsNobody == NoOne \notin Requests
  BY ConfigAssumption

(* A reload begins, and may end before it has changed anything.              *)
LEMMA BeforeStep ==
  ASSUME TypeOK, Staged, NEW q \in Requests,
         RefreshBegins(q) \/ NewSudoAgent(q) \/ SudoAgentFails(q)
  PROVE  Rest' /\ Halfway' /\ Shims'
<1>0. holder = IF at[q] = "refresh" THEN NoOne ELSE q
  BY HoldingStep DEF Staged, Onwards
<1> USE <1>0, NoOneIsNobody
    DEF Staged, Rest, Halfway, Resting, Before, TypeOK, stateVars, shimVars
<1>1. CASE RefreshBegins(q)
  <2>1. holder = NoOne /\ holder' = q /\ at'[q] = "agent"
    BY <1>1 DEF RefreshBegins
  <2>2. Rest' /\ Halfway' BY <1>1, <2>1 DEF RefreshBegins
  <2>3. Shims' BY <1>1, <2>1 DEF RefreshBegins, Shims
  <2> QED BY <2>2, <2>3
<1>2. CASE NewSudoAgent(q)
  <2>1. holder = q /\ holder' = q /\ at[q] = "agent" /\ at'[q] = "apply"
    BY <1>2 DEF NewSudoAgent
  <2>2. Rest' /\ Halfway' BY <1>2, <2>1 DEF NewSudoAgent
  <2>3. shims = {sudo} \ {NoAgent} /\ old = NoAgent
    BY <2>1 DEF Shims
  <2>4. Shims'
    <3>1. CASE loaded \in WithSudo
      <4>1. fresh' = minted + 1 /\ shims' = shims \cup {minted + 1}
        BY <1>2, <3>1 DEF NewSudoAgent
      <4>2. minted + 1 # NoAgent /\ minted + 1 # sudo
        BY DEF NoAgent
      <4> QED BY <1>2, <2>1, <2>3, <3>1, <4>1, <4>2 DEF NewSudoAgent, Shims
    <3>2. CASE loaded \notin WithSudo
      BY <1>2, <2>1, <2>3, <3>2 DEF NewSudoAgent, Shims
    <3> QED BY <3>1, <3>2
  <2> QED BY <2>2, <2>4
<1>3. CASE SudoAgentFails(q)
  <2>1. holder = q /\ holder' = NoOne /\ at[q] = "agent"
    BY <1>3 DEF SudoAgentFails
  <2>2. Rest' /\ Halfway' BY <1>3, <2>1 DEF SudoAgentFails
  <2>3. Shims' BY <1>3, <2>1 DEF SudoAgentFails, Shims
  <2> QED BY <2>2, <2>3
<1> QED BY <1>1, <1>2, <1>3

(* It replaces the configuration, closes the agent that was in use and says  *)
(* what it says anew.                                                        *)
LEMMA ReplacingStep ==
  ASSUME TypeOK, Staged, NEW q \in Requests,
         ApplyConfig(q) \/ CloseOldAgent(q) \/ SetInstructions(q) \/ Clear(q)
  PROVE  Rest' /\ Halfway' /\ Shims'
<1>0. holder = IF at[q] = "refresh" THEN NoOne ELSE q
  BY HoldingStep DEF Staged, Onwards
<1> USE <1>0, NoOneIsNobody
    DEF Staged, Rest, Halfway, Resting, Before, TypeOK, stateVars, shimVars
<1>1. CASE ApplyConfig(q)
  <2>1. holder = q /\ holder' = q /\ at[q] = "apply" /\ at'[q] = "close"
    BY <1>1 DEF ApplyConfig
  <2>2. Rest' BY <2>1
  <2>3. loaded # cfg BY <2>1
  <2>4. Halfway' BY <1>1, <2>1, <2>3 DEF ApplyConfig
  <2>5. Shims' BY <1>1, <2>1 DEF ApplyConfig, Shims
  <2> QED BY <2>2, <2>4, <2>5
<1>2. CASE CloseOldAgent(q)
  <2>1. holder = q /\ holder' = q /\ at[q] = "close" /\ at'[q] = "instruct"
    BY <1>2 DEF CloseOldAgent
  <2>2. Rest' /\ Halfway' BY <1>2, <2>1 DEF CloseOldAgent
  <2>3. Shims' BY <1>2, <2>1 DEF CloseOldAgent, Shims
  <2> QED BY <2>2, <2>3
<1>3. CASE SetInstructions(q)
  <2>1. holder = q /\ holder' = q /\ at[q] = "instruct" /\ at'[q] = "clear"
    BY <1>3 DEF SetInstructions, reloadVars
  <2>2. Rest' /\ Halfway' BY <1>3, <2>1 DEF SetInstructions, reloadVars
  <2>3. Shims' BY <1>3, <2>1 DEF SetInstructions, reloadVars, Shims
  <2> QED BY <2>2, <2>3
<1>4. CASE Clear(q)
  <2>1. holder = q /\ holder' = q /\ at[q] = "clear" /\ at'[q] = "register"
    BY <1>4 DEF Clear
  <2>2. Rest' BY <2>1
  <2>3. Upto(1, cfg) = Nothing
    BY DEF Upto, Nothing, Tools
  <2>4. Halfway' BY <1>4, <2>1, <2>3 DEF Clear, Upto, TableOf
  <2>5. Shims' BY <1>4, <2>1 DEF Clear, Shims
  <2> QED BY <2>2, <2>4, <2>5
<1> QED BY <1>1, <1>2, <1>3, <1>4

(* What the loops of registerAll and markUnavailableTools have done by tool  *)
(* n is one tool more than what they had done before it.                     *)
LEMMA LoopSteps ==
  ASSUME NEW c \in Configs, NEW n \in Tools
  PROVE  /\ [Upto(n, c) EXCEPT ![n] = TableOf(c)[n]] = Upto(n + 1, c)
         /\ [OffUpto(n, c) EXCEPT ![n] = OffOf(c)[n]] = OffUpto(n + 1, c)
         /\ Upto(n, c)[n] = NoConfig /\ OffUpto(n, c)[n] = NoConfig
         /\ n = NTools => Upto(n + 1, c) = TableOf(c) /\ OffUpto(n + 1, c) = OffOf(c)
         /\ OffUpto(1, c) = Nothing
         /\ n # NTools => n + 1 # 1
<1>1. n \in Int /\ \A t \in Tools : t \in Int /\ (t < n + 1 <=> t < n \/ t = n) /\ ~(t < 1)
  BY ConfigAssumption DEF Tools
<1>2. n = NTools => \A t \in Tools : t < n + 1
  BY ConfigAssumption DEF Tools
<1>3. n + 1 # 1 BY DEF Tools
<1>4. [Upto(n, c) EXCEPT ![n] = TableOf(c)[n]] = Upto(n + 1, c)
  BY <1>1 DEF Upto
<1>5. [OffUpto(n, c) EXCEPT ![n] = OffOf(c)[n]] = OffUpto(n + 1, c)
  BY <1>1 DEF OffUpto
<1>6. Upto(n, c)[n] = NoConfig /\ OffUpto(n, c)[n] = NoConfig
  BY <1>1 DEF Upto, OffUpto
<1>7. n = NTools => Upto(n + 1, c) = TableOf(c)
  BY <1>2 DEF Upto, TableOf
<1>8. n = NTools => OffUpto(n + 1, c) = OffOf(c)
  BY <1>2 DEF OffUpto, OffOf
<1>9. OffUpto(1, c) = Nothing
  BY <1>1 DEF OffUpto, Nothing
<1> QED BY <1>3, <1>4, <1>5, <1>6, <1>7, <1>8, <1>9

LEMMA LoopStep ==
  ASSUME TypeOK, Staged, NEW q \in Requests, RegisterTool(q) \/ MarkUnavailable(q)
  PROVE  Rest' /\ Halfway' /\ Shims'
<1>0. holder = IF at[q] = "refresh" THEN NoOne ELSE q
  BY HoldingStep DEF Staged, Onwards
<1>1. next \in Tools /\ cfg \in Configs /\ (next = NTools => NTools \in Tools)
  BY DEF TypeOK
<1>2. holder = q /\ holder' = q /\ at[q] \in {"register", "mark"}
      /\ ~Resting /\ cfg = loaded
  BY <1>0, NoOneIsNobody DEF RegisterTool, MarkUnavailable, Staged, Halfway,
                             Resting, Before
<1>3. CASE RegisterTool(q)
  <2>1. at[q] = "register" /\ table = Upto(next, cfg) /\ off = Nothing
    BY <1>2, <1>3 DEF RegisterTool, Staged, Halfway
  <2>2. table' = Upto(next + 1, cfg)
    <3>1. CASE next \in ToolsOf[loaded]
      <4>1. TableOf(cfg)[next] = loaded BY <1>1, <1>2, <3>1 DEF TableOf
      <4> QED BY <1>1, <1>3, <2>1, <3>1, <4>1, LoopSteps DEF RegisterTool
    <3>2. CASE next \notin ToolsOf[loaded]
      <4>1. TableOf(cfg)[next] = NoConfig BY <1>1, <1>2, <3>2 DEF TableOf
      <4>2. [table EXCEPT ![next] = NoConfig] = table
        BY <1>1, <2>1, LoopSteps DEF Upto
      <4> QED BY <1>1, <1>3, <2>1, <3>2, <4>1, <4>2, LoopSteps DEF RegisterTool
    <3> QED BY <3>1, <3>2
  <2>3. at'[q] = (IF next = NTools THEN "mark" ELSE "register")
        /\ next' = (IF next = NTools THEN 1 ELSE next + 1)
        /\ UNCHANGED <<cfg, loaded, previous, applied, api, notes, off, sudo,
                        shims, old, fresh>>
    BY <1>3, <2>1 DEF RegisterTool, Onward, TypeOK, shimVars
  <2>4. Rest' BY <1>2, <2>3, NoOneIsNobody DEF Rest, Resting, Before
  <2>5. notes = cfg /\ previous # cfg /\ applied = previous /\ api = previous
    BY <1>2, <2>1 DEF Staged, Halfway
  <2>6. Halfway'
    <3>1. CASE next = NTools
      <4>1. at'[q] = "mark" /\ next' = 1 BY <2>3, <3>1
      <4>2. table' = TableOf(cfg) /\ off' = OffUpto(1, cfg)
        BY <1>1, <2>1, <2>2, <2>3, <3>1, LoopSteps
      <4> QED BY <1>2, <2>3, <2>5, <4>1, <4>2 DEF Halfway, OffUpto, OffOf, TableOf
    <3>2. CASE next # NTools
      <4>1. at'[q] = "register" /\ next' = next + 1 BY <2>3, <3>2
      <4> QED BY <1>2, <2>1, <2>2, <2>3, <2>5, <4>1 DEF Halfway, Upto, TableOf
    <3> QED BY <3>1, <3>2
  <2>7. Shims' BY <1>2, <2>1, <2>3, NoOneIsNobody DEF Staged, Shims
  <2> QED BY <2>4, <2>6, <2>7
<1>4. CASE MarkUnavailable(q)
  <2>1. at[q] = "mark" /\ table = TableOf(cfg) /\ off = OffUpto(next, cfg)
    BY <1>2, <1>4 DEF MarkUnavailable, Staged, Halfway
  <2>2. off' = OffUpto(next + 1, cfg)
    <3>0. cfg # NoConfig BY <1>1, ConfigAssumption
    <3>1. CASE Switched(next)
      <4>1. OffOf(cfg)[next] = loaded
        BY <1>1, <1>2, <2>1, <3>0, <3>1 DEF TableOf, OffOf, Switched
      <4> QED BY <1>1, <1>4, <2>1, <3>1, <4>1, LoopSteps DEF MarkUnavailable
    <3>2. CASE ~Switched(next)
      <4>1. OffOf(cfg)[next] = NoConfig
        BY <1>1, <2>1, <3>2 DEF TableOf, OffOf, Switched
      <4>2. [off EXCEPT ![next] = NoConfig] = off
        BY <1>1, <2>1, LoopSteps DEF OffUpto
      <4> QED BY <1>1, <1>4, <2>1, <3>2, <4>1, <4>2, LoopSteps DEF MarkUnavailable
    <3> QED BY <3>1, <3>2
  <2>3. at'[q] = (IF next = NTools THEN "update" ELSE "mark")
        /\ next' = (IF next = NTools THEN 1 ELSE next + 1)
        /\ UNCHANGED <<cfg, loaded, previous, applied, api, notes, table, sudo,
                        shims, old, fresh>>
    BY <1>4, <2>1 DEF MarkUnavailable, Onward, TypeOK, shimVars
  <2>4. Rest' BY <1>2, <2>3, NoOneIsNobody DEF Rest, Resting, Before
  <2>5. notes = cfg /\ previous # cfg /\ applied = previous /\ api = previous
    BY <1>2, <2>1 DEF Staged, Halfway
  <2>6. Halfway'
    <3>1. CASE next = NTools
      <4>1. at'[q] = "update" BY <2>3, <3>1
      <4>2. off' = OffOf(cfg) BY <1>1, <2>2, <3>1, LoopSteps
      <4> QED BY <1>2, <2>1, <2>3, <2>5, <4>1, <4>2 DEF Halfway, OffOf, TableOf
    <3>2. CASE next # NTools
      <4>1. at'[q] = "mark" /\ next' = next + 1 BY <2>3, <3>2
      <4> QED
        BY <1>2, <2>1, <2>2, <2>3, <2>5, <4>1 DEF Halfway, OffUpto, OffOf, TableOf
    <3> QED BY <3>1, <3>2
  <2>7. Shims' BY <1>2, <2>1, <2>3, NoOneIsNobody DEF Staged, Shims
  <2> QED BY <2>4, <2>6, <2>7
<1> QED BY <1>3, <1>4

LEMMA EndStep ==
  ASSUME TypeOK, Staged, NEW q \in Requests, ReloadEnds(q)
  PROVE  Rest' /\ Halfway' /\ Shims'
<1>1. holder = q /\ holder' = NoOne /\ at[q] = "update" /\ ~Resting
  BY HoldingStep, NoOneIsNobody DEF Staged, Onwards, ReloadEnds, Resting, Before
<1>2. /\ cfg = loaded /\ notes = cfg
      /\ table = TableOf(cfg) /\ off = OffOf(cfg)
  BY <1>1 DEF Staged, Halfway
<1>3. Rest' /\ Halfway'
  BY <1>1, <1>2 DEF ReloadEnds, Rest, Halfway, Resting, TableOf, OffOf
<1>4. Shims' BY <1>1, NoOneIsNobody DEF ReloadEnds, Staged, Shims, shimVars
<1> QED BY <1>3, <1>4

(* Every step keeps every part of a reload in its place.                     *)
LEMMA StagedStep ==
  ASSUME TypeOK, Staged, [Next]_vars
  PROVE  Staged'
<1>1. CASE \A q \in Requests : ~Onwards(q)
  BY <1>1, MostStepsAside, AsideKeeps
<1>2. ASSUME NEW q \in Requests, Onwards(q) PROVE Staged'
  <2>1. Holding' BY <1>2, HoldingStep DEF Staged
  <2>2. Rest' /\ Halfway' /\ Shims'
    BY <1>2, BeforeStep, ReplacingStep, LoopStep, EndStep DEF Onwards
  <2> QED BY <2>1, <2>2 DEF Staged
<1> QED BY <1>1, <1>2

-----------------------------------------------------------------------------
(* The file. *)

History == Loaded /\ NextCallSeesEdit

(* A request a reload did not fail for goes on with what it loaded, or with  *)
(* what is in effect because it loads as that.                               *)
LEMMA HistoryRefresh ==
  ASSUME TypeOK, Staged, History, NEW q \in Requests, Refresh(q)
  PROVE  History'
<1>1. holder = NoOne /\ applied = cfg /\ at[q] = "refresh"
  BY DEF Refresh, RefreshFails, RefreshUnchanged, RefreshBegins, Staged, Rest, Resting
<1> USE <1>1, NoOneIsNobody
    DEF History, Loaded, NextCallSeesEdit, TypeOK, ReloadPlaces, Refreshed,
        Dispatched, Load, fileVars, reloadVars, shimVars, stateVars, lockVars,
        callVars, pastVars
<1>2. CASE RefreshFails(q) BY <1>2 DEF RefreshFails
<1>3. CASE RefreshUnchanged(q) BY <1>3 DEF RefreshUnchanged
<1>4. CASE RefreshBegins(q)
  <2>1. file \in Contents /\ loaded' = Load(file) /\ Load(file) # NoConfig
    BY <1>4 DEF RefreshBegins
  <2>2. explicit => Load(file) = file /\ file \in Configs
    BY <2>1 DEF Contents
  <2>3. Loaded' BY <1>4, <2>1, <2>2 DEF RefreshBegins
  <2>4. NextCallSeesEdit' BY <1>4 DEF RefreshBegins
  <2> QED BY <2>3, <2>4
<1> QED BY <1>2, <1>3, <1>4 DEF Refresh

LEMMA HistoryApply ==
  ASSUME TypeOK, Staged, History, NEW q \in Requests, Apply(q)
  PROVE  History'
<1> USE NoOneIsNobody
    DEF History, Loaded, NextCallSeesEdit, TypeOK, ReloadPlaces, Refreshed,
        Dispatched, Load, Onward, fileVars, reloadVars, shimVars, stateVars,
        lockVars, callVars, pastVars
<1>0. at[q] \in ReloadPlaces => holder = q /\ holder # NoOne
  BY DEF Staged, Holding
<1>1. CASE NewSudoAgent(q) BY <1>0, <1>1 DEF NewSudoAgent
<1>2. CASE SudoAgentFails(q) BY <1>0, <1>2 DEF SudoAgentFails
<1>3. CASE ApplyConfig(q)
  <2>1. Loaded' BY <1>0, <1>3 DEF ApplyConfig
  <2>2. NextCallSeesEdit' BY <1>0, <1>3 DEF ApplyConfig
  <2> QED BY <2>1, <2>2
<1>4. CASE CloseOldAgent(q) BY <1>0, <1>4 DEF CloseOldAgent
<1>5. CASE SetInstructions(q) BY <1>0, <1>5 DEF SetInstructions
<1>6. CASE Clear(q) BY <1>0, <1>6 DEF Clear
<1>7. CASE RegisterTool(q) BY <1>0, <1>7 DEF RegisterTool
<1>8. CASE MarkUnavailable(q) BY <1>0, <1>8 DEF MarkUnavailable
<1>9. CASE ReloadEnds(q)
  <2>1. loaded = cfg /\ holder = q /\ holder' = NoOne /\ loaded' = NoConfig
    BY <1>0, <1>9 DEF ReloadEnds, Staged, Halfway, Resting, Before
  <2>2. Loaded' BY <1>9, <2>1 DEF ReloadEnds
  <2>3. NextCallSeesEdit' BY <1>9, <2>1 DEF ReloadEnds
  <2> QED BY <2>2, <2>3
<1>10. CASE LockAnnounced(q) BY <1>10 DEF LockAnnounced
<1> QED
  BY <1>1, <1>2, <1>3, <1>4, <1>5, <1>6, <1>7, <1>8, <1>9, <1>10 DEF Apply

LEMMA HistoryServe ==
  ASSUME TypeOK, History, NEW q \in Requests, Serve(q)
  PROVE  History'
<1> USE DEF History, Loaded, NextCallSeesEdit, TypeOK, ReloadPlaces, Looked, Replied,
        Load, fileVars, reloadVars, shimVars, stateVars, lockVars, callVars,
        pastVars, unconfigured
<1>1. CASE Lookup(q) BY <1>1 DEF Lookup
<1>2. CASE Exposes(q) BY <1>2 DEF Exposes
<1>3. CASE Refuse(q) BY <1>3 DEF Refuse
<1>4. CASE TakeAgent(q) BY <1>4 DEF TakeAgent
<1>5. CASE RunShell(q) BY <1>5 DEF RunShell
<1>6. CASE ListTools(q) BY <1>6 DEF ListTools
<1>7. CASE ListToolsEnds(q) BY <1>7 DEF ListToolsEnds
<1>8. CASE CallToolEnds(q) BY <1>8 DEF CallToolEnds
<1> QED BY <1>1, <1>2, <1>3, <1>4, <1>5, <1>6, <1>7, <1>8 DEF Serve

LEMMA HistoryStep ==
  ASSUME TypeOK, Staged, History, [Next]_vars
  PROVE  History'
<1> USE DEF History, Loaded, NextCallSeesEdit, TypeOK, ReloadPlaces, Load,
        fileVars, reloadVars, shimVars, stateVars, lockVars, callVars, pastVars,
        unconfigured
<1>1. CASE UNCHANGED vars BY <1>1 DEF vars
<1>2. CASE Edit BY <1>2, ConfigAssumption DEF Edit
<1>3. ASSUME NEW q \in Requests, Arrive(q) PROVE History' BY <1>3 DEF Arrive
<1> QED BY <1>1, <1>2, <1>3, HistoryRefresh, HistoryApply, HistoryServe DEF Next

-----------------------------------------------------------------------------
(* What may be in effect. *)

(* A request goes on, and the others with it: of what they know only what    *)
(* has been in effect may change, and only when a configuration is replaced. *)
Same(p) ==
  /\ at'[p] = at[p] /\ ask'[p] = ask[p] /\ found'[p] = found[p]
  /\ agent'[p] = agent[p] /\ answer'[p] = answer[p] /\ listed'[p] = listed[p]

LEMMA OthersSame ==
  ASSUME TypeOK, NEW q \in Requests, NEW p \in Requests \ {q},
         Arrive(q) \/ Refresh(q) \/ Apply(q) \/ Serve(q)
  PROVE  Same(p) /\ (valid'[p] = valid[p] \/ ApplyConfig(q))
<1> USE DEF TypeOK, Same, Refreshed, Looked, Replied, Onward, callVars, pastVars
<1>1. CASE Arrive(q) BY <1>1 DEF Arrive
<1>2. CASE Refresh(q)
  BY <1>2 DEF Refresh, RefreshFails, RefreshUnchanged, RefreshBegins
<1>3. CASE NewSudoAgent(q) \/ SudoAgentFails(q) \/ CloseOldAgent(q)
  BY <1>3 DEF NewSudoAgent, SudoAgentFails, CloseOldAgent
<1>4. CASE ApplyConfig(q) BY <1>4 DEF ApplyConfig
<1>5. CASE SetInstructions(q) \/ Clear(q) \/ RegisterTool(q) \/ MarkUnavailable(q)
  BY <1>5 DEF SetInstructions, Clear, RegisterTool, MarkUnavailable
<1>6. CASE ReloadEnds(q) \/ LockAnnounced(q)
  BY <1>6 DEF ReloadEnds, LockAnnounced
<1>7. CASE Lookup(q) \/ Exposes(q) \/ Refuse(q) \/ TakeAgent(q)
  BY <1>7 DEF Lookup, Exposes, Refuse, TakeAgent
<1>8. CASE RunShell(q) \/ ListTools(q) \/ ListToolsEnds(q) \/ CallToolEnds(q)
  BY <1>8 DEF RunShell, ListTools, ListToolsEnds, CallToolEnds
<1> QED
  BY <1>1, <1>2, <1>3, <1>4, <1>5, <1>6, <1>7, <1>8 DEF Apply, Serve

LEMMA EffectiveStep ==
  ASSUME TypeOK, Staged, Effective, [Next]_vars
  PROVE  Effective'
<1> USE DEF Effective, InEffect, Served, TypeOK
<1>1. CASE UNCHANGED vars
  BY <1>1 DEF vars, stateVars, reloadVars, pastVars
<1>2. CASE Edit BY <1>2 DEF Edit, stateVars, reloadVars
<1>3. ASSUME NEW q \in Requests, Arrive(q) \/ Refresh(q) \/ Apply(q) \/ Serve(q)
      PROVE  Effective'
  <2>1. CASE Arrive(q)
    BY <2>1 DEF Arrive, ApplyConfig, unconfigured, stateVars, reloadVars
  <2>2. CASE RefreshFails(q) \/ RefreshUnchanged(q)
    BY <2>2 DEF RefreshFails, RefreshUnchanged, Refreshed, Dispatched, Staged, Rest,
                Resting, stateVars, reloadVars
  <2>3. CASE RefreshBegins(q)
    BY <2>3 DEF RefreshBegins, stateVars, pastVars
  <2>4. CASE NewSudoAgent(q)
    BY <2>4 DEF NewSudoAgent, stateVars, pastVars
  <2>5. CASE SudoAgentFails(q)
    <3>1. previous = cfg
      BY <2>5, HoldingStep DEF Onwards, Staged, Rest, Resting, Before, SudoAgentFails
    <3> QED BY <2>5, <3>1 DEF SudoAgentFails, Refreshed, Dispatched, stateVars
  <2>6. CASE ApplyConfig(q)
    BY <2>6 DEF ApplyConfig
  <2>7. CASE CloseOldAgent(q)
    BY <2>7 DEF CloseOldAgent, stateVars, pastVars
  <2>8. CASE SetInstructions(q) \/ Clear(q)
    BY <2>8 DEF SetInstructions, Clear, reloadVars, pastVars
  <2>9. CASE RegisterTool(q) \/ MarkUnavailable(q)
    BY <2>9 DEF RegisterTool, MarkUnavailable, Onward, pastVars
  <2>10. CASE ReloadEnds(q)
    BY <2>10 DEF ReloadEnds, Refreshed, Dispatched
  <2>11. CASE LockAnnounced(q)
    BY <2>11 DEF LockAnnounced, stateVars, reloadVars, pastVars
  <2>12. CASE Serve(q)
    <3>1. cfg' = cfg /\ previous' = previous
      BY <2>12 DEF Serve, Lookup, Exposes, Refuse, TakeAgent, RunShell, ListTools,
                   ListToolsEnds, CallToolEnds, unconfigured, stateVars, reloadVars
    <3>2. CASE ListToolsEnds(q) \/ CallToolEnds(q)
      BY <3>1, <3>2 DEF ListToolsEnds, CallToolEnds, Replied
    <3>3. CASE Lookup(q) \/ Exposes(q) \/ Refuse(q)
      BY <3>1, <3>3 DEF Lookup, Exposes, Refuse, Looked, pastVars
    <3>4. CASE TakeAgent(q) \/ RunShell(q) \/ ListTools(q)
      BY <3>1, <3>4 DEF TakeAgent, RunShell, ListTools, Looked, pastVars
    <3> QED BY <2>12, <3>2, <3>3, <3>4 DEF Serve
  <2> QED
    BY <1>3, <2>1, <2>2, <2>3, <2>4, <2>5, <2>6, <2>7, <2>8, <2>9, <2>10, <2>11,
       <2>12 DEF Refresh, Apply
<1> QED BY <1>1, <1>2, <1>3 DEF Next

-----------------------------------------------------------------------------
(* What requests are told. *)

(* Where no reload shows, all a request looks at is of what is in effect.    *)
LEMMA Unraced ==
  ASSUME TypeOK, Staged, Effective, NEW q \in Requests, at[q] \in Served, ~Raced(q)
  PROVE  /\ cfg \in valid[q] /\ Resting
         /\ table = TableOf(cfg) /\ off = OffOf(cfg)
         /\ sudo \in shims \cup {NoAgent}
<1>1. cfg \in valid[q] /\ previous \in valid[q]
  BY DEF Effective, InEffect
<1>2. previous = cfg BY <1>1 DEF Raced
<1>3. Resting BY <1>2 DEF Staged, Halfway
<1>4. table = TableOf(cfg) /\ off = OffOf(cfg) BY <1>3 DEF Staged, Rest
<1>5. holder = NoOne \/ at[holder] = "apply" \/ at[holder] \notin {"apply", "close"}
  BY <1>3 DEF Resting, Before
<1>6. sudo \in shims \cup {NoAgent} BY <1>5 DEF Staged, Shims
<1> QED BY <1>1, <1>3, <1>4, <1>6

(* And what shows of one is of the old configuration or of the new one.      *)
LEMMA OfSome ==
  ASSUME TypeOK, Staged, Effective, NEW q \in Requests, at[q] \in Served,
         NEW t \in Tools
  PROVE  /\ table[t] # NoConfig => table[t] \in valid[q] /\ t \in ToolsOf[table[t]]
         /\ off[t] # NoConfig => \E c \in valid[q] : t \notin ToolsOf[c]
         /\ api \in valid[q]
<1>1. cfg \in valid[q] /\ previous \in valid[q]
  BY DEF Effective, InEffect
<1>2. CASE Resting
  <2>1. table = TableOf(cfg) /\ off = OffOf(cfg) /\ api = cfg
    BY <1>2 DEF Staged, Rest
  <2> QED BY <1>1, <2>1 DEF TableOf, OffOf
<1>3. CASE ~Resting
  <2>1. at[holder] \in After /\ api = previous
    BY <1>3 DEF Staged, Holding, Halfway, Resting, Before, After, ReloadPlaces, TypeOK
  <2>2. \/ table = TableOf(previous) /\ off = OffOf(previous)
        \/ table = Upto(next, cfg) /\ off = Nothing
        \/ table = TableOf(cfg) /\ off = OffUpto(next, cfg)
        \/ table = TableOf(cfg) /\ off = OffOf(cfg)
    BY <1>3, <2>1 DEF Staged, Halfway, After
  <2> QED BY <1>1, <2>1, <2>2 DEF TableOf, OffOf, Upto, OffUpto, Nothing
<1> QED BY <1>2, <1>3

(* What a request was told stays true while reloads go on.                   *)
LEMMA Kept ==
  ASSUME TypeOK, NEW p \in Requests, Told(p), Same(p),
         valid[p] \subseteq valid'[p],
         cfg' = cfg \/ Raced(p)',
         at[p] = "spawn" => shims \subseteq shims' \/ Raced(p)'
  PROVE  Told(p)'
<1>1. Raced(p) => Raced(p)' BY DEF Raced
<1>2. FoundTrue(p)' BY <1>1 DEF Told, FoundTrue, Same
<1>3. AnswerTrue(p)' BY <1>1 DEF Told, AnswerTrue, Same
<1>4. ListTrue(p)' BY <1>1 DEF Told, ListTrue, Same
<1>5. ShimOf(p)' BY <1>1 DEF Told, ShimOf, Same
<1> QED BY <1>2, <1>3, <1>4, <1>5 DEF Told

(* The steps of a request tell it what is true.                              *)
LEMMA ToldServe ==
  ASSUME TypeOK, Staged, Effective, NEW q \in Requests, Told(q), Serve(q)
  PROVE  Told(q)'
<1> USE DEF TypeOK, Told, FoundTrue, AnswerTrue, ListTrue, ShimOf, Raced,
        Served, Looked, unconfigured, pastVars, stateVars, shimVars
<1>0. ask[q].tool \in Tools /\ NoConfig \notin Configs
  BY ConfigAssumption DEF Asks
<1>1. CASE Lookup(q)
  <2>1. table[ask[q].tool] # NoConfig =>
          table[ask[q].tool] \in valid[q] /\ ask[q].tool \in ToolsOf[table[ask[q].tool]]
    BY <1>0, <1>1, OfSome DEF Lookup
  <2>2. table[ask[q].tool] = NoConfig => Raced(q) \/ ask[q].tool \notin ToolsOf[cfg]
    BY <1>0, <1>1, Unraced DEF Lookup, TableOf
  <2> QED BY <1>0, <1>1, <2>1, <2>2 DEF Lookup
<1>2. CASE Exposes(q)
  <2>1. api \in valid[q] BY <1>0, <1>2, OfSome DEF Exposes
  <2>2. found[q] # NoConfig BY <1>0, <1>2 DEF Exposes
  <2> QED BY <1>2, <2>1, <2>2 DEF Exposes, callVars
<1>3. CASE Refuse(q)
  <2>1. off[ask[q].tool] # NoConfig => \E c \in valid[q] : ask[q].tool \notin ToolsOf[c]
    BY <1>0, <1>3, OfSome DEF Refuse
  <2>2. off[ask[q].tool] = NoConfig /\ found[q] = NoConfig =>
          \/ Raced(q)
          \/ /\ ask[q].tool \notin Governed
             /\ \E c \in valid[q] : ask[q].tool \notin ToolsOf[c]
    <3> SUFFICES ASSUME off[ask[q].tool] = NoConfig, found[q] = NoConfig, ~Raced(q)
                 PROVE  ask[q].tool \notin Governed /\ cfg \in valid[q]
                        /\ ask[q].tool \notin ToolsOf[cfg]
      OBVIOUS
    <3>1. cfg \in valid[q] /\ off = OffOf(cfg) /\ cfg # NoConfig
      BY <1>0, <1>3, Unraced DEF Refuse
    <3>2. ask[q].tool \notin ToolsOf[cfg] BY <1>3 DEF Refuse
    <3> QED BY <1>0, <3>1, <3>2 DEF OffOf
  <2> QED BY <1>3, <2>1, <2>2 DEF Refuse
<1>4. CASE TakeAgent(q)
  <2>1. sudo \in shims \cup {NoAgent} \/ Raced(q)
    BY <1>4, Unraced DEF TakeAgent
  <2> QED BY <1>4, <2>1 DEF TakeAgent
<1>5. CASE RunShell(q) BY <1>5 DEF RunShell
<1>6. CASE ListTools(q)
  <2>1. Raced(q) \/ (cfg \in valid[q] /\ Registered = ToolsOf[cfg])
    BY <1>0, <1>6, Unraced, ConfigAssumption DEF ListTools, Registered, TableOf
  <2> QED BY <1>6, <2>1 DEF ListTools
<1>7. CASE ListToolsEnds(q) BY <1>7 DEF ListToolsEnds, Replied
<1>8. CASE CallToolEnds(q) BY <1>8 DEF CallToolEnds, Replied
<1> QED BY <1>1, <1>2, <1>3, <1>4, <1>5, <1>6, <1>7, <1>8 DEF Serve

(* A request that arrives or reloads has been told nothing yet.              *)
LEMMA ToldNothing ==
  ASSUME TypeOK, NEW q \in Requests, Told(q), Arrive(q) \/ Refresh(q) \/ Apply(q)
  PROVE  Told(q)'
<1> USE DEF TypeOK, Told, FoundTrue, AnswerTrue, ListTrue, ShimOf, Refreshed,
        Dispatched, Onward, callVars
<1>1. CASE Arrive(q) BY <1>1 DEF Arrive
<1>2. CASE Refresh(q)
  BY <1>2 DEF Refresh, RefreshFails, RefreshUnchanged, RefreshBegins
<1>3. CASE NewSudoAgent(q) \/ SudoAgentFails(q) \/ ApplyConfig(q) \/ CloseOldAgent(q)
  BY <1>3 DEF NewSudoAgent, SudoAgentFails, ApplyConfig, CloseOldAgent
<1>4. CASE SetInstructions(q) \/ Clear(q) \/ RegisterTool(q) \/ MarkUnavailable(q)
  BY <1>4 DEF SetInstructions, Clear, RegisterTool, MarkUnavailable
<1>5. CASE ReloadEnds(q) BY <1>5 DEF ReloadEnds
<1>6. CASE LockAnnounced(q)
  BY <1>6 DEF LockAnnounced, Writing, stateVars, shimVars, pastVars
<1> QED BY <1>1, <1>2, <1>3, <1>4, <1>5, <1>6 DEF Apply

LEMMA ToldOthers ==
  ASSUME TypeOK, Staged, Effective, NEW q \in Requests, NEW p \in Requests \ {q},
         Told(p), Arrive(q) \/ Refresh(q) \/ Apply(q) \/ Serve(q)
  PROVE  Told(p)'
<1>1. Same(p) /\ (valid'[p] = valid[p] \/ ApplyConfig(q)) BY OthersSame
<1> USE <1>1, Kept DEF TypeOK
<1>2. CASE ApplyConfig(q)
  <2>1. at[q] = "apply" /\ holder = q /\ loaded # cfg /\ cfg' = loaded
    BY <1>2, HoldingStep, NoOneIsNobody
       DEF Onwards, Staged, Rest, Resting, Before, ApplyConfig
  <2>2. valid[p] \subseteq valid'[p] BY <1>2 DEF ApplyConfig
  <2>3. CASE at[p] \in Served
    <3>1. cfg \in valid'[p] /\ loaded \in valid'[p]
      BY <1>2, <2>3 DEF ApplyConfig, Effective, InEffect
    <3>2. Raced(p)' BY <2>1, <3>1 DEF Raced
    <3> QED BY <2>2, <3>2
  <2>4. CASE at[p] \notin Served
    BY <2>4, <1>1 DEF Told, FoundTrue, AnswerTrue, ListTrue, ShimOf, Served, Same
  <2> QED BY <2>3, <2>4
<1>3. CASE CloseOldAgent(q)
  <2>1. cfg' = cfg /\ valid' = valid /\ at[q] = "close" /\ holder = q
    BY <1>3, HoldingStep DEF CloseOldAgent, Onwards, Staged, stateVars, pastVars
  <2>2. at[p] = "spawn" => Raced(p)'
    BY <2>1, NoOneIsNobody DEF Raced, Effective, InEffect, Served, Staged, Halfway,
       Resting, Before
  <2> QED BY <2>1, <2>2
<1>4. CASE ~ApplyConfig(q) /\ ~CloseOldAgent(q)
  <2>1. cfg' = cfg /\ shims \subseteq shims'
    <3> USE DEF stateVars, shimVars, unconfigured
    <3>1. CASE Arrive(q) BY <3>1 DEF Arrive
    <3>2. CASE Refresh(q)
      BY <3>2 DEF Refresh, RefreshFails, RefreshUnchanged, RefreshBegins
    <3>3. CASE Apply(q)
      BY <1>4, <3>3 DEF Apply, NewSudoAgent, SudoAgentFails, SetInstructions, Clear,
         RegisterTool, MarkUnavailable, ReloadEnds, LockAnnounced
    <3>4. CASE Serve(q)
      BY <3>4 DEF Serve, Lookup, Exposes, Refuse, TakeAgent, RunShell, ListTools,
         ListToolsEnds, CallToolEnds
    <3> QED BY <3>1, <3>2, <3>3, <3>4
  <2> QED BY <1>4, <2>1
<1> QED BY <1>2, <1>3, <1>4

LEMMA ToldStep ==
  ASSUME TypeOK, Staged, Effective, \A q \in Requests : Told(q), [Next]_vars
  PROVE  \A q \in Requests : Told(q)'
<1> USE DEF TypeOK, Told, FoundTrue, AnswerTrue, ListTrue, ShimOf, Raced, stateVars,
        shimVars, callVars
<1>1. CASE UNCHANGED vars BY <1>1 DEF vars, pastVars
<1>2. CASE Edit BY <1>2 DEF Edit
<1>3. ASSUME NEW q \in Requests, Arrive(q) \/ Refresh(q) \/ Apply(q) \/ Serve(q),
             NEW p \in Requests
      PROVE  Told(p)'
  BY <1>3, ToldServe, ToldNothing, ToldOthers
<1> QED BY <1>1, <1>2, <1>3 DEF Next

-----------------------------------------------------------------------------
(* The invariant. *)

LEMMA InitIInv == ASSUME Init PROVE IInv
<1> USE ConfigAssumption DEF Init
<1>0. /\ Load(file) \in Configs /\ Load(file) # NoConfig
      /\ explicit => Load(file) = file
      /\ file \in Configs => Load(file) = file
  <2>1. file \in Contents /\ Load(file) # NoConfig OBVIOUS
  <2> QED BY <2>1, ConfigAssumption DEF Load, Contents
<1>1. TypeOK
  <2>1. minted \in {0, 1} OBVIOUS
  <2>2. 1 \in Tools BY DEF Tools
  <2>3. /\ minted \in Nat /\ shims \subseteq 1..minted
        /\ {fresh, old, sudo} \subseteq 0..minted /\ edits \in 0..MaxEdits
        /\ agent \in [Requests -> 0..minted]
    BY <2>1 DEF NoAgent
  <2>4. /\ table \in [Tools -> Configs \cup {NoConfig}]
        /\ off \in [Tools -> Configs \cup {NoConfig}]
    BY <1>0 DEF TableOf, OffOf
  <2>5. Unasked \in Asks BY <2>2 DEF Unasked, Asks, Kinds
  <2>6. \A q \in Requests : at[q] \in Places /\ answer[q] \in Answers
    BY DEF Places, Answers
  <2> QED BY <1>0, <2>2, <2>3, <2>4, <2>5, <2>6 DEF TypeOK
<1>2. Staged
  <2>1. Holding /\ Resting BY DEF Holding, ReloadPlaces, Resting
  <2>2. Rest /\ Halfway BY <1>0, <2>1 DEF Rest, Halfway, TableOf, OffOf
  <2>3. Shims
    <3>1. CASE Load(file) \in WithSudo
      <4>1. minted = 1 /\ sudo = 1 /\ shims = {1} BY <3>1
      <4> QED BY <3>1, <4>1 DEF Shims, NoAgent
    <3>2. CASE Load(file) \notin WithSudo
      <4>1. minted = 0 /\ sudo = 0 /\ shims = {} BY <3>2
      <4> QED BY <3>2, <4>1 DEF Shims, NoAgent
    <3> QED BY <3>1, <3>2
  <2> QED BY <2>1, <2>2, <2>3 DEF Staged
<1>3. Loaded /\ NextCallSeesEdit
  BY <1>0 DEF Loaded, NextCallSeesEdit, ReloadPlaces
<1>4. Effective BY DEF Effective, Served
<1>5. \A q \in Requests : Told(q)
  BY DEF Told, FoundTrue, AnswerTrue, ListTrue, ShimOf
<1> QED BY <1>1, <1>2, <1>3, <1>4, <1>5 DEF IInv

LEMMA StepIInv == ASSUME IInv, [Next]_vars PROVE IInv'
<1>1. TypeOK' BY TypeOKStep DEF IInv, Staged
<1>2. Staged' BY StagedStep DEF IInv
<1>3. Loaded' /\ NextCallSeesEdit' BY HistoryStep DEF IInv, History
<1>4. Effective' BY EffectiveStep DEF IInv
<1>5. \A q \in Requests : Told(q)' BY ToldStep DEF IInv
<1> QED BY <1>1, <1>2, <1>3, <1>4, <1>5 DEF IInv

(* The invariant holds of every state of every run.                          *)
THEOREM ReloadInvariant == Spec => []IInv
BY InitIInv, StepIInv, PTL DEF Spec

(* Every variable keeps its type.                                            *)
THEOREM TypeCorrect == Spec => []TypeOK
<1>1. IInv => TypeOK BY DEF IInv
<1> QED BY <1>1, ReloadInvariant, PTL

(* Between two reloads tools, instructions, REST face and agent are of the   *)
(* configuration in effect, and no other shim directory is left              *)
(* (configReloader.Refresh, Server.applyConfig).                             *)
THEOREM CoherentBetweenReloads == Spec => []Coherent
<1>1. IInv => Coherent
  BY NoOneIsNobody DEF IInv, Staged, Rest, Resting, Shims, Coherent
<1> QED BY <1>1, ReloadInvariant, PTL

(* A call over MCP is served under what the file has held since the call     *)
(* arrived, unless the reload it made failed (Handle, Refresh).              *)
THEOREM EditsReachTheNextCall == Spec => []NextCallSeesEdit
<1>1. IInv => NextCallSeesEdit BY DEF IInv
<1> QED BY <1>1, ReloadInvariant, PTL

(* What a call is told was so under a configuration that was in effect while *)
(* it ran, and only a reload meanwhile has a tool vanish (callTool,          *)
(* serveTool, registerAll).                                                  *)
THEOREM AnswersAreTrue == Spec => []AnswersTrue
<1>1. IInv => AnswersTrue BY DEF IInv, Told, AnswersTrue
<1> QED BY <1>1, ReloadInvariant, PTL

(* A list of the tools is that of one configuration, unless one was replaced *)
(* since the request's own reload (listTools, registerAll).                  *)
THEOREM ListsAreTrue == Spec => []ListsTrue
<1>1. IInv => ListsTrue BY DEF IInv, Told, ListsTrue
<1> QED BY <1>1, ReloadInvariant, PTL

(* A command finds the shim directory of its agent, unless a reload took the *)
(* agent away under it (sudoAgentRef, applyConfig's old.Close).              *)
THEOREM ShimsStayForCommands == Spec => []ShimThere
<1>1. IInv => ShimThere BY DEF IInv, Told, ShimThere
<1> QED BY <1>1, ReloadInvariant, PTL

(* With --config, what is in effect was read from the file (LoadConfig).     *)
THEOREM OnlyWhatTheFileHeld == Spec => []NothingInvented
<1>1. IInv => NothingInvented
  BY ConfigAssumption DEF IInv, Loaded, TypeOK, NothingInvented
<1> QED BY <1>1, ReloadInvariant, PTL

(* Between reloads what is in effect is one configuration, whole, and with   *)
(* --config one the file held (Refresh, applyConfig, LoadConfig).            *)
THEOREM OneConfigurationInEffect == Spec => []OneInEffect
  BY CoherentBetweenReloads, OnlyWhatTheFileHeld, PTL DEF OneInEffect

(* Calls and listings are told what was so under a configuration in effect   *)
(* while they ran (callTool, serveTool, listTools).                          *)
THEOREM RequestsAreToldTrue == Spec => []ToldTrue
  BY AnswersAreTrue, ListsAreTrue, PTL DEF ToldTrue

===============================================================================
