----------------------------- MODULE ConfigReload -----------------------------
(***************************************************************************)
(* config.json re-read under a running server: configReloader.Refresh      *)
(* (reload.go), Server.applyConfig and registerAll (server.go), against    *)
(* the requests that meanwhile look tools up, call them and list them over *)
(* MCP (server.go) and over the REST face (openapi.go).                    *)
(*                                                                         *)
(* A reload is not atomic: each thing it replaces is replaced in a         *)
(* critical section of s.mu of its own, and requests run between two of    *)
(* them.  s.mu is a sync.RWMutex: from the moment a writer asks for it,    *)
(* no reader gets in, not even one that holds it for reading already.      *)
(* Only a reload writes under it, and r.mu allows one reload at a time.    *)
(* A critical section that takes no other lock is one step.                *)
(***************************************************************************)
EXTENDS Integers

CONSTANTS
  Requests,      (* goroutines that serve requests                           *)
  NoOne,         (* nobody holds r.mu                                        *)
  Configs,       (* configurations as the loader returns them, flags applied *)
  Default,       (* DefaultConfig with the flags applied                     *)
  NoConfig,
  Gone, Broken,  (* the file does not exist; it does not load                *)
  NTools,        (* tools, in the order registerAll registers them           *)
  ToolsOf,       (* what a configuration registers                           *)
  Governed,      (* tools a section of it switches off, not user's commands  *)
  ExposedBy,     (* what its openapi.include and exclude let through         *)
  WithSudo,      (* the configurations newSudoAgent builds an agent for      *)
  MaxEdits       (* bound of the model: changes of the file                  *)

Tools == 1..NTools
Contents == Configs \cup {Gone, Broken}
NoAgent == 0

ASSUME ConfigAssumption ==
  /\ NoOne \notin Requests
  /\ Default \in Configs
  /\ NoConfig \notin Configs
  /\ {Gone, Broken} \cap Configs = {} /\ Gone # Broken
  /\ NTools \in Nat \ {0}
  /\ ToolsOf \in [Configs -> SUBSET Tools]
  /\ ExposedBy \in [Configs -> SUBSET Tools]
  /\ Governed \subseteq Tools
  /\ WithSudo \subseteq Configs
  /\ MaxEdits \in Nat

VARIABLES
  file,      (* what config.json holds                                       *)
  explicit,  (* whether the path was given with --config                     *)
  edits,     (* how often the file was changed                               *)
  holder,    (* who holds r.mu                                               *)
  applied,   (* r.applied, the fingerprint of what was last applied          *)
  loaded,    (* cfg in Refresh and applyConfig                               *)
  previous,  (* previous in applyConfig                                      *)
  fresh,     (* agent in applyConfig                                         *)
  old,       (* old in applyConfig                                           *)
  next,      (* how far registerAll or markUnavailableTools has got          *)
  minted,    (* how many shim directories were made                          *)
  shims,     (* those that exist                                             *)
  cfg,       (* s.cfg, and with it s.name, s.version, s.legacy and s.ws      *)
  sudo,      (* s.sudo                                                       *)
  notes,     (* s.instructions: the configuration they were built from       *)
  table,     (* s.tools and s.order: the configuration of each registration  *)
  off,       (* s.unavailable: the configuration that gives the reason       *)
  api,       (* a.cfg: the configuration the REST face goes by               *)
  pending,   (* a writer has asked for s.mu and waits for readers to leave   *)
  readers,   (* who holds s.mu for reading across another call               *)
  at,        (* where each request is                                        *)
  ask,       (* what it asks for                                             *)
  found,     (* the registration a call found                                *)
  agent,     (* the sudo agent its command runs with                         *)
  answer,    (* what a call is answered                                      *)
  listed,    (* the tools a list names                                       *)
  known,     (* history: configurations started with, or held by the file    *)
  onDisk,    (* history: what the file held since a request arrived, kept    *)
             (* until it has looked, and only if its own refresh went well   *)
  valid      (* history: configurations in effect since its refresh ended    *)

fileVars   == <<file, explicit, edits, known>>
reloadVars == <<holder, applied, loaded, previous, fresh, old, next>>
shimVars   == <<minted, shims>>
stateVars  == <<cfg, sudo, notes, table, off, api>>
lockVars   == <<pending, readers>>
callVars   == <<ask, found, agent, answer, listed>>
pastVars   == <<onDisk, valid>>
unconfigured == <<fileVars, reloadVars, shimVars, stateVars>>
vars == <<fileVars, reloadVars, shimVars, stateVars, lockVars, at, callVars,
          pastVars>>

-----------------------------------------------------------------------------
(* The tool table and the REST face a configuration describes. *)

TableOf(c) == [t \in Tools |-> IF t \in ToolsOf[c] THEN c ELSE NoConfig]
OffOf(c)   == [t \in Tools |-> IF t \in Governed \ ToolsOf[c] THEN c ELSE NoConfig]
Nothing    == [t \in Tools |-> NoConfig]
Registered == {t \in Tools : table[t] # NoConfig}

(* What a file loads as.  One that is not there is no error unless it was    *)
(* asked for by name.                                                        *)
Load(content) ==
  IF content = Gone THEN (IF explicit THEN NoConfig ELSE Default)
  ELSE IF content = Broken THEN NoConfig ELSE content

(* s.mu, for a critical section that is one step.                            *)
MayRead  == ~pending
MayWrite == readers = {} /\ pending' = FALSE /\ UNCHANGED readers

Kinds == {"call", "list", "rest"}
Asks == [kind : Kinds, tool : Tools, modern : BOOLEAN]
Unasked == [kind |-> "call", tool |-> 1, modern |-> TRUE]
Answers == {"none", "ran", "off", "missing", "hidden"}

(* What may be in effect: in a reload, what it replaces too.                 *)
InEffect == {cfg, previous}

(* A request is on its way once the file is dealt with.                      *)
Dispatched(q) == IF ask[q].kind = "list" THEN "list" ELSE "lookup"

-----------------------------------------------------------------------------
(* The operator. *)

Edit ==
  /\ edits < MaxEdits
  /\ edits' = edits + 1
  /\ \E content \in Contents \ {file} :
       /\ file' = content
       /\ known' = known \cup ({content} \cap Configs)
       /\ onDisk' = [q \in Requests |->
                       IF onDisk[q] # {} THEN onDisk[q] \cup {content} ELSE {}]
  /\ UNCHANGED <<explicit, reloadVars, shimVars, stateVars, lockVars, at,
                 callVars, valid>>

-----------------------------------------------------------------------------
(* Arrival.  Handle refreshes first; the REST face never does. *)

Arrive(q) ==
  /\ at[q] = "idle"
  /\ \E a \in Asks :
       /\ a.kind # "list" => a.modern
       /\ a.kind = "list" => a.tool = 1
       /\ ask' = [ask EXCEPT ![q] = a]
       /\ at' = [at EXCEPT ![q] = IF a.kind = "rest" THEN "lookup" ELSE "refresh"]
       /\ valid' = [valid EXCEPT ![q] = IF a.kind = "rest" THEN InEffect ELSE {}]
       /\ onDisk' = [onDisk EXCEPT ![q] = IF a.kind = "rest" THEN {} ELSE {file}]
  /\ UNCHANGED <<unconfigured, lockVars, found, agent, answer, listed>>

-----------------------------------------------------------------------------
(* configReloader.Refresh, under r.mu. *)

(* It ends, and the request goes on with what is in effect.                  *)
Refreshed(q, failed) ==
  /\ at' = [at EXCEPT ![q] = Dispatched(q)]
  /\ onDisk' = [onDisk EXCEPT ![q] = IF failed THEN {} ELSE @]
  /\ valid' = [valid EXCEPT ![q] = {cfg}]

RefreshFails(q) ==
  /\ at[q] = "refresh" /\ holder = NoOne
  /\ Load(file) = NoConfig
  /\ Refreshed(q, TRUE)
  /\ UNCHANGED <<fileVars, reloadVars, shimVars, stateVars, lockVars, callVars>>

RefreshUnchanged(q) ==
  /\ at[q] = "refresh" /\ holder = NoOne
  /\ Load(file) = applied
  /\ Refreshed(q, FALSE)
  /\ UNCHANGED <<fileVars, reloadVars, shimVars, stateVars, lockVars, callVars>>

RefreshBegins(q) ==
  /\ at[q] = "refresh" /\ holder = NoOne
  /\ Load(file) \notin {NoConfig, applied}
  /\ holder' = q
  /\ loaded' = Load(file)
  /\ at' = [at EXCEPT ![q] = "agent"]
  /\ UNCHANGED <<fileVars, applied, previous, fresh, old, next, shimVars,
                 stateVars, lockVars, callVars, pastVars>>

Refresh(q) == RefreshFails(q) \/ RefreshUnchanged(q) \/ RefreshBegins(q)

-----------------------------------------------------------------------------
(* Server.applyConfig, under r.mu. *)

NewSudoAgent(q) ==
  /\ at[q] = "agent"
  /\ at' = [at EXCEPT ![q] = "apply"]
  /\ IF loaded \in WithSudo
     THEN /\ minted' = minted + 1
          /\ shims' = shims \cup {minted + 1}
          /\ fresh' = minted + 1
     ELSE /\ fresh' = NoAgent
          /\ UNCHANGED shimVars
  /\ UNCHANGED <<fileVars, holder, applied, loaded, previous, old, next,
                 stateVars, lockVars, callVars, pastVars>>

(* The directory cannot be made: applyConfig returns before it has changed   *)
(* anything.                                                                 *)
SudoAgentFailsApplied(q) ==  \* mutant: the fingerprint is kept before apply
  /\ at[q] = "agent"
  /\ loaded \in WithSudo
  /\ holder' = NoOne
  /\ applied' = loaded
  /\ loaded' = NoConfig
  /\ Refreshed(q, TRUE)
  /\ UNCHANGED <<fileVars, previous, fresh, old, next, shimVars, stateVars,
                 lockVars, callVars>>
SudoAgentFailsLocked(q) ==  \* mutant: the error path leaves r.mu locked
  /\ at[q] = "agent"
  /\ loaded \in WithSudo
  /\ Refreshed(q, TRUE)
  /\ UNCHANGED <<fileVars, reloadVars, shimVars, stateVars, lockVars, callVars>>
SudoAgentFails(q) ==
  /\ at[q] = "agent"
  /\ loaded \in WithSudo
  /\ holder' = NoOne
  /\ loaded' = NoConfig
  /\ Refreshed(q, TRUE)
  /\ UNCHANGED <<fileVars, applied, previous, fresh, old, next, shimVars,
                 stateVars, lockVars, callVars>>

ApplyConfig(q) ==
  /\ at[q] = "apply"
  /\ MayWrite
  /\ previous' = cfg
  /\ old' = sudo
  /\ cfg' = loaded
  /\ sudo' = fresh
  /\ at' = [at EXCEPT ![q] = "close"]
  /\ valid' = [p \in Requests |->
                 IF valid[p] # {} THEN valid[p] \cup {loaded} ELSE {}]
  /\ UNCHANGED <<fileVars, holder, applied, loaded, fresh, next, shimVars,
                 notes, table, off, api, callVars, onDisk>>

CloseOldAgentNever(q) ==  \* mutant: the old directory is left behind
  /\ at[q] = "close"
  /\ old' = NoAgent
  /\ at' = [at EXCEPT ![q] = "instruct"]
  /\ UNCHANGED <<fileVars, holder, applied, loaded, previous, fresh, next,
                 shimVars, stateVars, lockVars, callVars, pastVars>>
CloseOldAgentNew(q) ==  \* mutant: s.sudo is closed, which is the new agent
  /\ at[q] = "close"
  /\ shims' = shims \ {sudo}
  /\ old' = NoAgent
  /\ at' = [at EXCEPT ![q] = "instruct"]
  /\ UNCHANGED <<fileVars, holder, applied, loaded, previous, fresh, next,
                 minted, stateVars, lockVars, callVars, pastVars>>
CloseOldAgent(q) ==
  /\ at[q] = "close"
  /\ shims' = shims \ {old}
  /\ old' = NoAgent
  /\ at' = [at EXCEPT ![q] = "instruct"]
  /\ UNCHANGED <<fileVars, holder, applied, loaded, previous, fresh, next,
                 minted, stateVars, lockVars, callVars, pastVars>>

SetInstructions(q) ==
  /\ at[q] = "instruct"
  /\ MayWrite
  /\ notes' = loaded
  /\ at' = [at EXCEPT ![q] = "clear"]
  /\ UNCHANGED <<fileVars, reloadVars, shimVars, cfg, sudo, table, off, api,
                 callVars, pastVars>>

(* registerAll starts from an empty table ...                                *)
ClearNot(q) ==  \* mutant: tools the new configuration dropped stay
  /\ at[q] = "clear"
  /\ MayWrite
  /\ off' = Nothing
  /\ next' = 1
  /\ at' = [at EXCEPT ![q] = "register"]
  /\ UNCHANGED <<fileVars, holder, applied, loaded, previous, fresh, old,
                 shimVars, cfg, sudo, notes, table, api, callVars, pastVars>>
Clear(q) ==
  /\ at[q] = "clear"
  /\ MayWrite
  /\ table' = Nothing
  /\ off' = Nothing
  /\ next' = 1
  /\ at' = [at EXCEPT ![q] = "register"]
  /\ UNCHANGED <<fileVars, holder, applied, loaded, previous, fresh, old,
                 shimVars, cfg, sudo, notes, api, callVars, pastVars>>

(* One loop of registerAll: past its last tool, `after` is next.             *)
Onward(q, after) ==
  /\ next' = IF next = NTools THEN 1 ELSE next + 1
  /\ at' = [at EXCEPT ![q] = IF next = NTools THEN after ELSE @]

(* ... registers tool after tool, those the configuration asks for ...       *)
RegisterTool(q) ==
  /\ at[q] = "register"
  /\ IF next \in ToolsOf[loaded]
     THEN MayWrite /\ table' = [table EXCEPT ![next] = loaded]
     ELSE UNCHANGED <<lockVars, table>>
  /\ Onward(q, "mark")
  /\ UNCHANGED <<fileVars, holder, applied, loaded, previous, fresh, old,
                 shimVars, cfg, sudo, notes, off, api, callVars, pastVars>>

(* ... and records why each of the others it governs is missing.             *)
Switched(t) == t \in Governed /\ table[t] = NoConfig
MarkUnavailable(q) ==
  /\ at[q] = "mark"
  /\ IF Switched(next)
     THEN MayWrite /\ off' = [off EXCEPT ![next] = loaded]
     ELSE (next \in Governed => MayRead) /\ UNCHANGED <<lockVars, off>>
  /\ Onward(q, "update")
  /\ UNCHANGED <<fileVars, holder, applied, loaded, previous, fresh, old,
                 shimVars, cfg, sudo, notes, table, api, callVars, pastVars>>

(* openAPIServer.update, and the rest of Refresh.                            *)
ReloadEnds(q) ==
  /\ at[q] = "update"
  /\ api' = loaded
  /\ applied' = loaded
  /\ holder' = NoOne
  /\ loaded' = NoConfig
  /\ previous' = cfg
  /\ fresh' = NoAgent
  /\ Refreshed(q, FALSE)
  /\ UNCHANGED <<fileVars, old, next, shimVars, cfg, sudo, notes, table, off,
                 lockVars, callVars>>

(* The next critical section of a reload writes under s.mu.                  *)
Writing(q) ==
  \/ at[q] \in {"apply", "instruct", "clear"}
  \/ at[q] = "register" /\ next \in ToolsOf[loaded]
  \/ at[q] = "mark" /\ Switched(next)

(* Lock is called while a reader is inside: from now on none gets in.        *)
LockAnnounced(q) ==
  /\ Writing(q)
  /\ readers # {} /\ ~pending
  /\ pending' = TRUE
  /\ UNCHANGED <<fileVars, reloadVars, shimVars, stateVars, readers, at,
                 callVars, pastVars>>

Apply(q) ==
  \/ NewSudoAgent(q) \/ SudoAgentFails(q) \/ ApplyConfig(q)
  \/ CloseOldAgent(q) \/ SetInstructions(q) \/ Clear(q) \/ RegisterTool(q)
  \/ MarkUnavailable(q) \/ ReloadEnds(q) \/ LockAnnounced(q)

-----------------------------------------------------------------------------
(* What a request does with the configuration in effect. *)

(* The request has looked: what it saw of the file is no longer of interest. *)
Looked(q) ==
  /\ onDisk' = [onDisk EXCEPT ![q] = {}]
  /\ UNCHANGED valid

(* callTool and serveTool look the name up.                                  *)
Lookup(q) ==
  /\ at[q] = "lookup"
  /\ MayRead
  /\ found' = [found EXCEPT ![q] = table[ask[q].tool]]
  /\ at' = [at EXCEPT ![q] =
              IF table[ask[q].tool] = NoConfig THEN "unavailable"
              ELSE IF ask[q].kind = "rest" THEN "exposes" ELSE "run"]
  /\ Looked(q)
  /\ UNCHANGED <<unconfigured, lockVars, ask, agent, answer, listed>>

(* openAPIServer.exposes, under a.mu.                                        *)
Exposes(q) ==
  /\ at[q] = "exposes"
  /\ at' = [at EXCEPT ![q] =
              IF ask[q].tool \in ExposedBy[api] THEN "run" ELSE "unavailable"]
  /\ UNCHANGED <<unconfigured, lockVars, callVars, pastVars>>

(* unavailableFor, and the refusal it decides.                               *)
Refuse(q) ==
  /\ at[q] = "unavailable"
  /\ MayRead
  /\ answer' = [answer EXCEPT ![q] =
                  IF off[ask[q].tool] # NoConfig THEN "off"
                  ELSE IF found[q] = NoConfig THEN "missing" ELSE "hidden"]
  /\ found' = [found EXCEPT ![q] = NoConfig]
  /\ at' = [at EXCEPT ![q] = "answered"]
  /\ UNCHANGED <<unconfigured, lockVars, ask, agent, listed, pastVars>>

(* The handler of a command takes the sudo agent ...                         *)
TakeAgent(q) ==
  /\ at[q] = "run"
  /\ MayRead
  /\ agent' = [agent EXCEPT ![q] = sudo]
  /\ found' = [found EXCEPT ![q] = NoConfig]
  /\ at' = [at EXCEPT ![q] = "spawn"]
  /\ UNCHANGED <<unconfigured, lockVars, ask, answer, listed, pastVars>>

(* ... and runs its command with the agent's directory first on PATH, holding *)
(* no lock.  runCommand waits for the shell and for whoever still holds its  *)
(* pipes: the timeout kills the shell alone, so the command may never end.   *)
RunShell(q) ==
  /\ at[q] = "spawn"
  /\ answer' = [answer EXCEPT ![q] = "ran"]
  /\ agent' = [agent EXCEPT ![q] = NoAgent]
  /\ at' = [at EXCEPT ![q] = "answered"]
  /\ UNCHANGED <<unconfigured, lockVars, ask, found, listed, pastVars>>

(* listTools takes s.mu for reading, reads the table ...                     *)
ListTools(q) ==
  /\ at[q] = "list"
  /\ MayRead
  /\ readers' = readers \cup {q}
  /\ listed' = [listed EXCEPT ![q] = Registered]
  /\ at' = [at EXCEPT ![q] = "listing"]
  /\ Looked(q)
  /\ UNCHANGED <<unconfigured, pending, ask, found, agent, answer>>

(* The reply is written and the goroutine free for another request.          *)
Replied(q) ==
  /\ at' = [at EXCEPT ![q] = "idle"]
  /\ ask' = [ask EXCEPT ![q] = Unasked]
  /\ answer' = [answer EXCEPT ![q] = "none"]
  /\ listed' = [listed EXCEPT ![q] = {}]
  /\ valid' = [valid EXCEPT ![q] = {}]
  /\ UNCHANGED <<found, agent, onDisk>>

(* ... and while it holds the lock has completeResult take it once more, for *)
(* the name and the version a modern client is told.                         *)
ListToolsEnds(q) ==
  /\ at[q] = "listing"
  /\ ask[q].modern => MayRead
  /\ readers' = readers \ {q}
  /\ Replied(q)
  /\ UNCHANGED <<unconfigured, pending>>

(* completeResult of a tool call, which holds nothing.                       *)
CallToolEnds(q) ==
  /\ at[q] = "answered"
  /\ ask[q].kind = "call" /\ ask[q].modern => MayRead
  /\ Replied(q)
  /\ UNCHANGED <<unconfigured, lockVars>>

Serve(q) ==
  \/ Lookup(q) \/ Exposes(q) \/ Refuse(q) \/ TakeAgent(q) \/ RunShell(q)
  \/ ListTools(q) \/ ListToolsEnds(q) \/ CallToolEnds(q)

-----------------------------------------------------------------------------
(* Startup applies the configuration before the first request is served. *)

Init ==
  /\ explicit \in BOOLEAN
  /\ file \in Contents /\ Load(file) # NoConfig
  /\ edits = 0
  /\ holder = NoOne
  /\ applied = Load(file) /\ loaded = NoConfig /\ previous = Load(file)
  /\ minted = (IF Load(file) \in WithSudo THEN 1 ELSE 0)
  /\ shims = 1..minted
  /\ fresh = NoAgent /\ old = NoAgent /\ next = 1
  /\ cfg = Load(file) /\ notes = Load(file) /\ api = Load(file)
  /\ sudo = minted
  /\ table = TableOf(Load(file)) /\ off = OffOf(Load(file))
  /\ pending = FALSE /\ readers = {}
  /\ at = [q \in Requests |-> "idle"]
  /\ ask = [q \in Requests |-> Unasked]
  /\ found = [q \in Requests |-> NoConfig]
  /\ agent = [q \in Requests |-> NoAgent]
  /\ answer = [q \in Requests |-> "none"]
  /\ listed = [q \in Requests |-> {}]
  /\ known = {Load(file)}
  /\ onDisk = [q \in Requests |-> {}]
  /\ valid = [q \in Requests |-> {}]

Next ==
  \/ Edit
  \/ \E q \in Requests : Arrive(q) \/ Refresh(q) \/ Apply(q) \/ Serve(q)

Spec == Init /\ [][Next]_vars

(* A goroutine goes on unless it is blocked; sync.Mutex hands r.mu to every  *)
(* goroutine that keeps asking.  Requests and edits need not come, and the   *)
(* command of a request need not end.                                        *)
Proceed(q) == Apply(q) \/ (Serve(q) /\ at[q] # "spawn")
Fairness == \A q \in Requests : SF_vars(Refresh(q)) /\ WF_vars(Proceed(q))

FairSpec == Spec /\ Fairness

-----------------------------------------------------------------------------
(* Properties. *)

Places == {"idle", "refresh", "agent", "apply", "close", "instruct", "clear",
           "register", "mark", "update", "lookup", "exposes", "unavailable",
           "run", "spawn", "list", "listing", "answered"}

(* Every variable keeps its type.                                            *)
TypeOK ==
  /\ file \in Contents /\ explicit \in BOOLEAN /\ edits \in 0..MaxEdits
  /\ holder \in Requests \cup {NoOne}
  /\ {cfg, applied, previous, notes, api} \cup known \subseteq Configs
  /\ loaded \in Configs \cup {NoConfig}
  /\ minted \in Nat /\ shims \subseteq 1..minted
  /\ {fresh, old, sudo} \subseteq 0..minted
  /\ next \in Tools
  /\ table \in [Tools -> Configs \cup {NoConfig}]
  /\ off \in [Tools -> Configs \cup {NoConfig}]
  /\ pending \in BOOLEAN /\ readers \subseteq Requests
  /\ at \in [Requests -> Places]
  /\ ask \in [Requests -> Asks]
  /\ found \in [Requests -> Configs \cup {NoConfig}]
  /\ agent \in [Requests -> 0..minted]
  /\ answer \in [Requests -> Answers]
  /\ listed \in [Requests -> SUBSET Tools]
  /\ onDisk \in [Requests -> SUBSET Contents]
  /\ valid \in [Requests -> SUBSET Configs]

(* Between reloads everything that is rebuilt from the configuration is of   *)
(* the one in effect, and the only shim directory is the one its agent uses: *)
(* whatever reload failed, wherever it stopped (Refresh, applyConfig).  And  *)
(* what is in effect is what the server was started with or what the file    *)
(* once held, where the path was given with --config (LoadConfig).           *)
Coherent ==
  holder = NoOne =>
    /\ applied = cfg /\ notes = cfg /\ api = cfg
    /\ table = TableOf(cfg) /\ off = OffOf(cfg)
    /\ shims = {sudo} \ {NoAgent}
    /\ sudo # NoAgent <=> cfg \in WithSudo
NothingInvented == explicit => cfg \in known
OneInEffect == Coherent /\ NothingInvented

(* An edit takes effect on the next call: a request over MCP is served under *)
(* something the file has held since the request arrived, unless its own     *)
(* reload failed.  README: "re-read before every request" (Handle, Refresh). *)
NextCallSeesEdit ==
  \A q \in Requests :
    at[q] \in {"lookup", "list"} /\ onDisk[q] # {} =>
      \E content \in onDisk[q] : cfg = Load(content)

(* What a request is told was so under some configuration in effect while it *)
(* ran: the handler that ran was registered and let through by one, a tool   *)
(* that is off or hidden was so in one, a list is that of one.  Only a       *)
(* request a reload went on under can be told that a tool there is a setting *)
(* for does not exist, that a command does not which there was all along, or *)
(* be given a part of the list (callTool, serveTool, listTools, registerAll).*)
Raced(q) == \E c, d \in valid[q] : c # d
AnswerTrue(q) ==
  LET t == ask[q].tool IN
  /\ at[q] = "run" =>
       /\ found[q] \in valid[q] /\ t \in ToolsOf[found[q]]
       /\ ask[q].kind = "rest" => \E c \in valid[q] : t \in ExposedBy[c]
  /\ answer[q] = "off" => \E c \in valid[q] : t \notin ToolsOf[c]
  /\ answer[q] = "hidden" => \E c \in valid[q] : t \notin ExposedBy[c]
  /\ answer[q] = "missing" =>
       \/ Raced(q)
       \/ t \notin Governed /\ \E c \in valid[q] : t \notin ToolsOf[c]
AnswersTrue == \A q \in Requests : AnswerTrue(q)
ListTrue(q) ==
  at[q] = "listing" => Raced(q) \/ \E c \in valid[q] : listed[q] = ToolsOf[c]
ListsTrue == \A q \in Requests : ListTrue(q)
ToldTrue == AnswersTrue /\ ListsTrue

(* The directory the command of a call has first on PATH exists, unless the  *)
(* configuration was replaced under the call (sudoAgentRef, old.Close).      *)
ShimOf(q) == at[q] = "spawn" => agent[q] \in shims \cup {NoAgent} \/ Raced(q)
ShimThere == \A q \in Requests : ShimOf(q)

(* A lister waits for the writer, and the writer for the lister.             *)
Standstill == pending /\ \E q \in readers : ask[q].modern

(* A request is owed nothing further while its own command runs (RunShell):  *)
(* what it is owed once the command has ended, and what every other request  *)
(* is owed meanwhile, stays owed.                                            *)
OwedNothing(q) == at[q] \in {"idle", "spawn"}

(* Every request is answered, whatever reloads fail and whatever commands of *)
(* others never end under it, unless its own command does not end or a       *)
(* lister and a writer have come to a standstill (Handle, applyConfig).      *)
AnsweredOrStuck ==
  \A q \in Requests : ~OwedNothing(q) ~> OwedNothing(q) \/ Standstill

-----------------------------------------------------------------------------
(* A statement of the repository the code does not keep. *)

(* reload.go: "a request should not fail because a config file is being      *)
(* edited at that moment".  One whose command does not end is left aside.    *)
RequestsAnswered == \A q \in Requests : ~OwedNothing(q) ~> OwedNothing(q)

===============================================================================
