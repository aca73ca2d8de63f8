----------------------------- MODULE HttpSessions -----------------------------
(***************************************************************************)
(* The MCP endpoint of the HTTP transport: HTTPTransport.handle and        *)
(* resolveVersion (http.go) decide for each request which protocol version *)
(* and which session answer it, over the SessionStore of the legacy        *)
(* revisions (compat.go), while config.json may be edited under the        *)
(* running server (reload.go) and the server may be restarted.             *)
(*                                                                         *)
(* A handler is not atomic.  Get and Adopt each take the store's lock, and *)
(* other handlers run between the two; the version check before Handle     *)
(* and the one inside it, after the configuration is re-read, are two      *)
(* more steps.  Time is kept as the age of each timestamp in units of the  *)
(* model, cut off one past the timeout: older than that is all alike.      *)
(***************************************************************************)
EXTENDS Integers

CONSTANTS
  Handlers,        (* requests that may be in progress at once               *)
  MaxIds,          (* bound of the model: session ids newSessionID mints     *)
  MaxBoots,        (* bound of the model: times the server is restarted      *)
  Foreign,         (* well-formed ids this server has never minted           *)
  Unusable,        (* a header validSessionID refuses                        *)
  TTL,             (* the session timeout, in ticks of the model             *)
  LegacyVersions,  (* the handshake-based revisions                          *)
  Latest, Oldest,  (* LatestLegacyVersion, and the one assumed unsaid        *)
  Modern,          (* the stateless revision                                 *)
  NoVersion        (* no version, or one nobody serves                       *)

Minted == 1..MaxIds
Ids == Minted \cup Foreign
NoId == 0
Versions == LegacyVersions \cup {Modern, NoVersion}

ASSUME SessionAssumption ==
  /\ MaxIds \in Nat
  /\ MaxBoots \in Nat
  /\ TTL \in Nat
  /\ Minted \cap Foreign = {}
  /\ Unusable \notin Ids
  /\ NoId \notin Ids /\ NoId # Unusable
  /\ {Latest, Oldest} \subseteq LegacyVersions
  /\ Modern \notin LegacyVersions
  /\ NoVersion \notin LegacyVersions \cup {Modern}

VARIABLES
  boots,         (* how often the server was restarted                       *)
  legacy,        (* t.legacy: what the configuration said at start           *)
  recovery,      (* t.recoverSessions                                        *)
  serverLegacy,  (* s.legacy: what the last reload said                      *)
  fileLegacy,    (* legacy_compatibility as config.json has it now           *)
  minted,        (* how many ids newSessionID has handed out                 *)
  sessions,      (* the store: id -> its version and how long it is idle     *)
  terminated,    (* the tombstones: id -> how long ago it was ended          *)
  req,           (* what each handler is doing, or the last answer it gave   *)
  silence,       (* history: how long ago a request was last resolved on id  *)
  quit           (* history: the ids whose DELETE was answered 204           *)

configVars == <<legacy, recovery, serverLegacy, fileLegacy>>
storeVars  == <<minted, sessions, terminated>>
vars == <<boots, configVars, storeVars, req, silence, quit>>

Ages == 0..(TTL + 1)
Session == [version : LegacyVersions, idle : Ages]

(* A method that both eras know, one each of them alone knows, and the three *)
(* handle treats apart.                                                      *)
Methods == {"call", "logging", "listen", "discover", "notification"}

Idle == [step |-> "idle"]
(* The session a reply names is the one it was carried on, if any.           *)
Replied(code, id) == [step |-> "replied", code |-> code, id |-> id]
(* Get missed, and the handler is about to call Adopt.                       *)
Missing(method, id, version) ==
  [step |-> "missing", method |-> method, id |-> id, version |-> version]
(* The version and the session are known; then handle has let it through.    *)
Resolved(method, id, version) ==
  [step |-> "resolved", method |-> method, id |-> id, version |-> version]
Handling(method, id, version) ==
  [step |-> "handling", method |-> method, id |-> id, version |-> version]

(* The answers: 200, 202, 204, 400, a 400 that lists the versions served,    *)
(* 401, 404 and 405.                                                         *)
Codes == {"ok", "accepted", "no content", "bad request", "unsupported",
          "unauthorized", "not found", "not allowed"}

Works == [step : {"missing", "resolved", "handling"},
          method : Methods \cup {"GET"}, id : Ids \cup {NoId, Unusable},
          version : Versions]
Replies == [step : {"replied"}, code : Codes, id : Ids \cup {NoId, Unusable}]
Reqs == {Idle} \cup Works \cup Replies

TypeOK ==
  /\ boots \in 0..MaxBoots
  /\ legacy \in BOOLEAN
  /\ recovery \in BOOLEAN
  /\ serverLegacy \in BOOLEAN
  /\ fileLegacy \in BOOLEAN
  /\ minted \in 0..MaxIds
  /\ DOMAIN sessions \subseteq Ids
  /\ sessions \in [DOMAIN sessions -> Session]
  /\ DOMAIN terminated \subseteq Ids
  /\ terminated \in [DOMAIN terminated -> Ages]
  /\ req \in [Handlers -> Reqs]
  /\ silence \in [Ids -> Ages]
  /\ quit \subseteq Ids

Nothing == [i \in {} |-> 0]

Init ==
  /\ boots = 0
  /\ legacy \in BOOLEAN
  /\ recovery \in BOOLEAN
  /\ serverLegacy = legacy
  /\ fileLegacy = legacy
  /\ minted = 0
  /\ sessions = Nothing
  /\ terminated = Nothing
  /\ req = [h \in Handlers |-> Idle]
  /\ silence = [i \in Ids |-> 0]
  /\ quit = {}

-----------------------------------------------------------------------------
(* The store. *)

(* evictLocked: what is left of the sessions and of the tombstones.          *)
Expired(age) == age > TTL
Alive(store) ==
  [i \in {j \in DOMAIN store : ~Expired(store[j].idle)} |-> store[i]]
Kept(tombs) == [i \in {j \in DOMAIN tombs : ~Expired(tombs[j])} |-> tombs[i]]

Put(f, i, x) == [j \in DOMAIN f \cup {i} |-> IF j = i THEN x ELSE f[j]]
Without(f, i) == [j \in DOMAIN f \ {i} |-> f[j]]

Opened(version) == [version |-> version, idle |-> 0]
TouchedNot(session) == session  \* mutant: LastSeen is not updated
Touched(session) == [session EXCEPT !.idle = 0]

(* The ids validSessionID accepts.                                           *)
Usable(id) == id \in Ids

(* newSessionID is random, so it never repeats, not even after a restart.    *)
CanMint == minted < MaxIds
NewId == minted + 1

(* Create, with evictLocked first.                                           *)
Create(version) ==
  /\ CanMint
  /\ minted' = NewId
  /\ sessions' = Put(Alive(sessions), NewId, Opened(version))
  /\ terminated' = Kept(terminated)
  /\ silence' = [silence EXCEPT ![NewId] = 0]

(* Get: a hit marks the session as used.                                     *)
Get(id) ==
  /\ LET store == Alive(sessions) IN
     sessions' = IF id \in DOMAIN store
                 THEN Put(store, id, Touched(store[id]))
                 ELSE store
  /\ terminated' = Kept(terminated)
  /\ silence' = IF id \in DOMAIN Alive(sessions)
                THEN [silence EXCEPT ![id] = 0] ELSE silence
  /\ UNCHANGED minted

AdoptLiveAnew(id, version) ==   \* mutant: the row is overwritten
  /\ id \in DOMAIN Alive(sessions)
  /\ sessions' = Put(Alive(sessions), id, Opened(version))
  /\ terminated' = Kept(terminated)
  /\ silence' = [silence EXCEPT ![id] = 0]
  /\ UNCHANGED minted

(* Adopt of an id that another handler brought back meanwhile.               *)
AdoptLive(id, version) ==
  /\ id \in DOMAIN Alive(sessions)
  /\ sessions' = Put(Alive(sessions), id, Touched(sessions[id]))
  /\ terminated' = Kept(terminated)
  /\ silence' = [silence EXCEPT ![id] = 0]
  /\ UNCHANGED minted

(* Adopt of an id its client ended.                                          *)
EndedNever(id) == FALSE  \* mutant: tombstones are not consulted
Ended(id) == id \in DOMAIN Kept(terminated)

AdoptEnded(id) ==
  /\ id \notin DOMAIN Alive(sessions)
  /\ Ended(id)
  /\ sessions' = Alive(sessions)
  /\ terminated' = Kept(terminated)
  /\ UNCHANGED <<minted, silence>>

(* Adopt that makes the id live again.                                       *)
AdoptLost(id, version) ==
  /\ id \notin DOMAIN Alive(sessions)
  /\ ~Ended(id)
  /\ Usable(id)
  /\ sessions' = Put(Alive(sessions), id, Opened(version))
  /\ terminated' = Kept(terminated)
  /\ silence' = [silence EXCEPT ![id] = 0]
  /\ UNCHANGED minted

(* Adopt of what this server would never have minted: a fresh id instead.    *)
AdoptUnusable(id, version) ==
  /\ ~Usable(id)
  /\ Create(version)

(* Delete, which does not evict.                                             *)
Delete(id) ==
  /\ sessions' = Without(sessions, id)
  /\ terminated' = Put(terminated, id, 0)
  /\ quit' = quit \cup {id}

-----------------------------------------------------------------------------
(* The requests. *)

Free(h) == req[h].step \in {"idle", "replied"}
Answer(h, code, id) == req' = [req EXCEPT ![h] = Replied(code, id)]
Proceed(h, work) == req' = [req EXCEPT ![h] = work]

(* What a client may have in its Mcp-Session-Id header.                      *)
Presented == 1..minted \cup Foreign \cup {Unusable}

(* recoveredVersion of the MCP-Protocol-Version header.                      *)
Recovered(header) == IF header \in LegacyVersions THEN header ELSE Latest

(* No token, or a body that is not JSON.                                     *)
Refuse(h) ==
  /\ Free(h)
  /\ \E code \in {"bad request", "unauthorized"} : Answer(h, code, NoId)
  /\ UNCHANGED <<boots, configVars, storeVars, silence, quit>>

(* A request whose _meta names its version, modern or not.                   *)
Declared(h, method) ==
  /\ Free(h)
  /\ \E version \in Versions :
       Proceed(h, Resolved(method, NoId, version))
  /\ UNCHANGED <<boots, configVars, storeVars, silence, quit>>

(* One with neither _meta version nor session.                               *)
Undeclared(h, method) ==
  /\ Free(h)
  /\ \E header \in Versions, modernMetadata \in BOOLEAN :
       LET version == IF legacy /\ header = NoVersion /\ ~modernMetadata
                      THEN Oldest ELSE header
       IN Proceed(h, Resolved(method, NoId, version))
  /\ UNCHANGED <<boots, configVars, storeVars, silence, quit>>

(* serveInitialize: negotiateVersion echoes a legacy version, and answers    *)
(* anything else with the latest.                                            *)
Initialize(h) ==
  /\ Free(h)
  /\ IF legacy
     THEN /\ \E asked \in Versions : Create(Recovered(asked))
          /\ Answer(h, "ok", NewId)
     ELSE /\ Answer(h, "not found", NoId)
          /\ UNCHANGED <<storeVars, silence>>
  /\ UNCHANGED <<boots, configVars, quit>>

(* A request on a session, and the GET that opens the legacy stream: Get.    *)
Hit(h, method, id) ==
  /\ id \in DOMAIN Alive(sessions)
  /\ IF method = "GET"
     THEN Answer(h, "ok", id)
     ELSE Proceed(h, Resolved(method, id, sessions[id].version))

Miss(h, method, id, header) ==
  /\ id \notin DOMAIN Alive(sessions)
  /\ IF recovery
     THEN Proceed(h, Missing(method, id, Recovered(header)))
     ELSE Answer(h, "not found", NoId)

OnSession(h, method, id) ==
  /\ Free(h)
  /\ legacy
  /\ Get(id)
  /\ \/ Hit(h, method, id)
     \/ \E header \in LegacyVersions \cup {NoVersion} :
          Miss(h, method, id, header)
  /\ UNCHANGED <<boots, configVars, quit>>

(* What the handler does with the session Adopt gave it, if any.  A stream   *)
(* is answered with the id in the client's header.                           *)
Adopted(h, id, version) ==
  IF req[h].method = "GET"
  THEN Answer(h, "ok", req[h].id)
  ELSE Proceed(h, Resolved(req[h].method, id, version))

Adopt(h) ==
  /\ req[h].step = "missing"
  /\ LET id == req[h].id
         version == req[h].version
     IN \/ AdoptLive(id, version) /\ Adopted(h, id, sessions[id].version)
        \/ AdoptEnded(id) /\ Answer(h, "not found", NoId)
        \/ AdoptLost(id, version) /\ Adopted(h, id, version)
        \/ AdoptUnusable(id, version) /\ Adopted(h, NewId, version)
  /\ UNCHANGED <<boots, configVars, quit>>

(* DELETE.                                                                   *)
Teardown(h, id) ==
  /\ Free(h)
  /\ legacy
  /\ IF id \in DOMAIN sessions
     THEN Delete(id) /\ Answer(h, "no content", NoId)
     ELSE /\ Answer(h, "not found", NoId)
          /\ UNCHANGED <<sessions, terminated, quit>>
  /\ UNCHANGED <<boots, configVars, minted, silence>>

(* GET or DELETE without what the legacy revisions need, or without them.    *)
NotAllowed(h) ==
  /\ Free(h)
  /\ Answer(h, "not allowed", NoId)
  /\ UNCHANGED <<boots, configVars, storeVars, silence, quit>>

-----------------------------------------------------------------------------
(* After resolveVersion. *)

Supports(version, withLegacy) ==
  \/ version = Modern
  \/ withLegacy /\ version \in LegacyVersions

(* handle, up to Handle: notifications go straight through, a modern request *)
(* must agree with its headers, and the version must be one the server       *)
(* serves, as of the last reload.                                            *)
Dispatch(h) ==
  /\ req[h].step = "resolved"
  /\ LET method == req[h].method
         id == req[h].id
         version == req[h].version
     IN \/ /\ method = "notification"
           /\ Proceed(h, Handling(method, id, version))
        \/ /\ method # "notification" /\ version = Modern
           /\ Answer(h, "bad request", NoId)  \* the mirrored headers disagree
        \/ /\ method \notin {"notification", "discover"}
           /\ ~Supports(version, serverLegacy)
           /\ Answer(h, "unsupported", id)
        \/ /\ method = "listen"
           /\ Supports(version, serverLegacy)
           /\ Answer(h, IF version = Modern THEN "ok" ELSE "not found", id)
        \/ /\ \/ method = "discover"
              \/ /\ method \in {"call", "logging"}
                 /\ Supports(version, serverLegacy)
           /\ Proceed(h, Handling(method, id, version))
  /\ UNCHANGED <<boots, configVars, storeVars, silence, quit>>

(* Server.Handle: Refresh re-reads config.json first.  A context without a   *)
(* version takes it from _meta, where there is none either.                  *)
Handle(h) ==
  /\ req[h].step = "handling"
  /\ serverLegacy' = fileLegacy
  /\ LET method == req[h].method
         id == req[h].id
         served == Supports(req[h].version, serverLegacy')
         modernLog == method = "logging" /\ req[h].version = Modern
     IN \/ method = "notification" /\ Answer(h, "accepted", id)
        \/ method = "discover" /\ Answer(h, "ok", id)
        \/ /\ method \in {"call", "logging"}
           /\ \/ ~served /\ Answer(h, "unsupported", id)
              \/ served /\ modernLog /\ Answer(h, "not found", id)
              \/ served /\ ~modernLog /\ Answer(h, "ok", id)
  /\ UNCHANGED <<boots, legacy, recovery, fileLegacy, storeVars, silence,
                 quit>>

-----------------------------------------------------------------------------
(* The world outside. *)

Older(age) == IF age > TTL THEN age ELSE age + 1

Tick ==
  /\ sessions' = [i \in DOMAIN sessions |->
                    [sessions[i] EXCEPT !.idle = Older(@)]]
  /\ terminated' = [i \in DOMAIN terminated |-> Older(terminated[i])]
  /\ silence' = [i \in Ids |-> Older(silence[i])]
  /\ UNCHANGED <<boots, configVars, minted, req, quit>>

(* The operator edits config.json.                                           *)
Edit ==
  /\ fileLegacy' = ~fileLegacy
  /\ UNCHANGED <<boots, legacy, recovery, serverLegacy, storeVars, req,
                 silence, quit>>

(* The server stops, with whatever it was doing, and starts from the file.   *)
Restart ==
  /\ boots < MaxBoots
  /\ boots' = boots + 1
  /\ legacy' = fileLegacy
  /\ serverLegacy' = fileLegacy
  /\ sessions' = Nothing
  /\ terminated' = Nothing
  /\ req' = [h \in Handlers |-> Idle]
  /\ UNCHANGED <<recovery, fileLegacy, minted, silence, quit>>

Request(h) ==
  \/ Refuse(h)
  \/ Initialize(h)
  \/ NotAllowed(h)
  \/ \E method \in Methods : Declared(h, method) \/ Undeclared(h, method)
  \/ \E method \in Methods \cup {"GET"}, id \in Presented :
       OnSession(h, method, id)
  \/ \E id \in Presented : Teardown(h, id)
  \/ Adopt(h)
  \/ Dispatch(h)
  \/ Handle(h)

Next == (\E h \in Handlers : Request(h)) \/ Tick \/ Edit \/ Restart

Spec == Init /\ [][Next]_vars

-----------------------------------------------------------------------------
(* What the endpoint promises. *)

(* A session its client ended is not live as long as its tombstone stands,   *)
(* whoever else was in the middle of recovering it.                          *)
TombstonesHold == DOMAIN sessions \cap DOMAIN terminated = {}

(* And the tombstone stands for one timeout, unless the server restarts:     *)
(* recovery does not undo a teardown (Adopt, evictLocked).                   *)
TeardownKept ==
  [][\A i \in DOMAIN terminated :
       terminated[i] <= TTL /\ boots' = boots
         => i \in DOMAIN terminated' /\ i \notin DOMAIN sessions']_vars

(* The timeout is one of idleness: a session is not dropped within a timeout *)
(* of the last request on it, unless its client ends it.                     *)
ActiveStays ==
  [][\A i \in DOMAIN sessions :
       silence[i] <= TTL /\ boots' = boots
         => i \in DOMAIN sessions' \cup DOMAIN terminated']_vars

(* A live session never changes its version, though two handlers that both   *)
(* missed it adopt it one after the other.                                   *)
VersionKept ==
  [][\A i \in DOMAIN sessions \cap DOMAIN sessions' :
       silence[i] <= TTL /\ boots' = boots
         => sessions'[i].version = sessions[i].version]_vars

===============================================================================
