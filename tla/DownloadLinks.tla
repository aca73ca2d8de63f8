--------------------------- MODULE DownloadLinks ---------------------------
(***************************************************************************)
(* The temporary download links of downloads.go.  Calls of the tools run   *)
(* concurrently and share one table of links and, on stdio, one listener   *)
(* that the first link opens: its socket is opened without the lock, so    *)
(* calls race to install it, and Close races them all.  The stdio          *)
(* transport serves one request at a time, so it is the type's own         *)
(* contract, calls from any goroutine, that the model holds it to.         *)
(*                                                                         *)
(* A token is the number of the link it was minted for, since tokens never *)
(* repeat.  Time is a clock of a few ticks.  What a link points at is kept *)
(* out: the response comes from the link alone.                            *)
(***************************************************************************)
EXTENDS Naturals, FiniteSets

CONSTANTS
  Callers,      \* goroutines of calls of get_download_link
  MaxLinks,     \* cfg.MaxLinks; 0 means no cap
  Ttls,         \* the lifetimes a call may ask for, in ticks
  MaxToken,     \* bound: links ever published
  MaxTime,      \* bound: ticks of the clock
  Nobody        \* no caller: d.srv or d.base is unset

ASSUME DownloadAssumption ==
  /\ {MaxLinks, MaxToken, MaxTime} \subseteq Nat
  /\ Ttls \subseteq Nat \ {0}
  /\ Nobody \notin Callers

VARIABLES
  attached,  \* the transport serves the links; fixed before the first call
  closed,
  srv,       \* d.srv: the caller whose socket serves, or Nobody
  base,      \* d.base: whose socket the URLs name; Nobody when attached
  links,     \* [token -> expires]
  minted,    \* tokens minted so far
  now,
  sockets,   \* the callers whose socket is open in the operating system
  accepting, \* the callers whose socket a Serve goroutine has taken over
  halted,    \* the callers whose server has been told to Shutdown
  progress,  \* where each call is
  fresh,     \* the link a call is publishing: [token, at, expires]
  closer,    \* where Close is
  closing,   \* the server Close took away
  serving    \* the token whose file is on its way to a browser, 0 for none

dlVars == <<attached, closed, srv, base, links, minted, now, sockets,
            accepting, halted, progress, fresh, closer, closing, serving>>

server == <<attached, closed, srv, base>>
ports == <<sockets, accepting, halted>>
closeVars == <<closer, closing>>

Tokens == 1 .. MaxToken
NoLink == [token |-> 0, at |-> 0, expires |-> 0]

(* TLC: every variable keeps its type.                                      *)
DownloadTypeOK ==
  /\ attached \in BOOLEAN /\ closed \in BOOLEAN
  /\ {srv, base, closing} \subseteq Callers \cup {Nobody}
  /\ DOMAIN links \subseteq Tokens
  /\ \A t \in DOMAIN links : links[t] \in Nat
  /\ minted \in 0 .. MaxToken
  /\ now \in 0 .. MaxTime
  /\ {sockets, accepting, halted} \subseteq SUBSET Callers
  /\ progress \in [Callers -> {"idle", "listen", "install", "undo", "refuse",
                           "mint", "insert", "done"}]
  /\ fresh \in [Callers -> [token : Nat, at : Nat, expires : Nat]]
  /\ closer \in {"open", "shutdown", "waiting", "returned"}
  /\ serving \in Tokens \cup {0}

(* newDownloadServer, and Attach, which only start-up calls. *)
DownloadInit ==
  /\ attached \in BOOLEAN
  /\ closed = FALSE
  /\ srv = Nobody /\ base = Nobody
  /\ links = [t \in {} |-> 0]
  /\ minted = 0
  /\ now = 0
  /\ sockets = {} /\ accepting = {} /\ halted = {}
  /\ progress = [c \in Callers |-> "idle"]
  /\ fresh = [c \in Callers |-> NoLink]
  /\ closer = "open" /\ closing = Nobody
  /\ serving = 0

Advance(c, at) == progress' = [progress EXCEPT ![c] = at]

-----------------------------------------------------------------------------
(* The table. *)

(* The links purgeLocked drops at an instant. *)
Expired(at) == {t \in DOMAIN links : at >= links[t]}

(* The links evictSoonestLocked may drop from those left: a map has no       *)
(* order, so any of those that expire first.                                 *)
Soonest(left) == {t \in left : \A u \in left : links[t] <= links[u]}

Without(tokens) == [t \in DOMAIN links \ tokens |-> links[t]]

-----------------------------------------------------------------------------
(* get_download_link: Add. *)

(* ensureServing's first locked part. *)
AddBegins(c) ==
  /\ progress[c] = "idle"
  /\ \/ closed /\ Advance(c, "done")
     \/ ~closed /\ (attached \/ srv # Nobody) /\ Advance(c, "mint")
     \/ ~closed /\ ~attached /\ srv = Nobody /\ Advance(c, "listen")
  /\ UNCHANGED <<server, links, minted, now, ports, fresh, closeVars, serving>>

(* net.Listen, without the lock. *)
OpenSocket(c) ==
  /\ progress[c] = "listen"
  /\ \/ Advance(c, "done") /\ UNCHANGED sockets
     \/ Advance(c, "install") /\ sockets' = sockets \cup {c}
  /\ UNCHANGED <<server, links, minted, now, accepting, halted, fresh,
                 closeVars, serving>>

(* ensureServing's second locked part: the socket is installed unless the    *)
(* race to do so was lost, to another call or to Close.                      *)
Install(c) ==
  /\ progress[c] = "install"
  /\ \/ /\ ~(closed \/ srv # Nobody \/ attached)
        /\ srv' = c
        /\ base' = IF base = Nobody THEN c ELSE base
        /\ Advance(c, "mint")
     \/ /\ srv # Nobody \/ attached
        /\ Advance(c, "undo")
        /\ UNCHANGED <<srv, base>>
     \/ /\ closed /\ srv = Nobody /\ ~attached
        /\ Advance(c, "refuse")
        /\ UNCHANGED <<srv, base>>
  /\ UNCHANGED <<attached, closed, links, minted, now, ports, fresh,
                 closeVars, serving>>

(* The loser closes its socket; the answer was settled under the lock.       *)
GiveUpSocket(c) ==
  /\ progress[c] \in {"undo", "refuse"}
  /\ sockets' = sockets \ {c}
  /\ Advance(c, IF progress[c] = "undo" THEN "mint" ELSE "done")
  /\ UNCHANGED <<server, links, minted, now, accepting, halted, fresh,
                 closeVars, serving>>

(* The token and the time it counts from, both taken before the lock.          *)
Mint(c) ==
  /\ progress[c] = "mint"
  /\ minted < MaxToken
  /\ minted' = minted + 1
  /\ \E ttl \in Ttls :
       fresh' = [fresh EXCEPT ![c] =
                   [token |-> minted + 1, at |-> now, expires |-> now + ttl]]
  /\ Advance(c, "insert")
  /\ UNCHANGED <<server, links, now, ports, closeVars, serving>>

OneTooMany(c) ==  \* mutant: the cap is tested with > before the link is added
  /\ progress[c] = "insert"
  /\ \/ closed /\ UNCHANGED links
     \/ LET f == fresh[c]
            left == DOMAIN links \ Expired(f.at)
            full == MaxLinks > 0 /\ Cardinality(left) > MaxLinks
        IN /\ ~closed
           /\ \E out \in IF full THEN {{t} : t \in Soonest(left)} ELSE {{}} :
                links' = [t \in (left \ out) \cup {f.token} |->
                            IF t = f.token THEN f.expires ELSE links[t]]
  /\ Advance(c, "done")
  /\ fresh' = [fresh EXCEPT ![c] = NoLink]
  /\ UNCHANGED <<server, minted, now, ports, closeVars, serving>>

(* Add's locked part: purge, make room, insert.  URLFor then only reads what *)
(* no longer changes.                                                        *)
Insert(c) ==
  /\ progress[c] = "insert"
  /\ \/ closed /\ UNCHANGED links
     \/ LET f == fresh[c]
            left == DOMAIN links \ Expired(f.at)
            full == MaxLinks > 0 /\ Cardinality(left) >= MaxLinks
        IN /\ ~closed
           /\ \E out \in IF full THEN {{t} : t \in Soonest(left)} ELSE {{}} :
                links' = [t \in (left \ out) \cup {f.token} |->
                            IF t = f.token THEN f.expires ELSE links[t]]
  /\ Advance(c, "done")
  /\ fresh' = [fresh EXCEPT ![c] = NoLink]
  /\ UNCHANGED <<server, minted, now, ports, closeVars, serving>>

NextCall(c) ==
  /\ progress[c] = "done"
  /\ minted < MaxToken
  /\ Advance(c, "idle")
  /\ UNCHANGED <<server, links, minted, now, ports, fresh, closeVars, serving>>

-----------------------------------------------------------------------------
(* The other operations on the table. *)

(* revoke_download_link.                                                     *)
RevokeLink(t) ==
  /\ t \in DOMAIN links
  /\ links' = Without({t})
  /\ UNCHANGED <<server, minted, now, ports, progress, fresh, closeVars, serving>>

(* list_download_links purges first.                                         *)
ListLinks ==
  /\ links' = Without(Expired(now))
  /\ UNCHANGED <<server, minted, now, ports, progress, fresh, closeVars, serving>>

(* A tick of the janitor that ensureServing started along with the listener; *)
(* it ends when stopped is closed.                                           *)
JanitorTick ==
  /\ srv # Nobody /\ ~closed
  /\ Expired(now) # {}
  /\ links' = Without(Expired(now))
  /\ UNCHANGED <<server, minted, now, ports, progress, fresh, closeVars, serving>>

(* A browser reaches Handle where a listener accepts: lookup finds the link  *)
(* only before it expires, and drops it otherwise.  One response at a time   *)
(* is followed.                                                              *)
Fetch(t) ==
  /\ attached \/ accepting \cap sockets # {}
  /\ t \in DOMAIN links
  /\ serving = 0
  /\ IF now < links[t]
     THEN serving' = t /\ UNCHANGED links
     ELSE links' = Without({t}) /\ UNCHANGED serving
  /\ UNCHANGED <<server, minted, now, ports, progress, fresh, closeVars>>

FetchEnds ==
  /\ serving # 0
  /\ serving' = 0
  /\ UNCHANGED <<server, links, minted, now, ports, progress, fresh, closeVars>>

Tick ==
  /\ now < MaxTime
  /\ now' = now + 1
  /\ UNCHANGED <<server, links, minted, ports, progress, fresh, closeVars, serving>>

-----------------------------------------------------------------------------
(* The listener's own goroutine, and Close. *)

TakesOverRegardless(c) ==  \* mutant: a Shutdown that came first is overlooked
  /\ c \in sockets \ accepting
  /\ base = c
  /\ accepting' = accepting \cup {c}
  /\ UNCHANGED <<server, links, minted, now, sockets, halted, progress, fresh,
                 closeVars, serving>>

(* srv.Serve takes the listener over, unless Shutdown came first: then it    *)
(* returns at once and closes it.                                            *)
ServeTakesOver(c) ==
  /\ c \in sockets \ accepting
  /\ base = c
  /\ IF c \in halted
     THEN sockets' = sockets \ {c} /\ UNCHANGED accepting
     ELSE accepting' = accepting \cup {c} /\ UNCHANGED sockets
  /\ UNCHANGED <<server, links, minted, now, halted, progress, fresh, closeVars,
                 serving>>

CloseLocks ==
  /\ closer = "open"
  /\ closed' = TRUE
  /\ srv' = Nobody
  /\ closing' = srv
  /\ links' = Without(DOMAIN links)
  /\ closer' = IF srv = Nobody THEN "returned" ELSE "shutdown"
  /\ UNCHANGED <<attached, base, minted, now, ports, progress, fresh, serving>>

(* Shutdown closes the listeners Serve has taken over ...                    *)
CloseShutsDown ==
  /\ closer = "shutdown"
  /\ halted' = halted \cup {closing}
  /\ sockets' = sockets \ ({closing} \cap accepting)
  /\ closer' = "waiting"
  /\ UNCHANGED <<server, links, minted, now, accepting, progress, fresh, closing,
                 serving>>

(* ... and waits until no response is under way, or for its two seconds.     *)
CloseReturns ==
  /\ closer = "waiting"
  /\ closer' = "returned"
  /\ UNCHANGED <<server, links, minted, now, ports, progress, fresh, closing,
                 serving>>

-----------------------------------------------------------------------------

CallStep(c) ==
  \/ AddBegins(c)
  \/ OpenSocket(c)
  \/ Install(c)
  \/ GiveUpSocket(c)
  \/ Mint(c)
  \/ Insert(c)
  \/ NextCall(c)

CloseStep == CloseShutsDown \/ CloseReturns

DownloadStep ==
  \/ \E c \in Callers : CallStep(c) \/ ServeTakesOver(c)
  \/ \E t \in Tokens : RevokeLink(t) \/ Fetch(t)
  \/ FetchEnds
  \/ ListLinks
  \/ JanitorTick
  \/ Tick

DownloadSpec == DownloadInit /\ [][DownloadStep \/ CloseLocks \/ CloseStep]_dlVars

-----------------------------------------------------------------------------
(* Properties. *)

(* The table never holds more links than the cap, and none once the server   *)
(* is closed, not even one that was being published; and a link published at *)
(* the cap costs the one closest to expiry: whatever goes when another comes *)
(* expires no later than every link that stays.  However calls and Close     *)
(* race in ensureServing, a socket no call is still deciding about is the    *)
(* one listener the URLs name, and a server attached to its transport opens  *)
(* none (downloads.go:142-154, 193-250).                                     *)
WithinBounds ==
  /\ DownloadTypeOK
  /\ MaxLinks > 0 => Cardinality(DOMAIN links) <= MaxLinks
  /\ closed => DOMAIN links = {}
  /\ \A c \in sockets :
       progress[c] \in {"install", "undo", "refuse"} \/ (c = base /\ ~attached)
  /\ srv # Nobody => srv = base
RoomIsMadeBySoonest ==
  \A t \in DOMAIN links \ DOMAIN links', u \in DOMAIN links \cap DOMAIN links' :
    DOMAIN links' \ DOMAIN links # {} => links[t] <= links[u]

(* A file sets out to a browser only under a link that is in the table and   *)
(* has not expired, whether or not the janitor has come by since, and none   *)
(* sets out once Close has begun (downloads.go:290-312).                     *)
OnlyLiveLinksServe ==
  serving' \in {0, serving} \/
    (serving' \in DOMAIN links /\ now < links[serving'] /\ ~closed)

(* What the table holds, whom a full one makes room for, and what is served  *)
(* under it, however calls, the clock, browsers and Close race.              *)
LinksBounded ==
  [][WithinBounds' /\ RoomIsMadeBySoonest /\ OnlyLiveLinksServe]_dlVars

(* Once Close has begun the listener goes, whichever of Shutdown and the     *)
(* goroutine that serves it comes first, and the socket a call was still     *)
(* opening goes too.  And a listener of its own forgets the links that have  *)
(* expired, without anybody calling a tool; a server attached to its         *)
(* transport starts no janitor (downloads.go:113-117, 221-231, 252-267).     *)
LinksAndSocketsGo ==
  /\ closed ~> [](sockets = {})
  /\ (srv # Nobody /\ \E t \in DOMAIN links : now >= links[t])
       ~> (\A t \in DOMAIN links : now < links[t])

=============================================================================
