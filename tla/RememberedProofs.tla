--------------------------- MODULE RememberedProofs ---------------------------
(***************************************************************************)
(* What is proved of the two things that are remembered and must not be    *)
(* trusted for too long: the files a conversation has read (ReadTracking)  *)
(* and the sessions of the HTTP transport (HttpSessions).  They share no   *)
(* state; the theorems on each are for all values of its constants.        *)
(*                                                                         *)
(* Of the reads: no copy of a file older than a write under its name that  *)
(* the conversation was told of is left in it, and a note points at a read *)
(* that was.  Both rest on what a rewrite of the conversation may do       *)
(* (Rewritten) and must do (Thorough): a result becomes a note about one   *)
(* of the calls of its id, and none that should is left out.  A result     *)
(* that still holds what was read was asked for by a call of its id        *)
(* (HeldWasAsked): for an id of its own, that is the call the rewrite      *)
(* finds.                                                                  *)
(*                                                                         *)
(* Of the sessions: every step does one of five things to the store.       *)
(* StepsOfTheStore says so once, from the actions; the theorems then look  *)
(* at five cases.                                                          *)
(***************************************************************************)
EXTENDS ReadTracking, HttpSessions, WellFoundedInduction, TLAPS

-----------------------------------------------------------------------------
(* The calls of a conversation, and what they are. *)

(* A set of numbers that is not empty has a least one.                       *)
LEMMA Least ==
  ASSUME NEW T \in SUBSET Nat, T # {}
  PROVE  \E x \in T : \A y \in T : x <= y
PROOF
  <1> DEFINE R == {pair \in Nat \X Nat : pair[1] < pair[2]}
  <1>1. IsWellFoundedOn(R, Nat)
    <2>1. OpToRel(<, Nat) = R
      BY DEF OpToRel
    <2> QED
      BY <2>1, NatLessThanWellFounded
  <1>2. PICK x \in T : \A y \in T : ~(<<y, x>> \in R)
    <2> HIDE DEF R
    <2> QED
      BY <1>1, WFMin
  <1>3. ASSUME NEW y \in T PROVE x <= y
    <2>1. <<y, x>> \in Nat \X Nat
      OBVIOUS
    <2>2. ~(y < x)
      BY <1>2, <2>1
    <2> QED
      BY <2>2
  <1> QED
    BY <1>3

(* Of the places where a call is, there is a first.                          *)
LEMMA EarliestIsOne ==
  ASSUME NEW places \in SUBSET (Nat \X Nat), places # {}
  PROVE  Earliest(places) \in places
PROOF
  <1> DEFINE I == {p[1] : p \in places}
  <1>1. PICK i \in I : \A j \in I : i <= j
    <2>1. I \in SUBSET Nat /\ I # {}
      OBVIOUS
    <2> HIDE DEF I
    <2> QED
      BY <2>1, Least
  <1> DEFINE K == {p[2] : p \in {q \in places : q[1] = i}}
  <1>2. PICK k \in K : \A j \in K : k <= j
    <2>1. K \in SUBSET Nat /\ K # {}
      OBVIOUS
    <2> HIDE DEF K
    <2> QED
      BY <2>1, Least
  <1>3. PICK p \in places : p[1] = i /\ p[2] = k
    OBVIOUS
  <1>4. \A q \in places : p[1] < q[1] \/ (p[1] = q[1] /\ p[2] <= q[2])
    <2> SUFFICES ASSUME NEW q \in places, ~(p[1] < q[1])
                 PROVE  p[1] = q[1] /\ p[2] <= q[2]
      OBVIOUS
    <2>1. p[1] <= q[1] /\ p[1] \in Nat /\ q[1] \in Nat
      BY <1>1, <1>3
    <2>2. p[1] = q[1]
      BY <2>1
    <2>3. q[2] \in K
      BY <1>3, <2>2
    <2> QED
      BY <1>2, <1>3, <2>2, <2>3
  <1> QED
    BY <1>3, <1>4 DEF Earliest

(* An invocation that is given an id is a call, and otherwise as it was.     *)
LEMMA WithIdMade ==
  ASSUME NEW c \in Invocations, NEW id \in CallIds
  PROVE  LET d == WithId(c, id)
         IN /\ d \in Calls /\ d.id = id /\ d.tool = c.tool
            /\ IsRead(c) => /\ d.targets = c.targets /\ d.preserve = c.preserve
            /\ ~IsRead(c) => d.names = c.names
PROOF
  <1>1. WithId(c, id) \in Calls
    BY DEF Calls
  <1>2. CASE IsRead(c)
    <2>1. c \in ReadInvocation
      BY <1>2, TrackingAssumption
    <2>2. DOMAIN c = {"tool", "targets", "preserve"}
      BY <2>1 DEF ReadInvocation
    <2> QED
      BY <1>1, <1>2, <2>2 DEF WithId
  <1>3. CASE ~IsRead(c)
    <2>1. c \in WriteInvocation
      BY <1>3, TrackingAssumption
    <2>2. DOMAIN c = {"tool", "names"}
      BY <2>1 DEF WriteInvocation
    <2> QED
      BY <1>1, <1>3, <2>2 DEF WithId
  <1> QED
    BY <1>2, <1>3

(* A call reads targets that some invocation names, or is given names.       *)
LEMMA CallsTyped ==
  \A c \in Calls :
    /\ c.id \in CallIds
    /\ IsRead(c) => /\ c.targets \in Seq(Target) /\ Range(c.targets) \subseteq Targets
                    /\ c.preserve \in BOOLEAN
    /\ ~IsRead(c) => c.names \subseteq Names
PROOF
  <1> SUFFICES ASSUME NEW d \in Invocations, NEW id \in CallIds, NEW c, c = WithId(d, id)
               PROVE  /\ c.id \in CallIds
                      /\ IsRead(c) => /\ c.targets \in Seq(Target)
                                      /\ Range(c.targets) \subseteq Targets
                                      /\ c.preserve \in BOOLEAN
                      /\ ~IsRead(c) => c.names \subseteq Names
    BY DEF Calls
  <1>1. /\ c.id = id /\ c.tool = d.tool
        /\ IsRead(d) => c.targets = d.targets /\ c.preserve = d.preserve
        /\ ~IsRead(d) => c.names = d.names
    BY WithIdMade
  <1>2. IsRead(c) <=> IsRead(d)
    BY <1>1 DEF IsRead
  <1>3. CASE IsRead(d)
    <2>1. d.targets \in Seq(Target) /\ d.preserve \in BOOLEAN
      BY <1>3, TrackingAssumption DEF ReadInvocation
    <2>2. Range(d.targets) \subseteq Targets
      BY <1>3 DEF Targets
    <2> QED
      BY <1>1, <1>2, <1>3, <2>1, <2>2
  <1>4. CASE ~IsRead(d)
    <2>1. d.names \subseteq Names
      BY <1>4, TrackingAssumption DEF WriteInvocation
    <2> QED
      BY <1>1, <1>2, <1>4, <2>1
  <1> QED
    BY <1>3, <1>4

(* What a target spells has a name.                                          *)
LEMMA TargetsTyped ==
  \A t \in Targets : t \in Target /\ t.path \in Spellings /\ Canonical[t.path] \in Names
PROOF
  <1>1. \A t \in Targets : t \in Target
    <2> SUFFICES ASSUME NEW c \in Invocations, IsRead(c), NEW t \in Range(c.targets)
                 PROVE  t \in Target
      BY DEF Targets
    <2>1. c.targets \in Seq(Target)
      BY TrackingAssumption DEF ReadInvocation
    <2> QED
      BY <2>1 DEF Range
  <1> QED
    BY <1>1, TrackingAssumption DEF Target

(* A message asks for calls, or is a result with an id and a content.        *)
LEMMA MessagesTyped ==
  \A m \in Messages :
    /\ m.role \in {"assistant", "tool"}
    /\ m.role = "assistant" => m.calls \in Seq(Calls)
    /\ m.role = "tool" => m.id \in CallIds /\ m.content \in Contents
  BY DEF Messages

(* A result with an id and a content is a message.                           *)
LEMMA ResultsMade ==
  \A id \in CallIds, content \in Contents :
    /\ Result(id, content) \in Messages /\ Result(id, content).role = "tool"
    /\ Result(id, content).id = id /\ Result(id, content).content = content
  BY DEF Result, Messages

(* The places of a conversation are those of its calls.                      *)
LEMMA Placed ==
  ASSUME NEW h \in Seq(Messages)
  PROVE  /\ CallsIn(h) \in SUBSET (Nat \X Nat)
         /\ \A p \in CallsIn(h) : /\ p = <<p[1], p[2]>> /\ p[1] \in DOMAIN h
                                  /\ h[p[1]].role = "assistant"
                                  /\ p[2] \in DOMAIN h[p[1]].calls
                                  /\ CallAt(h, p) \in Calls
         /\ \A i \in DOMAIN h : h[i].role = "assistant" =>
              \A k \in DOMAIN h[i].calls : <<i, k>> \in CallsIn(h)
PROOF
  <1>1. \A i \in DOMAIN h : h[i].role = "assistant" => h[i].calls \in Seq(Calls)
    BY MessagesTyped
  <1>2. ASSUME NEW p \in CallsIn(h)
        PROVE  /\ p = <<p[1], p[2]>> /\ p[1] \in DOMAIN h
               /\ h[p[1]].role = "assistant"
               /\ p[2] \in DOMAIN h[p[1]].calls
               /\ CallAt(h, p) \in Calls
               /\ p \in Nat \X Nat
    <2>0. PICK i \in DOMAIN h : h[i].role = "assistant" /\ p \in {i} \X DOMAIN h[i].calls
      BY DEF CallsIn
    <2>1. PICK k \in DOMAIN h[i].calls : p = <<i, k>> /\ h[i].role = "assistant"
      BY <2>0
    <2>2. PICK cs \in Seq(Calls) : cs = h[i].calls
      BY <1>1, <2>1
    <2>3. i \in Nat /\ k \in Nat /\ cs[k] \in Calls
      BY <2>1, <2>2
    <2> QED
      BY <2>1, <2>2, <2>3 DEF CallAt
  <1> QED
    BY <1>2 DEF CallsIn

-----------------------------------------------------------------------------
(* What a rewrite of earlier results does. *)

Notes == {"stale", "changed"}

(* The result of a read becomes a note about one of the calls of its id.     *)
Noted(h, g, j, stale, why) ==
  /\ h[j].role = "tool" /\ ~IsReadNudge(h[j].content)
  /\ \E p \in Hits(h, h[j].id, stale) :
       g[j] = Result(h[j].id, Note(why, CallAt(h, p), stale))

(* A note about a call that reads has every name of it.                      *)
LEMMA NotesTyped ==
  ASSUME NEW why \in Notes, NEW c \in Calls, IsRead(c), NEW stale \in SUBSET Targets
  PROVE  /\ Note(why, c, stale) \in Contents
         /\ Note(why, c, stale).kind = why
         /\ Note(why, c, stale).hit = {Canonical[t.path] : t \in Range(c.targets) \cap stale}
         /\ \A t \in Range(c.targets) :
              Canonical[t.path] \in Note(why, c, stale).hit \cup Note(why, c, stale).others
PROOF
  <1>1. \A t \in Range(c.targets) : Canonical[t.path] \in Names
    BY CallsTyped, TargetsTyped
  <1> QED
    BY <1>1 DEF Note, Contents, Notes

(* The calls a rewrite finds read something it asks about; the earliest is   *)
(* one.                                                                      *)
LEMMA HitsFound ==
  ASSUME NEW h \in Seq(Messages), NEW id, NEW stale
  PROVE  /\ Hits(h, id, stale) \subseteq CallsIn(h)
         /\ \A p \in Hits(h, id, stale) : /\ CallAt(h, p) \in Calls /\ CallAt(h, p).id = id
                                          /\ IsRead(CallAt(h, p))
                                          /\ Range(CallAt(h, p).targets) \cap stale # {}
         /\ Hits(h, id, stale) # {} => Earliest(Hits(h, id, stale)) \in Hits(h, id, stale)
PROOF
  <1>1. Hits(h, id, stale) \subseteq CallsIn(h)
    BY DEF Hits
  <1>2. Hits(h, id, stale) \in SUBSET (Nat \X Nat)
    BY <1>1, Placed
  <1> QED
    BY <1>1, <1>2, Placed, EarliestIsOne DEF Hits

(* A conversation that is as it was, but for notes; and one where no result  *)
(* that should have become a note is left.                                   *)
Rewritten(h, r, stale, why) ==
  /\ r \in Seq(Messages) /\ Len(r) = Len(h)
  /\ \A j \in DOMAIN h : r[j] = h[j] \/ Noted(h, r, j, stale, why)
Thorough(h, r, skip, stale, why) ==
  \A j \in Results(h) :
    /\ h[j].id \notin skip /\ j \in FindToolResult(h, h[j].id)
    /\ Hits(h, h[j].id, stale) # {} /\ ~IsReadNudge(h[j].content)
    => r[j].content.kind = why

(* replaceReads makes notes of results, of all that it should, and of        *)
(* nothing else.                                                             *)
LEMMA Rewriting ==
  ASSUME NEW h \in Seq(Messages), NEW skip, NEW stale \in SUBSET Targets, NEW why \in Notes,
         NEW g, g = ReplaceReads(h, skip, stale, why)
  PROVE  Rewritten(h, g, stale, why) /\ Thorough(h, g, skip, stale, why)
PROOF
  <1>1. /\ DOMAIN g = DOMAIN h
        /\ \A j \in DOMAIN h :
             g[j] = IF /\ h[j].role = "tool" /\ h[j].id \notin skip
                       /\ j \in FindToolResult(h, h[j].id)
                       /\ Hits(h, h[j].id, stale) # {} /\ ~IsReadNudge(h[j].content)
                    THEN Result(h[j].id,
                           Note(why, CallAt(h, Earliest(Hits(h, h[j].id, stale))), stale))
                    ELSE h[j]
    BY DEF ReplaceReads
  <1>2. \A j \in DOMAIN h : g[j] = h[j] \/ Noted(h, g, j, stale, why)
    BY <1>1, HitsFound DEF Noted
  <1>3. ASSUME NEW j \in DOMAIN h PROVE g[j] \in Messages
    <2>1. CASE g[j] = h[j]
      BY <2>1
    <2>2. ASSUME NEW p \in Hits(h, h[j].id, stale), h[j].role = "tool",
                 g[j] = Result(h[j].id, Note(why, CallAt(h, p), stale))
          PROVE  g[j] \in Messages
      <3>1. CallAt(h, p) \in Calls /\ IsRead(CallAt(h, p))
        BY HitsFound
      <3>2. Note(why, CallAt(h, p), stale) \in Contents /\ h[j].id \in CallIds
        BY <2>2, <3>1, NotesTyped, MessagesTyped
      <3> QED
        BY <2>2, <3>2 DEF Messages, Result
    <2> QED
      BY <1>2, <2>1, <2>2 DEF Noted
  <1>4. g \in Seq(Messages) /\ Len(g) = Len(h)
    <2>1. DOMAIN h = 1..Len(h) /\ Len(h) \in Nat
      OBVIOUS
    <2>2. g = [j \in 1..Len(h) |-> g[j]]
      BY <1>1, <2>1 DEF ReplaceReads
    <2> QED
      BY <1>3, <2>1, <2>2
  <1>5. ASSUME NEW j \in DOMAIN h,
               h[j].role = "tool", h[j].id \notin skip, j \in FindToolResult(h, h[j].id),
               Hits(h, h[j].id, stale) # {}, ~IsReadNudge(h[j].content)
        PROVE  g[j].content.kind = why
    <2>1. PICK p \in Hits(h, h[j].id, stale) :
             g[j] = Result(h[j].id, Note(why, CallAt(h, p), stale))
      BY <1>1, <1>5, HitsFound
    <2>2. Note(why, CallAt(h, p), stale).kind = why
      BY <2>1, HitsFound, NotesTyped
    <2> QED
      BY <2>1, <2>2 DEF Result
  <1> QED
    BY <1>2, <1>4, <1>5 DEF Rewritten, Thorough, Results

-----------------------------------------------------------------------------
(* The invariant. *)

(* What a result still holds was asked for by a call of its id.              *)
AskedFor(c, content) ==
  IsRead(c) /\ \A e \in Range(content.entries) : e.target \in Range(c.targets)
HeldWasAsked(h) ==
  \A j \in Results(h) : h[j].content.kind = "held" =>
    \E c \in Answered(h, j) : AskedFor(c, h[j].content)

(* A conversation, and what it was told of the files' versions.              *)
Sound(h, seen) ==
  /\ ShowsNothingOlder(h, seen)
  /\ NotesPoint(h)
  /\ HeldWasAsked(h)

(* A call still to be answered is in the conversation.                       *)
Pending ==
  \A i \in DOMAIN calls : \E p \in CallsIn(history) : CallAt(history, p) = calls[i]
ToldOfThePast ==
  \A n \in Names, f \in Files :
    told[n][f] <= version[f] /\ saved.told[n][f] <= version[f]

TrackingInv ==
  /\ TrackingTypeOK
  /\ Sound(history, told)
  /\ Sound(saved.history, saved.told)
  /\ Pending
  /\ ToldOfThePast

-----------------------------------------------------------------------------
(* A conversation that a message is added to, after a rewrite or none. *)

Grows(h, g, stale, why) ==
  /\ h \in Seq(Messages) /\ g \in Seq(Messages) /\ Len(g) = Len(h) + 1
  /\ \A j \in DOMAIN h : g[j] = h[j] \/ Noted(h, g, j, stale, why)

(* No message of a conversation that grows changes its role or its id.       *)
LEMMA GrowsThus ==
  ASSUME NEW h, NEW g, NEW stale, NEW why, Grows(h, g, stale, why)
  PROVE  /\ Len(h) \in Nat /\ DOMAIN h = 1..Len(h) /\ DOMAIN g = 1..(Len(h) + 1)
         /\ \A j \in DOMAIN h : /\ g[j].role = h[j].role
                                /\ h[j].role = "assistant" => g[j] = h[j]
                                /\ h[j].role = "tool" => g[j].id = h[j].id
         /\ \A j \in DOMAIN g : j \in DOMAIN h \/ j = Len(h) + 1
PROOF
  <1>1. /\ Len(h) \in Nat /\ DOMAIN h = 1..Len(h) /\ DOMAIN g = 1..(Len(h) + 1)
        /\ \A j \in DOMAIN g : j \in DOMAIN h \/ j = Len(h) + 1
    BY DEF Grows
  <1>2. ASSUME NEW j \in DOMAIN h
        PROVE  /\ g[j].role = h[j].role
               /\ h[j].role = "assistant" => g[j] = h[j]
               /\ h[j].role = "tool" => g[j].id = h[j].id
    <2>1. CASE g[j] = h[j]
      BY <2>1
    <2>2. CASE Noted(h, g, j, stale, why)
      <3>1. PICK content : g[j] = Result(h[j].id, content) /\ h[j].role = "tool"
        BY <2>2 DEF Noted
      <3> QED
        BY <3>1 DEF Result
    <2> QED
      BY <2>1, <2>2 DEF Grows
  <1> QED
    BY <1>1, <1>2

(* Its calls and results are still there, and what was ambiguous is.         *)
LEMMA GrownKeeps ==
  ASSUME NEW h, NEW g, NEW stale, NEW why, Grows(h, g, stale, why)
  PROVE  /\ Results(h) \subseteq Results(g)
         /\ \A j \in Results(g) : j \in Results(h) \/ j = Len(h) + 1
         /\ \A p \in CallsIn(h) : p \in CallsIn(g) /\ CallAt(g, p) = CallAt(h, p)
         /\ \A id : Unambiguous(g, id) => Unambiguous(h, id)
         /\ \A j \in Results(h) : Answered(h, j) \subseteq Answered(g, j)
PROOF
  <1>1. /\ \A j \in DOMAIN h : /\ j \in DOMAIN g /\ g[j].role = h[j].role
                               /\ h[j].role = "assistant" => g[j] = h[j]
                               /\ h[j].role = "tool" => g[j].id = h[j].id
        /\ \A j \in DOMAIN g : j \in DOMAIN h \/ j = Len(h) + 1
        /\ h \in Seq(Messages) /\ g \in Seq(Messages)
    <2>1. /\ Len(h) \in Nat /\ DOMAIN h = 1..Len(h) /\ DOMAIN g = 1..(Len(h) + 1)
          /\ \A j \in DOMAIN h : /\ g[j].role = h[j].role
                                 /\ h[j].role = "assistant" => g[j] = h[j]
                                 /\ h[j].role = "tool" => g[j].id = h[j].id
          /\ \A j \in DOMAIN g : j \in DOMAIN h \/ j = Len(h) + 1
      BY GrowsThus
    <2>2. DOMAIN h \subseteq DOMAIN g
      BY <2>1
    <2> QED
      BY <2>1, <2>2 DEF Grows
  <1>2. /\ Results(h) \subseteq Results(g)
        /\ \A j \in Results(g) : j \in Results(h) \/ j = Len(h) + 1
        /\ \A j \in Results(h) : g[j].id = h[j].id
    BY <1>1 DEF Results
  <1>3. \A p \in CallsIn(h) : p \in CallsIn(g) /\ CallAt(g, p) = CallAt(h, p)
    <2> SUFFICES ASSUME NEW p \in CallsIn(h)
                 PROVE  p \in CallsIn(g) /\ CallAt(g, p) = CallAt(h, p)
      OBVIOUS
    <2>1. /\ p = <<p[1], p[2]>> /\ p[1] \in DOMAIN h
          /\ h[p[1]].role = "assistant"
          /\ p[2] \in DOMAIN h[p[1]].calls
      BY <1>1, Placed
    <2>2. g[p[1]] = h[p[1]] /\ p[1] \in DOMAIN g
      BY <1>1, <2>1
    <2>3. <<p[1], p[2]>> \in CallsIn(g)
      BY <1>1, <2>1, <2>2, Placed
    <2> QED
      BY <2>1, <2>2, <2>3 DEF CallAt
  <1>4. \A id : Unambiguous(g, id) => Unambiguous(h, id)
    BY <1>2, <1>3 DEF Unambiguous
  <1>5. \A j \in Results(h) : Answered(h, j) \subseteq Answered(g, j)
    BY <1>2, <1>3 DEF Answered
  <1> QED
    BY <1>2, <1>3, <1>4, <1>5

(* A result that still holds what was read was not rewritten.                *)
Superseded(c, stale) == {Canonical[t.path] : t \in Range(c.targets) \cap stale}
(* What a note says of the call that decided it.                             *)
NoteAbout(content, c, stale) ==
  /\ content.hit = Superseded(c, stale)
  /\ \A t \in Range(c.targets) : Canonical[t.path] \in content.hit \cup content.others
LEMMA NotedIsNote ==
  ASSUME NEW h \in Seq(Messages), NEW g, NEW j, NEW stale \in SUBSET Targets, NEW why \in Notes,
         Noted(h, g, j, stale, why)
  PROVE  /\ g[j].content.kind = why /\ IsReadNudge(g[j].content)
         /\ \E p \in Hits(h, h[j].id, stale) : NoteAbout(g[j].content, CallAt(h, p), stale)
PROOF
  <1>1. PICK p \in Hits(h, h[j].id, stale) :
          g[j] = Result(h[j].id, Note(why, CallAt(h, p), stale))
    BY DEF Noted
  <1>2. CallAt(h, p) \in Calls /\ IsRead(CallAt(h, p))
    BY HitsFound
  <1>3. g[j].content = Note(why, CallAt(h, p), stale)
    BY <1>1 DEF Result
  <1>4. /\ Note(why, CallAt(h, p), stale).kind = why
        /\ Note(why, CallAt(h, p), stale).hit = Superseded(CallAt(h, p), stale)
        /\ \A t \in Range(CallAt(h, p).targets) :
             Canonical[t.path] \in Note(why, CallAt(h, p), stale).hit
                                   \cup Note(why, CallAt(h, p), stale).others
    BY <1>2, NotesTyped DEF Superseded
  <1> QED
    BY <1>3, <1>4 DEF IsReadNudge, Notes, NoteAbout

(* What a result holds was asked for, if that is so of the new result.       *)
LEMMA HeldStays ==
  ASSUME NEW h, NEW g, NEW stale \in SUBSET Targets, NEW why \in Notes, Grows(h, g, stale, why),
         HeldWasAsked(h),
         LET k == Len(h) + 1
         IN g[k].role = "tool" /\ g[k].content.kind = "held" =>
              \E c \in Answered(g, k) : AskedFor(c, g[k].content)
  PROVE  HeldWasAsked(g)
PROOF
  <1> SUFFICES ASSUME NEW j \in Results(g), g[j].content.kind = "held"
               PROVE  \E c \in Answered(g, j) : AskedFor(c, g[j].content)
    BY DEF HeldWasAsked
  <1>1. CASE j \in Results(h)
    <2>1. j \in DOMAIN h /\ h \in Seq(Messages)
      BY <1>1 DEF Results, Grows
    <2>2. g[j] = h[j]
      BY <2>1, NotedIsNote DEF Grows, IsReadNudge
    <2>3. PICK c \in Answered(h, j) : AskedFor(c, h[j].content)
      BY <1>1, <2>2 DEF HeldWasAsked
    <2>4. c \in Answered(g, j)
      BY <1>1, GrownKeeps
    <2> QED
      BY <2>2, <2>3, <2>4
  <1>2. CASE j = Len(h) + 1
    BY <1>2 DEF Results
  <1> QED
    BY <1>1, <1>2, GrownKeeps

(* Unless it was rewritten for it, no old result shows what a write changed. *)
ShownAlike(h, r, seen, now) ==
  \A j \in Results(h) :
    r[j] = h[j] /\ h[j].content.kind = "held" /\ Unambiguous(h, h[j].id) =>
      \A e \in Range(h[j].content.entries) :
        now[Canonical[e.target.path]] = seen[Canonical[e.target.path]]

(* Nothing older than a write is shown, if the write rewrote what showed it. *)
LEMMA ShownStays ==
  ASSUME NEW h, NEW g, NEW stale \in SUBSET Targets, NEW why \in Notes, Grows(h, g, stale, why),
         NEW seen, NEW now, ShowsNothingOlder(h, seen),
         ShownAlike(h, g, seen, now),
         LET k == Len(h) + 1
         IN g[k].role = "tool" /\ g[k].content.kind = "held" =>
              \A e \in Range(g[k].content.entries) :
                e.shown => e.version >= now[Canonical[e.target.path]][e.path]
  PROVE  ShowsNothingOlder(g, now)
PROOF
  <1> SUFFICES ASSUME NEW j \in Results(g), g[j].content.kind = "held",
                      Unambiguous(g, g[j].id), NEW e \in Range(g[j].content.entries), e.shown
               PROVE  e.version >= now[Canonical[e.target.path]][e.path]
    BY DEF ShowsNothingOlder
  <1>1. CASE j \in Results(h)
    <2>1. j \in DOMAIN h /\ h \in Seq(Messages)
      BY <1>1 DEF Results, Grows
    <2>2. g[j] = h[j]
      BY <2>1, NotedIsNote DEF Grows, IsReadNudge
    <2>3. Unambiguous(h, h[j].id)
      BY <2>2, GrownKeeps
    <2>4. e.version >= seen[Canonical[e.target.path]][e.path]
      BY <1>1, <2>2, <2>3 DEF ShowsNothingOlder
    <2>5. now[Canonical[e.target.path]] = seen[Canonical[e.target.path]]
      BY <1>1, <2>2, <2>3 DEF ShownAlike
    <2> QED
      BY <2>4, <2>5
  <1>2. CASE j = Len(h) + 1
    BY <1>2 DEF Results
  <1> QED
    BY <1>1, <1>2, GrownKeeps

(* Where a note pointed, it still does: if the later read was noted in turn, *)
(* the only call of its id decided what its note says.                       *)
LEMMA ToldStays ==
  ASSUME NEW h, NEW g, NEW stale \in SUBSET Targets, NEW why \in Notes, Grows(h, g, stale, why),
         HeldWasAsked(h), NEW k \in Results(h), NEW f,
         Unambiguous(h, h[k].id) => StillTold(h[k].content, f)
  PROVE  Unambiguous(g, g[k].id) => StillTold(g[k].content, f)
PROOF
  <1> SUFFICES ASSUME Unambiguous(g, g[k].id) PROVE StillTold(g[k].content, f)
    OBVIOUS
  <1>1. k \in DOMAIN h /\ h \in Seq(Messages) /\ h[k].role = "tool"
    BY DEF Results, Grows
  <1>2. g[k].id = h[k].id
    BY <1>1, GrowsThus
  <1>3. Unambiguous(h, h[k].id) /\ StillTold(h[k].content, f)
    BY <1>2, GrownKeeps
  <1>4. CASE g[k] = h[k]
    BY <1>3, <1>4
  <1>5. CASE Noted(h, g, k, stale, why)
    <2>1. h[k].content.kind = "held"
      BY <1>3, <1>5 DEF StillTold, Noted
    <2>2. PICK e \in Range(h[k].content.entries) : Canonical[e.target.path] = f
      BY <1>3, <1>5 DEF StillTold, Noted
    <2>3. PICK c \in Answered(h, k) : AskedFor(c, h[k].content)
      BY <2>1 DEF HeldWasAsked
    <2>4. PICK q \in CallsIn(h) : CallAt(h, q) = c /\ CallAt(h, q).id = h[k].id
      BY <2>3 DEF Answered
    <2>5. PICK p \in Hits(h, h[k].id, stale) : NoteAbout(g[k].content, CallAt(h, p), stale)
      BY <1>1, <1>5, NotedIsNote
    <2>6. p \in CallsIn(h) /\ CallAt(h, p).id = h[k].id
      BY <1>1, <2>5, HitsFound
    <2>7. p = q
      BY <1>3, <2>4, <2>6 DEF Unambiguous
    <2>8. e.target \in Range(c.targets) /\ f = Canonical[e.target.path]
      BY <2>2, <2>3 DEF AskedFor
    <2>9. f \in g[k].content.hit \cup g[k].content.others
      BY <2>4, <2>5, <2>7, <2>8 DEF NoteAbout
    <2>10. IsReadNudge(g[k].content)
      BY <1>1, <1>5, NotedIsNote
    <2> QED
      BY <2>9, <2>10 DEF StillTold
  <1> QED
    BY <1>1, <1>4, <1>5 DEF Grows

(* The read that a note points at: the result just added.                    *)
JustRead(g, k, stale) ==
  /\ k \in Results(g) /\ g[k].content.kind = "held"
  /\ \E c \in Answered(g, k) :
       /\ IsRead(c)
       /\ \A t \in stale : \E u \in Range(c.targets) :
            /\ Canonical[u.path] = Canonical[t.path] /\ Covers(u, t)
            /\ \E e \in Range(g[k].content.entries) :
                 Canonical[e.target.path] = Canonical[u.path] /\ (e.whole \/ ~e.shown)

(* The kind of a result.                                                     *)
SaysOf(g, k, kind) == g[k].role = "tool" /\ g[k].content.kind = kind
(* Result j is a note that has the name f; and it points at a read of it.    *)
Mentions(g, j, f) ==
  SaysOf(g, j, "stale") /\ Unambiguous(g, g[j].id) /\ f \in g[j].content.hit
Points(g, j, f) ==
  \E k \in Results(g), c \in Answered(g, j) :
    /\ k > j
    /\ \E t \in Range(c.targets) : Canonical[t.path] = f /\ ReadAgain(g, k, f, t)
    /\ Unambiguous(g, g[k].id) => StillTold(g[k].content, f)

(* The new message is the read that the notes made with it point at.         *)
Backs(h, g, stale, why) ==
  /\ why = "stale" => JustRead(g, Len(h) + 1, stale)
  /\ ~SaysOf(g, Len(h) + 1, "stale")

LEMMA NamesPoint ==
  ASSUME NEW g
  PROVE  NotesPoint(g) <=> \A j \in DOMAIN g : \A f : Mentions(g, j, f) => Points(g, j, f)
  BY DEF NotesPoint, Mentions, Points, SaysOf, Results

(* A note points at a later read, if a rewrite that makes notes of old reads *)
(* comes with the read they give way to.                                     *)
LEMMA PointersStay ==
  ASSUME NEW h, NEW g, NEW stale \in SUBSET Targets, NEW why \in Notes, Grows(h, g, stale, why),
         HeldWasAsked(h), NotesPoint(h), Backs(h, g, stale, why)
  PROVE  NotesPoint(g)
PROOF
  <1> SUFFICES ASSUME NEW j \in DOMAIN g, NEW f, Mentions(g, j, f) PROVE Points(g, j, f)
    BY NamesPoint
  <1>0. h \in Seq(Messages)
    BY DEF Grows
  <1>1. j \in Results(h) /\ j \in DOMAIN h /\ h[j].role = "tool"
    <2>1. j \in Results(h) \/ j = Len(h) + 1
      BY GrownKeeps DEF Mentions, SaysOf, Results
    <2>2. SaysOf(g, j, "stale")
      BY DEF Mentions
    <2>3. j # Len(h) + 1
      BY <2>2 DEF Backs
    <2> QED
      BY <2>1, <2>3 DEF Results
  <1>2. g[j].id = h[j].id /\ Len(h) \in Nat /\ DOMAIN h = 1..Len(h)
    BY <1>1, GrowsThus
  <1>3. CASE g[j] = h[j]
    <2>1. Unambiguous(h, h[j].id)
      BY <1>2, GrownKeeps DEF Mentions
    <2>2. PICK k \in Results(h), c \in Answered(h, j) :
            /\ k > j
            /\ \E t \in Range(c.targets) : Canonical[t.path] = f /\ ReadAgain(h, k, f, t)
            /\ Unambiguous(h, h[k].id) => StillTold(h[k].content, f)
      <3>1. Mentions(h, j, f)
        BY <1>3, <2>1 DEF Mentions, SaysOf
      <3> QED
        BY <1>1, <3>1, NamesPoint DEF Points
    <2>3. k \in Results(g) /\ c \in Answered(g, j)
      BY <1>1, GrownKeeps
    <2>4. \A t : ReadAgain(h, k, f, t) => ReadAgain(g, k, f, t)
      BY GrownKeeps DEF ReadAgain
    <2>5. Unambiguous(g, g[k].id) => StillTold(g[k].content, f)
      BY <2>2, ToldStays
    <2> QED
      BY <2>2, <2>3, <2>4, <2>5 DEF Points
  <1>4. CASE Noted(h, g, j, stale, why)
    <2>1. why = "stale"
      <3>1. g[j].content.kind = why
        BY <1>0, <1>4, NotedIsNote
      <3> QED
        BY <3>1 DEF Mentions, SaysOf
    <2>2. PICK p \in Hits(h, h[j].id, stale) : NoteAbout(g[j].content, CallAt(h, p), stale)
      BY <1>0, <1>4, NotedIsNote
    <2>3. PICK t \in Range(CallAt(h, p).targets) \cap stale : f = Canonical[t.path]
      BY <2>2 DEF Mentions, Superseded, NoteAbout
    <2>4. PICK d : d = CallAt(h, p)
      OBVIOUS
    <2>5. d \in Answered(g, j)
      <3>1. p \in CallsIn(h) /\ CallAt(h, p).id = h[j].id
        BY <1>0, <1>2, HitsFound
      <3>2. d \in Answered(h, j)
        BY <2>4, <3>1 DEF Answered
      <3> QED
        BY <1>1, <3>2, GrownKeeps
    <2>6. PICK k : k = Len(h) + 1
      OBVIOUS
    <2>7. k \in Results(g) /\ k > j /\ g[k].content.kind = "held"
      BY <1>1, <1>2, <2>1, <2>6 DEF JustRead, Backs
    <2>8. PICK c \in Answered(g, k) :
            /\ IsRead(c)
            /\ \E u \in Range(c.targets) :
                 /\ Canonical[u.path] = Canonical[t.path] /\ Covers(u, t)
                 /\ \E e \in Range(g[k].content.entries) :
                      /\ Canonical[e.target.path] = Canonical[u.path]
                      /\ e.whole \/ ~e.shown
      BY <2>1, <2>3, <2>6 DEF JustRead, Backs
    <2>9. ReadAgain(g, k, f, t)
      BY <2>3, <2>8 DEF ReadAgain
    <2>10. StillTold(g[k].content, f)
      BY <2>3, <2>7, <2>8 DEF StillTold
    <2> QED
      BY <2>3, <2>4, <2>5, <2>7, <2>9, <2>10 DEF Points
  <1> QED
    BY <1>1, <1>3, <1>4 DEF Grows

-----------------------------------------------------------------------------
(* The steps. *)

(* The new message, and the ones before it.                                  *)
Added(h, r, g, m) == g[Len(h) + 1] = m /\ \A j \in DOMAIN h : g[j] = r[j]
LEMMA Adding ==
  ASSUME NEW h \in Seq(Messages), NEW r, NEW m \in Messages, NEW g, g = Append(r, m),
         NEW stale \in SUBSET Targets, NEW why \in Notes,
         Rewritten(h, r, stale, why)
  PROVE  Grows(h, g, stale, why) /\ Added(h, r, g, m)
PROOF
  <1>2. /\ g \in Seq(Messages) /\ Len(g) = Len(h) + 1 /\ g[Len(h) + 1] = m
        /\ \A j \in DOMAIN h : g[j] = r[j]
    BY DEF Rewritten
  <1>3. \A j \in DOMAIN h : g[j] = h[j] \/ Noted(h, g, j, stale, why)
    BY <1>2 DEF Noted, Rewritten
  <1> QED
    BY <1>2, <1>3 DEF Grows, Added

(* The call that is answered is one of the conversation's.                   *)
LEMMA NextCall ==
  ASSUME TrackingTypeOK, Pending, calls # <<>>
  PROVE  /\ calls[1] \in Calls
         /\ \E p \in CallsIn(history) : CallAt(history, p) = calls[1]
         /\ Tail(calls) \in Seq(Calls)
         /\ \A i \in DOMAIN Tail(calls) : i + 1 \in DOMAIN calls /\ Tail(calls)[i] = calls[i + 1]
PROOF
  <1>1. calls \in Seq(Calls)
    BY DEF TrackingTypeOK
  <1>2. 1 \in DOMAIN calls
    BY <1>1
  <1> QED
    BY <1>1, <1>2 DEF Pending

(* What is pending is still in a conversation that grows.                    *)
LEMMA PendingStays ==
  ASSUME TrackingTypeOK, Pending, calls # <<>>, calls' = Tail(calls), NEW stale, NEW why,
         Grows(history, history', stale, why)
  PROVE  Pending'
PROOF
  <1>1. PICK g : g = history'
    OBVIOUS
  <1>2. \A p \in CallsIn(history) : p \in CallsIn(g) /\ CallAt(g, p) = CallAt(history, p)
    BY <1>1, GrownKeeps
  <1>3. ASSUME NEW i \in DOMAIN Tail(calls)
        PROVE  \E p \in CallsIn(g) : CallAt(g, p) = Tail(calls)[i]
    BY <1>2, NextCall DEF Pending
  <1>4. Pending' <=> \A i \in DOMAIN calls' : \E p \in CallsIn(g) : CallAt(g, p) = calls'[i]
    BY <1>1 DEF Pending
  <1> QED
    BY <1>3, <1>4

(* An answer that shows nothing, whatever it rewrites and whatever changed.  *)
LEMMA PlainAnswer ==
  ASSUME TrackingInv, calls # <<>>, NEW r, NEW stale \in SUBSET Targets,
         Rewritten(history, r, stale, "changed"), AnswerCall(r, Plain),
         NEW now, ShownAlike(history, r, told, now)
  PROVE  /\ history' \in Seq(Messages) /\ calls' \in Seq(Calls) /\ Pending'
         /\ \A g : g = history' => Sound(g, now)
PROOF
  <1>0. TrackingTypeOK /\ Pending
    BY DEF TrackingInv
  <1>1. /\ calls[1] \in Calls /\ Tail(calls) \in Seq(Calls)
        /\ history \in Seq(Messages)
    BY <1>0, NextCall DEF TrackingTypeOK
  <1>2. PICK m \in Messages : m = Result(calls[1].id, Plain) /\ m.content = Plain
    <2>1. calls[1].id \in CallIds
      BY <1>1, CallsTyped
    <2>2. Plain \in Contents
      BY DEF Plain, Contents
    <2> QED
      BY <2>1, <2>2, ResultsMade
  <1>3. PICK g : g = Append(r, m) /\ g = history'
    BY <1>2 DEF AnswerCall
  <1>4. PICK why \in Notes : why = "changed"
    BY DEF Notes
  <1>5. /\ Grows(history, g, stale, why)
        /\ g[Len(history) + 1] = m
        /\ \A j \in DOMAIN history : g[j] = r[j]
    <2>1. Rewritten(history, r, stale, why)
      BY <1>4
    <2>2. g = Append(r, m)
      BY <1>3
    <2>3. Grows(history, g, stale, why) /\ Added(history, r, g, m)
      BY <1>1, <2>1, <2>2, Adding
    <2> QED
      BY <2>3 DEF Added
  <1>6. g \in Seq(Messages) /\ calls' = Tail(calls)
    BY <1>5 DEF Grows, AnswerCall
  <1>7. Pending'
    BY <1>3, <1>5, <1>6, PendingStays DEF TrackingInv
  <1>8. m.content.kind # "held" /\ m.content.kind # "stale"
    BY <1>2 DEF Plain
  <1>9. HeldWasAsked(g)
    BY <1>4, <1>5, <1>8, HeldStays DEF TrackingInv, Sound
  <1>10. NotesPoint(g)
    <2>1. Backs(history, g, stale, why)
      BY <1>4, <1>5, <1>8 DEF SaysOf, Backs
    <2>2. HeldWasAsked(history) /\ NotesPoint(history)
      BY DEF TrackingInv, Sound
    <2> QED
      BY <1>4, <1>5, <2>1, <2>2, PointersStay
  <1>11. ShowsNothingOlder(g, now)
    <2>1. ShowsNothingOlder(history, told)
      BY DEF TrackingInv, Sound
    <2>2. ShownAlike(history, g, told, now)
      BY <1>5 DEF Results, ShownAlike
    <2> QED
      BY <1>4, <1>5, <1>8, <2>1, <2>2, ShownStays
  <1> QED
    BY <1>1, <1>3, <1>6, <1>7, <1>9, <1>10, <1>11 DEF Sound

(* What a read returns: an entry for each target, as the file it acted on is *)
(* now.                                                                      *)
EntriesOf(c, es, cut) ==
  /\ \A e \in Range(es) :
       /\ e.target \in Range(c.targets)
       /\ e.shown => e.path \in Files /\ e.version = version[e.path]
  /\ \A u \in Range(c.targets) : \E e \in Range(es) :
       e.target = u /\ (cut \/ e.whole \/ ~e.shown)

(* A read returns a content, with an entry for each of its targets.          *)
LEMMA EntriesMade ==
  ASSUME TrackingTypeOK, NEW c \in Calls, IsRead(c), NEW failed, NEW cut \in BOOLEAN,
         NEW acts \in ActsOn(c, failed), NEW es, es = Entries(c, failed, cut, acts)
  PROVE  /\ Held(es) \in Contents /\ Held(es).kind = "held" /\ Held(es).entries = es
         /\ EntriesOf(c, es, cut)
PROOF
  <1>1. PICK ts \in Seq(Target) : ts = c.targets /\ Range(ts) \subseteq Targets
    BY CallsTyped
  <1>2. version \in [Files -> 0..MaxVersion] /\ 0 \in 0..MaxVersion
    BY TrackingAssumption DEF TrackingTypeOK
  <1>3. /\ DOMAIN es = DOMAIN ts
        /\ \A i \in DOMAIN ts :
             es[i] = [target |-> ts[i], path |-> acts[i],
                      whole |-> i \notin failed /\ ~cut, shown |-> i \notin failed,
                      version |-> IF i \in failed THEN 0 ELSE version[acts[i]]]
    BY <1>1 DEF Entries
  <1>4. \A i \in DOMAIN ts :
          /\ ts[i] \in Targets /\ acts[i] \in Names
          /\ i \notin failed => acts[i] \in Files
    <2>1. \A i \in DOMAIN ts : ts[i] \in Targets /\ Canonical[ts[i].path] \in Names
      BY <1>1, TargetsTyped DEF Range
    <2>2. acts \in [DOMAIN ts -> Names]
      BY <1>1 DEF ActsOn
    <2>3. \A i \in DOMAIN ts : i \notin failed => acts[i] \in Reached[Canonical[ts[i].path]]
      BY <1>1, <2>2 DEF ActsOn
    <2> QED
      BY <2>1, <2>2, <2>3, TrackingAssumption
  <1>5. ASSUME NEW i \in DOMAIN ts
        PROVE  /\ es[i].target = ts[i]
               /\ es[i].shown => es[i].path \in Files /\ es[i].version = version[es[i].path]
               /\ cut \/ es[i].whole \/ ~es[i].shown
               /\ es[i] \in [target : Targets, path : Names, whole : BOOLEAN,
                             shown : BOOLEAN, version : 0..MaxVersion]
    <2>1. PICK f \in Names, v \in 0..MaxVersion :
            /\ f = acts[i] /\ v = (IF i \in failed THEN 0 ELSE version[f])
            /\ i \notin failed => f \in Files
      BY <1>2, <1>4
    <2>2. PICK w \in BOOLEAN, s \in BOOLEAN :
            w = (i \notin failed /\ ~cut) /\ s = (i \notin failed)
      OBVIOUS
    <2>3. es[i] = [target |-> ts[i], path |-> f, whole |-> w, shown |-> s, version |-> v]
      BY <1>3, <2>1, <2>2
    <2>4. cut \/ w \/ ~s
      BY <2>2
    <2>5. s => f \in Files /\ v = version[f]
      BY <2>1, <2>2
    <2> QED
      BY <1>4, <2>3, <2>4, <2>5
  <1>6. es \in Seq([target : Targets, path : Names, whole : BOOLEAN,
                    shown : BOOLEAN, version : 0..MaxVersion])
    <2>1. DOMAIN ts = 1..Len(ts) /\ Len(ts) \in Nat
      BY <1>1
    <2>2. es = [i \in 1..Len(ts) |-> es[i]]
      BY <1>1, <1>3, <2>1 DEF Entries
    <2> QED
      BY <1>3, <1>5, <2>1, <2>2
  <1>7. EntriesOf(c, es, cut)
    <2>1. ASSUME NEW e \in Range(es)
          PROVE  /\ e.target \in Range(c.targets)
                 /\ e.shown => e.path \in Files /\ e.version = version[e.path]
      <3>1. PICK i \in DOMAIN ts : e = es[i]
        BY <1>3 DEF Range
      <3>2. ts[i] \in Range(ts)
        BY DEF Range
      <3> QED
        BY <1>1, <1>5, <3>1, <3>2
    <2>2. ASSUME NEW u \in Range(c.targets)
          PROVE  \E e \in Range(es) : e.target = u /\ (cut \/ e.whole \/ ~e.shown)
      <3>1. PICK i \in DOMAIN ts : u = ts[i]
        BY <1>1 DEF Range
      <3>2. es[i] \in Range(es)
        BY <1>3 DEF Range
      <3> QED
        BY <1>5, <3>1, <3>2
    <2> QED
      BY <2>1, <2>2 DEF EntriesOf
  <1> QED
    BY <1>6, <1>7 DEF Held, Contents

(* An answer that shows what was read, and the old reads it supersedes.      *)
Supersedes(c, content, stale) ==
  \A t \in stale : \E u \in Range(c.targets) :
    /\ Canonical[u.path] = Canonical[t.path] /\ Covers(u, t)
    /\ \E e \in Range(content.entries) :
         Canonical[e.target.path] = Canonical[u.path] /\ (e.whole \/ ~e.shown)

(* The answer of a read keeps the conversation sound.                        *)
LEMMA HeldAnswer ==
  ASSUME TrackingInv, calls # <<>>, NEW r, NEW stale \in SUBSET Targets, NEW why \in Notes,
         Rewritten(history, r, stale, why),
         NEW content \in Contents, content.kind = "held", AnswerCall(r, content),
         AskedFor(calls[1], content),
         \A e \in Range(content.entries) :
           e.shown => e.version >= told[Canonical[e.target.path]][e.path],
         why = "stale" => Supersedes(calls[1], content, stale)
  PROVE  /\ history' \in Seq(Messages) /\ calls' \in Seq(Calls) /\ Pending'
         /\ \A g : g = history' => Sound(g, told)
PROOF
  <1>0. TrackingTypeOK /\ Pending
    BY DEF TrackingInv
  <1>1. /\ calls[1] \in Calls /\ Tail(calls) \in Seq(Calls)
        /\ history \in Seq(Messages)
    BY <1>0, NextCall DEF TrackingTypeOK
  <1>2. PICK m \in Messages : /\ m = Result(calls[1].id, content) /\ m.content = content
                              /\ m.role = "tool" /\ m.id = calls[1].id
    BY <1>1, CallsTyped, ResultsMade
  <1>3. PICK g : g = Append(r, m) /\ g = history'
    BY <1>2 DEF AnswerCall
  <1>4. PICK k : k = Len(history) + 1
    OBVIOUS
  <1>5. Grows(history, g, stale, why) /\ Added(history, r, g, m)
    BY <1>1, <1>3, Adding
  <1>6. g \in Seq(Messages) /\ calls' = Tail(calls)
    BY <1>5 DEF Grows, AnswerCall
  <1>7. Pending'
    BY <1>3, <1>5, <1>6, PendingStays DEF TrackingInv
  <1>8. g[k] = m /\ k \in Results(g)
    <2>1. DOMAIN g = 1..(Len(history) + 1) /\ Len(history) \in Nat
      BY <1>5, GrowsThus
    <2> QED
      BY <1>2, <1>4, <1>5, <2>1 DEF Added, Results
  <1>9. calls[1] \in Answered(g, k)
    <2>1. PICK p \in CallsIn(history) : CallAt(history, p) = calls[1]
      BY <1>0, NextCall
    <2>2. p \in CallsIn(g) /\ CallAt(g, p) = calls[1]
      BY <1>5, <2>1, GrownKeeps
    <2> QED
      BY <1>2, <1>8, <2>2 DEF Answered
  <1>10. HeldWasAsked(g)
    BY <1>2, <1>4, <1>5, <1>8, <1>9, HeldStays DEF TrackingInv, Sound
  <1>11. NotesPoint(g)
    <2>1. why = "stale" => JustRead(g, k, stale)
      BY <1>2, <1>8, <1>9 DEF JustRead, Supersedes, AskedFor
    <2>2. ~SaysOf(g, k, "stale")
      BY <1>2, <1>8 DEF SaysOf
    <2>3. Backs(history, g, stale, why)
      BY <1>4, <2>1, <2>2 DEF Backs
    <2>4. HeldWasAsked(history) /\ NotesPoint(history)
      BY DEF TrackingInv, Sound
    <2> QED
      BY <1>5, <2>3, <2>4, PointersStay
  <1>12. ShowsNothingOlder(g, told)
    <2>1. ShowsNothingOlder(history, told)
      BY DEF TrackingInv, Sound
    <2>2. ShownAlike(history, g, told, told)
      BY DEF ShownAlike
    <2>3. \A e \in Range(g[k].content.entries) :
            e.shown => e.version >= told[Canonical[e.target.path]][e.path]
      BY <1>2, <1>8
    <2> QED
      BY <1>4, <1>5, <2>1, <2>2, <2>3, ShownStays
  <1> QED
    BY <1>1, <1>3, <1>6, <1>7, <1>10, <1>11, <1>12 DEF Sound

-----------------------------------------------------------------------------
(* Every step keeps the invariant. *)

(* A conversation that nothing is replaced in.                               *)
LEMMA AsItWas ==
  ASSUME NEW h \in Seq(Messages)
  PROVE  Rewritten(h, h, {}, "changed")
  BY DEF Rewritten

(* What an answer leaves alone, when it has added to the conversation.       *)
LEMMA Answering ==
  ASSUME TrackingInv, UNCHANGED <<version, saved, made, told>>,
         history' \in Seq(Messages), calls' \in Seq(Calls), Pending',
         \A g : g = history' => Sound(g, told)
  PROVE  TrackingInv'
PROOF
  <1>1. TrackingTypeOK'
    BY DEF TrackingInv, TrackingTypeOK
  <1>2. Sound(history, told)'
    BY DEF TrackingInv
  <1>3. Sound(saved.history, saved.told)'
    BY DEF TrackingInv
  <1>4. ToldOfThePast'
    BY DEF TrackingInv, ToldOfThePast
  <1> QED
    BY <1>1, <1>2, <1>3, <1>4 DEF TrackingInv

(* A call that is not run keeps the invariant.                               *)
LEMMA NotRunStep ==
  ASSUME TrackingInv, NotRun
  PROVE  TrackingInv'
PROOF
  <1>1. history \in Seq(Messages)
    BY DEF TrackingInv, TrackingTypeOK
  <1>2. Rewritten(history, history, {}, "changed")
    BY <1>1, AsItWas
  <1>3. ShownAlike(history, history, told, told)
    BY DEF ShownAlike
  <1>4. calls # <<>> /\ AnswerCall(history, Plain) /\ {} \in SUBSET Targets
    BY DEF NotRun
  <1>5. /\ history' \in Seq(Messages) /\ calls' \in Seq(Calls) /\ Pending'
        /\ \A g : g = history' => Sound(g, told)
    BY <1>2, <1>3, <1>4, PlainAnswer
  <1> QED
    BY <1>5, Answering DEF NotRun

(* A read keeps it: the entries it shows are whole, or else it supersedes    *)
(* nothing.                                                                  *)
LEMMA ReadStep ==
  ASSUME TrackingInv, NEW failed, NEW cut \in BOOLEAN, Read(failed, cut)
  PROVE  TrackingInv'
PROOF
  <1>0. TrackingTypeOK /\ Pending /\ history \in Seq(Messages) /\ calls # <<>>
    BY DEF TrackingInv, TrackingTypeOK, Read
  <1>1. PICK c \in Calls : c = calls[1] /\ IsRead(c)
    BY <1>0, NextCall DEF Read
  <1>a. PICK acts \in ActsOn(c, failed) :
          AnswerCall(IF cut \/ c.preserve THEN history ELSE NudgeStaleReads(history, c),
                     Held(Entries(c, failed, cut, acts)))
    BY <1>1 DEF Read
  <1>2. PICK es :
          /\ es = Entries(c, failed, cut, acts)
          /\ AnswerCall(IF cut \/ c.preserve THEN history ELSE NudgeStaleReads(history, c),
                        Held(es))
    BY <1>a
  <1>3. PICK content \in Contents :
          /\ content = Held(es) /\ content.kind = "held" /\ content.entries = es
          /\ EntriesOf(c, es, cut)
    BY <1>0, <1>1, <1>2, EntriesMade
  <1>4. AskedFor(c, content)
    BY <1>1, <1>3 DEF AskedFor, EntriesOf
  <1>5. \A e \in Range(content.entries) :
          e.shown => e.version >= told[Canonical[e.target.path]][e.path]
    <2> SUFFICES ASSUME NEW e \in Range(es), e.shown
                 PROVE  e.version >= told[Canonical[e.target.path]][e.path]
      BY <1>3
    <2>1. PICK f \in Files : e.path = f /\ e.version = version[f]
      BY <1>3 DEF EntriesOf
    <2>2. PICK n \in Names : n = Canonical[e.target.path]
      <3>1. e.target \in Targets
        BY <1>1, <1>3, CallsTyped DEF EntriesOf
      <3> QED
        BY <3>1, TargetsTyped
    <2>3. told[n][f] <= version[f]
      BY DEF TrackingInv, ToldOfThePast
    <2>4. told[n][f] \in 0..MaxVersion /\ version[f] \in 0..MaxVersion
      BY <1>0 DEF TrackingTypeOK, Told
    <2> QED
      BY <2>1, <2>2, <2>3, <2>4
  <1> DEFINE Old == {old \in Targets : \E t \in Range(c.targets) :
                       Canonical[t.path] = Canonical[old.path] /\ Covers(t, old)}
  <1>7. /\ history' \in Seq(Messages) /\ calls' \in Seq(Calls) /\ Pending'
        /\ \A g : g = history' => Sound(g, told)
    <2>1. CASE cut \/ c.preserve
      <3>1. AnswerCall(history, content)
        BY <1>2, <1>3, <2>1
      <3>2. Rewritten(history, history, {}, "changed")
        BY <1>0, AsItWas
      <3>3. PICK why \in Notes, stale \in SUBSET Targets : why = "changed" /\ stale = {}
        BY DEF Notes
      <3>4. Rewritten(history, history, stale, why)
        BY <3>2, <3>3
      <3>5. why # "stale"
        BY <3>3
      <3> QED
        BY <1>0, <1>1, <1>3, <1>4, <1>5, <3>1, <3>4, <3>5, HeldAnswer
    <2>2. CASE ~(cut \/ c.preserve)
      <3>1. PICK r : r = NudgeStaleReads(history, c)
        OBVIOUS
      <3>2. AnswerCall(r, content)
        BY <1>2, <1>3, <2>2, <3>1
      <3>3. PICK why \in Notes : why = "stale"
        BY DEF Notes
      <3>4. PICK stale \in SUBSET Targets : stale = Old
        OBVIOUS
      <3>5. r = ReplaceReads(history, {c.id}, stale, why)
        BY <3>1, <3>3, <3>4 DEF NudgeStaleReads
      <3>6. Rewritten(history, r, stale, why)
        BY <1>0, <3>5, Rewriting
      <3>7. Supersedes(c, content, stale)
        <4> SUFFICES ASSUME NEW t \in stale
                     PROVE  \E u \in Range(c.targets) :
                              /\ Canonical[u.path] = Canonical[t.path] /\ Covers(u, t)
                              /\ \E e \in Range(content.entries) :
                                   /\ Canonical[e.target.path] = Canonical[u.path]
                                   /\ e.whole \/ ~e.shown
          BY DEF Supersedes
        <4>1. PICK u \in Range(c.targets) :
                Canonical[u.path] = Canonical[t.path] /\ Covers(u, t)
          BY <3>4
        <4> QED
          BY <1>3, <2>2, <4>1 DEF EntriesOf
      <3> QED
        BY <1>0, <1>1, <1>3, <1>4, <1>5, <3>2, <3>6, <3>7, HeldAnswer
    <2> QED
      BY <2>1, <2>2
  <1> QED
    BY <1>7, Answering DEF Read

(* Files change; nobody is told of a version that is yet to come.            *)
LEMMA Changing ==
  ASSUME TrackingInv, NEW files, Changed(files)
  PROVE  /\ version' \in [Files -> 0..MaxVersion]
         /\ \A n \in Names, f \in Files :
              told[n][f] <= version'[f] /\ saved.told[n][f] <= version'[f]
PROOF
  <1>1. /\ version \in [Files -> 0..MaxVersion] /\ told \in Told
        /\ saved.told \in Told /\ MaxVersion \in Nat
    BY TrackingAssumption DEF TrackingInv, TrackingTypeOK
  <1>2. ASSUME NEW f \in Files
        PROVE  /\ version'[f] \in 0..MaxVersion
               /\ version[f] \in 0..MaxVersion /\ version[f] <= version'[f]
    <2>1. PICK v \in 0..MaxVersion : v = version[f]
      BY <1>1
    <2>2. \/ version'[f] = v
          \/ version'[f] = v + 1 /\ v < MaxVersion
      BY <2>1 DEF Changed
    <2> QED
      BY <1>1, <2>1, <2>2
  <1>3. version' = [f \in Files |-> version'[f]]
    BY DEF Changed
  <1>4. ASSUME NEW n \in Names, NEW f \in Files
        PROVE  told[n][f] <= version'[f] /\ saved.told[n][f] <= version'[f]
    <2>1. PICK v \in 0..MaxVersion, t \in 0..MaxVersion, s \in 0..MaxVersion :
            /\ v = version[f] /\ t = told[n][f] /\ s = saved.told[n][f]
            /\ t <= v /\ s <= v
      BY <1>1 DEF TrackingInv, ToldOfThePast, Told
    <2> QED
      BY <1>1, <1>2, <2>1
  <1> QED
    BY <1>2, <1>3, <1>4

(* A write leaves no old copy: what was still read under one of its names    *)
(* was asked for by the only call of its id, so it was found and replaced.   *)
LEMMA NoCopyLeft ==
  ASSUME NEW h \in Seq(Messages), HeldWasAsked(h), NEW names \in SUBSET Names,
         NEW r, r = InvalidateReadsAfterWrite(h, names),
         NEW j \in Results(h), r[j] = h[j], h[j].content.kind = "held", Unambiguous(h, h[j].id),
         NEW e \in Range(h[j].content.entries)
  PROVE  Canonical[e.target.path] \in Names \ names
PROOF
  <1>1. PICK c \in Answered(h, j) : AskedFor(c, h[j].content)
    BY DEF HeldWasAsked
  <1>2. PICK p \in CallsIn(h) : CallAt(h, p) = c /\ c.id = h[j].id
    BY <1>1 DEF Answered
  <1>3. PICK t \in Targets : /\ t \in Range(c.targets) /\ e.target = t
                             /\ Canonical[t.path] \in Names
    <2>1. c \in Calls /\ IsRead(c)
      BY <1>1, <1>2, Placed DEF AskedFor
    <2> QED
      BY <1>1, <2>1, CallsTyped, TargetsTyped DEF AskedFor
  <1>4. ASSUME Canonical[e.target.path] \in names PROVE FALSE
    <2>1. PICK stale \in SUBSET Targets, why \in Notes :
            /\ stale = {old \in Targets : Canonical[old.path] \in names} /\ why = "changed"
            /\ r = ReplaceReads(h, {}, stale, why)
      BY DEF InvalidateReadsAfterWrite, Notes
    <2>2. t \in stale
      BY <1>3, <1>4, <2>1
    <2>3. p \in Hits(h, h[j].id, stale)
      BY <1>1, <1>2, <1>3, <2>2 DEF Hits, AskedFor
    <2>4. j \in FindToolResult(h, h[j].id)
      BY DEF FindToolResult, Unambiguous, Results
    <2>5. h[j].role = "tool" /\ j \in DOMAIN h /\ ~IsReadNudge(h[j].content)
      BY DEF Results, IsReadNudge
    <2>6. Thorough(h, r, {}, stale, why)
      BY <2>1, Rewriting
    <2>7. r[j].content.kind = why
      BY <2>3, <2>4, <2>5, <2>6 DEF Thorough
    <2> QED
      BY <2>1, <2>7
  <1> QED
    BY <1>3, <1>4

(* A write keeps it: what it was told is newer, and no copy from before is   *)
(* left.                                                                     *)
LEMMA WriteStep ==
  ASSUME TrackingInv, NEW files, Write(files)
  PROVE  TrackingInv'
PROOF
  <1>0. /\ TrackingTypeOK /\ Pending /\ history \in Seq(Messages) /\ calls # <<>>
        /\ HeldWasAsked(history) /\ told \in Told
    BY DEF TrackingInv, TrackingTypeOK, Write, Sound
  <1>1. PICK c \in Calls : c = calls[1] /\ c.names \in SUBSET Names
    BY <1>0, NextCall, CallsTyped DEF Write
  <1>2. PICK r : r = InvalidateReadsAfterWrite(history, c.names) /\ AnswerCall(r, Plain)
    BY <1>1 DEF Write
  <1>3. PICK stale \in SUBSET Targets, why \in Notes :
          why = "changed" /\ Rewritten(history, r, stale, why)
    <2>1. PICK stale \in SUBSET Targets, why \in Notes :
            why = "changed" /\ r = ReplaceReads(history, {}, stale, why)
      BY <1>2 DEF InvalidateReadsAfterWrite, Notes
    <2> QED
      BY <1>0, <2>1, Rewriting
  <1>4. PICK now : now = told'
    OBVIOUS
  <1>5. /\ version' \in [Files -> 0..MaxVersion]
        /\ \A n \in Names, f \in Files :
             told[n][f] <= version'[f] /\ saved.told[n][f] <= version'[f]
    BY Changing DEF Write
  <1>6. now = [n \in Names |-> [f \in Files |->
                 IF n \in c.names /\ f \in files THEN version'[f] ELSE told[n][f]]]
    BY <1>1, <1>4 DEF Write
  <1>14. \A n \in Names \ c.names : now[n] = told[n]
    BY <1>0, <1>6 DEF Told
  <1>7. ShownAlike(history, r, told, now)
    BY <1>0, <1>1, <1>2, <1>14, NoCopyLeft DEF ShownAlike
  <1>8. /\ history' \in Seq(Messages) /\ calls' \in Seq(Calls) /\ Pending'
        /\ \A g : g = history' => Sound(g, now)
    BY <1>0, <1>2, <1>3, <1>7, PlainAnswer
  <1>9. told' \in Told
    BY <1>0, <1>4, <1>5, <1>6 DEF Told
  <1>10. TrackingTypeOK'
    BY <1>5, <1>8, <1>9 DEF TrackingInv, TrackingTypeOK, Write
  <1>11. Sound(history, told)'
    BY <1>4, <1>8
  <1>12. Sound(saved.history, saved.told)'
    BY DEF TrackingInv, Write
  <1>13. ToldOfThePast'
    <2>1. ASSUME NEW n \in Names, NEW f \in Files
          PROVE  told'[n][f] <= version'[f] /\ saved'.told[n][f] <= version'[f]
      <3>1. version'[f] \in 0..MaxVersion
        BY <1>5
      <3>2. told'[n][f] = version'[f] \/ told'[n][f] = told[n][f]
        BY <1>4, <1>6
      <3>3. saved' = saved
        BY DEF Write
      <3> QED
        BY <1>5, <3>1, <3>2, <3>3
    <2> QED
      BY <2>1 DEF ToldOfThePast
  <1> QED
    BY <1>8, <1>10, <1>11, <1>12, <1>13 DEF TrackingInv

(* A write that fails part way keeps it: the conversation is told nothing.   *)
LEMMA FailedWriteStep ==
  ASSUME TrackingInv, NEW files, WriteFailsPartWay(files)
  PROVE  TrackingInv'
PROOF
  <1>1. history \in Seq(Messages) /\ told \in Told
    BY DEF TrackingInv, TrackingTypeOK
  <1>2. Rewritten(history, history, {}, "changed")
    BY <1>1, AsItWas
  <1>3. ShownAlike(history, history, told, told)
    BY DEF ShownAlike
  <1>4. calls # <<>> /\ AnswerCall(history, Plain) /\ {} \in SUBSET Targets
    BY DEF WriteFailsPartWay
  <1>5. /\ history' \in Seq(Messages) /\ calls' \in Seq(Calls) /\ Pending'
        /\ \A g : g = history' => Sound(g, told)
    BY <1>2, <1>3, <1>4, PlainAnswer
  <1>6. UNCHANGED <<saved, made, told>>
    BY DEF WriteFailsPartWay
  <1>7. /\ version' \in [Files -> 0..MaxVersion]
        /\ \A n \in Names, f \in Files :
             told[n][f] <= version'[f] /\ saved.told[n][f] <= version'[f]
    BY Changing DEF WriteFailsPartWay
  <1>8. TrackingTypeOK'
    BY <1>5, <1>6, <1>7 DEF TrackingInv, TrackingTypeOK
  <1>9. Sound(history, told)' /\ Sound(saved.history, saved.told)'
    BY <1>5, <1>6 DEF TrackingInv
  <1>10. ToldOfThePast'
    BY <1>6, <1>7 DEF ToldOfThePast
  <1> QED
    BY <1>5, <1>8, <1>9, <1>10 DEF TrackingInv

(* A change that nobody tells of keeps it.                                   *)
LEMMA ElsewhereStep ==
  ASSUME TrackingInv, NEW f, ChangedElsewhere(f)
  PROVE  TrackingInv'
PROOF
  <1>1. UNCHANGED <<history, calls, saved, made, told>>
    BY DEF ChangedElsewhere
  <1>2. /\ version' \in [Files -> 0..MaxVersion]
        /\ \A n \in Names, g \in Files :
             told[n][g] <= version'[g] /\ saved.told[n][g] <= version'[g]
    BY Changing DEF ChangedElsewhere
  <1>3. TrackingTypeOK'
    BY <1>1, <1>2 DEF TrackingInv, TrackingTypeOK
  <1>4. Sound(history, told)' /\ Sound(saved.history, saved.told)' /\ Pending'
    BY <1>1 DEF TrackingInv, Pending
  <1>5. ToldOfThePast'
    BY <1>1, <1>2 DEF ToldOfThePast
  <1> QED
    BY <1>3, <1>4, <1>5 DEF TrackingInv

(* A message with calls is no result: nothing has to be said of it.          *)
LEMMA AskingStep ==
  ASSUME TrackingInv, NEW cs \in CallLists, ModelCalls(cs)
  PROVE  TrackingInv'
PROOF
  <1>0. /\ history \in Seq(Messages) /\ made \in Nat /\ MaxCalls \in Nat
        /\ HeldWasAsked(history) /\ NotesPoint(history) /\ ShowsNothingOlder(history, told)
    BY TrackingAssumption DEF TrackingInv, TrackingTypeOK, Sound
  <1>1. cs \in Seq(Calls)
    <2>1. \/ \E a \in Calls : cs = <<a>>
          \/ \E a \in Calls, b \in Calls : cs = <<a, b>>
      BY DEF CallLists, Calls
    <2>2. ASSUME NEW a \in Calls, cs = <<a>> PROVE cs \in Seq(Calls)
      BY <2>2
    <2>3. ASSUME NEW a \in Calls, NEW b \in Calls, cs = <<a, b>> PROVE cs \in Seq(Calls)
      BY <2>3
    <2> QED
      BY <2>1, <2>2, <2>3
  <1>2. made' \in 0..MaxCalls
    <2>1. PICK n \in Nat : n = Len(cs)
      BY <1>1
    <2> QED
      BY <1>0, <2>1 DEF ModelCalls
  <1>3. PICK m \in Messages : m = Asks(cs) /\ m.role = "assistant" /\ m.calls = cs
    <2>1. Asks(cs) \in [role : {"assistant"}, calls : Seq(Calls)]
      BY <1>1 DEF Asks
    <2>2. Asks(cs).role = "assistant" /\ Asks(cs).calls = cs
      BY DEF Asks
    <2> QED
      BY <2>1, <2>2 DEF Messages
  <1>4. PICK g : g = history' /\ g = Append(history, m)
    BY <1>3 DEF ModelCalls
  <1>5. PICK why \in Notes, stale \in SUBSET Targets : why = "changed" /\ stale = {}
    BY DEF Notes
  <1>6. Rewritten(history, history, stale, why)
    BY <1>0, <1>5, AsItWas
  <1>7. Grows(history, g, stale, why) /\ Added(history, history, g, m)
    BY <1>0, <1>4, <1>6, Adding
  <1>8. PICK k : k = Len(history) + 1
    OBVIOUS
  <1>9. g \in Seq(Messages) /\ g[k] = m /\ k \in DOMAIN g
    <2>1. DOMAIN g = 1..(Len(history) + 1) /\ Len(history) \in Nat
      BY <1>7, GrowsThus
    <2> QED
      BY <1>7, <1>8, <2>1 DEF Grows, Added
  <1>10. HeldWasAsked(g)
    BY <1>0, <1>3, <1>7, <1>8, <1>9, HeldStays
  <1>11. NotesPoint(g)
    <2>1. why # "stale" /\ ~SaysOf(g, k, "stale")
      BY <1>3, <1>5, <1>9 DEF SaysOf
    <2>2. Backs(history, g, stale, why)
      BY <1>8, <2>1 DEF Backs
    <2> QED
      BY <1>0, <1>7, <2>2, PointersStay
  <1>12. ShowsNothingOlder(g, told)
    <2>1. ShownAlike(history, g, told, told)
      BY DEF ShownAlike
    <2> QED
      BY <1>0, <1>3, <1>7, <1>8, <1>9, <2>1, ShownStays
  <1>13. UNCHANGED <<version, saved, told>> /\ calls' = cs
    BY DEF ModelCalls
  <1>14. Pending'
    <2>1. ASSUME NEW i \in DOMAIN cs PROVE \E p \in CallsIn(g) : CallAt(g, p) = cs[i]
      <3>1. <<k, i>> \in CallsIn(g)
        BY <1>3, <1>9, Placed
      <3>2. CallAt(g, <<k, i>>) = cs[i]
        BY <1>3, <1>9 DEF CallAt
      <3> QED
        BY <3>1, <3>2
    <2> QED
      BY <1>4, <1>13, <2>1 DEF Pending
  <1>15. TrackingTypeOK'
    <2>1. history' \in Seq(Messages)
      BY <1>4, <1>9
    <2>2. calls' \in Seq(Calls)
      BY <1>1, <1>13
    <2> QED
      BY <1>2, <1>13, <2>1, <2>2 DEF TrackingInv, TrackingTypeOK
  <1>16. Sound(history, told)' /\ Sound(saved.history, saved.told)'
    BY <1>4, <1>10, <1>11, <1>12, <1>13 DEF TrackingInv, Sound
  <1>17. ToldOfThePast'
    BY <1>13 DEF TrackingInv, ToldOfThePast
  <1> QED
    BY <1>14, <1>15, <1>16, <1>17 DEF TrackingInv

(* A conversation that is empty is sound.                                    *)
LEMMA Empty ==
  /\ Untold \in Told /\ \A n \in Names, f \in Files : Untold[n][f] = 0
  /\ Sound(<<>>, Untold)
PROOF
  <1>1. 0 \in 0..MaxVersion
    BY TrackingAssumption
  <1>2. Results(<<>>) = {}
    BY DEF Results
  <1>3. Untold \in Told /\ \A n \in Names, f \in Files : Untold[n][f] = 0
    BY <1>1 DEF Untold, Told
  <1>4. Sound(<<>>, Untold)
    BY <1>2 DEF Sound, ShowsNothingOlder, NotesPoint, HeldWasAsked
  <1> QED
    BY <1>3, <1>4

(* The commands of the console keep it.                                      *)
LEMMA CommandStep ==
  ASSUME TrackingInv, Clear \/ SaveSession \/ LoadSession
  PROVE  TrackingInv'
PROOF
  <1>0. TrackingTypeOK /\ ToldOfThePast
    BY DEF TrackingInv
  <1>1. calls = <<>> /\ calls' = <<>> /\ version' = version /\ made' = made
    BY DEF Clear, SaveSession, LoadSession
  <1>2. Pending'
    BY <1>1 DEF Pending
  <1>3. CASE Clear
    <2>1. TrackingTypeOK'
      BY <1>0, <1>1, <1>3, Empty DEF TrackingTypeOK, Clear
    <2>2. Sound(history, told)' /\ Sound(saved.history, saved.told)'
      BY <1>3, Empty DEF TrackingInv, Clear
    <2>3. ToldOfThePast'
      <3>1. \A f \in Files : version[f] \in 0..MaxVersion
        BY <1>0 DEF TrackingTypeOK
      <3>2. \A f \in Files : 0 <= version[f]
        BY <3>1
      <3> QED
        BY <1>0, <1>1, <1>3, <3>2, Empty DEF ToldOfThePast, Clear
    <2> QED
      BY <1>2, <2>1, <2>2, <2>3 DEF TrackingInv
  <1>4. CASE SaveSession
    <2>1. UNCHANGED <<history, told>> /\ saved'.history = history /\ saved'.told = told
      BY <1>4 DEF SaveSession
    <2>2. TrackingTypeOK'
      BY <1>0, <1>1, <1>4 DEF TrackingTypeOK, SaveSession
    <2>3. Sound(history, told)' /\ Sound(saved.history, saved.told)'
      BY <2>1 DEF TrackingInv
    <2>4. ToldOfThePast'
      BY <1>0, <1>1, <2>1 DEF ToldOfThePast
    <2> QED
      BY <1>2, <2>2, <2>3, <2>4 DEF TrackingInv
  <1>5. CASE LoadSession
    <2>1. saved' = saved /\ history' = saved.history /\ told' = saved.told
      BY <1>5 DEF LoadSession
    <2>2. TrackingTypeOK'
      BY <1>0, <1>1, <2>1 DEF TrackingTypeOK
    <2>3. Sound(history, told)' /\ Sound(saved.history, saved.told)'
      BY <2>1 DEF TrackingInv
    <2>4. ToldOfThePast'
      BY <1>0, <1>1, <2>1 DEF ToldOfThePast
    <2> QED
      BY <1>2, <2>2, <2>3, <2>4 DEF TrackingInv
  <1> QED
    BY <1>3, <1>4, <1>5

-----------------------------------------------------------------------------
(* The theorems. *)

(* The conversation is what its properties need it to be, and so is the one  *)
(* that a session file keeps (agent_read_tracking.go, loadSession).          *)
THEOREM TrackingInvariance == TrackingSpec => []TrackingInv
PROOF
  <1>1. TrackingInit => TrackingInv
    <2> SUFFICES ASSUME TrackingInit PROVE TrackingInv
      OBVIOUS
    <2>1. history = <<>> /\ calls = <<>> /\ saved = [history |-> <<>>, told |-> Untold]
      BY DEF TrackingInit
    <2>2. TrackingTypeOK
      BY TrackingAssumption, Empty DEF TrackingInit, TrackingTypeOK
    <2>3. Sound(history, told) /\ Sound(saved.history, saved.told)
      BY <2>1, Empty DEF TrackingInit
    <2>4. Pending /\ ToldOfThePast
      BY <2>1, Empty DEF TrackingInit, Pending, ToldOfThePast
    <2> QED
      BY <2>2, <2>3, <2>4 DEF TrackingInv
  <1>2. TrackingInv /\ [TrackingNext]_trackingVars => TrackingInv'
    <2> SUFFICES ASSUME TrackingInv, [TrackingNext]_trackingVars PROVE TrackingInv'
      OBVIOUS
    <2>1. ASSUME NEW cs \in CallLists, ModelCalls(cs) PROVE TrackingInv'
      BY <2>1, AskingStep
    <2>2. ASSUME NEW failed, NEW cut \in BOOLEAN, Read(failed, cut)
          PROVE  TrackingInv'
      BY <2>2, ReadStep
    <2>3. ASSUME NEW files \in SUBSET Files, Write(files) PROVE TrackingInv'
      BY <2>3, WriteStep
    <2>4. ASSUME NEW files \in SUBSET Files, WriteFailsPartWay(files) PROVE TrackingInv'
      BY <2>4, FailedWriteStep
    <2>5. ASSUME NEW f \in Elsewhere, ChangedElsewhere(f) PROVE TrackingInv'
      BY <2>5, ElsewhereStep
    <2>6. CASE UNCHANGED trackingVars
      BY <2>6 DEF trackingVars, TrackingInv, TrackingTypeOK, Pending, ToldOfThePast
    <2> QED
      BY <2>1, <2>2, <2>3, <2>4, <2>5, <2>6, NotRunStep, CommandStep DEF TrackingNext
  <1> QED
    BY <1>1, <1>2, PTL DEF TrackingSpec

(* No copy of a file from before a write under the name it was read by, of   *)
(* which the conversation was told, is left in it, whatever the files, the   *)
(* names, the spellings, the ids and the calls (invalidateReadsAfterWrite).  *)
THEOREM NothingOlderIsShown == TrackingSpec => []NoReadOlderThanAWrite
PROOF
  <1>1. TrackingInv => NoReadOlderThanAWrite
    BY DEF TrackingInv, Sound, NoReadOlderThanAWrite
  <1> QED
    BY <1>1, TrackingInvariance, PTL

(* A note that says "read again more recently" is about a read that was      *)
(* (nudgeStaleReads).                                                        *)
THEOREM NotesAreTrue == TrackingSpec => []StaleNotesPointSomewhere
PROOF
  <1>1. TrackingInv => StaleNotesPointSomewhere
    BY DEF TrackingInv, Sound, StaleNotesPointSomewhere
  <1> QED
    BY <1>1, TrackingInvariance, PTL

-----------------------------------------------------------------------------
(* The sessions of the HTTP transport.                                       *)
-----------------------------------------------------------------------------

(* What the ids in the store, and those about to be adopted, can be: fresh   *)
(* ids are in none of them.                                                  *)
Known == 1..minted \cup Foreign

StoreTyped ==
  /\ minted \in 0..MaxIds
  /\ DOMAIN sessions \subseteq Known
  /\ sessions \in [DOMAIN sessions -> Session]
  /\ DOMAIN terminated \subseteq Known
  /\ terminated \in [DOMAIN terminated -> Ages]
  /\ silence \in [Ids -> Ages]

MissesKnown ==
  \A h \in Handlers :
    req[h].step = "missing" => req[h].id \in Known \cup {Unusable}

(* The version a handler about to adopt has worked out is a legacy one.      *)
MissesLegacy ==
  \A h \in Handlers :
    req[h].step = "missing" => req[h].version \in LegacyVersions

(* LastSeen is the time of the last request.                                 *)
IdleIsSilence == \A i \in DOMAIN sessions : sessions[i].idle = silence[i]

IInv ==
  /\ TypeOK
  /\ StoreTyped
  /\ MissesKnown
  /\ MissesLegacy
  /\ TombstonesHold
  /\ IdleIsSilence

-----------------------------------------------------------------------------
(* The five things a step does to the store. *)

(* Expired rows go and one row, live or new, is marked as used.              *)
Renews ==
  \E i \in Ids, s \in Session :
    /\ s.idle = 0
    /\ i \notin DOMAIN Kept(terminated)
    /\ i \in DOMAIN Alive(sessions) => s.version = sessions[i].version
    /\ i \in 1..minted' \cup Foreign
    /\ minted' \in minted..MaxIds
    /\ sessions' = Put(Alive(sessions), i, s)
    /\ terminated' = Kept(terminated)
    /\ silence' = [silence EXCEPT ![i] = 0]

Evicts ==
  /\ sessions' = Alive(sessions)
  /\ terminated' = Kept(terminated)
  /\ UNCHANGED <<minted, silence>>

Deletes ==
  \E i \in DOMAIN sessions :
    /\ sessions' = Without(sessions, i)
    /\ terminated' = Put(terminated, i, 0)
    /\ UNCHANGED <<minted, silence>>

GrowsOlder ==
  /\ sessions' = [i \in DOMAIN sessions |->
                    [sessions[i] EXCEPT !.idle = Older(@)]]
  /\ terminated' = [i \in DOMAIN terminated |-> Older(terminated[i])]
  /\ silence' = [i \in Ids |-> Older(silence[i])]
  /\ UNCHANGED minted

Forgets ==
  /\ boots' # boots
  /\ sessions' = Nothing
  /\ terminated' = Nothing
  /\ UNCHANGED <<minted, silence>>

StoreStep ==
  \/ Renews
  \/ Evicts
  \/ Deletes
  \/ GrowsOlder
  \/ Forgets
  \/ UNCHANGED <<minted, sessions, terminated, silence>>

-----------------------------------------------------------------------------
(* evictLocked only drops rows, and only expired ones.                       *)
LEMMA AliveFacts ==
  ASSUME StoreTyped
  PROVE  /\ DOMAIN Alive(sessions)
              = {i \in DOMAIN sessions : sessions[i].idle <= TTL}
         /\ \A i \in DOMAIN Alive(sessions) : Alive(sessions)[i] = sessions[i]
PROOF
  <1>1. DOMAIN Alive(sessions)
          = {i \in DOMAIN sessions : ~Expired(sessions[i].idle)}
    BY DEF Alive
  <1>2. \A i \in DOMAIN Alive(sessions) : Alive(sessions)[i] = sessions[i]
    BY DEF Alive
  <1>3. ASSUME NEW i \in DOMAIN sessions
        PROVE  ~Expired(sessions[i].idle) <=> sessions[i].idle <= TTL
    BY SessionAssumption DEF StoreTyped, Session, Ages, Expired
  <1> QED
    BY <1>1, <1>2, <1>3

LEMMA KeptFacts ==
  ASSUME StoreTyped
  PROVE  /\ DOMAIN Kept(terminated)
              = {i \in DOMAIN terminated : terminated[i] <= TTL}
         /\ \A i \in DOMAIN Kept(terminated) :
              Kept(terminated)[i] = terminated[i]
PROOF
  <1>1. DOMAIN Kept(terminated)
          = {i \in DOMAIN terminated : ~Expired(terminated[i])}
    BY DEF Kept
  <1>2. \A i \in DOMAIN Kept(terminated) :
          Kept(terminated)[i] = terminated[i]
    BY DEF Kept
  <1>3. ASSUME NEW i \in DOMAIN terminated
        PROVE  ~Expired(terminated[i]) <=> terminated[i] <= TTL
    BY SessionAssumption DEF StoreTyped, Ages, Expired
  <1> QED
    BY <1>1, <1>2, <1>3

-----------------------------------------------------------------------------
(* The steps, one by one. *)

LEMMA Creates ==
  ASSUME StoreTyped, NEW ver \in LegacyVersions, Create(ver)
  PROVE  Renews
PROOF
  <1> DEFINE s == Opened(ver)
  <1>1. NewId \in Ids /\ NewId \notin Known /\ NewId = minted'
    BY SessionAssumption
    DEF StoreTyped, Create, CanMint, NewId, Ids, Minted, Known
  <1>2. s \in Session /\ s.idle = 0
    BY SessionAssumption DEF Opened, Session, Ages
  <1>3. NewId \notin DOMAIN Kept(terminated)
    BY <1>1, KeptFacts DEF StoreTyped
  <1>4. NewId \notin DOMAIN Alive(sessions)
    BY <1>1, AliveFacts DEF StoreTyped
  <1>5. minted' \in minted..MaxIds /\ NewId \in 1..minted' \cup Foreign
    BY SessionAssumption DEF StoreTyped, Create, CanMint, NewId
  <1> HIDE DEF s
  <1> QED
    BY <1>1, <1>2, <1>3, <1>4, <1>5 DEF Renews, Create, s

LEMMA Gets ==
  ASSUME StoreTyped, TombstonesHold, NEW id \in Known \cup {Unusable}, Get(id)
  PROVE  Renews \/ Evicts
PROOF
  <1>1. CASE id \notin DOMAIN Alive(sessions)
    BY <1>1 DEF Get, Evicts
  <1>2. CASE id \in DOMAIN Alive(sessions)
    <2> DEFINE s == Touched(sessions[id])
    <2>1. id \in DOMAIN sessions /\ Alive(sessions)[id] = sessions[id]
      BY <1>2, AliveFacts
    <2>2. /\ s \in Session /\ s.idle = 0
          /\ s.version = sessions[id].version
      BY <2>1, SessionAssumption DEF StoreTyped, Touched, Session, Ages
    <2>3. id \in Known /\ id \in Ids
      BY <2>1, SessionAssumption DEF StoreTyped, Known, Ids, Minted
    <2>4. id \notin DOMAIN Kept(terminated)
      BY <2>1, KeptFacts DEF TombstonesHold
    <2>5. /\ sessions' = Put(Alive(sessions), id, s)
          /\ terminated' = Kept(terminated)
          /\ silence' = [silence EXCEPT ![id] = 0]
          /\ minted' = minted
      BY <1>2, <2>1 DEF Get
    <2>6. minted' \in minted..MaxIds
      BY <2>5, SessionAssumption DEF StoreTyped
    <2> HIDE DEF s
    <2> QED
      BY <2>2, <2>3, <2>4, <2>5, <2>6 DEF Renews, Known
  <1> QED
    BY <1>1, <1>2

LEMMA AdoptsLive ==
  ASSUME StoreTyped, TombstonesHold, NEW id, NEW ver,
         AdoptLive(id, ver)
  PROVE  Renews
PROOF
  <1> DEFINE s == Touched(sessions[id])
  <1>1. id \in DOMAIN sessions
    BY AliveFacts DEF AdoptLive
  <1>2. /\ s \in Session /\ s.idle = 0
        /\ s.version = sessions[id].version
    BY <1>1, SessionAssumption DEF StoreTyped, Touched, Session, Ages
  <1>3. id \in Known /\ id \in Ids
    BY <1>1, SessionAssumption DEF StoreTyped, Known, Ids, Minted
  <1>4. id \notin DOMAIN Kept(terminated)
    BY <1>1, KeptFacts DEF TombstonesHold
  <1>5. minted' = minted /\ minted' \in minted..MaxIds
    BY SessionAssumption DEF StoreTyped, AdoptLive
  <1>6. /\ sessions' = Put(Alive(sessions), id, s)
        /\ terminated' = Kept(terminated)
        /\ silence' = [silence EXCEPT ![id] = 0]
    BY DEF AdoptLive
  <1> HIDE DEF s
  <1> QED
    BY <1>2, <1>3, <1>4, <1>5, <1>6 DEF Renews, Known

LEMMA AdoptsLost ==
  ASSUME StoreTyped, NEW id \in Known \cup {Unusable},
         NEW ver \in LegacyVersions, AdoptLost(id, ver)
  PROVE  Renews
PROOF
  <1> DEFINE s == Opened(ver)
  <1>1. s \in Session /\ s.idle = 0
    BY SessionAssumption DEF Opened, Session, Ages
  <1>2. id \in Known /\ id \in Ids
    BY SessionAssumption DEF AdoptLost, Usable
  <1>3. id \notin DOMAIN Kept(terminated) /\ id \notin DOMAIN Alive(sessions)
    BY DEF AdoptLost, Ended
  <1>4. minted' = minted /\ minted' \in minted..MaxIds
    BY SessionAssumption DEF StoreTyped, AdoptLost
  <1>5. /\ sessions' = Put(Alive(sessions), id, s)
        /\ terminated' = Kept(terminated)
        /\ silence' = [silence EXCEPT ![id] = 0]
    BY DEF AdoptLost
  <1> HIDE DEF s
  <1> QED
    BY <1>1, <1>2, <1>3, <1>4, <1>5 DEF Renews, Known

LEMMA Adopts ==
  ASSUME StoreTyped, TombstonesHold, MissesKnown, MissesLegacy,
         NEW h \in Handlers, Adopt(h)
  PROVE  Renews \/ Evicts
PROOF
  <1> DEFINE id == req[h].id
             ver == req[h].version
  <1>1. id \in Known \cup {Unusable} /\ ver \in LegacyVersions
    BY DEF Adopt, MissesKnown, MissesLegacy
  <1>2. CASE AdoptLive(id, ver)
    BY <1>2, AdoptsLive
  <1>3. CASE AdoptEnded(id)
    BY <1>3 DEF AdoptEnded, Evicts
  <1>4. CASE AdoptLost(id, ver)
    BY <1>1, <1>4, AdoptsLost
  <1>5. CASE AdoptUnusable(id, ver)
    BY <1>1, <1>5, Creates DEF AdoptUnusable
  <1> QED
    BY <1>2, <1>3, <1>4, <1>5 DEF Adopt

LEMMA StepsOfTheStore ==
  ASSUME StoreTyped, TombstonesHold, MissesKnown, MissesLegacy, [Next]_vars
  PROVE  StoreStep
PROOF
  <1> USE DEF StoreStep
  <1>1. ASSUME NEW h \in Handlers, Request(h)
        PROVE  StoreStep
    <2>1. CASE Refuse(h)
      BY <2>1 DEF Refuse, storeVars
    <2>2. CASE Initialize(h)
      <3>1. CASE legacy
        <4>1. PICK asked \in Versions : Create(Recovered(asked))
          BY <2>2, <3>1 DEF Initialize
        <4>2. Recovered(asked) \in LegacyVersions
          BY SessionAssumption DEF Recovered
        <4> QED
          BY <4>1, <4>2, Creates
      <3>2. CASE ~legacy
        BY <2>2, <3>2 DEF Initialize, storeVars
      <3> QED
        BY <3>1, <3>2
    <2>3. CASE NotAllowed(h)
      BY <2>3 DEF NotAllowed, storeVars
    <2>4. CASE \E method \in Methods : Declared(h, method) \/ Undeclared(h, method)
      BY <2>4 DEF Declared, Undeclared, storeVars
    <2>5. CASE \E method \in Methods \cup {"GET"}, id \in Presented :
                 OnSession(h, method, id)
      <3>1. PICK method \in Methods \cup {"GET"}, id \in Presented :
              OnSession(h, method, id)
        BY <2>5
      <3>2. id \in Known \cup {Unusable} /\ Get(id)
        BY <3>1 DEF OnSession, Presented, Known
      <3> QED
        BY <3>2, Gets
    <2>6. CASE \E id \in Presented : Teardown(h, id)
      <3>1. PICK id \in Presented : Teardown(h, id)
        BY <2>6
      <3>2. CASE id \in DOMAIN sessions
        BY <3>1, <3>2 DEF Teardown, Delete, Deletes
      <3>3. CASE id \notin DOMAIN sessions
        BY <3>1, <3>3 DEF Teardown
      <3> QED
        BY <3>2, <3>3
    <2>7. CASE Adopt(h)
      BY <2>7, Adopts
    <2>8. CASE Dispatch(h)
      BY <2>8 DEF Dispatch, storeVars
    <2>9. CASE Handle(h)
      BY <2>9 DEF Handle, storeVars
    <2> QED
      BY <1>1, <2>1, <2>2, <2>3, <2>4, <2>5, <2>6, <2>7, <2>8, <2>9 DEF Request
  <1>2. CASE Tick
    BY <1>2 DEF Tick, GrowsOlder
  <1>3. CASE Edit
    BY <1>3 DEF Edit, storeVars
  <1>4. CASE Restart
    <2>1. boots' # boots
      BY <1>4, SessionAssumption DEF Restart
    <2> QED
      BY <1>4, <2>1 DEF Restart, Forgets
  <1>5. CASE UNCHANGED vars
    BY <1>5 DEF vars, storeVars
  <1> QED
    BY <1>1, <1>2, <1>3, <1>4, <1>5 DEF Next

-----------------------------------------------------------------------------
(* What a step does to the store keeps the store sound. *)

StoreInv == StoreTyped /\ TombstonesHold /\ IdleIsSilence

LEMMA RenewKeeps ==
  ASSUME StoreInv, Renews
  PROVE  StoreInv'
PROOF
  <1> USE DEF StoreInv
  <1>1. PICK i \in Ids, s \in Session :
          /\ s.idle = 0
          /\ i \notin DOMAIN Kept(terminated)
          /\ i \in 1..minted' \cup Foreign
          /\ minted' \in minted..MaxIds
          /\ sessions' = Put(Alive(sessions), i, s)
          /\ terminated' = Kept(terminated)
          /\ silence' = [silence EXCEPT ![i] = 0]
    BY DEF Renews
  <1>2. Known \subseteq Known' /\ i \in Known'
    BY <1>1, SessionAssumption DEF StoreTyped, Known
  <1>3. /\ DOMAIN sessions' = DOMAIN Alive(sessions) \cup {i}
        /\ sessions'[i] = s
        /\ \A j \in DOMAIN sessions' \ {i} :
             j \in DOMAIN sessions /\ sessions'[j] = sessions[j]
    BY <1>1, AliveFacts DEF Put
  <1>4. /\ DOMAIN terminated' \subseteq DOMAIN terminated
        /\ \A j \in DOMAIN terminated' : terminated'[j] = terminated[j]
    BY <1>1, KeptFacts
  <1>5. /\ silence' \in [Ids -> Ages] /\ silence'[i] = 0
        /\ \A j \in Ids \ {i} : silence'[j] = silence[j]
    BY <1>1, SessionAssumption DEF StoreTyped, Ages
  <1>6. sessions' = [j \in DOMAIN sessions' |-> sessions'[j]]
    BY <1>1 DEF Put
  <1>7. terminated' = [j \in DOMAIN terminated' |-> terminated'[j]]
    BY <1>1 DEF Kept
  <1>8. StoreTyped'
    <2>1. minted' \in 0..MaxIds
      BY <1>1, SessionAssumption DEF StoreTyped
    <2>2. DOMAIN sessions' \subseteq Known'
      BY <1>2, <1>3 DEF StoreTyped
    <2>3. \A j \in DOMAIN sessions' : sessions'[j] \in Session
      BY <1>1, <1>3 DEF StoreTyped
    <2>4. DOMAIN terminated' \subseteq Known'
      BY <1>2, <1>4 DEF StoreTyped
    <2>5. \A j \in DOMAIN terminated' : terminated'[j] \in Ages
      BY <1>4 DEF StoreTyped
    <2>6. sessions' \in [DOMAIN sessions' -> Session]
      BY <1>6, <2>3
    <2>7. terminated' \in [DOMAIN terminated' -> Ages]
      BY <1>7, <2>5
    <2> QED
      BY <2>1, <2>2, <2>4, <2>6, <2>7, <1>5 DEF StoreTyped
  <1>9. TombstonesHold'
    BY <1>1, <1>3, <1>4 DEF TombstonesHold
  <1>10. IdleIsSilence'
    <2> SUFFICES ASSUME NEW j \in DOMAIN sessions'
                 PROVE  sessions'[j].idle = silence'[j]
      BY DEF IdleIsSilence
    <2>1. CASE j = i
      BY <2>1, <1>1, <1>3, <1>5
    <2>2. CASE j # i
      <3>1. j \in DOMAIN sessions /\ sessions'[j] = sessions[j]
        BY <2>2, <1>3
      <3>2. j \in Ids
        BY <3>1, SessionAssumption DEF StoreTyped, Known, Ids, Minted
      <3> QED
        BY <2>2, <3>1, <3>2, <1>5 DEF IdleIsSilence
    <2> QED
      BY <2>1, <2>2
  <1> QED
    BY <1>8, <1>9, <1>10

LEMMA EvictKeeps ==
  ASSUME StoreInv, Evicts
  PROVE  StoreInv'
PROOF
  <1> USE DEF StoreInv
  <1>1. /\ DOMAIN sessions' \subseteq DOMAIN sessions
        /\ \A j \in DOMAIN sessions' : sessions'[j] = sessions[j]
    BY AliveFacts DEF Evicts
  <1>2. /\ DOMAIN terminated' \subseteq DOMAIN terminated
        /\ \A j \in DOMAIN terminated' : terminated'[j] = terminated[j]
    BY KeptFacts DEF Evicts
  <1>3. sessions' = [j \in DOMAIN sessions' |-> sessions'[j]]
    BY DEF Evicts, Alive
  <1>4. terminated' = [j \in DOMAIN terminated' |-> terminated'[j]]
    BY DEF Evicts, Kept
  <1>5. sessions' \in [DOMAIN sessions' -> Session]
    BY <1>1, <1>3 DEF StoreTyped
  <1>6. terminated' \in [DOMAIN terminated' -> Ages]
    BY <1>2, <1>4 DEF StoreTyped
  <1>7. StoreTyped'
    BY <1>1, <1>2, <1>5, <1>6 DEF StoreTyped, Evicts, Known
  <1> QED
    BY <1>1, <1>2, <1>7 DEF TombstonesHold, IdleIsSilence, Evicts

LEMMA DeleteKeeps ==
  ASSUME StoreInv, Deletes
  PROVE  StoreInv'
PROOF
  <1> USE DEF StoreInv
  <1>1. PICK i \in DOMAIN sessions :
          /\ sessions' = Without(sessions, i)
          /\ terminated' = Put(terminated, i, 0)
          /\ UNCHANGED <<minted, silence>>
    BY DEF Deletes
  <1>2. /\ DOMAIN sessions' = DOMAIN sessions \ {i}
        /\ \A j \in DOMAIN sessions' : sessions'[j] = sessions[j]
    BY <1>1 DEF Without
  <1>3. /\ DOMAIN terminated' = DOMAIN terminated \cup {i}
        /\ terminated'[i] = 0
        /\ \A j \in DOMAIN terminated \ {i} : terminated'[j] = terminated[j]
    BY <1>1 DEF Put
  <1>4. sessions' = [j \in DOMAIN sessions' |-> sessions'[j]]
    BY <1>1 DEF Without
  <1>5. terminated' = [j \in DOMAIN terminated' |-> terminated'[j]]
    BY <1>1 DEF Put
  <1>6. sessions' \in [DOMAIN sessions' -> Session]
    BY <1>2, <1>4 DEF StoreTyped
  <1>7. \A j \in DOMAIN terminated' : terminated'[j] \in Ages
    BY <1>3, SessionAssumption DEF StoreTyped, Ages
  <1>8. terminated' \in [DOMAIN terminated' -> Ages]
    BY <1>5, <1>7
  <1>9. StoreTyped'
    BY <1>1, <1>2, <1>3, <1>6, <1>8 DEF StoreTyped, Known
  <1> QED
    BY <1>1, <1>2, <1>3, <1>9 DEF TombstonesHold, IdleIsSilence

LEMMA AgeKeeps ==
  ASSUME StoreInv, GrowsOlder
  PROVE  StoreInv'
PROOF
  <1> USE DEF StoreInv
  <1>1. \A a \in Ages : Older(a) \in Ages
    BY SessionAssumption DEF Ages, Older
  <1>2. /\ DOMAIN sessions' = DOMAIN sessions
        /\ DOMAIN terminated' = DOMAIN terminated
    BY DEF GrowsOlder
  <1>3. ASSUME NEW j \in DOMAIN sessions
        PROVE  /\ sessions'[j] \in Session
               /\ sessions'[j].idle = Older(sessions[j].idle)
    <2>1. sessions[j] \in Session
      BY DEF StoreTyped
    <2>2. sessions'[j] = [sessions[j] EXCEPT !.idle = Older(sessions[j].idle)]
      BY DEF GrowsOlder
    <2>3. Older(sessions[j].idle) \in Ages
      BY <1>1, <2>1 DEF Session
    <2> HIDE DEF StoreInv
    <2> QED
      BY <2>1, <2>2, <2>3 DEF Session
  <1>4. sessions' \in [DOMAIN sessions' -> Session]
    BY <1>2, <1>3 DEF GrowsOlder
  <1>5. terminated' \in [DOMAIN terminated' -> Ages]
    BY <1>1, <1>2 DEF GrowsOlder, StoreTyped
  <1>6. silence' \in [Ids -> Ages]
    BY <1>1 DEF GrowsOlder, StoreTyped
  <1>7. StoreTyped'
    BY <1>2, <1>4, <1>5, <1>6 DEF StoreTyped, Known, GrowsOlder
  <1>8. IdleIsSilence'
    <2>1. DOMAIN sessions \subseteq Ids
      BY SessionAssumption DEF StoreTyped, Known, Ids, Minted
    <2>2. \A j \in Ids : silence'[j] = Older(silence[j])
      BY DEF GrowsOlder
    <2> QED
      BY <1>2, <1>3, <2>1, <2>2 DEF IdleIsSilence
  <1> QED
    BY <1>2, <1>7, <1>8 DEF TombstonesHold

LEMMA ForgetKeeps ==
  ASSUME StoreInv, Forgets
  PROVE  StoreInv'
PROOF
  <1>1. /\ DOMAIN sessions' = {} /\ DOMAIN terminated' = {}
        /\ sessions' = [j \in {} |-> 0] /\ terminated' = [j \in {} |-> 0]
    BY DEF Forgets, Nothing
  <1>2. /\ sessions' \in [DOMAIN sessions' -> Session]
        /\ terminated' \in [DOMAIN terminated' -> Ages]
    BY <1>1
  <1> QED
    BY <1>1, <1>2
    DEF Forgets, StoreInv, StoreTyped, TombstonesHold, IdleIsSilence, Known

LEMMA StoreKeeps ==
  ASSUME StoreInv, StoreStep
  PROVE  StoreInv'
PROOF
  <1>1. CASE UNCHANGED <<minted, sessions, terminated, silence>>
    BY <1>1 DEF StoreInv, StoreTyped, TombstonesHold, IdleIsSilence, Known
  <1> QED
    BY <1>1, RenewKeeps, EvictKeeps, DeleteKeeps, AgeKeeps, ForgetKeeps
    DEF StoreStep

-----------------------------------------------------------------------------
(* What a step does to the requests. *)

ReqInv == req \in [Handlers -> Reqs] /\ MissesKnown /\ MissesLegacy

(* Handler h goes on with w.                                                 *)
SoundWork(w) ==
  /\ w \in Reqs
  /\ w.step = "missing"
       => w.id \in Known \cup {Unusable} /\ w.version \in LegacyVersions

LEMMA WorkKeeps ==
  ASSUME ReqInv, StoreTyped, NEW h \in Handlers, NEW w, SoundWork(w),
         req' = [req EXCEPT ![h] = w], minted' \in minted..MaxIds
  PROVE  ReqInv'
PROOF
  <1>1. Known \subseteq Known'
    BY SessionAssumption DEF StoreTyped, Known
  <1>2. req' \in [Handlers -> Reqs]
    BY DEF ReqInv, SoundWork
  <1>3. \A g \in Handlers : req'[g] = IF g = h THEN w ELSE req[g]
    BY DEF ReqInv
  <1> QED
    BY <1>1, <1>2, <1>3 DEF ReqInv, SoundWork, MissesKnown, MissesLegacy

LEMMA AnswersAreSound ==
  ASSUME NEW code \in Codes, NEW id \in Ids \cup {NoId, Unusable}
  PROVE  SoundWork(Replied(code, id))
PROOF
  BY DEF SoundWork, Replied, Reqs, Replies

LEMMA WorksAreSound ==
  ASSUME NEW method \in Methods \cup {"GET"},
         NEW id \in Ids \cup {NoId, Unusable}, NEW ver \in Versions
  PROVE  /\ SoundWork(Resolved(method, id, ver))
         /\ SoundWork(Handling(method, id, ver))
         /\ id \in Known \cup {Unusable} /\ ver \in LegacyVersions
              => SoundWork(Missing(method, id, ver))
PROOF
  BY DEF SoundWork, Resolved, Handling, Missing, Reqs, Works

LEMMA RecoveredIsLegacy ==
  ASSUME NEW header PROVE Recovered(header) \in LegacyVersions
PROOF
  BY SessionAssumption DEF Recovered

(* Every request that moves goes on with sound work.                         *)
LEMMA RequestsMoveSoundly ==
  ASSUME ReqInv, StoreTyped, TombstonesHold, NEW h \in Handlers, Request(h)
  PROVE  \E w : SoundWork(w) /\ req' = [req EXCEPT ![h] = w]
PROOF
  <1> USE DEF Answer, Proceed
  <1>a. LegacyVersions \subseteq Versions /\ Known \subseteq Ids
    BY SessionAssumption DEF Versions, StoreTyped, Known, Ids, Minted
  <1>b. {"ok", "accepted", "no content", "bad request", "unsupported",
         "unauthorized", "not found", "not allowed"} \subseteq Codes
    BY DEF Codes
  <1>1. CASE Refuse(h)
    BY <1>1, <1>b, AnswersAreSound DEF Refuse
  <1>2. CASE Initialize(h)
    <2>1. CASE legacy
      <3>1. PICK asked \in Versions : Create(Recovered(asked))
        BY <1>2, <2>1 DEF Initialize
      <3>2. NewId \in Ids
        BY <3>1, SessionAssumption
        DEF StoreTyped, Create, CanMint, NewId, Ids, Minted
      <3>3. SoundWork(Replied("ok", NewId))
        BY <3>2, <1>b, AnswersAreSound
      <3> QED
        BY <1>2, <2>1, <3>3 DEF Initialize
    <2>2. CASE ~legacy
      BY <1>2, <2>2, <1>b, AnswersAreSound DEF Initialize
    <2> QED
      BY <2>1, <2>2
  <1>3. CASE NotAllowed(h)
    BY <1>3, <1>b, AnswersAreSound DEF NotAllowed
  <1>4. CASE \E method \in Methods : Declared(h, method) \/ Undeclared(h, method)
    <2>1. PICK method \in Methods : Declared(h, method) \/ Undeclared(h, method)
      BY <1>4
    <2>2. \A ver \in Versions : SoundWork(Resolved(method, NoId, ver))
      BY WorksAreSound
    <2>3. Oldest \in Versions
      BY <1>a, SessionAssumption
    <2>4. CASE Declared(h, method)
      BY <2>2, <2>4 DEF Declared
    <2>5. CASE Undeclared(h, method)
      <3>1. PICK header \in Versions, modernMetadata \in BOOLEAN :
              req' = [req EXCEPT ![h] =
                Resolved(method, NoId,
                         IF legacy /\ header = NoVersion /\ ~modernMetadata
                         THEN Oldest ELSE header)]
        BY <2>5 DEF Undeclared
      <3> QED
        BY <2>2, <2>3, <3>1
    <2> QED
      BY <2>1, <2>4, <2>5
  <1>5. CASE \E method \in Methods \cup {"GET"}, id \in Presented :
               OnSession(h, method, id)
    <2>1. PICK method \in Methods \cup {"GET"}, id \in Presented :
            OnSession(h, method, id)
      BY <1>5
    <2>2. id \in Known \cup {Unusable} /\ id \in Ids \cup {NoId, Unusable}
      BY <1>a DEF Presented, Known
    <2>3. CASE Hit(h, method, id)
      <3>1. sessions[id].version \in Versions
        BY <2>3, <1>a, AliveFacts DEF Hit, StoreTyped, Session
      <3>2. SoundWork(Resolved(method, id, sessions[id].version))
        BY <2>2, <3>1, WorksAreSound
      <3>3. SoundWork(Replied("ok", id))
        BY <2>2, <1>b, AnswersAreSound
      <3> QED
        BY <2>3, <3>2, <3>3 DEF Hit
    <2>4. CASE \E header \in LegacyVersions \cup {NoVersion} :
                 Miss(h, method, id, header)
      <3>1. PICK header \in LegacyVersions \cup {NoVersion} :
              Miss(h, method, id, header)
        BY <2>4
      <3>2. SoundWork(Missing(method, id, Recovered(header)))
        BY <2>2, <1>a, RecoveredIsLegacy, WorksAreSound
      <3>3. SoundWork(Replied("not found", NoId))
        BY <1>b, AnswersAreSound
      <3> QED
        BY <3>1, <3>2, <3>3 DEF Miss
    <2> QED
      BY <2>1, <2>3, <2>4 DEF OnSession
  <1>6. CASE \E id \in Presented : Teardown(h, id)
    <2>1. PICK id \in Presented : Teardown(h, id)
      BY <1>6
    <2>2. /\ SoundWork(Replied("no content", NoId))
          /\ SoundWork(Replied("not found", NoId))
      BY <1>b, AnswersAreSound
    <2> QED
      BY <2>1, <2>2 DEF Teardown
  <1>7. CASE Adopt(h)
    <2> DEFINE method == req[h].method
               id == req[h].id
               ver == req[h].version
    <2>1. /\ id \in Known \cup {Unusable} /\ ver \in LegacyVersions
          /\ method \in Methods \cup {"GET"}
      <3>1. req[h] \in Reqs /\ req[h].step = "missing"
        BY <1>7 DEF Adopt, ReqInv
      <3>2. req[h] \in Works
        BY <3>1 DEF Reqs, Idle, Replies
      <3> QED
        BY <3>1, <3>2 DEF ReqInv, MissesKnown, MissesLegacy, Works
    <2>2. \A i \in Ids, v \in LegacyVersions :
            Adopted(h, i, v)
              => \E w : SoundWork(w) /\ req' = [req EXCEPT ![h] = w]
      <3> SUFFICES ASSUME NEW i \in Ids, NEW v \in LegacyVersions,
                          Adopted(h, i, v)
                   PROVE  \E w : SoundWork(w) /\ req' = [req EXCEPT ![h] = w]
        OBVIOUS
      <3>1. SoundWork(Replied("ok", id))
        BY <2>1, <1>a, <1>b, AnswersAreSound
      <3>2. SoundWork(Resolved(method, i, v))
        BY <2>1, <1>a, WorksAreSound
      <3> QED
        BY <3>1, <3>2 DEF Adopted
    <2>3. CASE AdoptLive(id, ver) /\ Adopted(h, id, sessions[id].version)
      <3>1. id \in Ids /\ sessions[id].version \in LegacyVersions
        BY <2>3, <1>a, AliveFacts DEF AdoptLive, StoreTyped, Session
      <3> QED
        BY <2>2, <2>3, <3>1
    <2>4. CASE AdoptEnded(id) /\ Answer(h, "not found", NoId)
      BY <2>4, <1>b, AnswersAreSound
    <2>5. CASE AdoptLost(id, ver) /\ Adopted(h, id, ver)
      BY <2>1, <2>2, <2>5 DEF AdoptLost, Usable
    <2>6. CASE AdoptUnusable(id, ver) /\ Adopted(h, NewId, ver)
      <3>1. NewId \in Ids
        BY <2>6, SessionAssumption
        DEF StoreTyped, AdoptUnusable, Create, CanMint, NewId, Ids, Minted
      <3> QED
        BY <2>1, <2>2, <2>6, <3>1
    <2> QED
      BY <1>7, <2>3, <2>4, <2>5, <2>6 DEF Adopt
  <1>8. CASE Dispatch(h) \/ Handle(h)
    <2> DEFINE method == req[h].method
               id == req[h].id
               ver == req[h].version
    <2>1. /\ id \in Ids \cup {NoId, Unusable} /\ ver \in Versions
          /\ method \in Methods \cup {"GET"}
      <3>1. req[h] \in Reqs /\ req[h].step \in {"resolved", "handling"}
        BY <1>8 DEF Dispatch, Handle, ReqInv
      <3>2. req[h] \in Works
        BY <3>1 DEF Reqs, Idle, Replies
      <3> QED
        BY <3>1, <3>2 DEF Works
    <2>2. \A code \in Codes : /\ SoundWork(Replied(code, id))
                              /\ SoundWork(Replied(code, NoId))
      BY <2>1, AnswersAreSound
    <2>3. SoundWork(Handling(method, id, ver))
      BY <2>1, WorksAreSound
    <2>4. CASE Dispatch(h)
      BY <2>2, <2>3, <2>4, <1>b DEF Dispatch
    <2>5. CASE Handle(h)
      BY <2>2, <2>5, <1>b DEF Handle
    <2> QED
      BY <1>8, <2>4, <2>5
  <1> QED
    BY <1>1, <1>2, <1>3, <1>4, <1>5, <1>6, <1>7, <1>8 DEF Request

-----------------------------------------------------------------------------
(* The invariant. *)

LEMMA InitEstablishes == Init => IInv
PROOF
  <1> SUFFICES ASSUME Init PROVE IInv
    OBVIOUS
  <1>1. /\ DOMAIN sessions = {} /\ DOMAIN terminated = {}
        /\ sessions = [j \in {} |-> 0] /\ terminated = [j \in {} |-> 0]
    BY DEF Init, Nothing
  <1>2. /\ sessions \in [DOMAIN sessions -> Session]
        /\ terminated \in [DOMAIN terminated -> Ages]
    BY <1>1
  <1>3. StoreTyped /\ TombstonesHold /\ IdleIsSilence
    BY <1>1, <1>2, SessionAssumption
    DEF Init, StoreTyped, TombstonesHold, IdleIsSilence, Known, Ages
  <1>4. req \in [Handlers -> Reqs] /\ \A h \in Handlers : req[h].step = "idle"
    BY DEF Init, Reqs, Idle
  <1>5. MissesKnown /\ MissesLegacy
    BY <1>4 DEF MissesKnown, MissesLegacy
  <1>6. TypeOK
    BY <1>1, <1>3, <1>4, SessionAssumption DEF Init, TypeOK, StoreTyped
  <1> QED
    BY <1>3, <1>5, <1>6 DEF IInv

LEMMA NextPreserves == IInv /\ [Next]_vars => IInv'
PROOF
  <1> SUFFICES ASSUME IInv, [Next]_vars PROVE IInv'
    OBVIOUS
  <1>1. StoreInv /\ ReqInv /\ TypeOK
    BY DEF IInv, StoreInv, ReqInv, TypeOK
  <1>2. StoreStep
    BY <1>1, StepsOfTheStore DEF StoreInv, ReqInv
  <1>3. StoreInv'
    BY <1>1, <1>2, StoreKeeps
  <1>4. minted' \in minted..MaxIds
    <2>1. minted \in minted..MaxIds
      BY <1>1, SessionAssumption DEF StoreInv, StoreTyped
    <2> QED
      BY <1>2, <2>1
      DEF StoreStep, Renews, Evicts, Deletes, GrowsOlder, Forgets
  <1>5. ReqInv'
    <2>1. CASE \E h \in Handlers : Request(h)
      <3>1. PICK h \in Handlers : Request(h)
        BY <2>1
      <3>2. PICK w : SoundWork(w) /\ req' = [req EXCEPT ![h] = w]
        BY <1>1, <3>1, RequestsMoveSoundly DEF StoreInv
      <3> QED
        BY <1>1, <1>4, <3>2, WorkKeeps DEF StoreInv
    <2>2. CASE Restart
      <3>1. /\ req' \in [Handlers -> Reqs]
            /\ \A h \in Handlers : req'[h].step = "idle"
        BY <2>2 DEF Restart, Reqs, Idle
      <3> QED
        BY <3>1 DEF ReqInv, MissesKnown, MissesLegacy
    <2>3. CASE Tick \/ Edit \/ UNCHANGED vars
      <3>1. UNCHANGED <<req, minted>>
        BY <2>3 DEF Tick, Edit, vars, storeVars
      <3> QED
        BY <1>1, <3>1 DEF ReqInv, MissesKnown, MissesLegacy, Known
    <2> QED
      BY <2>1, <2>2, <2>3 DEF Next
  <1>6. /\ boots' \in 0..MaxBoots
        /\ legacy' \in BOOLEAN /\ recovery' \in BOOLEAN
        /\ serverLegacy' \in BOOLEAN /\ fileLegacy' \in BOOLEAN
        /\ quit' \subseteq Ids
    <2>1. CASE \E h \in Handlers : Request(h)
      <3>1. PICK h \in Handlers : Request(h)
        BY <2>1
      <3>2. UNCHANGED <<boots, legacy, recovery, fileLegacy>>
        BY <3>1
        DEF Request, Refuse, Initialize, NotAllowed, Declared, Undeclared,
            OnSession, Teardown, Adopt, Dispatch, Handle, configVars
      <3>3. serverLegacy' \in {serverLegacy, fileLegacy}
        BY <3>1
        DEF Request, Refuse, Initialize, NotAllowed, Declared, Undeclared,
            OnSession, Teardown, Adopt, Dispatch, Handle, configVars
      <3>4. quit' = quit \/ \E i \in DOMAIN sessions : quit' = quit \cup {i}
        BY <3>1
        DEF Request, Refuse, Initialize, NotAllowed, Declared, Undeclared,
            OnSession, Teardown, Adopt, Dispatch, Handle, Delete
      <3>5. DOMAIN sessions \subseteq Ids
        BY <1>1 DEF TypeOK
      <3> QED
        BY <1>1, <3>2, <3>3, <3>4, <3>5 DEF TypeOK
    <2>2. CASE Restart
      BY <1>1, <2>2, SessionAssumption DEF Restart, TypeOK
    <2>3. CASE Tick
      BY <1>1, <2>3 DEF Tick, TypeOK, configVars
    <2>4. CASE Edit
      BY <1>1, <2>4 DEF Edit, TypeOK
    <2>5. CASE UNCHANGED vars
      BY <1>1, <2>5 DEF vars, configVars, TypeOK
    <2> QED
      BY <2>1, <2>2, <2>3, <2>4, <2>5 DEF Next
  <1>7. Known' \subseteq Ids
    BY <1>3, SessionAssumption DEF StoreInv, StoreTyped, Known, Ids, Minted
  <1>8. TypeOK'
    BY <1>3, <1>5, <1>6, <1>7 DEF TypeOK, StoreInv, StoreTyped, ReqInv
  <1> QED
    BY <1>3, <1>5, <1>8 DEF IInv, StoreInv, ReqInv

LEMMA Invariance == Spec => []IInv
PROOF
  BY InitEstablishes, NextPreserves, PTL DEF Spec

-----------------------------------------------------------------------------
(* Every variable keeps its type: in particular no id that validSessionID    *)
(* refuses is ever stored (Adopt).                                           *)
THEOREM TypeCorrect == Spec => []TypeOK
PROOF
  <1>1. IInv => TypeOK
    BY DEF IInv
  <1> QED
    BY <1>1, Invariance, PTL

(* No id is live and ended at once, though Get and Adopt are two separate    *)
(* critical sections and a DELETE may come between them.                     *)
THEOREM TombstonesStand == Spec => []TombstonesHold
PROOF
  <1>1. IInv => TombstonesHold
    BY DEF IInv
  <1> QED
    BY <1>1, Invariance, PTL

(* For one timeout after a DELETE, and until a restart, nothing brings the   *)
(* session back.                                                             *)
THEOREM TeardownStands == Spec => TeardownKept
PROOF
  <1> DEFINE Stands == \A i \in DOMAIN terminated :
                        terminated[i] <= TTL /\ boots' = boots
                          => i \in DOMAIN terminated' /\ i \notin DOMAIN sessions'
  <1>1. IInv /\ IInv' /\ [Next]_vars => [Stands]_vars
    <2> SUFFICES ASSUME IInv, IInv', [Next]_vars,
                        NEW i \in DOMAIN terminated,
                        terminated[i] <= TTL, boots' = boots
                 PROVE  i \in DOMAIN terminated' /\ i \notin DOMAIN sessions'
      OBVIOUS
    <2>1. StoreStep /\ StoreTyped
      BY StepsOfTheStore DEF IInv
    <2>2. i \in DOMAIN Kept(terminated)
      BY <2>1, KeptFacts
    <2>3. i \in DOMAIN terminated'
      <3>1. CASE Renews \/ Evicts
        BY <2>2, <3>1 DEF Renews, Evicts
      <3>2. CASE Deletes
        BY <3>2 DEF Deletes, Put
      <3>3. CASE GrowsOlder
        BY <3>3 DEF GrowsOlder
      <3>4. CASE Forgets
        BY <3>4 DEF Forgets
      <3>5. CASE UNCHANGED <<minted, sessions, terminated, silence>>
        BY <3>5
      <3> QED
        BY <2>1, <3>1, <3>2, <3>3, <3>4, <3>5 DEF StoreStep
    <2> QED
      BY <2>3 DEF IInv, TombstonesHold
  <1>2. TeardownKept <=> [][Stands]_vars
    BY DEF TeardownKept
  <1> HIDE DEF Stands
  <1> QED
    BY <1>1, <1>2, Invariance, PTL DEF Spec

(* A session is dropped only by its client, by a restart, or when no request *)
(* came for longer than the timeout.                                         *)
THEOREM ActiveSessionsStay == Spec => ActiveStays
PROOF
  <1> DEFINE Stays == \A i \in DOMAIN sessions :
                        silence[i] <= TTL /\ boots' = boots
                          => i \in DOMAIN sessions' \cup DOMAIN terminated'
  <1>1. IInv /\ [Next]_vars => [Stays]_vars
    <2> SUFFICES ASSUME IInv, [Next]_vars, NEW i \in DOMAIN sessions,
                        silence[i] <= TTL, boots' = boots
                 PROVE  i \in DOMAIN sessions' \cup DOMAIN terminated'
      OBVIOUS
    <2>1. StoreStep /\ StoreTyped
      BY StepsOfTheStore DEF IInv
    <2>2. i \in DOMAIN Alive(sessions)
      BY <2>1, AliveFacts DEF IInv, IdleIsSilence
    <2>3. CASE Renews \/ Evicts
      BY <2>2, <2>3 DEF Renews, Evicts, Put
    <2>4. CASE Deletes
      BY <2>4 DEF Deletes, Put, Without
    <2>5. CASE GrowsOlder
      BY <2>5 DEF GrowsOlder
    <2>6. CASE Forgets
      BY <2>6 DEF Forgets
    <2>7. CASE UNCHANGED <<minted, sessions, terminated, silence>>
      BY <2>7
    <2> QED
      BY <2>1, <2>3, <2>4, <2>5, <2>6, <2>7 DEF StoreStep
  <1>2. ActiveStays <=> [][Stays]_vars
    BY DEF ActiveStays
  <1> HIDE DEF Stays
  <1> QED
    BY <1>1, <1>2, Invariance, PTL DEF Spec

(* Whichever handlers recover a session at once, it has one version.         *)
THEOREM VersionsStay == Spec => VersionKept
PROOF
  <1> DEFINE Same == \A i \in DOMAIN sessions \cap DOMAIN sessions' :
                       silence[i] <= TTL /\ boots' = boots
                         => sessions'[i].version = sessions[i].version
  <1>1. IInv /\ [Next]_vars => [Same]_vars
    <2> SUFFICES ASSUME IInv, [Next]_vars,
                        NEW i \in DOMAIN sessions \cap DOMAIN sessions',
                        silence[i] <= TTL, boots' = boots
                 PROVE  sessions'[i].version = sessions[i].version
      OBVIOUS
    <2>1. StoreStep /\ StoreTyped
      BY StepsOfTheStore DEF IInv
    <2>2. i \in DOMAIN Alive(sessions) /\ Alive(sessions)[i] = sessions[i]
      BY <2>1, AliveFacts DEF IInv, IdleIsSilence
    <2>3. CASE Renews
      <3>1. PICK j \in Ids, s \in Session :
              /\ j \in DOMAIN Alive(sessions)
                   => s.version = sessions[j].version
              /\ sessions' = Put(Alive(sessions), j, s)
        BY <2>3 DEF Renews
      <3>2. sessions'[i] = IF i = j THEN s ELSE Alive(sessions)[i]
        BY <3>1 DEF Put
      <3> QED
        BY <2>2, <3>1, <3>2
    <2>4. CASE Evicts
      BY <2>2, <2>4 DEF Evicts
    <2>5. CASE Deletes
      BY <2>5 DEF Deletes, Without
    <2>6. CASE GrowsOlder
      <3>1. sessions'[i] = [sessions[i] EXCEPT !.idle = Older(sessions[i].idle)]
        BY <2>6 DEF GrowsOlder
      <3>2. sessions[i] \in Session
        BY <2>1 DEF StoreTyped
      <3> QED
        BY <3>1, <3>2 DEF Session
    <2>7. CASE Forgets
      BY <2>7 DEF Forgets
    <2>8. CASE UNCHANGED <<minted, sessions, terminated, silence>>
      BY <2>8
    <2> QED
      BY <2>1, <2>3, <2>4, <2>5, <2>6, <2>7, <2>8 DEF StoreStep
  <1>2. VersionKept <=> [][Same]_vars
    BY DEF VersionKept
  <1> HIDE DEF Same
  <1> QED
    BY <1>1, <1>2, Invariance, PTL DEF Spec
===============================================================================
