----------------------------- MODULE ReadTracking -----------------------------
(***************************************************************************)
(* What the agent's model is shown of the files it has read                *)
(* (agent_read_tracking.go, and the parts of agent.go that call it).  The  *)
(* conversation keeps the result of every read; a newer read of the same   *)
(* lines, or a write of the file by a local tool, replaces the older       *)
(* result in place by a note.  A call and its result are tied together by  *)
(* an id that the model's server chooses, and need not be unique.          *)
(*                                                                         *)
(* A file is a sequence of versions, and what a read returned is the       *)
(* version it saw.  The agent goes by names: the workspace's own name for  *)
(* each path as spelled (Workspace.Canonical), which need not be that of a *)
(* file.  With exact_path_not_required a tool given such a name acts on    *)
(* the one file called so elsewhere (ResolveForRead), and the agent does   *)
(* not hear which.  A path given to a write tool stands for a set of       *)
(* names: one, those in the sections of a diff, or all below a directory   *)
(* (pathWithin).  What a spelling is named does not change: no file is     *)
(* created through a link.  Messages that neither call nor answer a tool   *)
(* are left out; permission, interruption and the model's replies are the  *)
(* subject of AgentConsole.                                                *)
(***************************************************************************)
EXTENDS Integers, Sequences, Functions

CONSTANTS
  Names,       (* the workspace's own names, of files and of what is none    *)
  Files,       (* those of the files                                         *)
  Canonical,   (* the name of each spelling of a path (canonicalPath)        *)
  Reached,     (* the files a tool given a name may act on: the one of that  *)
               (* name, or the only one called so elsewhere (ResolveForRead) *)
  CallIds,     (* the ids calls may carry                                    *)
  Invocations, (* the calls the model may make, without their ids            *)
  Elsewhere,   (* the files that change behind the conversation's back       *)
  MaxCalls,    (* bound of the model: calls the model makes in all           *)
  MaxVersion   (* bound of the model: changes of one file                    *)

Spellings == DOMAIN Canonical

(* readTarget: 0 as the first line means line 1, 0 as the last means to the  *)
(* end of the file.  readCallTargets reads them off the arguments of         *)
(* read_file, which reads one file, and of read_files.  A write tool is      *)
(* given names (writeCallTargets).                                           *)
Target == [path : Spellings, first : Nat, last : Nat]
ReadInvocation ==
  [tool : {"read_file", "read_files"}, targets : Seq(Target), preserve : BOOLEAN]
WriteInvocation == [tool : {"write"}, names : SUBSET Names]
IsRead(call) == call.tool \in {"read_file", "read_files"}

ASSUME TrackingAssumption ==
  /\ Files \subseteq Names
  /\ Canonical \in [Spellings -> Names]
  /\ Reached \in [Names -> SUBSET Files]
  /\ \A c \in Invocations :
       IF IsRead(c)
       THEN /\ c \in ReadInvocation /\ c.targets # <<>>
            /\ c.tool = "read_file" => Len(c.targets) = 1
       ELSE c \in WriteInvocation /\ c.names # {}
  /\ Elsewhere \subseteq Files
  /\ {MaxCalls, MaxVersion} \subseteq Nat

(* Every target some call names: the old reads a rewrite asks about.         *)
Targets == UNION {Range(c.targets) : c \in {d \in Invocations : IsRead(d)}}

VARIABLES
  version,   (* how often each file has changed                              *)
  history,   (* a.history: messages that call tools, and results             *)
  calls,     (* the calls of the last message that are still to be answered  *)
  saved,     (* the session file: a history, and told when it was written    *)
  made,      (* how many calls have been made                                *)
  told       (* of each name and file, the version of the file after the     *)
             (* last write, given that name among others, that changed it    *)
             (* and that this conversation was told had succeeded            *)
trackingVars == <<version, history, calls, saved, made, told>>

Untold == [n \in Names |-> [f \in Files |-> 0]]

TrackingInit ==
  /\ version = [f \in Files |-> 0]
  /\ history = <<>>
  /\ calls = <<>>
  /\ saved = [history |-> <<>>, told |-> Untold]
  /\ made = 0
  /\ told = Untold

-----------------------------------------------------------------------------
(* Rewriting earlier results. *)

FirstLine(t) == IF t.first = 0 THEN 1 ELSE t.first

Covers(t, older) ==
  /\ FirstLine(t) <= FirstLine(older)
  /\ \/ t.last = 0
     \/ older.last # 0 /\ t.last >= older.last

(* A result: what a read returned, entry by entry; the note that took its    *)
(* place; or anything else (an error, a refusal, what a write said).         *)
Held(entries) == [kind |-> "held", entries |-> entries]
Plain == [kind |-> "plain"]
IsReadNudge(content) == content.kind \in {"stale", "changed"}

Note(why, call, stale) ==
  [kind |-> why,
   hit |-> {Canonical[t.path] : t \in Range(call.targets) \cap stale},
   others |-> {Canonical[t.path] : t \in Range(call.targets) \ stale}
                \ {Canonical[t.path] : t \in Range(call.targets) \cap stale}]

Result(id, content) == [role |-> "tool", id |-> id, content |-> content]
Asks(cs) == [role |-> "assistant", calls |-> cs]

(* The places of the calls in a conversation: message, and call of it.       *)
CallsIn(h) ==
  UNION {{i} \X DOMAIN h[i].calls : i \in {j \in DOMAIN h : h[j].role = "assistant"}}
CallAt(h, p) == h[p[1]].calls[p[2]]
Earliest(places) ==
  CHOOSE p \in places :
    \A q \in places : p[1] < q[1] \/ (p[1] = q[1] /\ p[2] <= q[2])

(* findToolResult: the first result of that id.                              *)
FindToolResult(h, id) ==
  {j \in DOMAIN h : /\ h[j].role = "tool" /\ h[j].id = id
                    /\ \A k \in DOMAIN h : h[k].role = "tool" /\ h[k].id = id => k >= j}

(* replaceReads: of the calls of one id, other than skip, that read          *)
(* something stale, the first decides what the note says.                    *)
Hits(h, id, stale) ==
  {p \in CallsIn(h) : LET c == CallAt(h, p)
                      IN c.id = id /\ IsRead(c) /\ Range(c.targets) \cap stale # {}}
ReplaceReads(h, skip, stale, why) ==
  [j \in DOMAIN h |->
     IF /\ h[j].role = "tool" /\ h[j].id \notin skip
        /\ j \in FindToolResult(h, h[j].id)
        /\ Hits(h, h[j].id, stale) # {} /\ ~IsReadNudge(h[j].content)
     THEN Result(h[j].id, Note(why, CallAt(h, Earliest(Hits(h, h[j].id, stale))), stale))
     ELSE h[j]]

NudgeStaleReads(h, call) ==
  ReplaceReads(h, {call.id},
    {old \in Targets : \E t \in Range(call.targets) :
       Canonical[t.path] = Canonical[old.path] /\ Covers(t, old)}, "stale")

SpelledAlike(h, names) ==  \* mutant: paths are compared as they were spelled
  ReplaceReads(h, {}, {old \in Targets : old.path \in names}, "changed")
InvalidateReadsAfterWrite(h, names) ==
  ReplaceReads(h, {}, {old \in Targets : Canonical[old.path] \in names}, "changed")

-----------------------------------------------------------------------------
(* One round of the model/tool loop: a reply with calls, answered in order.  *)

ModelCalls(cs) ==
  /\ calls = <<>>
  /\ made + Len(cs) <= MaxCalls
  /\ made' = made + Len(cs)
  /\ history' = Append(history, Asks(cs))
  /\ calls' = cs
  /\ UNCHANGED <<version, saved, told>>

AnswerCall(h, content) ==
  /\ history' = Append(h, Result(calls[1].id, content))
  /\ calls' = Tail(calls)

(* Declined, cancelled, unknown, cut off, failed without effect, a dry run.  *)
NotRun ==
  /\ calls # <<>>
  /\ AnswerCall(history, Plain)
  /\ UNCHANGED <<version, saved, made, told>>

(* The files a read acts on; those of read_files whose error is reported in  *)
(* place (failed) act on none.                                               *)
ActsOn(call, failed) ==
  {acts \in [DOMAIN call.targets -> Names] :
     \A i \in DOMAIN acts :
       LET name == Canonical[call.targets[i].path]
       IN IF i \in failed THEN acts[i] = name ELSE acts[i] \in Reached[name]}

(* What readFileRange returned for each target.                              *)
Entries(call, failed, cut, acts) ==
  [i \in DOMAIN call.targets |->
     [target |-> call.targets[i], path |-> acts[i],
      whole |-> i \notin failed /\ ~cut,
      shown |-> i \notin failed,
      version |-> IF i \in failed THEN 0 ELSE version[acts[i]]]]

(* A read; cut when the result was too long to be kept whole.                *)
NudgesAnyway(failed, cut) ==  \* mutant: a truncated read supersedes as well
  /\ calls # <<>> /\ IsRead(calls[1])
  /\ failed \subseteq DOMAIN calls[1].targets
  /\ calls[1].tool = "read_file" => failed = {}
  /\ \E acts \in ActsOn(calls[1], failed) :
       AnswerCall(IF calls[1].preserve THEN history ELSE NudgeStaleReads(history, calls[1]),
                  Held(Entries(calls[1], failed, cut, acts)))
  /\ UNCHANGED <<version, saved, made, told>>
Read(failed, cut) ==
  /\ calls # <<>> /\ IsRead(calls[1])
  /\ failed \subseteq DOMAIN calls[1].targets
  /\ calls[1].tool = "read_file" => failed = {}
  /\ \E acts \in ActsOn(calls[1], failed) :
       AnswerCall(IF cut \/ calls[1].preserve THEN history
                  ELSE NudgeStaleReads(history, calls[1]),
                  Held(Entries(calls[1], failed, cut, acts)))
  /\ UNCHANGED <<version, saved, made, told>>

Changed(files) ==
  /\ \A f \in files : version[f] < MaxVersion
  /\ version' = [f \in Files |-> IF f \in files THEN version[f] + 1 ELSE version[f]]

MayChange(call) == UNION {Reached[n] : n \in call.names}

(* A write tool that succeeds: a batch or a tree changes some of its files,  *)
(* which are not always of the names it was given; invalidated are the reads *)
(* of those names.                                                           *)
Write(files) ==
  /\ calls # <<>> /\ ~IsRead(calls[1])
  /\ files \subseteq MayChange(calls[1])
  /\ Changed(files)
  /\ AnswerCall(InvalidateReadsAfterWrite(history, calls[1].names), Plain)
  /\ told' = [n \in Names |-> [f \in Files |->
                IF n \in calls[1].names /\ f \in files THEN version'[f] ELSE told[n][f]]]
  /\ UNCHANGED <<saved, made>>

(* A batch that fails after it has written some of its files answers an      *)
(* error, after which executeTool returns before it invalidates anything.    *)
WriteFailsPartWay(files) ==
  /\ calls # <<>> /\ ~IsRead(calls[1])
  /\ files # {} /\ files \subseteq MayChange(calls[1])
  /\ files # MayChange(calls[1])
  /\ Changed(files)
  /\ AnswerCall(history, Plain)
  /\ UNCHANGED <<saved, made, told>>

(* A change nobody tells the conversation of: by the user, by a command the  *)
(* model ran, or by format_markdown, which writeCallTargets leaves out.      *)
ChangedElsewhere(f) ==
  /\ Changed({f})
  /\ UNCHANGED <<history, calls, saved, made, told>>

-----------------------------------------------------------------------------
(* Console commands, between turns. *)

(* /clear; /compress leaves a summary, which neither calls nor answers.      *)
Clear ==
  /\ calls = <<>> /\ history # <<>>
  /\ history' = <<>>
  /\ told' = Untold
  /\ UNCHANGED <<version, calls, saved, made>>

(* The session is saved once: a bound of the model.                         *)
SaveSession ==
  /\ calls = <<>> /\ history # <<>> /\ saved.history = <<>>
  /\ saved' = [history |-> history, told |-> told]
  /\ UNCHANGED <<version, history, calls, made, told>>

LoadSession ==
  /\ calls = <<>> /\ saved.history # <<>>
  /\ history' = saved.history
  /\ told' = saved.told
  /\ UNCHANGED <<version, calls, saved, made>>

WithId(c, id) == [f \in DOMAIN c \cup {"id"} |-> IF f = "id" THEN id ELSE c[f]]
CallLists == {<<WithId(c, id)>> : c \in Invocations, id \in CallIds}
             \cup {<<WithId(c, id), WithId(d, jd)>> :
                     c \in Invocations, d \in Invocations, id \in CallIds, jd \in CallIds}

TrackingNext ==
  \/ \E cs \in CallLists : ModelCalls(cs)
  \/ \E c \in {d \in Invocations : IsRead(d)}, cut \in BOOLEAN :
       \E failed \in SUBSET DOMAIN c.targets : Read(failed, cut)
  \/ NotRun
  \/ \E files \in SUBSET Files : Write(files)
  \/ \E files \in SUBSET Files : WriteFailsPartWay(files)
  \/ \E f \in Elsewhere : ChangedElsewhere(f)
  \/ Clear
  \/ SaveSession
  \/ LoadSession

TrackingSpec == TrackingInit /\ [][TrackingNext]_trackingVars

-----------------------------------------------------------------------------
(* Properties. *)

Contents == [kind : {"plain"}]
  \cup [kind : {"stale", "changed"}, hit : SUBSET Names, others : SUBSET Names]
  \cup [kind : {"held"},
         entries : Seq([target : Targets, path : Names, whole : BOOLEAN,
                        shown : BOOLEAN, version : 0..MaxVersion])]
Calls == {WithId(c, id) : c \in Invocations, id \in CallIds}
Messages == [role : {"assistant"}, calls : Seq(Calls)]
  \cup [role : {"tool"}, id : CallIds, content : Contents]

Told == [Names -> [Files -> 0..MaxVersion]]

TrackingTypeOK ==
  /\ made \in 0..MaxCalls
  /\ version \in [Files -> 0..MaxVersion]
  /\ told \in Told
  /\ history \in Seq(Messages)
  /\ calls \in Seq(Calls)
  /\ saved \in [history : Seq(Messages), told : Told]

Results(h) == {j \in DOMAIN h : h[j].role = "tool"}

(* The only call and the only result of their id.                            *)
Unambiguous(h, id) ==
  /\ \A j, k \in Results(h) : h[j].id = id /\ h[k].id = id => j = k
  /\ \A p, q \in CallsIn(h) : CallAt(h, p).id = id /\ CallAt(h, q).id = id => p = q

(* What the conversation still shows of a file, read under a name, is no     *)
(* older than the last write under that name, or of a batch or a tree that   *)
(* holds it, which changed the file and which the conversation was told had  *)
(* succeeded: no batch, no spelling of the path, no interplay of notes and   *)
(* no session loaded back leaves a copy from before                          *)
(* (invalidateReadsAfterWrite) - provided that the server gives the call     *)
(* that read it an id of its own.                                            *)
ShowsNothingOlder(h, seen) ==
  \A j \in Results(h) :
    h[j].content.kind = "held" /\ Unambiguous(h, h[j].id)
      => \A e \in Range(h[j].content.entries) :
           e.shown => e.version >= seen[Canonical[e.target.path]][e.path]
NoReadOlderThanAWrite == TrackingTypeOK /\ ShowsNothingOlder(history, told)

(* The calls a result answers, and whether one of them asked for all the     *)
(* lines under the name n that t did.                                        *)
Answered(h, j) == {CallAt(h, p) : p \in {q \in CallsIn(h) : CallAt(h, q).id = h[j].id}}
ReadAgain(h, k, n, t) ==
  \E c \in Answered(h, k) : IsRead(c) /\ \E u \in Range(c.targets) :
    Canonical[u.path] = n /\ Covers(u, t)

(* A note that says "read again more recently" is about a read that was:     *)
(* for each name in it, lines of the removed result are in a later read,     *)
(* which was not cut short and shows them - unless nothing could by then     *)
(* be read there, or that read was in turn noted, and its note has the name  *)
(* (nudgeStaleReads, truncateToolResult) - provided that the server gives    *)
(* both calls ids of their own.                                              *)
StillTold(content, n) ==
  \/ /\ content.kind = "held"
     /\ \E e \in Range(content.entries) :
          Canonical[e.target.path] = n /\ (e.whole \/ ~e.shown)
  \/ IsReadNudge(content) /\ n \in content.hit \cup content.others
NotesPoint(h) ==
  \A j \in Results(h) :
    h[j].content.kind = "stale" /\ Unambiguous(h, h[j].id) =>
      \A n \in h[j].content.hit :
        \E k \in Results(h), c \in Answered(h, j) :
          /\ k > j
          /\ \E t \in Range(c.targets) : Canonical[t.path] = n /\ ReadAgain(h, k, n, t)
          /\ Unambiguous(h, h[k].id) => StillTold(h[k].content, n)
StaleNotesPointSomewhere == NotesPoint(history)

-----------------------------------------------------------------------------
(* A statement of the repository the code does not keep. *)

(* agent_read_tracking.go: a write "replaces the result of every earlier     *)
(* read of a file a write tool has just changed" - whatever name either of   *)
(* them was given.                                                           *)
NothingOlderWhateverIsNamed ==
  \A j \in Results(history) :
    history[j].content.kind = "held" /\ Unambiguous(history, history[j].id)
      => \A e \in Range(history[j].content.entries), n \in Names :
           e.shown => e.version >= told[n][e.path]
===============================================================================
