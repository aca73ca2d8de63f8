----------------------------- MODULE ModelClient -----------------------------
(***************************************************************************)
(* The agent's client of a model endpoint (llmClient of agent_llm.go): it  *)
(* finds out which model and dialect the service speaks, asks it for a     *)
(* completion, tries again with growing pauses when that may help, and     *)
(* reads the reply whole or as a stream, under a timer that ends a request *)
(* on which nothing has arrived for too long.                              *)
(*                                                                         *)
(* The service is the environment: it may restart and then serve another   *)
(* model in another dialect, refuse, be busy, be unreachable, fall silent, *)
(* or cut a stream.  Time passes in ticks; a service answers at any time.  *)
(* The URLs a dialect may be served at are one route here.                 *)
(***************************************************************************)
EXTENDS Integers, Sequences, FiniteSets, WireFormats

CONSTANTS
  Configured,   (* the style in the configuration, or "auto"                 *)
  Served,       (* the styles this service may turn out to speak             *)
  Histories,    (* the conversations that may have to be continued           *)
  Answers,      (* what the service may mean to reply                        *)
  RetryLimit,   (* cfg.RetryLimit                                            *)
  BackoffLimit, (* cfg.ExponentialBackoffLimit, in ticks                     *)
  Idle,         (* timeout_seconds, in ticks                                 *)
  MaxAsks,      (* bound of the model: completions asked for                 *)
  MaxRestarts   (* bound of the model: restarts of the service               *)

(* validate refuses negative limits; a timeout that is not positive is       *)
(* replaced by the default.                                                  *)
ASSUME ClientAssumption ==
  /\ Configured \in Styles \cup {"auto"}
  /\ Served \subseteq Styles /\ Served # {}
  /\ RetryLimit \in Nat /\ BackoffLimit \in Nat \ {0} /\ Idle \in Nat \ {0}
  /\ MaxAsks \in Nat /\ MaxRestarts \in Nat

(* What AgentConsole shows of the conversation.                              *)
ASSUME ConversationAssumption ==
  /\ \A h \in Histories : IsConversation(h)
  /\ \A a \in Answers : a \in Seq(Range(a)) /\ \A b \in DOMAIN a : IsReplyBlock(a[b])

VARIABLES
  serves,    (* the dialect the service speaks, and the model it has         *)
  style,     (* c.style, "" when it is still to be found                     *)
  model,     (* c.model, 0 when it is still to be found                      *)
  phase,     (* where the goroutine of the completion is                     *)
  streaming, (* whether the reply is read as it comes                        *)
  history,   (* the conversation of the completion                           *)
  probe,     (* how many styles the detection has tried                      *)
  attempt,   (* retryingRequest's counter                                    *)
  rest,      (* ticks left of the pause between two attempts                 *)
  timer,     (* ticks left of the timer of the request                       *)
  ctx,       (* "live", "idle" (the timer cancelled it) or "interrupted"     *)
  answer,    (* what the service means to reply                              *)
  limit,     (* whether it stops at the output limit                         *)
  left,      (* of each block of the reply, the pieces still to be sent      *)
  got,       (* what the reader has put together                             *)
  shown,     (* the text passed to onDelta                                   *)
  outcome,   (* how the completion ended                                     *)
  asks,      (* how many completions have been asked for                     *)
  restarts,  (* how often the service has restarted                          *)
  current,   (* whether it has not, since the client last had to look        *)
  quiet      (* ticks since the request was made or something of its answer  *)
             (* arrived; not part of the code                                *)

service == <<serves, restarts>>
route == <<style, model>>
reply == <<answer, limit, left>>
reader == <<got, shown>>
asked == <<streaming, history, asks>>
vars == <<service, route, phase, asked, probe, attempt, rest, timer, ctx, reply,
          reader, outcome, current, quiet>>

Models == 1..(MaxRestarts + 1)
InitialStyle == IF Configured = "auto" THEN "" ELSE Configured
Silent == [how |-> "none"]

Init ==
  /\ serves \in [style : Served, model : {1}]
  /\ style = InitialStyle /\ model = 0
  /\ phase = "idle"
  /\ streaming = FALSE /\ history = <<>>
  /\ probe = 0 /\ attempt = 0 /\ rest = 0 /\ timer = 0
  /\ ctx = "live"
  /\ answer = <<>> /\ limit = FALSE /\ left = <<>>
  /\ got = NothingYet /\ shown = <<>>
  /\ outcome = Silent
  /\ asks = 0 /\ restarts = 0
  /\ current = TRUE /\ quiet = 0

(* The service comes back with another model, perhaps in another dialect.    *)
Restart(s) ==
  /\ restarts < MaxRestarts
  /\ phase \in {"idle", "probing", "backoff"}
  /\ restarts' = restarts + 1
  /\ serves' = [style |-> s, model |-> restarts' + 1]
  /\ current' = FALSE
  /\ UNCHANGED <<route, phase, asked, probe, attempt, rest, timer, ctx, reply,
                 reader, outcome, quiet>>

-----------------------------------------------------------------------------
(* Asking: a prompt, or /retry, which first forgets what was detected.       *)

Ends(how) ==
  /\ phase' = "idle"
  /\ outcome' = how
Failure(why) == [how |-> "error", why |-> why]

(* completeWithStream: looks first if something is still to be found.        *)
Begin(h, live, s, m) ==
  /\ phase = "idle" /\ asks < MaxAsks
  /\ asks' = asks + 1 /\ history' = h /\ streaming' = live
  /\ phase' = IF s = "" \/ m = 0 THEN "listing" ELSE "send"
  /\ probe' = 0 /\ attempt' = 0 /\ rest' = 0
  /\ timer' = Idle
  /\ ctx' = "live" /\ outcome' = Silent
  /\ got' = NothingYet /\ shown' = <<>> /\ quiet' = 0
  /\ UNCHANGED <<service, reply>>

Prompt(h, live) ==
  /\ Begin(h, live, style, model)
  /\ UNCHANGED <<route, current>>

ForgetsOnlyTheModel(h, live) ==  \* mutant: /retry keeps the detected style
  /\ model' = 0
  /\ current' = TRUE
  /\ Begin(h, live, style, 0)
  /\ UNCHANGED style
Retry(h, live) ==
  /\ model' = 0
  /\ style' = InitialStyle
  /\ current' = TRUE
  /\ Begin(h, live, style', 0)

(* Ctrl-C, or the wall clock of the turn.                                    *)
Interrupt ==
  /\ phase # "idle" /\ ctx # "interrupted"
  /\ ctx' = "interrupted"
  /\ UNCHANGED <<service, route, phase, asked, probe, attempt, rest, timer,
                 reply, reader, outcome, current, quiet>>

-----------------------------------------------------------------------------
(* Detection. *)

(* listModels takes the first model listed.  It is kept even if the style    *)
(* is not found.                                                             *)
ListModels ==
  /\ phase = "listing"
  /\ \/ /\ ctx = "live"
        /\ model' = IF model = 0 THEN serves.model ELSE model
        /\ phase' = IF style = "" THEN "probing" ELSE "send"
        /\ UNCHANGED outcome
     \/ Ends(Failure("no model")) /\ UNCHANGED model
  /\ UNCHANGED <<service, style, asked, probe, attempt, rest, timer, ctx,
                 reply, reader, current, quiet>>

(* One route is tried: it is there, it is not, it cannot be reached - which  *)
(* ends the search only when the completion was cancelled - or it refuses    *)
(* the credentials, which ends it.                                           *)
Probe(answers) ==
  /\ phase = "probing" /\ probe < Len(DetectionOrder)
  /\ probe' = probe + 1
  /\ LET s == DetectionOrder[probe'] IN
     CASE ctx # "live" -> Ends(Failure("cancelled")) /\ UNCHANGED style
       [] ctx = "live" /\ answers = "refused" ->
            Ends(Failure("refused")) /\ UNCHANGED style
       [] ctx = "live" /\ answers = "ok" /\ s = serves.style ->
            style' = s /\ phase' = "send" /\ UNCHANGED outcome
       [] OTHER -> UNCHANGED <<style, phase, outcome>>
  /\ UNCHANGED <<service, model, asked, attempt, rest, timer, ctx, reply,
                 reader, current, quiet>>

NotDetected ==
  /\ phase = "probing" /\ probe = Len(DetectionOrder)
  /\ Ends(Failure("no style"))
  /\ UNCHANGED <<service, route, asked, probe, attempt, rest, timer, ctx,
                 reply, reader, current, quiet>>

-----------------------------------------------------------------------------
(* The request, and its retries. *)

Streams == streaming /\ style \in StreamingStyles

(* Every attempt starts the timer anew; on a cancelled context it fails      *)
(* without reaching the service.                                             *)
SendKeepsTimer ==  \* mutant: the timer of the first attempt runs on
  /\ phase = "send"
  /\ phase' = IF ctx = "live" THEN "waiting" ELSE "failed"
  /\ outcome' = IF ctx = "live" THEN outcome ELSE Failure("cancelled")
  /\ quiet' = 0
  /\ UNCHANGED <<service, route, asked, probe, attempt, rest, timer, ctx,
                 reply, reader, current>>
Send ==
  /\ phase = "send"
  /\ phase' = IF ctx = "live" THEN "waiting" ELSE "failed"
  /\ outcome' = IF ctx = "live" THEN outcome ELSE Failure("cancelled")
  /\ timer' = Idle /\ quiet' = 0
  /\ UNCHANGED <<service, route, asked, probe, attempt, rest, ctx, reply,
                 reader, current>>

AttemptFails(why) ==
  /\ phase' = "failed"
  /\ outcome' = Failure(why)
  /\ quiet' = IF why \in {"busy", "refused"} THEN 0 ELSE quiet
  /\ UNCHANGED <<service, route, asked, probe, attempt, rest, timer, ctx,
                 reply, reader, current>>

(* A busy service (429, 5xx), a refusal (4xx), or no connection.             *)
ServiceFails(why) ==
  /\ phase = "waiting"
  /\ AttemptFails(why)

Cancelled ==
  /\ phase = "waiting" /\ ctx # "live"
  /\ AttemptFails("cancelled")

IsRetryable(why) == why # "refused"

RetryBackoff(n) ==
  IF n > 30 \/ 2 ^ (n - 1) >= BackoffLimit THEN BackoffLimit ELSE 2 ^ (n - 1)

(* retryingRequest, after an attempt failed.                                 *)
RetriesForever ==  \* mutant: the retries are not counted
  /\ phase = "failed"
  /\ IF attempt >= RetryLimit \/ ctx # "live" \/ ~IsRetryable(outcome.why)
     THEN /\ Ends(outcome)
          /\ UNCHANGED <<attempt, rest>>
     ELSE /\ phase' = "backoff"
          /\ attempt' = attempt
          /\ rest' = RetryBackoff(attempt + 1)
          /\ UNCHANGED outcome
  /\ UNCHANGED <<service, route, asked, probe, timer, ctx, reply, reader, current, quiet>>
AfterFailure ==
  /\ phase = "failed"
  /\ IF attempt >= RetryLimit \/ ctx # "live" \/ ~IsRetryable(outcome.why)
     THEN /\ Ends(outcome)
          /\ UNCHANGED <<attempt, rest>>
     ELSE /\ phase' = "backoff"
          /\ attempt' = attempt + 1
          /\ rest' = RetryBackoff(attempt')
          /\ UNCHANGED outcome
  /\ UNCHANGED <<service, route, asked, probe, timer, ctx, reply, reader, current, quiet>>

(* The pause is over; or the completion was cancelled, which ends it with    *)
(* the failure of the attempt before.  When both are so, either happens.     *)
PauseEnds ==
  /\ phase = "backoff"
  /\ \/ rest = 0 /\ phase' = "send" /\ UNCHANGED outcome
     \/ ctx # "live" /\ Ends(outcome)
  /\ UNCHANGED <<service, route, asked, probe, attempt, rest, timer, ctx,
                 reply, reader, current, quiet>>

-----------------------------------------------------------------------------
(* Time. The timer of a stream is armed from its first attempt on, through   *)
(* the pauses too, and cancels the whole; for a reply read whole it is the   *)
(* limit of http.Client, which fails the attempt.                            *)

Timed == Streams \/ phase # "backoff"
Tick ==
  /\ phase \in {"waiting", "backoff", "reading"} /\ ctx = "live"
  /\ phase = "backoff" => rest > 0
  /\ Timed => timer > 0
  /\ rest' = IF phase = "backoff" THEN rest - 1 ELSE rest
  /\ IF Timed
     THEN /\ timer' = timer - 1 /\ quiet' = quiet + 1
          /\ ctx' = IF timer' = 0 /\ Streams THEN "idle" ELSE ctx
     ELSE UNCHANGED <<timer, quiet, ctx>>
  /\ UNCHANGED <<service, route, phase, asked, probe, attempt, reply, reader,
                 outcome, current>>

AttemptTimesOut ==
  /\ phase = "waiting" /\ timer = 0 /\ ~Streams
  /\ AttemptFails("timeout")

-----------------------------------------------------------------------------
(* The reply. *)

Events(a) ==
  [b \in DOMAIN a |-> IF a[b].block = "call" THEN a[b].size + 1 ELSE a[b].size]

(* What a dialect can carry: where arguments are a value of the body that    *)
(* comes, they are JSON as it is, and only a string or the fragments of a    *)
(* stream may hold anything else (a call that the limit cut short).          *)
Carries(a) ==
  /\ \A b \in DOMAIN a :
       /\ a[b].block = "redacted" => style = "anthropic"
       /\ a[b].block = "thinking" => style # "completions"
  /\ style = "ollama" \/ (style = "anthropic" /\ ~Streams) =>
       \A b \in Blocks(a, {"call"}) : Pieces(b, a[b].size) \in JSON \cup {<<>>}

(* The service has the route and the model it is asked for, and replies.     *)
Answer(a, full) ==
  /\ phase = "waiting" /\ ctx = "live" /\ timer > 0
  /\ serves.style = style /\ serves.model = model
  /\ Carries(a)
  /\ answer' = a /\ limit' = full
  /\ left' = IF Streams THEN Events(a) ELSE <<>>
  /\ quiet' = 0
  /\ IF Streams
     THEN phase' = "reading" /\ UNCHANGED outcome
     ELSE Ends([how |-> "reply", cut |-> FALSE, reply |-> ParseFullReply(style, a, full)])
  /\ UNCHANGED <<service, route, asked, probe, attempt, rest, timer, ctx,
                 reader, current>>

(* A whole answer that is JSON but no reply: no choices, an error in the body *)
(* of a success, values of other types.  It is parsed after the retries, so  *)
(* none follows.                                                             *)
Unparsed ==
  /\ phase = "waiting" /\ ctx = "live" /\ timer > 0 /\ ~Streams
  /\ Ends(Failure("unparsed"))
  /\ quiet' = 0
  /\ UNCHANGED <<service, route, asked, probe, attempt, rest, timer, ctx, reply,
                 reader, current>>

(* Which block the next event may be about.  OpenAI's fragments of several   *)
(* calls may mix once their names have come; the others go block by block,   *)
(* Ollama's calls in one piece.                                              *)
Named(b) == left[b] <= answer[b].size
InTurn(b) ==
  /\ left[b] > 0
  /\ \A a \in 1..(b - 1) :
       \/ left[a] = 0
       \/ /\ style = "openai" /\ Named(a)
          /\ answer[a].block = "call" /\ answer[b].block = "call"
Whole(b) == style = "ollama" /\ answer[b].block = "call"

(* One event is read: text is shown at once, and the timer starts anew.      *)
(* What had arrived before the completion was cancelled is still read.       *)
ReadPiece(b) ==
  /\ phase = "reading"
  /\ b \in DOMAIN left /\ InTurn(b)
  /\ LET k == Events(answer)[b] - left[b]
          piece == IF answer[b].block = "call" THEN k ELSE k + 1
     IN /\ left' = [left EXCEPT ![b] = IF Whole(b) THEN 0 ELSE @ - 1]
        /\ got' = ReadEvent(style, got, answer[b], b, piece)
        /\ shown' = IF answer[b].block = "text" THEN Append(shown, <<b, piece>>) ELSE shown
  /\ IF ctx = "live" THEN timer' = Idle /\ quiet' = 0 ELSE UNCHANGED <<timer, quiet>>
  /\ UNCHANGED <<service, route, phase, asked, probe, attempt, rest, ctx,
                 answer, limit, outcome, current>>

AllSent == \A b \in DOMAIN left : left[b] = 0

(* The stream ends: with the event that says why the model stopped, or,      *)
(* without it, because the service closed it early, which looks the same.    *)
StreamEnds(cut) ==
  /\ phase = "reading"
  /\ ~cut => AllSent
  /\ Ends([how |-> "reply", cut |-> cut, reply |-> Assembled(got, limit /\ ~cut)])
  /\ UNCHANGED <<service, route, asked, probe, attempt, rest, timer, ctx,
                 reply, reader, current, quiet>>

(* The connection broke, or the completion was cancelled: no reply at all.   *)
StreamBreaks ==
  /\ phase = "reading"
  /\ Ends(Failure(IF ctx = "live" THEN "broken" ELSE "cancelled"))
  /\ UNCHANGED <<service, route, asked, probe, attempt, rest, timer, ctx,
                 reply, reader, current, quiet>>

-----------------------------------------------------------------------------
Client ==
  \/ ListModels
  \/ \E a \in {"ok", "unreachable", "refused"} : Probe(a)
  \/ NotDetected
  \/ Send
  \/ Cancelled
  \/ AfterFailure
  \/ PauseEnds
  \/ AttemptTimesOut
  \/ phase = "reading" /\ ctx # "live" /\ StreamBreaks

Service ==
  \/ \E s \in Served : Restart(s)
  \/ \E why \in {"busy", "unreachable", "refused"} : ServiceFails(why)
  \/ \E a \in Answers, full \in BOOLEAN : Answer(a, full)
  \/ Unparsed
  \/ \E b \in DOMAIN left : ReadPiece(b)
  \/ \E cut \in BOOLEAN : StreamEnds(cut)
  \/ StreamBreaks

Next ==
  \/ \E h \in Histories, live \in BOOLEAN : Prompt(h, live) \/ Retry(h, live)
  \/ Interrupt
  \/ Client
  \/ Service
  \/ Tick

(* The client goes on, and time passes; nothing is expected of the service.  *)
Spec == Init /\ [][Next]_vars /\ WF_vars(Client) /\ WF_vars(Tick)

-----------------------------------------------------------------------------
(* Properties. *)

IsPrefixOf(p, q) == Len(p) <= Len(q) /\ p = SubSeq(q, 1, Len(p))

(* The state of the client has its type.                                     *)
TypeOK ==
  /\ serves \in [style : Served, model : Models]
  /\ style \in Styles \cup {""} /\ model \in Models \cup {0}
  /\ phase \in {"idle", "listing", "probing", "send", "waiting", "failed",
               "backoff", "reading"}
  /\ streaming \in BOOLEAN /\ history \in Histories \cup {<<>>}
  /\ probe \in 0..Len(DetectionOrder)
  /\ attempt \in 0..RetryLimit /\ rest \in 0..BackoffLimit
  /\ timer \in 0..Idle /\ ctx \in {"live", "idle", "interrupted"}
  /\ answer \in Answers \cup {<<>>} /\ limit \in BOOLEAN
  /\ \A b \in DOMAIN left : left[b] \in 0..Events(answer)[b]
  /\ outcome.how \in {"none", "error", "reply"}
  /\ asks \in 0..MaxAsks /\ restarts \in 0..MaxRestarts
  /\ current \in BOOLEAN

(* Whatever dialect a conversation is put into - buildBody when a request is *)
(* made - it still says the same things in the same order, but for arguments *)
(* that are no object where an object is wanted, a result that is blank in   *)
(* Anthropic's, and the ids where there are none; and the results of a       *)
(* turn's calls follow them at once and in their order; in Anthropic's,      *)
(* where entries are paired, they are all in the next entry.                 *)
RequestsKeepTheConversation ==
  /\ TypeOK
  /\ phase = "waiting" =>
       LET sent == Messages(style, history)
           said == PartsOf(Chat(history))
       IN  /\ PartsOf(sent) = [k \in DOMAIN said |-> Put(style, said[k])]
           /\ AnsweredAtOnce(PartsOf(sent))
           /\ style = "anthropic" => ResultsTogether(sent)

(* A reply, parsed whole or read from a stream to its end, has the texts,    *)
(* the thoughts and the calls the service sent, whatever order its fragments *)
(* came in, but for the new lines between blocks, the mark of a redacted     *)
(* one, and the open fence of a call the limit cut short.  A call's          *)
(* arguments are those sent, but that none, and in a whole reply such as are *)
(* no JSON, are an empty object.  Of a stream that was cut every part is a   *)
(* beginning of the service's; what is kept is what was shown.               *)
StreamedReplyFaithful ==
  outcome.how = "reply" =>
    LET kept == outcome.reply
        sent == SentCalls(style, answer, limit)
        text == Joined(answer, "text")
        usable(args) == args # <<>> /\ (Streams \/ args \in JSON)
        isWhole(part, whole) == IF outcome.cut THEN IsPrefixOf(part, whole) ELSE part = whole
    IN  /\ isWhole(Only(kept.thinking, Theirs), Joined(answer, "thinking"))
        /\ IF style = "completions" /\ limit
           THEN IsPrefixOf(text, kept.text)
           ELSE isWhole(Only(kept.text, Theirs), text)
        /\ IF outcome.cut THEN Len(kept.calls) <= Len(sent) ELSE Len(kept.calls) = Len(sent)
        /\ \A i \in DOMAIN kept.calls :
             /\ kept.calls[i].id = sent[i].id
             /\ kept.calls[i].name = sent[i].name
             /\ IF outcome.cut
                THEN IsPrefixOf(kept.calls[i].args, sent[i].args) \/ kept.calls[i].args = EmptyObject
                ELSE kept.calls[i].args = IF usable(sent[i].args) THEN sent[i].args ELSE EmptyObject
        /\ shown # <<>> => shown = kept.text

(* A completion fails only once nothing is left to try: the retries are used *)
(* up, or another would fail the same way, or the completion was cancelled,  *)
(* or part of the reply was already shown, or no route was found, or an      *)
(* answer came whole that is no reply, which is not asked for again although *)
(* the next might be one (agent_llm.go:463).  And while an attempt is waited *)
(* for, or the body of its answer read, the timer cancels it only after the  *)
(* whole of the time without a byte, on every attempt anew                   *)
(* (completeWithStream, streamRequest, idleReader).                          *)
FailsForAReason ==
  phase = "idle" /\ outcome.how = "error" =>
    \/ attempt = RetryLimit
    \/ ctx # "live"
    \/ outcome.why \in {"refused", "broken", "unparsed", "no model", "no style"}
Begun == left # Events(answer)
CutOnlyAfterSilence ==
  ctx' = "idle" /\ ctx = "live" /\ (phase = "waiting" \/ (phase = "reading" /\ Begun))
    => quiet' >= Idle
GivesUpForAReason == []FailsForAReason /\ [][CutOnlyAfterSilence]_vars

(* /retry looks again: a request made after it, if the service has not       *)
(* restarted since, asks for a model the service has, in its dialect, or in  *)
(* the one that is configured.  A stale guess would fail for a reason nobody *)
(* could see.                                                                *)
RetryLooksAgain ==
  phase = "waiting" /\ current =>
    /\ model = serves.model
    /\ style = IF Configured = "auto" THEN serves.style ELSE Configured

(* A completion ends, whatever the service does: an attempt is answered,     *)
(* fails or times out, the pauses are bounded and so are the attempts.  What *)
(* a service sends is a reply with an end: one that feeds the timer for ever *)
(* with what is no event is not in the model.                                *)
CompletionEnds == phase # "idle" ~> phase = "idle"
===============================================================================
