-------------------------- MODULE ModelClientProofs --------------------------
(***************************************************************************)
(* What is proved of ModelClient for every dialect, every conversation and *)
(* reply, every limit and any number of restarts: a completion gives up    *)
(* only for a reason, the timer cuts it only after silence, /retry finds   *)
(* out anew what the service is, a request says what the conversation      *)
(* says, in each of the dialects, and a reply read from a stream is the    *)
(* one that was sent.                                                      *)
(*                                                                         *)
(* The last two are about sequences of any length.  FlattenSeq and         *)
(* AnthropicUpTo are recursive functions, so their values are reached by   *)
(* an induction over the natural numbers (Induction, Recursion), and       *)
(* everything a dialect does to the messages is put together from what it  *)
(* does to one; a reader's state is a function of how many events of each  *)
(* block have come (ReadAs), and an event changes one block (EventRead).   *)
(***************************************************************************)
EXTENDS ModelClient, SequenceLemmas

-----------------------------------------------------------------------------
(* The invariant. *)

ServiceTyped ==
  /\ serves \in [style : Styles, model : Models]
  /\ style \in Styles \cup {""} /\ model \in Models \cup {0}
  /\ restarts \in 0..MaxRestarts
Counted == attempt \in 0..RetryLimit /\ timer \in 0..Idle /\ quiet \in Nat

(* What was detected is the service's, until it restarts; and a request is   *)
(* made only when there is nothing left to find.                             *)
Detected ==
  /\ style = InitialStyle \/ Configured = "auto"
  /\ current /\ model # 0 => model = serves.model
  /\ current /\ style # InitialStyle => style = serves.style
Found ==
  /\ phase \in {"probing", "send", "waiting", "failed", "backoff", "reading"} => model # 0
  /\ phase \in {"send", "waiting", "failed", "backoff", "reading"} => style # ""
  /\ phase = "probing" => style = ""

(* The timer has run for as long as nothing has come.                        *)
Listening == phase = "waiting" \/ (phase = "reading" /\ Begun)
TimedFromSilence == ctx = "live" /\ Listening => timer + quiet = Idle

ClientInv ==
  ServiceTyped /\ Counted /\ Detected /\ Found /\ TimedFromSilence /\ FailsForAReason

-----------------------------------------------------------------------------
LEMMA Constants ==
  /\ RetryLimit \in Nat /\ Idle \in Nat /\ Idle > 0 /\ MaxRestarts \in Nat
  /\ 1 \in Models /\ 0 \notin Models
  /\ "" \notin Styles /\ "auto" \notin Styles
  /\ InitialStyle \in Styles \cup {""} /\ (InitialStyle = "" <=> Configured = "auto")
PROOF
  <1>1. "" \notin Styles /\ "auto" \notin Styles
    BY DEF Styles
  <1>2. RetryLimit \in Nat /\ Idle \in Nat /\ Idle > 0 /\ MaxRestarts \in Nat
    BY ClientAssumption
  <1>3. 1 \in Models /\ 0 \notin Models
    BY <1>2 DEF Models
  <1>4. InitialStyle \in Styles \cup {""} /\ (InitialStyle = "" <=> Configured = "auto")
    BY <1>1, ClientAssumption DEF InitialStyle
  <1> QED
    BY <1>1, <1>2, <1>3, <1>4

LEMMA Limits == Idle \in Nat /\ Idle > 0 /\ RetryLimit \in Nat
  BY ClientAssumption

LEMMA CountsAreNat ==
  ASSUME Counted
  PROVE  attempt \in Nat /\ attempt <= RetryLimit /\ timer \in Nat /\ timer <= Idle /\ quiet \in Nat
  BY Limits DEF Counted

(* The steps of Next, one by one.                                            *)
LEMMA Steps ==
  ASSUME Next
  PROVE  \/ \E h \in Histories, live \in BOOLEAN : Prompt(h, live)
         \/ \E h \in Histories, live \in BOOLEAN : Retry(h, live)
         \/ Interrupt \/ ListModels \/ NotDetected \/ Send \/ AfterFailure \/ PauseEnds
         \/ \E a \in {"ok", "unreachable", "refused"} : Probe(a)
         \/ \E why : phase = "waiting" /\ AttemptFails(why)
         \/ \E s \in Served : Restart(s)
         \/ \E a \in Answers, full \in BOOLEAN : Answer(a, full)
         \/ Unparsed
         \/ \E b \in DOMAIN left : ReadPiece(b)
         \/ \E cut \in BOOLEAN : StreamEnds(cut)
         \/ StreamBreaks \/ Tick
  BY DEF Next, Client, Service, Cancelled, AttemptTimesOut, ServiceFails

(* Every step keeps the types. *)
LEMMA ServiceKept == ASSUME ServiceTyped, Next PROVE ServiceTyped'
PROOF
  <1>1. CASE UNCHANGED <<serves, restarts, style, model>>
    BY <1>1 DEF ServiceTyped
  <1>2. ASSUME NEW h, NEW live, Retry(h, live) PROVE ServiceTyped'
    <2>1. UNCHANGED <<serves, restarts>> /\ style' = InitialStyle /\ model' = 0
      BY <1>2 DEF Retry, Begin, service
    <2> QED
      BY <2>1, Constants DEF ServiceTyped
  <1>3. CASE ListModels
    <2>1. UNCHANGED <<serves, restarts, style>> /\ model' \in {model, serves.model}
      BY <1>3 DEF ListModels, service
    <2> QED
      BY <2>1 DEF ServiceTyped
  <1>4. ASSUME NEW a, Probe(a) PROVE ServiceTyped'
    <2>1. UNCHANGED <<serves, restarts, model>> /\ style' \in {style, serves.style}
      BY <1>4 DEF Probe, service
    <2> QED
      BY <2>1 DEF ServiceTyped
  <1>5. ASSUME NEW s \in Served, Restart(s) PROVE ServiceTyped'
    <2>1. UNCHANGED <<style, model>> /\ restarts < MaxRestarts /\ restarts' = restarts + 1
          /\ serves' = [style |-> s, model |-> restarts' + 1]
      BY <1>5 DEF Restart, route
    <2>2. s \in Styles
      BY ClientAssumption
    <2>3. restarts \in 0..MaxRestarts /\ MaxRestarts \in Nat
      BY Constants DEF ServiceTyped
    <2>4. restarts' \in 0..MaxRestarts /\ restarts' + 1 \in 1..(MaxRestarts + 1)
      BY <2>1, <2>3
    <2> QED
      BY <2>1, <2>2, <2>4 DEF ServiceTyped, Models
  <1> QED
    BY <1>1, <1>2, <1>3, <1>4, <1>5, Steps
    DEF Prompt, Begin, Interrupt, NotDetected, Send, AfterFailure, PauseEnds, AttemptFails,
        Answer, Unparsed, ReadPiece, StreamEnds, StreamBreaks, Tick, service, route

LEMMA CountsKept == ASSUME Counted, Next PROVE Counted'
PROOF
  <1>0. attempt \in 0..RetryLimit /\ timer \in 0..Idle /\ quiet \in Nat
        /\ RetryLimit \in Nat /\ Idle \in Nat
    BY Constants DEF Counted
  <1>1. CASE UNCHANGED <<attempt, timer>> /\ quiet' \in {0, quiet}
    BY <1>0, <1>1 DEF Counted
  <1>2. CASE timer' = Idle /\ quiet' = 0 /\ attempt' \in {0, attempt}
    BY <1>0, <1>2 DEF Counted
  <1>3. CASE AfterFailure
    <2>1. CASE attempt' = attempt
      BY <1>3, <1>1, <2>1 DEF AfterFailure
    <2>2. CASE attempt' # attempt
      <3>1. ~(attempt >= RetryLimit) /\ attempt' = attempt + 1 /\ UNCHANGED <<timer, quiet>>
        BY <1>3, <2>2 DEF AfterFailure
      <3> QED
        BY <1>0, <3>1 DEF Counted
    <2> QED
      BY <2>1, <2>2
  <1>4. CASE Tick
    <2>1. \/ UNCHANGED <<timer, quiet>>
          \/ timer > 0 /\ timer' = timer - 1 /\ quiet' = quiet + 1
      BY <1>4 DEF Tick
    <2>2. UNCHANGED attempt
      BY <1>4 DEF Tick
    <2> QED
      BY <1>0, <2>1, <2>2 DEF Counted
  <1>5. ASSUME NEW h, NEW live, Prompt(h, live) \/ Retry(h, live) PROVE Counted'
    BY <1>2, <1>5 DEF Prompt, Retry, Begin
  <1>6. CASE Send
    BY <1>2, <1>6 DEF Send
  <1>7. ASSUME NEW b, ReadPiece(b) PROVE Counted'
    <2>1. \/ timer' = Idle /\ quiet' = 0
          \/ UNCHANGED <<timer, quiet>>
      BY <1>7 DEF ReadPiece
    <2>2. UNCHANGED attempt
      BY <1>7 DEF ReadPiece
    <2> QED
      BY <1>1, <1>2, <2>1, <2>2
  <1>8. ASSUME NEW why, AttemptFails(why) PROVE Counted'
    BY <1>1, <1>8 DEF AttemptFails
  <1>9. ASSUME NEW a, NEW full, Answer(a, full) PROVE Counted'
    BY <1>1, <1>9 DEF Answer
  <1>10. ASSUME NEW a, Probe(a) PROVE Counted'
    BY <1>1, <1>10 DEF Probe
  <1>11. ASSUME NEW s, Restart(s) PROVE Counted'
    BY <1>1, <1>11 DEF Restart
  <1>12. CASE Interrupt \/ ListModels \/ NotDetected \/ PauseEnds \/ StreamBreaks \/ Unparsed
              \/ \E cut \in BOOLEAN : StreamEnds(cut)
    BY <1>1, <1>12 DEF Interrupt, ListModels, NotDetected, PauseEnds, StreamBreaks, Unparsed,
                       StreamEnds
  <1> QED
    BY <1>3, <1>4, <1>5, <1>6, <1>7, <1>8, <1>9, <1>10, <1>11, <1>12, Steps

(* Every step keeps what was detected true: a restart makes it out of date,  *)
(* and /retry forgets it.                                                    *)
LEMMA DetectedKept == ASSUME ServiceTyped, Detected, Found, Next PROVE Detected'
PROOF
  <1> USE DEF Detected, service, route
  <1>1. CASE UNCHANGED <<serves, style, model, current>>
    BY <1>1 DEF InitialStyle
  <1>2. ASSUME NEW h, NEW live, Retry(h, live) PROVE Detected'
    BY <1>2 DEF Retry, Begin, InitialStyle
  <1>3. CASE ListModels
    BY <1>3, Constants DEF ListModels, InitialStyle
  <1>4. ASSUME NEW a, Probe(a) PROVE Detected'
    <2>1. phase = "probing" /\ style = "" /\ UNCHANGED <<serves, model, current>>
      BY <1>4 DEF Probe, Found
    <2>2. style' = style \/ style' = serves.style
      BY <1>4 DEF Probe
    <2>3. InitialStyle = "" /\ Configured = "auto"
      BY <2>1, Constants
    <2> QED
      BY <2>1, <2>2, <2>3
  <1>5. ASSUME NEW s \in Served, Restart(s) PROVE Detected'
    BY <1>5 DEF Restart, InitialStyle
  <1> QED
    BY <1>1, <1>2, <1>3, <1>4, <1>5, Steps
    DEF Prompt, Begin, Interrupt, NotDetected, Send, AfterFailure, PauseEnds, AttemptFails,
        Answer, Unparsed, ReadPiece, StreamEnds, StreamBreaks, Tick

(* A request is made only when the model and the dialect have been found.    *)
LEMMA FoundKept == ASSUME ServiceTyped, Detected, Found, Next PROVE Found'
PROOF
  <1> USE DEF Found, service, route
  <1>1. CASE UNCHANGED <<style, model, phase>>
    BY <1>1
  <1>2. ASSUME UNCHANGED <<style, model>>, phase \in {"send", "waiting", "failed", "backoff", "reading"},
               phase' \in {"idle", "send", "waiting", "failed", "backoff", "reading"}
        PROVE  Found'
    BY <1>2
  <1>3. ASSUME NEW h, NEW live, Prompt(h, live) \/ Retry(h, live) PROVE Found'
    BY <1>3 DEF Prompt, Retry, Begin
  <1>4. CASE ListModels
    BY <1>4, Constants DEF ListModels, Ends, ServiceTyped
  <1>5. ASSUME NEW a, Probe(a) PROVE Found'
    <2>1. phase = "probing" /\ model' = model
      BY <1>5 DEF Probe
    <2>2. \/ style' = style /\ phase' \in {"idle", "probing"}
          \/ style' = serves.style /\ phase' = "send"
      BY <1>5 DEF Probe, Ends
    <2>3. serves.style # ""
      BY Constants DEF ServiceTyped
    <2> QED
      BY <2>1, <2>2, <2>3
  <1>6. CASE NotDetected
    BY <1>6 DEF NotDetected, Ends
  <1> QED
    BY <1>1, <1>2, <1>3, <1>4, <1>5, <1>6, Steps
    DEF Interrupt, Send, AfterFailure, PauseEnds, AttemptFails, Restart,
        Answer, Unparsed, ReadPiece, StreamEnds, StreamBreaks, Tick, Ends

(* A reply that has just been announced has not begun to arrive.             *)
LEMMA NotYetBegun ==
  ASSUME NEW a, NEW full, Answer(a, full), phase' = "reading"
  PROVE  ~Begun'
PROOF
  <1>1. answer' = a /\ left' = Events(a)
    BY DEF Answer, Ends
  <1> QED
    BY <1>1 DEF Begun

(* Every step keeps the timer and the silence together: what arms the timer  *)
(* ends the silence, and a tick moves both.                                  *)
LEMMA SilenceTimed == ASSUME Counted, TimedFromSilence, Next PROVE TimedFromSilence'
PROOF
  <1>1. CASE ctx' # "live" \/ ~Listening'
    BY <1>1 DEF TimedFromSilence
  <1>2. CASE UNCHANGED <<phase, timer, quiet, answer, left, ctx>>
    BY <1>2 DEF TimedFromSilence, Listening, Begun
  <1>3. CASE timer' = Idle /\ quiet' = 0
    <2>1. timer' + quiet' = Idle
      BY <1>3, Limits
    <2> QED
      BY <2>1 DEF TimedFromSilence
  <1>4. CASE Tick
    <2>1. ctx = "live" /\ UNCHANGED <<phase, left, answer>>
      BY <1>4 DEF Tick, reply
    <2>2. Listening' <=> Listening
      BY <2>1 DEF Listening, Begun
    <2>3. CASE Listening
      <3>1. timer + quiet = Idle
        BY <2>1, <2>3 DEF TimedFromSilence
      <3>2. timer' = timer - 1 /\ quiet' = quiet + 1
        BY <1>4, <2>3 DEF Tick, Timed, Listening
      <3>3. timer' + quiet' = Idle
        BY <3>1, <3>2, Limits, CountsAreNat
      <3> QED
        BY <3>3 DEF TimedFromSilence
    <2> QED
      BY <1>1, <2>2, <2>3
  <1>5. ASSUME NEW b, ReadPiece(b) PROVE TimedFromSilence'
    BY <1>1, <1>3, <1>5 DEF ReadPiece
  <1>6. ASSUME NEW a \in Answers, NEW full, Answer(a, full) PROVE TimedFromSilence'
    <2>1. phase' \in {"idle", "reading"}
      BY <1>6 DEF Answer, Ends
    <2>2. ~Listening'
      BY <1>6, <2>1, NotYetBegun DEF Listening
    <2> QED
      BY <1>1, <2>2
  <1>7. CASE phase' \in {"idle", "listing", "probing", "send", "failed", "backoff"}
    BY <1>1, <1>7 DEF Listening
  <1>8. ASSUME NEW h, NEW live, Prompt(h, live) \/ Retry(h, live) PROVE TimedFromSilence'
    BY <1>3, <1>8 DEF Prompt, Retry, Begin
  <1>9. ASSUME NEW a, Probe(a) PROVE TimedFromSilence'
    BY <1>7, <1>9 DEF Probe, Ends
  <1>10. ASSUME NEW s, Restart(s) PROVE TimedFromSilence'
    BY <1>2, <1>10 DEF Restart, reply
  <1>11. ASSUME NEW why, AttemptFails(why) PROVE TimedFromSilence'
    BY <1>7, <1>11 DEF AttemptFails
  <1>12. CASE Send
    BY <1>3, <1>12 DEF Send
  <1>13. CASE Interrupt
    BY <1>1, <1>13 DEF Interrupt
  <1>14. CASE ListModels \/ NotDetected \/ AfterFailure \/ PauseEnds \/ StreamBreaks
              \/ Unparsed \/ \E cut \in BOOLEAN : StreamEnds(cut)
    BY <1>7, <1>14 DEF ListModels, NotDetected, AfterFailure, PauseEnds, StreamBreaks,
                       Unparsed, StreamEnds, Ends
  <1> QED
    BY <1>4, <1>5, <1>6, <1>8, <1>9, <1>10, <1>11, <1>12, <1>13, <1>14, Steps

(* What ends a completion without a reply is one of the reasons.             *)
LEMMA ReasonKept == ASSUME Counted, FailsForAReason, Next PROVE FailsForAReason'
PROOF
  <1>1. CASE phase' # "idle" \/ outcome'.how # "error"
    BY <1>1 DEF FailsForAReason
  <1>2. CASE UNCHANGED <<phase, outcome, attempt, ctx>>
    BY <1>2 DEF FailsForAReason
  <1>3. CASE ctx' # "live" \/ attempt' = RetryLimit
    BY <1>3 DEF FailsForAReason
  <1>4. CASE outcome'.why \in {"refused", "broken", "unparsed", "no model", "no style"}
    BY <1>4 DEF FailsForAReason
  <1>5. CASE AfterFailure
    <2>1. CASE attempt >= RetryLimit
      <3>1. attempt' = attempt
        BY <1>5, <2>1 DEF AfterFailure
      <3>2. attempt = RetryLimit
        BY <2>1, Limits, CountsAreNat
      <3> QED
        BY <1>3, <3>1, <3>2
    <2>2. CASE ctx # "live"
      BY <1>3, <1>5, <2>2 DEF AfterFailure
    <2>3. CASE ~(attempt >= RetryLimit) /\ ctx = "live" /\ ~IsRetryable(outcome.why)
      <3>1. outcome' = outcome
        BY <1>5, <2>3 DEF AfterFailure, Ends
      <3> QED
        BY <1>4, <2>3, <3>1 DEF IsRetryable
    <2>4. CASE ~(attempt >= RetryLimit) /\ ctx = "live" /\ IsRetryable(outcome.why)
      BY <1>1, <1>5, <2>4 DEF AfterFailure
    <2> QED
      BY <2>1, <2>2, <2>3, <2>4
  <1>6. CASE ListModels
    <2>1. CASE phase' # "idle"
      BY <1>1, <2>1
    <2>2. CASE outcome' = Failure("no model")
      <3>1. outcome'.why = "no model"
        BY <2>2 DEF Failure
      <3> QED
        BY <1>4, <3>1
    <2> QED
      BY <1>6, <2>1, <2>2 DEF ListModels, Ends
  <1>7. ASSUME NEW a, Probe(a) PROVE FailsForAReason'
    <2>1. CASE phase' # "idle"
      BY <1>1, <2>1
    <2>2. CASE ctx' # "live"
      BY <1>3, <2>2
    <2>3. CASE outcome' = Failure("refused")
      <3>1. outcome'.why = "refused"
        BY <2>3 DEF Failure
      <3> QED
        BY <1>4, <3>1
    <2> QED
      BY <1>7, <2>1, <2>2, <2>3 DEF Probe, Ends
  <1>8. CASE NotDetected
    BY <1>4, <1>8 DEF NotDetected, Ends, Failure
  <1>9. CASE PauseEnds
    BY <1>1, <1>3, <1>9 DEF PauseEnds
  <1>10. CASE StreamBreaks
    BY <1>3, <1>4, <1>10 DEF StreamBreaks, Ends, Failure
  <1>11. ASSUME NEW a, NEW full, Answer(a, full) PROVE FailsForAReason'
    BY <1>1, <1>11 DEF Answer, Ends
  <1>12. ASSUME NEW cut, StreamEnds(cut) PROVE FailsForAReason'
    BY <1>1, <1>12 DEF StreamEnds, Ends
  <1>13. ASSUME NEW h, NEW live, Prompt(h, live) \/ Retry(h, live) PROVE FailsForAReason'
    BY <1>1, <1>13 DEF Prompt, Retry, Begin
  <1>14. ASSUME NEW s, Restart(s) PROVE FailsForAReason'
    BY <1>2, <1>14 DEF Restart
  <1>15. ASSUME NEW why, AttemptFails(why) PROVE FailsForAReason'
    BY <1>1, <1>15 DEF AttemptFails
  <1>16. ASSUME NEW b, ReadPiece(b) PROVE FailsForAReason'
    BY <1>1, <1>16 DEF ReadPiece
  <1>17. CASE Send
    BY <1>1, <1>17 DEF Send
  <1>18. CASE Interrupt
    BY <1>3, <1>18 DEF Interrupt
  <1>19. CASE Tick
    BY <1>1, <1>19 DEF Tick
  <1>20. CASE Unparsed
    BY <1>4, <1>20 DEF Unparsed, Ends, Failure
  <1> QED
    BY <1>5, <1>6, <1>7, <1>8, <1>9, <1>10, <1>11, <1>12, <1>13, <1>14, <1>15, <1>16,
       <1>17, <1>18, <1>19, <1>20, Steps

(* The timer cuts a request only after the whole of the time in silence.     *)
LEMMA CutsLate == ASSUME Counted, TimedFromSilence, Next PROVE CutOnlyAfterSilence
PROOF
  <1> SUFFICES ASSUME ctx' = "idle", ctx = "live",
                      phase = "waiting" \/ (phase = "reading" /\ Begun)
               PROVE  quiet' >= Idle
    BY DEF CutOnlyAfterSilence
  <1>1. Tick
    BY Steps DEF Prompt, Retry, Begin, Interrupt, ListModels, NotDetected, Send, AfterFailure,
                 PauseEnds, Probe, AttemptFails, Restart, Answer, Unparsed, ReadPiece,
                 StreamEnds, StreamBreaks
  <1>2. timer' = 0 /\ timer' = timer - 1 /\ quiet' = quiet + 1
    BY <1>1 DEF Tick
  <1>3. timer + quiet = Idle
    BY DEF TimedFromSilence, Listening
  <1> QED
    BY <1>2, <1>3, Limits, CountsAreNat

-----------------------------------------------------------------------------
(* The theorems. *)

LEMMA Starts == ASSUME Init PROVE ClientInv
PROOF
  <1>1. ServiceTyped
    <2>1. restarts = 0 /\ MaxRestarts \in Nat /\ style = InitialStyle /\ model = 0
      BY Constants DEF Init
    <2>2. 0 \in 0..MaxRestarts
      BY <2>1
    <2>3. serves \in [style : Styles, model : Models]
      BY Constants, ClientAssumption DEF Init
    <2> QED
      BY <2>1, <2>2, <2>3, Constants DEF ServiceTyped
  <1>2. Counted
    <2>1. attempt = 0 /\ timer = 0 /\ quiet = 0
      BY DEF Init
    <2> QED
      BY <2>1, Limits DEF Counted
  <1>3. Detected /\ Found
    BY Constants DEF Init, Detected, Found
  <1>4. TimedFromSilence /\ FailsForAReason
    BY DEF Init, TimedFromSilence, Listening, FailsForAReason, Silent
  <1> QED
    BY <1>1, <1>2, <1>3, <1>4 DEF ClientInv

LEMMA Rests == ASSUME ClientInv, UNCHANGED vars PROVE ClientInv'
PROOF
  <1> USE DEF vars, service, route, reply, reader, asked
  <1>1. ServiceTyped' /\ Counted'
    BY DEF ClientInv, ServiceTyped, Counted
  <1>2. Detected' /\ Found'
    BY DEF ClientInv, Detected, Found, InitialStyle
  <1>3. TimedFromSilence' /\ FailsForAReason'
    BY DEF ClientInv, TimedFromSilence, Listening, Begun, FailsForAReason
  <1> QED
    BY <1>1, <1>2, <1>3 DEF ClientInv

(* The invariant of the client of a model endpoint.                          *)
THEOREM ClientInvariance == Spec => []ClientInv
PROOF
  <1>1. Init => ClientInv
    BY Starts
  <1>2. ClientInv /\ [Next]_vars => ClientInv'
    BY Rests, ServiceKept, CountsKept, DetectedKept, FoundKept, SilenceTimed, ReasonKept
    DEF ClientInv
  <1> QED
    BY <1>1, <1>2, PTL DEF Spec

(* After /retry the client asks for what the service now has, in the dialect *)
(* it speaks or the configured one (detectModel, detectStyle of agent_llm.go *)
(* and forget): nothing it found out before is left over.                    *)
THEOREM LooksAgain == Spec => []RetryLooksAgain
PROOF
  <1>1. ClientInv => RetryLooksAgain
    BY Constants DEF ClientInv, Detected, Found, RetryLooksAgain, InitialStyle
  <1> QED
    BY <1>1, ClientInvariance, PTL

(* A completion ends without a reply only for a reason, and its timer cuts   *)
(* it only after Idle ticks without a byte.                                  *)
THEOREM GivesUpLate == Spec => GivesUpForAReason
PROOF
  <1>1. ClientInv => FailsForAReason
    BY DEF ClientInv
  <1>2. ClientInv /\ [Next]_vars => [CutOnlyAfterSilence]_vars
    BY CutsLate DEF ClientInv
  <1> QED
    BY <1>1, <1>2, ClientInvariance, PTL DEF Spec, GivesUpForAReason

-----------------------------------------------------------------------------
(* What a function makes of the pieces of a sequence, and of the whole of it. *)

Maps(e, A, S) == e \in [A -> S]
Image(e, q) == [k \in DOMAIN q |-> e[q[k]]]
Gather(e, q) == FlattenSeq(Image(e, q))

LEMMA ImageTyped ==
  ASSUME NEW A, NEW S, NEW e, Maps(e, A, S), NEW q \in Seq(A)
  PROVE  /\ Image(e, q) \in Seq(S) /\ Len(Image(e, q)) = Len(q)
         /\ \A k \in 1..Len(q) : Image(e, q)[k] = e[q[k]]
<1>1. Len(q) \in Nat /\ DOMAIN q = 1..Len(q)
  OBVIOUS
<1>2. \A k \in 1..Len(q) : e[q[k]] \in S
  BY DEF Maps
<1>3. Image(e, q) = [k \in 1..Len(q) |-> e[q[k]]]
  BY <1>1 DEF Image
<1>4. Image(e, q) \in [1..Len(q) -> S]
  BY <1>2, <1>3
<1>5. Image(e, q) \in Seq(S) /\ Len(Image(e, q)) = Len(q)
  BY <1>1, <1>4
<1> QED BY <1>3, <1>5

LEMMA ImageCat ==
  ASSUME NEW A, NEW S, NEW e, Maps(e, A, S), NEW a \in Seq(A), NEW b \in Seq(A)
  PROVE  Image(e, a \o b) = Image(e, a) \o Image(e, b)
<1> DEFINE ab == a \o b
           x == Image(e, a)
           y == Image(e, b)
           xy == x \o y
           z == Image(e, ab)
<1>1. ab \in Seq(A) /\ Len(ab) = Len(a) + Len(b) /\ Len(a) \in Nat /\ Len(b) \in Nat
      /\ (\A i \in 1..Len(a) : ab[i] = a[i]) /\ \A i \in 1..Len(b) : ab[Len(a) + i] = b[i]
  BY CatFacts
<1>2. /\ x \in Seq(S) /\ Len(x) = Len(a) /\ \A k \in 1..Len(a) : x[k] = e[a[k]]
      /\ y \in Seq(S) /\ Len(y) = Len(b) /\ \A k \in 1..Len(b) : y[k] = e[b[k]]
  BY ImageTyped
<1>3. z \in Seq(S) /\ Len(z) = Len(ab) /\ \A k \in 1..Len(ab) : z[k] = e[ab[k]]
  <2>1. ab \in Seq(A)
    BY <1>1
  <2> HIDE DEF ab
  <2> QED BY <2>1, ImageTyped
<1>4. xy \in Seq(S) /\ Len(xy) = Len(x) + Len(y)
      /\ (\A i \in 1..Len(x) : xy[i] = x[i]) /\ \A i \in 1..Len(y) : xy[Len(x) + i] = y[i]
  <2>1. x \in Seq(S) /\ y \in Seq(S)
    BY <1>2
  <2> HIDE DEF x, y
  <2> QED BY <2>1, CatFacts
<1> HIDE DEF ab, x, y, xy, z
<1>5. ASSUME NEW i \in 1..Len(z) PROVE z[i] = xy[i]
  <2>1. CASE i <= Len(a)
    <3>1. i \in 1..Len(a) /\ i \in 1..Len(ab)
      BY <1>1, <1>3, <2>1
    <3>2. z[i] = e[ab[i]] /\ ab[i] = a[i] /\ x[i] = e[a[i]]
      BY <1>1, <1>2, <1>3, <3>1
    <3>3. xy[i] = x[i]
      BY <1>2, <1>4, <3>1
    <3> QED BY <3>2, <3>3
  <2>2. CASE i > Len(a)
    <3> DEFINE j == i - Len(a)
    <3>1. j \in 1..Len(b) /\ i \in 1..Len(ab) /\ i = Len(a) + j
      BY <1>1, <1>3, <2>2
    <3> HIDE DEF j
    <3>2. z[i] = e[ab[Len(a) + j]] /\ ab[Len(a) + j] = b[j]
      BY <1>1, <1>3, <3>1
    <3>3. xy[i] = y[j]
      BY <1>2, <1>4, <3>1
    <3> QED BY <1>2, <3>1, <3>2, <3>3
  <2> QED BY <1>1, <1>3, <2>1, <2>2
<1>6. z = xy
  BY <1>1, <1>2, <1>3, <1>4, <1>5, SameSeq
<1> QED BY <1>6 DEF z, xy, x, y, ab

LEMMA GatherTyped ==
  ASSUME NEW A, NEW S, NEW e, Maps(e, A, Seq(S)), NEW q \in Seq(A)
  PROVE  Gather(e, q) \in Seq(S)
<1>1. Image(e, q) \in Seq(Seq(S))
  BY ImageTyped
<1> QED BY <1>1, FlattenTyped DEF Gather

LEMMA GatherCat ==
  ASSUME NEW A, NEW S, NEW e, Maps(e, A, Seq(S)), NEW a \in Seq(A), NEW b \in Seq(A)
  PROVE  Gather(e, a \o b) = Gather(e, a) \o Gather(e, b)
<1>1. Image(e, a) \in Seq(Seq(S)) /\ Image(e, b) \in Seq(Seq(S))
  BY ImageTyped
<1>2. Image(e, a \o b) = Image(e, a) \o Image(e, b)
  BY ImageCat
<1> QED BY <1>1, <1>2, FlattenCat DEF Gather

LEMMA GatherNone == ASSUME NEW e PROVE Gather(e, <<>>) = <<>>
<1>1. Image(e, <<>>) = <<>>
  BY DEF Image
<1> QED BY <1>1, FlattenNone DEF Gather

LEMMA GatherOne ==
  ASSUME NEW A, NEW S, NEW e, Maps(e, A, Seq(S)), NEW x \in A
  PROVE  Gather(e, <<x>>) = e[x]
<1>1. Image(e, <<x>>) = <<e[x]>>
  BY DEF Image
<1>2. e[x] \in Seq(S)
  BY DEF Maps
<1> QED BY <1>1, <1>2, FlattenOne DEF Gather

(* What is gathered from sequences joined is what each gives, joined.        *)
LEMMA GatherFlatten ==
  ASSUME NEW A, NEW S, NEW e, Maps(e, A, Seq(S)), NEW s \in Seq(Seq(A))
  PROVE  Gather(e, FlattenSeq(s)) = FlattenSeq([i \in DOMAIN s |-> Gather(e, s[i])])
<1> DEFINE n == Len(s)
           t == [i \in DOMAIN s |-> Gather(e, s[i])]
<1>1. PICK f : Joins(A, s, f)
  BY JoinsExist
<1> DEFINE g == [i \in 0..n |-> Gather(e, f[i])]
<1>2. n \in Nat /\ DOMAIN s = 1..n /\ f \in [0..n -> Seq(A)] /\ f[0] = <<>>
      /\ \A i \in 1..n : s[i] \in Seq(A) /\ f[i] = f[i - 1] \o s[i]
  <2>1. n \in Nat /\ DOMAIN s = 1..n /\ \A i \in 1..n : s[i] \in Seq(A)
    OBVIOUS
  <2> HIDE DEF n
  <2>2. f \in [0..n -> Seq(A)] /\ f[0] = <<>> /\ \A i \in 1..n : f[i] = f[i - 1] \o s[i]
    BY <1>1 DEF Joins, n
  <2> QED BY <2>1, <2>2
<1>3. \A i \in 1..n : t[i] \in Seq(S) /\ t[i] = Gather(e, s[i])
  <2> HIDE DEF n
  <2> QED BY <1>2, GatherTyped
<1>4. t \in Seq(Seq(S)) /\ Len(t) = n
  <2>1. t \in [1..n -> Seq(S)]
    <3> HIDE DEF n
    <3> QED BY <1>2, GatherTyped
  <2> HIDE DEF t, n
  <2> QED BY <1>2, <2>1
<1>5. Joins(S, t, g)
  <2>1. g \in [0..n -> Seq(S)]
    <3> HIDE DEF n
    <3> QED BY <1>2, GatherTyped
  <2>2. g[0] = <<>>
    <3> HIDE DEF n
    <3> QED BY <1>2, GatherNone
  <2>3. ASSUME NEW i \in 1..n PROVE g[i] = g[i - 1] \o t[i]
    <3> HIDE DEF n
    <3>1. i \in 0..n /\ i - 1 \in 0..n
      BY <1>2
    <3>2. g[i] = Gather(e, f[i]) /\ g[i - 1] = Gather(e, f[i - 1]) /\ t[i] = Gather(e, s[i])
      BY <1>2, <3>1
    <3>3. f[i] = f[i - 1] \o s[i]
      BY <1>2
    <3> DEFINE a == f[i - 1]
               b == s[i]
    <3>4. a \in Seq(A) /\ b \in Seq(A)
      BY <1>2, <3>1
    <3>5. g[i] = Gather(e, a \o b) /\ g[i - 1] = Gather(e, a) /\ t[i] = Gather(e, b)
      BY <3>2, <3>3
    <3> HIDE DEF a, b, g, t
    <3>6. Gather(e, a \o b) = Gather(e, a) \o Gather(e, b)
      BY <3>4, GatherCat
    <3> QED BY <3>5, <3>6
  <2> HIDE DEF g, t, n
  <2> QED BY <1>4, <2>1, <2>2, <2>3 DEF Joins
<1>6. FlattenSeq(t) = g[n]
  <2> HIDE DEF g, t, n
  <2> QED BY <1>4, <1>5, JoinsEnd
<1>7. FlattenSeq(s) = f[n]
  BY <1>1, JoinsEnd
<1>8. g[n] = Gather(e, f[n])
  <2> HIDE DEF n
  <2> QED BY <1>2
<1> HIDE DEF n, g
<1> QED BY <1>6, <1>7, <1>8

(* A renaming of the pieces passes through what is gathered.                 *)
LEMMA FlattenImage ==
  ASSUME NEW S, NEW R, NEW u, Maps(u, S, R), NEW s \in Seq(Seq(S))
  PROVE  Image(u, FlattenSeq(s)) = FlattenSeq([i \in DOMAIN s |-> Image(u, s[i])])
<1> DEFINE e == [x \in S |-> <<u[x]>>]
           F == FlattenSeq(s)
<1>1. Maps(e, S, Seq(R)) /\ \A x \in S : e[x] = <<u[x]>>
  <2>1. \A x \in S : <<u[x]>> \in Seq(R)
    BY DEF Maps
  <2> QED BY <2>1 DEF Maps
<1>2. F \in Seq(S)
  BY FlattenTyped
<1>3. ASSUME NEW q \in Seq(S) PROVE Gather(e, q) = Image(u, q)
  <2> DEFINE c == Image(u, q)
  <2>1. c \in Seq(R) /\ Len(c) = Len(q) /\ \A k \in 1..Len(q) : c[k] = u[q[k]]
    BY ImageTyped
  <2>2. DOMAIN c = 1..Len(q) /\ DOMAIN q = 1..Len(q)
    <3> HIDE DEF c
    <3> QED BY <2>1
  <2>3. Image(e, q) = [k \in DOMAIN c |-> <<c[k]>>]
    <3>1. \A k \in 1..Len(q) : e[q[k]] = <<c[k]>>
      <4> HIDE DEF e, c
      <4> QED BY <1>1, <2>1, <2>2
    <3> HIDE DEF e, c
    <3> QED BY <2>2, <3>1 DEF Image
  <2> HIDE DEF c, e
  <2>4. FlattenSeq([k \in DOMAIN c |-> <<c[k]>>]) = c
    BY <2>1, FlattenPieces
  <2> QED BY <2>3, <2>4 DEF Gather, c
<1>4. Gather(e, F) = FlattenSeq([i \in DOMAIN s |-> Gather(e, s[i])])
  <2> HIDE DEF e
  <2> QED BY <1>1, GatherFlatten DEF F
<1>5. [i \in DOMAIN s |-> Gather(e, s[i])] = [i \in DOMAIN s |-> Image(u, s[i])]
  <2> HIDE DEF e
  <2>1. \A i \in DOMAIN s : s[i] \in Seq(S)
    OBVIOUS
  <2> QED BY <1>3, <2>1
<1> HIDE DEF e, F
<1>6. Gather(e, F) = Image(u, F)
  BY <1>2, <1>3
<1> QED BY <1>4, <1>5, <1>6 DEF F

-----------------------------------------------------------------------------
(* The parts that are kept (Only) and what entries say (PartsOf).            *)

(* What is kept of a sequence, as the pieces that are in a set.              *)
KeepIn(K, S) == [p \in S |-> IF p \in K THEN <<p>> ELSE <<>>]
Kept(K, S, q) == Gather(KeepIn(K, S), q)

LEMMA KeepMaps == ASSUME NEW K, NEW S PROVE Maps(KeepIn(K, S), S, Seq(S))
<1>1. \A p \in S : (IF p \in K THEN <<p>> ELSE <<>>) \in Seq(S)
  OBVIOUS
<1> QED BY <1>1 DEF Maps, KeepIn

LEMMA KeptCat ==
  ASSUME NEW K, NEW S, NEW a \in Seq(S), NEW b \in Seq(S)
  PROVE  Kept(K, S, a \o b) = Kept(K, S, a) \o Kept(K, S, b)
BY KeepMaps, GatherCat DEF Kept

LEMMA KeptTyped == ASSUME NEW K, NEW S, NEW q \in Seq(S) PROVE Kept(K, S, q) \in Seq(S)
BY KeepMaps, GatherTyped DEF Kept

LEMMA KeptNone == ASSUME NEW K, NEW S PROVE Kept(K, S, <<>>) = <<>>
BY GatherNone DEF Kept

LEMMA KeptOne ==
  ASSUME NEW K, NEW S, NEW p \in S
  PROVE  Kept(K, S, <<p>>) = IF p \in K THEN <<p>> ELSE <<>>
<1>1. Gather(KeepIn(K, S), <<p>>) = KeepIn(K, S)[p]
  BY KeepMaps, GatherOne
<1> QED BY <1>1 DEF Kept, KeepIn

LEMMA KeptAll ==
  ASSUME NEW K, NEW S, NEW q \in Seq(S), \A k \in 1..Len(q) : q[k] \in K
  PROVE  Kept(K, S, q) = q
<1>1. DOMAIN q = 1..Len(q) /\ \A k \in DOMAIN q : q[k] \in S
  OBVIOUS
<1>2. Image(KeepIn(K, S), q) = [k \in DOMAIN q |-> <<q[k]>>]
  BY <1>1 DEF Image, KeepIn
<1> QED BY <1>2, FlattenPieces DEF Kept, Gather

LEMMA OnlyIsKept ==
  ASSUME NEW S, NEW q \in Seq(S)
  PROVE  /\ Only(q, Said) = Kept({p \in S : Said(p)}, S, q)
         /\ Only(q, IsCall) = Kept({p \in S : IsCall(p)}, S, q)
<1>1. \A k \in DOMAIN q : q[k] \in S
  OBVIOUS
<1>2. Only(q, Said) = Kept({p \in S : Said(p)}, S, q)
  <2> DEFINE K == {p \in S : Said(p)}
  <2>1. \A k \in DOMAIN q : KeepIn(K, S)[q[k]] = IF Said(q[k]) THEN <<q[k]>> ELSE <<>>
    BY <1>1 DEF KeepIn
  <2>2. Image(KeepIn(K, S), q) = [k \in DOMAIN q |-> IF Said(q[k]) THEN <<q[k]>> ELSE <<>>]
    BY <2>1 DEF Image
  <2> QED BY <2>2 DEF Kept, Gather, Only
<1>3. Only(q, IsCall) = Kept({p \in S : IsCall(p)}, S, q)
  <2> DEFINE K == {p \in S : IsCall(p)}
  <2>1. \A k \in DOMAIN q : KeepIn(K, S)[q[k]] = IF IsCall(q[k]) THEN <<q[k]>> ELSE <<>>
    BY <1>1 DEF KeepIn
  <2>2. Image(KeepIn(K, S), q) = [k \in DOMAIN q |-> IF IsCall(q[k]) THEN <<q[k]>> ELSE <<>>]
    BY <2>1 DEF Image
  <2> QED BY <2>2 DEF Kept, Gather, Only
<1> QED BY <1>2, <1>3

LEMMA OnlyTyped ==
  ASSUME NEW S, NEW q \in Seq(S)
  PROVE  Only(q, Said) \in Seq(S) /\ Only(q, IsCall) \in Seq(S)
<1> DEFINE K == {p \in S : Said(p)}
           C == {p \in S : IsCall(p)}
<1>1. Only(q, Said) = Kept(K, S, q) /\ Only(q, IsCall) = Kept(C, S, q)
  BY OnlyIsKept
<1> HIDE DEF K, C
<1> QED BY <1>1, KeptTyped

LEMMA OnlyCat ==
  ASSUME NEW S, NEW a \in Seq(S), NEW b \in Seq(S)
  PROVE  /\ Only(a \o b, Said) = Only(a, Said) \o Only(b, Said)
         /\ Only(a \o b, IsCall) = Only(a, IsCall) \o Only(b, IsCall)
<1> DEFINE K == {p \in S : Said(p)}
           C == {p \in S : IsCall(p)}
           ab == a \o b
<1>1. ab \in Seq(S)
  BY CatFacts
<1>2. /\ Only(a, Said) = Kept(K, S, a) /\ Only(a, IsCall) = Kept(C, S, a)
      /\ Only(b, Said) = Kept(K, S, b) /\ Only(b, IsCall) = Kept(C, S, b)
  BY OnlyIsKept
<1>3. Only(ab, Said) = Kept(K, S, ab) /\ Only(ab, IsCall) = Kept(C, S, ab)
  <2> HIDE DEF ab
  <2> QED BY <1>1, OnlyIsKept
<1> HIDE DEF K, C
<1>4. Kept(K, S, ab) = Kept(K, S, a) \o Kept(K, S, b)
  BY KeptCat
<1>5. Kept(C, S, ab) = Kept(C, S, a) \o Kept(C, S, b)
  BY KeptCat
<1> QED BY <1>2, <1>3, <1>4, <1>5

LEMMA OnlyOne ==
  ASSUME NEW p
  PROVE  /\ Only(<<p>>, Said) = IF Said(p) THEN <<p>> ELSE <<>>
         /\ Only(<<p>>, IsCall) = IF IsCall(p) THEN <<p>> ELSE <<>>
<1> DEFINE S == {p}
           K == {x \in S : Said(x)}
           C == {x \in S : IsCall(x)}
           q == <<p>>
<1>1. q \in Seq(S) /\ p \in S
  OBVIOUS
<1>2. Only(q, Said) = Kept(K, S, q) /\ Only(q, IsCall) = Kept(C, S, q)
  <2> HIDE DEF q, S
  <2> QED BY <1>1, OnlyIsKept
<1>3. (p \in K <=> Said(p)) /\ (p \in C <=> IsCall(p))
  OBVIOUS
<1> HIDE DEF K, C, S
<1>4. Kept(K, S, q) = IF p \in K THEN <<p>> ELSE <<>>
  BY <1>1, KeptOne
<1>5. Kept(C, S, q) = IF p \in C THEN <<p>> ELSE <<>>
  BY <1>1, KeptOne
<1> QED BY <1>2, <1>3, <1>4, <1>5

LEMMA OnlyNone == Only(<<>>, Said) = <<>> /\ Only(<<>>, IsCall) = <<>>
<1>1. <<>> \in Seq({})
  OBVIOUS
<1> DEFINE K == {x \in {} : Said(x)}
           C == {x \in {} : IsCall(x)}
<1>2. Only(<<>>, Said) = Kept(K, {}, <<>>) /\ Only(<<>>, IsCall) = Kept(C, {}, <<>>)
  BY <1>1, OnlyIsKept
<1> HIDE DEF K, C
<1> QED BY <1>2, KeptNone

LEMMA OnlyAll ==
  ASSUME NEW S, NEW q \in Seq(S)
  PROVE  /\ (\A k \in 1..Len(q) : Said(q[k])) => Only(q, Said) = q
         /\ (\A k \in 1..Len(q) : IsCall(q[k])) => Only(q, IsCall) = q
<1> DEFINE K == {p \in S : Said(p)}
           C == {p \in S : IsCall(p)}
<1>1. Only(q, Said) = Kept(K, S, q) /\ Only(q, IsCall) = Kept(C, S, q)
  BY OnlyIsKept
<1>2. ASSUME \A k \in 1..Len(q) : Said(q[k]) PROVE \A k \in 1..Len(q) : q[k] \in K
  BY <1>2
<1>3. ASSUME \A k \in 1..Len(q) : IsCall(q[k]) PROVE \A k \in 1..Len(q) : q[k] \in C
  BY <1>3
<1> HIDE DEF K, C
<1> QED BY <1>1, <1>2, <1>3, KeptAll

LEMMA NoCalls ==
  ASSUME NEW S, NEW q \in Seq(S), \A k \in 1..Len(q) : ~ IsCall(q[k])
  PROVE  Only(q, IsCall) = <<>>
<1> DEFINE s == [k \in DOMAIN q |-> IF IsCall(q[k]) THEN <<q[k]>> ELSE <<>>]
           f == [i \in 0..Len(q) |-> <<>>]
<1>1. DOMAIN q = 1..Len(q) /\ Len(q) \in Nat
  OBVIOUS
<1>2. s = [k \in 1..Len(q) |-> <<>>]
  BY <1>1
<1>3. s \in Seq(Seq(S)) /\ Len(s) = Len(q) /\ \A k \in 1..Len(q) : s[k] = <<>>
  <2> HIDE DEF s
  <2>1. s \in [1..Len(q) -> Seq(S)]
    BY <1>2
  <2> QED BY <1>1, <1>2, <2>1
<1>4. Joins(S, s, f)
  <2>1. f \in [0..Len(q) -> Seq(S)] /\ \A i \in 0..Len(q) : f[i] = <<>>
    OBVIOUS
  <2>2. <<>> \o <<>> = <<>>
    BY CatEmpty
  <2> HIDE DEF s, f
  <2>3. ASSUME NEW i \in 1..Len(q) PROVE f[i] = f[i - 1] \o s[i]
    <3>1. i \in 0..Len(q) /\ i - 1 \in 0..Len(q)
      BY <1>1
    <3>2. f[i] = <<>> /\ f[i - 1] = <<>> /\ s[i] = <<>>
      BY <1>3, <2>1, <3>1
    <3> QED BY <2>2, <3>2
  <2>4. f[0] = <<>>
    BY <1>1, <2>1
  <2>5. Len(s) = Len(q) /\ f \in [0..Len(q) -> Seq(S)]
    BY <1>3, <2>1
  <2> QED BY <2>3, <2>4, <2>5 DEF Joins
<1>5. FlattenSeq(s) = f[Len(q)]
  <2> HIDE DEF s, f
  <2> QED BY <1>3, <1>4, JoinsEnd
<1>6. f[Len(q)] = <<>>
  OBVIOUS
<1>7. Only(q, IsCall) = FlattenSeq(s)
  BY DEF Only
<1> HIDE DEF s, f
<1> QED BY <1>5, <1>6, <1>7

(* Entries over a set of parts, and what they say.                           *)
Entries(S) == [role : {"user", "assistant", "tool", "call"}, parts : Seq(S)]
SaidIn(S) == [x \in Entries(S) |-> Only(x.parts, Said)]

LEMMA EntryTyped ==
  ASSUME NEW S, NEW q \in Seq(S), NEW r \in {"user", "assistant", "tool", "call"}
  PROVE  /\ Entry(r, q) \in Entries(S) /\ Entry(r, q).parts = q
         /\ Entry(r, q).role = r
BY DEF Entry, Entries

LEMMA SaidMaps == ASSUME NEW S PROVE Maps(SaidIn(S), Entries(S), Seq(S))
<1>1. ASSUME NEW x \in Entries(S) PROVE Only(x.parts, Said) \in Seq(S)
  <2>1. x.parts \in Seq(S)
    BY DEF Entries
  <2> QED BY <2>1, OnlyTyped
<1> QED BY <1>1 DEF Maps, SaidIn

LEMMA PartsGathered ==
  ASSUME NEW S, NEW es \in Seq(Entries(S))
  PROVE  PartsOf(es) = Gather(SaidIn(S), es) /\ PartsOf(es) \in Seq(S)
<1>1. \A i \in DOMAIN es : es[i] \in Entries(S)
  OBVIOUS
<1>2. Image(SaidIn(S), es) = [i \in DOMAIN es |-> Only(es[i].parts, Said)]
  BY <1>1 DEF Image, SaidIn
<1>3. PartsOf(es) = Gather(SaidIn(S), es)
  BY <1>2 DEF PartsOf, Gather
<1> QED BY <1>3, SaidMaps, GatherTyped

LEMMA PartsCat ==
  ASSUME NEW S, NEW a \in Seq(Entries(S)), NEW b \in Seq(Entries(S))
  PROVE  PartsOf(a \o b) = PartsOf(a) \o PartsOf(b)
<1>1. a \o b \in Seq(Entries(S))
  BY CatFacts
<1>2. Gather(SaidIn(S), a \o b) = Gather(SaidIn(S), a) \o Gather(SaidIn(S), b)
  BY SaidMaps, GatherCat
<1> QED BY <1>1, <1>2, PartsGathered

LEMMA PartsOne ==
  ASSUME NEW S, NEW q \in Seq(S), NEW r \in {"user", "assistant", "tool", "call"}
  PROVE  PartsOf(<<Entry(r, q)>>) = Only(q, Said)
<1> DEFINE x == Entry(r, q)
<1>1. x \in Entries(S) /\ x.parts = q
  BY EntryTyped
<1> HIDE DEF x
<1>2. <<x>> \in Seq(Entries(S))
  BY <1>1
<1>3. Gather(SaidIn(S), <<x>>) = SaidIn(S)[x]
  BY <1>1, SaidMaps, GatherOne
<1>4. SaidIn(S)[x] = Only(q, Said)
  BY <1>1 DEF SaidIn
<1> QED BY <1>2, <1>3, <1>4, PartsGathered DEF x

LEMMA PartsNone == PartsOf(<<>>) = <<>>
<1>1. <<>> \in Seq(Entries({}))
  OBVIOUS
<1> QED BY <1>1, PartsGathered, GatherNone

LEMMA PartsFlatten ==
  ASSUME NEW S, NEW s \in Seq(Seq(Entries(S)))
  PROVE  PartsOf(FlattenSeq(s)) = FlattenSeq([i \in DOMAIN s |-> PartsOf(s[i])])
<1>1. FlattenSeq(s) \in Seq(Entries(S))
  BY FlattenTyped
<1>2. \A i \in DOMAIN s : PartsOf(s[i]) = Gather(SaidIn(S), s[i])
  <2>1. \A i \in DOMAIN s : s[i] \in Seq(Entries(S))
    OBVIOUS
  <2> QED BY <2>1, PartsGathered
<1>3. [i \in DOMAIN s |-> PartsOf(s[i])] = [i \in DOMAIN s |-> Gather(SaidIn(S), s[i])]
  BY <1>2
<1>4. Gather(SaidIn(S), FlattenSeq(s)) = FlattenSeq([i \in DOMAIN s |-> Gather(SaidIn(S), s[i])])
  BY SaidMaps, GatherFlatten
<1> QED BY <1>1, <1>3, <1>4, PartsGathered

-----------------------------------------------------------------------------
(* What one message says, in OpenAI's dialect and in Responses'.             *)

(* What a message says, and the parts it says it with.                       *)
Says(m) ==
  IF m.role = "tool" THEN <<ResultPart(m)>>
  ELSE IF m.role = "assistant" THEN TextParts(m) \o CallParts(m)
  ELSE TextParts(m)
Within(m, S) ==
  /\ TextPart(m.text) \in S
  /\ m.role = "tool" => ResultPart(m) \in S
  /\ m.role = "assistant" => \A k \in DOMAIN m.calls : CallPart(m.calls[k]) \in S
  /\ NoText("(empty)") \in S /\ NoText("(no content)") \in S

LEMMA PartFacts ==
  /\ \A t : (Said(TextPart(t)) <=> t # <<>>) /\ ~ IsCall(TextPart(t)) /\ TextPart(t).part # "call"
  /\ \A w : ~ Said(NoText(w)) /\ ~ IsCall(NoText(w))
  /\ \A c : Said(CallPart(c)) /\ IsCall(CallPart(c)) /\ CallPart(c).part = "call"
            /\ CallPart(c).call = c
  /\ \A m : Said(ResultPart(m)) /\ ~ IsCall(ResultPart(m)) /\ ResultPart(m).part = "result"
            /\ ResultPart(m).id = m.id
BY DEF Said, IsCall, TextPart, NoText, CallPart, ResultPart

LEMMA ResultTyped ==
  ASSUME NEW S, NEW m, Within(m, S), m.role = "tool"
  PROVE  /\ <<ResultPart(m)>> \in Seq(S) /\ Only(<<ResultPart(m)>>, Said) = <<ResultPart(m)>>
         /\ Only(<<ResultPart(m)>>, IsCall) = <<>>
<1> DEFINE p == ResultPart(m)
<1>1. p \in S
  BY DEF Within
<1>2. Said(p) /\ ~ IsCall(p)
  BY PartFacts
<1> HIDE DEF p
<1>3. <<p>> \in Seq(S)
  BY <1>1
<1> QED BY <1>2, <1>3, OnlyOne DEF p

LEMMA TextTyped ==
  ASSUME NEW S, NEW m, Within(m, S)
  PROVE  /\ TextParts(m) \in Seq(S) /\ Only(TextParts(m), Said) = TextParts(m)
         /\ Only(TextParts(m), IsCall) = <<>>
         /\ <<TextPart(m.text)>> \in Seq(S)
         /\ Only(<<TextPart(m.text)>>, Said) = TextParts(m)
         /\ Only(<<TextPart(m.text)>>, IsCall) = <<>>
         /\ \A k \in 1..Len(TextParts(m)) : TextParts(m)[k].part # "call"
         /\ Only(<<NonEmpty(m.text)>>, Said) = TextParts(m)
         /\ Only(<<NonEmpty(m.text)>>, IsCall) = <<>>
<1>1. CASE m.text = <<>>
  <2>1. TextParts(m) = <<>> /\ NonEmpty(m.text) = NoText("(empty)")
    BY <1>1 DEF TextParts, NonEmpty
  <2> DEFINE p == TextPart(m.text)
             f == NoText("(empty)")
  <2>2. ~ Said(p) /\ ~ IsCall(p) /\ ~ Said(f) /\ ~ IsCall(f)
    BY <1>1, PartFacts
  <2>3. p \in S
    BY DEF Within
  <2> HIDE DEF p, f
  <2>4. /\ Only(<<p>>, Said) = <<>> /\ Only(<<p>>, IsCall) = <<>>
        /\ Only(<<f>>, Said) = <<>> /\ Only(<<f>>, IsCall) = <<>>
    BY <2>2, OnlyOne
  <2>5. <<p>> \in Seq(S) /\ <<>> \in Seq(S) /\ 1..Len(<<>>) = {}
    BY <2>3
  <2>6. NonEmpty(m.text) = f /\ TextPart(m.text) = p
    BY <2>1 DEF f, p
  <2> QED BY <2>1, <2>4, <2>5, <2>6, OnlyNone
<1>2. CASE m.text # <<>>
  <2>1. TextParts(m) = <<TextPart(m.text)>> /\ NonEmpty(m.text) = TextPart(m.text)
    BY <1>2 DEF TextParts, NonEmpty
  <2>2. TextPart(m.text) \in S
    BY DEF Within
  <2> DEFINE p == TextPart(m.text)
  <2>3. Only(<<p>>, Said) = <<p>> /\ Only(<<p>>, IsCall) = <<>>
    BY <1>2, OnlyOne, PartFacts
  <2>4. p.part # "call"
    BY PartFacts
  <2> HIDE DEF p
  <2>5. <<p>> \in Seq(S) /\ \A k \in 1..Len(<<p>>) : <<p>>[k].part # "call"
    BY <2>2, <2>4 DEF p
  <2> QED BY <2>1, <2>3, <2>5 DEF p
<1> QED BY <1>1, <1>2

LEMMA CallsTyped ==
  ASSUME NEW S, NEW m, IsMessage(m), m.role = "assistant", Within(m, S)
  PROVE  /\ CallParts(m) \in Seq(S) /\ Len(CallParts(m)) = Len(m.calls) /\ Len(m.calls) \in Nat
         /\ DOMAIN m.calls = 1..Len(m.calls)
         /\ \A k \in 1..Len(m.calls) : CallParts(m)[k] = CallPart(m.calls[k])
         /\ Only(CallParts(m), Said) = CallParts(m)
         /\ Only(CallParts(m), IsCall) = CallParts(m)
<1>1. m.calls \in Seq(Range(m.calls))
  BY DEF IsMessage
<1> DEFINE c == m.calls
<1>2. Len(c) \in Nat /\ DOMAIN c = 1..Len(c)
  BY <1>1
<1>3. \A k \in DOMAIN c : CallPart(c[k]) \in S
  BY DEF Within
<1>4. CallParts(m) = [k \in DOMAIN c |-> CallPart(c[k])]
  BY DEF CallParts
<1> HIDE DEF c
<1>5. CallParts(m) \in [1..Len(c) -> S] /\ \A k \in 1..Len(c) : CallParts(m)[k] = CallPart(c[k])
  BY <1>2, <1>3, <1>4
<1>6. CallParts(m) \in Seq(S) /\ Len(CallParts(m)) = Len(c)
  BY <1>2, <1>5
<1>7. \A k \in 1..Len(c) : Said(CallParts(m)[k]) /\ IsCall(CallParts(m)[k])
  BY <1>5, PartFacts
<1>8. Only(CallParts(m), Said) = CallParts(m) /\ Only(CallParts(m), IsCall) = CallParts(m)
  BY <1>6, <1>7, OnlyAll
<1> QED BY <1>2, <1>5, <1>6, <1>8 DEF c

LEMMA SaysTyped ==
  ASSUME NEW S, NEW m, IsMessage(m), Within(m, S)
  PROVE  Says(m) \in Seq(S) /\ Only(Says(m), Said) = Says(m)
         /\ m.role \in {"user", "assistant", "tool"}
<1>0. m.role \in {"user", "assistant", "tool"}
  BY DEF IsMessage
<1>1. CASE m.role = "tool"
  <2>1. Says(m) = <<ResultPart(m)>>
    BY <1>1 DEF Says
  <2> QED BY <1>0, <1>1, <2>1, ResultTyped
<1>2. CASE m.role = "assistant"
  <2> DEFINE t == TextParts(m)
             c == CallParts(m)
  <2>1. t \in Seq(S) /\ Only(t, Said) = t /\ c \in Seq(S) /\ Only(c, Said) = c
    BY <1>2, TextTyped, CallsTyped
  <2> HIDE DEF t, c
  <2>4. t \o c \in Seq(S)
    BY <2>1, CatFacts
  <2>5. Only(t \o c, Said) = Only(t, Said) \o Only(c, Said)
    BY <2>1, OnlyCat
  <2>2. t \o c \in Seq(S) /\ Only(t \o c, Said) = t \o c
    BY <2>1, <2>4, <2>5
  <2>3. Says(m) = t \o c
    BY <1>2 DEF Says, t, c
  <2> QED BY <1>0, <2>2, <2>3
<1>3. CASE m.role = "user"
  <2>1. Says(m) = TextParts(m)
    BY <1>3 DEF Says
  <2> QED BY <1>0, <2>1, TextTyped
<1> QED BY <1>0, <1>1, <1>2, <1>3

(* What a dialect's entries for a message say.                               *)

OpenAIParts(m) ==
  IF m.role = "tool" THEN <<ResultPart(m)>>
  ELSE IF m.role = "assistant" THEN <<TextPart(m.text)>> \o CallParts(m)
  ELSE <<TextPart(m.text)>>

LEMMA OpenAIEntries ==
  ASSUME NEW h, NEW i \in DOMAIN h, IsMessage(h[i])
  PROVE  Chat(h)[i] = Entry(h[i].role, OpenAIParts(h[i]))
<1>1. h[i].role \in {"user", "assistant", "tool"}
  BY DEF IsMessage
<1> QED BY <1>1 DEF Chat, OpenAIParts

LEMMA OpenAISays ==
  ASSUME NEW S, NEW m, IsMessage(m), Within(m, S)
  PROVE  OpenAIParts(m) \in Seq(S) /\ Only(OpenAIParts(m), Said) = Says(m)
<1>0. m.role \in {"user", "assistant", "tool"}
  BY DEF IsMessage
<1>1. CASE m.role = "tool"
  <2>1. OpenAIParts(m) = <<ResultPart(m)>> /\ Says(m) = <<ResultPart(m)>>
    BY <1>1 DEF OpenAIParts, Says
  <2> QED BY <1>1, <2>1, ResultTyped
<1>2. CASE m.role = "assistant"
  <2> DEFINE q == <<TextPart(m.text)>>
             c == CallParts(m)
  <2>2. q \in Seq(S) /\ Only(q, Said) = TextParts(m)
    BY TextTyped
  <2>3. c \in Seq(S) /\ Only(c, Said) = c
    BY <1>2, CallsTyped
  <2>4. OpenAIParts(m) = q \o c /\ Says(m) = TextParts(m) \o c
    BY <1>2 DEF OpenAIParts, Says
  <2> HIDE DEF q, c
  <2>5. q \o c \in Seq(S) /\ Only(q \o c, Said) = Only(q, Said) \o Only(c, Said)
    BY <2>2, <2>3, CatFacts, OnlyCat
  <2> QED BY <2>2, <2>3, <2>4, <2>5
<1>3. CASE m.role = "user"
  <2>1. OpenAIParts(m) = <<TextPart(m.text)>> /\ Says(m) = TextParts(m)
    BY <1>3 DEF OpenAIParts, Says
  <2> QED BY <2>1, TextTyped
<1> QED BY <1>0, <1>1, <1>2, <1>3

(* Responses: one entry for each part.                                       *)
Single(r, q) == [k \in DOMAIN q |-> Entry(r, <<q[k]>>)]

LEMMA SingleSays ==
  ASSUME NEW S, NEW q \in Seq(S), Only(q, Said) = q, NEW r \in {"user", "assistant", "tool", "call"},
         \A k \in 1..Len(q) : Said(q[k])
  PROVE  Single(r, q) \in Seq(Entries(S)) /\ PartsOf(Single(r, q)) = q
<1>1. Len(q) \in Nat /\ DOMAIN q = 1..Len(q) /\ \A k \in 1..Len(q) : q[k] \in S /\ <<q[k]>> \in Seq(S)
  OBVIOUS
<1>2. \A k \in 1..Len(q) : Entry(r, <<q[k]>>) \in Entries(S) /\ Entry(r, <<q[k]>>).parts = <<q[k]>>
  BY <1>1, EntryTyped, ZenonT(40)
<1>3. Single(r, q) = [k \in 1..Len(q) |-> Entry(r, <<q[k]>>)]
  BY <1>1 DEF Single
<1>4. Single(r, q) \in Seq(Entries(S)) /\ DOMAIN Single(r, q) = DOMAIN q
  <2>1. Single(r, q) \in [1..Len(q) -> Entries(S)]
    BY <1>2, <1>3
  <2> QED BY <1>1, <2>1
<1>5. \A k \in 1..Len(q) : Only(Single(r, q)[k].parts, Said) = <<q[k]>>
  <2>1. \A k \in 1..Len(q) : Single(r, q)[k].parts = <<q[k]>>
    BY <1>2, <1>3
  <2>2. \A k \in 1..Len(q) : Only(<<q[k]>>, Said) = <<q[k]>>
    BY OnlyOne
  <2> QED BY <2>1, <2>2
<1>6. PartsOf(Single(r, q)) = FlattenSeq([k \in DOMAIN q |-> <<q[k]>>])
  <2>1. [k \in DOMAIN Single(r, q) |-> Only(Single(r, q)[k].parts, Said)] = [k \in DOMAIN q |-> <<q[k]>>]
    BY <1>1, <1>4, <1>5
  <2> QED BY <2>1 DEF PartsOf
<1> QED BY <1>4, <1>6, FlattenPieces

ResponsesItems(m) ==
  IF m.role = "tool" THEN <<Entry("tool", <<ResultPart(m)>>)>>
  ELSE IF m.role = "assistant" THEN Single("assistant", TextParts(m)) \o Single("call", CallParts(m))
  ELSE <<Entry("user", <<TextPart(m.text)>>)>>

LEMMA ResponsesSays ==
  ASSUME NEW S, NEW m, IsMessage(m), Within(m, S)
  PROVE  ResponsesItems(m) \in Seq(Entries(S)) /\ PartsOf(ResponsesItems(m)) = Says(m)
<1>0. m.role \in {"user", "assistant", "tool"}
  BY DEF IsMessage
<1>1. CASE m.role = "tool"
  <2> DEFINE q == <<ResultPart(m)>>
  <2>1. ResponsesItems(m) = <<Entry("tool", q)>> /\ Says(m) = q
    BY <1>1 DEF ResponsesItems, Says
  <2>2. q \in Seq(S) /\ Only(q, Said) = q
    BY <1>1, ResultTyped
  <2> HIDE DEF q
  <2>3. Entry("tool", q) \in Entries(S) /\ PartsOf(<<Entry("tool", q)>>) = Only(q, Said)
    BY <2>2, EntryTyped, PartsOne
  <2> QED BY <2>1, <2>2, <2>3
<1>2. CASE m.role = "assistant"
  <2> DEFINE t == TextParts(m)
             c == CallParts(m)
             a == Single("assistant", t)
             b == Single("call", c)
  <2>1. t \in Seq(S) /\ Only(t, Said) = t
    BY TextTyped
  <2>2. c \in Seq(S) /\ Only(c, Said) = c
    BY <1>2, CallsTyped
  <2>3. \A k \in 1..Len(t) : Said(t[k])
    BY PartFacts DEF TextParts
  <2>4. \A k \in 1..Len(c) : Said(c[k])
    <3>1. \A k \in 1..Len(m.calls) : c[k] = CallPart(m.calls[k])
      BY <1>2, CallsTyped
    <3>2. Len(c) = Len(m.calls)
      BY <1>2, CallsTyped
    <3> HIDE DEF c
    <3> QED BY <3>1, <3>2, PartFacts
  <2>5. ResponsesItems(m) = a \o b /\ Says(m) = t \o c
    BY <1>2 DEF ResponsesItems, Says
  <2> HIDE DEF t, c
  <2>6. a \in Seq(Entries(S)) /\ PartsOf(a) = t
    BY <2>1, <2>3, SingleSays
  <2>7. b \in Seq(Entries(S)) /\ PartsOf(b) = c
    BY <2>2, <2>4, SingleSays
  <2> HIDE DEF a, b
  <2>8. a \o b \in Seq(Entries(S))
    BY <2>6, <2>7, CatFacts
  <2>9. PartsOf(a \o b) = PartsOf(a) \o PartsOf(b)
    BY <2>6, <2>7, PartsCat
  <2> QED BY <2>5, <2>6, <2>7, <2>8, <2>9
<1>3. CASE m.role = "user"
  <2> DEFINE q == <<TextPart(m.text)>>
  <2>1. ResponsesItems(m) = <<Entry("user", q)>> /\ Says(m) = TextParts(m)
    BY <1>3 DEF ResponsesItems, Says
  <2>2. q \in Seq(S) /\ Only(q, Said) = TextParts(m)
    BY TextTyped
  <2> HIDE DEF q
  <2>3. Entry("user", q) \in Entries(S) /\ PartsOf(<<Entry("user", q)>>) = Only(q, Said)
    BY <2>2, EntryTyped, PartsOne
  <2> QED BY <2>1, <2>2, <2>3
<1> QED BY <1>0, <1>1, <1>2, <1>3

-----------------------------------------------------------------------------
(* What a conversation says, in these, and the steps of Anthropic's.         *)

IsTalk(h, S) ==
  /\ Len(h) \in Nat /\ DOMAIN h = 1..Len(h)
  /\ \A i \in DOMAIN h : IsMessage(h[i]) /\ Within(h[i], S)
SaysOf(h) == [i \in DOMAIN h |-> Says(h[i])]

LEMMA SaysOfTyped ==
  ASSUME NEW S, NEW h, IsTalk(h, S)
  PROVE  SaysOf(h) \in Seq(Seq(S)) /\ Len(SaysOf(h)) = Len(h)
<1>1. Len(h) \in Nat /\ DOMAIN h = 1..Len(h)
  BY DEF IsTalk
<1>2. \A i \in 1..Len(h) : Says(h[i]) \in Seq(S)
  BY <1>1, SaysTyped DEF IsTalk
<1>3. SaysOf(h) \in [1..Len(h) -> Seq(S)]
  BY <1>1, <1>2 DEF SaysOf
<1> QED BY <1>1, <1>3

LEMMA OpenAIKeeps ==
  ASSUME NEW S, NEW h, IsTalk(h, S)
  PROVE  PartsOf(Chat(h)) = FlattenSeq(SaysOf(h))
<1>1. DOMAIN Chat(h) = DOMAIN h
  BY DEF Chat
<1>2. ASSUME NEW i \in DOMAIN h PROVE Only(Chat(h)[i].parts, Said) = Says(h[i])
  <2>1. IsMessage(h[i]) /\ Within(h[i], S)
    BY DEF IsTalk
  <2>2. OpenAIParts(h[i]) \in Seq(S) /\ Only(OpenAIParts(h[i]), Said) = Says(h[i])
    BY <2>1, OpenAISays
  <2>3. Chat(h)[i] = Entry(h[i].role, OpenAIParts(h[i]))
    BY <2>1, OpenAIEntries
  <2> QED BY <2>2, <2>3 DEF Entry
<1>3. [i \in DOMAIN Chat(h) |-> Only(Chat(h)[i].parts, Said)] = SaysOf(h)
  BY <1>1, <1>2 DEF SaysOf
<1> QED BY <1>3 DEF PartsOf

LEMMA ResponsesKeeps ==
  ASSUME NEW S, NEW h, IsTalk(h, S)
  PROVE  PartsOf(Items(h)) = FlattenSeq(SaysOf(h))
<1> DEFINE s == [i \in DOMAIN h |-> ResponsesItems(h[i])]
<1>1. Len(h) \in Nat /\ DOMAIN h = 1..Len(h)
  BY DEF IsTalk
<1>2. \A i \in 1..Len(h) :
        ResponsesItems(h[i]) \in Seq(Entries(S)) /\ PartsOf(ResponsesItems(h[i])) = Says(h[i])
  BY <1>1, ResponsesSays DEF IsTalk
<1>3. Items(h) = FlattenSeq(s)
  <2>1. ASSUME NEW i \in DOMAIN h
        PROVE  s[i] =
                 CASE h[i].role = "tool" -> <<Entry("tool", <<ResultPart(h[i])>>)>>
                   [] h[i].role = "assistant" ->
                        [k \in DOMAIN TextParts(h[i]) |-> Entry("assistant", <<TextParts(h[i])[k]>>)]
                          \o [k \in DOMAIN CallParts(h[i]) |-> Entry("call", <<CallParts(h[i])[k]>>)]
                   [] OTHER -> <<Entry("user", <<TextPart(h[i].text)>>)>>
    <3>1. h[i].role \in {"user", "assistant", "tool"}
      BY DEF IsTalk, IsMessage
    <3>2. s[i] = ResponsesItems(h[i])
      OBVIOUS
    <3> HIDE DEF s
    <3>3. CASE h[i].role = "tool"
      BY <3>2, <3>3 DEF ResponsesItems
    <3>4. CASE h[i].role = "assistant"
      BY <3>2, <3>4 DEF ResponsesItems, Single
    <3>5. CASE h[i].role = "user"
      BY <3>2, <3>5 DEF ResponsesItems
    <3> QED BY <3>1, <3>3, <3>4, <3>5
  <2> QED BY <2>1 DEF Items
<1>4. s \in Seq(Seq(Entries(S)))
  <2>1. s \in [1..Len(h) -> Seq(Entries(S))]
    BY <1>1, <1>2
  <2> HIDE DEF s
  <2> QED BY <1>1, <2>1
<1>5. [i \in DOMAIN s |-> PartsOf(s[i])] = SaysOf(h)
  BY <1>1, <1>2 DEF SaysOf
<1> HIDE DEF s
<1>6. PartsOf(FlattenSeq(s)) = FlattenSeq([i \in DOMAIN s |-> PartsOf(s[i])])
  BY <1>4, PartsFlatten
<1> QED BY <1>3, <1>5, <1>6

(* Anthropic: the accumulator after each message.                            *)

Accumulators(S) == [out : Seq(Entries(S)), pending : Seq(S)]
NoEntries == [out |-> <<>>, pending |-> <<>>]
Entered(h) == Flush(AnthropicUpTo(h).out, AnthropicUpTo(h).pending)
Spoken(m) ==
  IF m.role = "assistant"
  THEN IF TextParts(m) \o CallParts(m) = <<>> THEN <<NoText("(no content)")>>
       ELSE TextParts(m) \o CallParts(m)
  ELSE <<NonEmpty(m.text)>>

LEMMA SpokenSays ==
  ASSUME NEW S, NEW m, IsMessage(m), Within(m, S), m.role # "tool"
  PROVE  /\ Spoken(m) \in Seq(S) /\ Only(Spoken(m), Said) = Says(m)
         /\ Only(Spoken(m), IsCall) = IF m.role = "assistant" THEN CallParts(m) ELSE <<>>
<1>0. m.role \in {"user", "assistant"}
  BY DEF IsMessage
<1>1. CASE m.role = "user"
  <2>1. Spoken(m) = <<NonEmpty(m.text)>> /\ Says(m) = TextParts(m)
    BY <1>1 DEF Spoken, Says
  <2>2. NonEmpty(m.text) \in S
    BY DEF NonEmpty, Within
  <2>3. <<NonEmpty(m.text)>> \in Seq(S)
    BY <2>2
  <2> QED BY <1>1, <2>1, <2>3, TextTyped
<1>2. CASE m.role = "assistant"
  <2> DEFINE t == TextParts(m)
             c == CallParts(m)
             tc == t \o c
             f == NoText("(no content)")
  <2>1. t \in Seq(S) /\ Only(t, IsCall) = <<>>
    BY TextTyped
  <2>2. c \in Seq(S) /\ Only(c, IsCall) = c
    BY <1>2, CallsTyped
  <2>3. tc = Says(m) /\ Says(m) \in Seq(S) /\ Only(Says(m), Said) = Says(m)
    BY <1>2, SaysTyped DEF Says
  <2>4. Spoken(m) = IF tc = <<>> THEN <<f>> ELSE tc
    BY <1>2 DEF Spoken
  <2>5. f \in S /\ ~ Said(f) /\ ~ IsCall(f)
    BY PartFacts DEF Within
  <2> HIDE DEF t, c, f
  <2>6. Only(tc, IsCall) = c
    <3>1. Only(t \o c, IsCall) = Only(t, IsCall) \o Only(c, IsCall)
      BY <2>1, <2>2, OnlyCat
    <3>2. <<>> \o c = c
      BY <2>2, CatEmpty
    <3> QED BY <2>1, <2>2, <3>1, <3>2
  <2> HIDE DEF tc
  <2>7. CASE tc = <<>>
    <3>1. c = <<>>
      BY <2>6, <2>7, OnlyNone
    <3>0. <<f>> \in Seq(S)
      BY <2>5
    <3>2. <<f>> \in Seq(S) /\ Only(<<f>>, Said) = <<>> /\ Only(<<f>>, IsCall) = <<>>
      BY <2>5, <3>0, OnlyOne
    <3> QED BY <1>2, <2>3, <2>4, <2>7, <3>1, <3>2 DEF c
  <2>8. CASE tc # <<>>
    BY <1>2, <2>3, <2>4, <2>6, <2>8 DEF c
  <2> QED BY <2>7, <2>8
<1> QED BY <1>0, <1>1, <1>2

LEMMA StepTyped ==
  ASSUME NEW S, NEW acc \in Accumulators(S), NEW m, IsMessage(m), Within(m, S)
  PROVE  /\ AnthropicStep(acc, m) \in Accumulators(S)
         /\ Flush(acc.out, acc.pending) \in Seq(Entries(S))
         /\ m.role = "tool" =>
              /\ AnthropicStep(acc, m).out = acc.out
              /\ AnthropicStep(acc, m).pending = Append(acc.pending, ResultPart(m))
         /\ m.role # "tool" =>
              /\ AnthropicStep(acc, m).out
                   = Append(Flush(acc.out, acc.pending), Entry(m.role, Spoken(m)))
              /\ AnthropicStep(acc, m).pending = <<>>
<1>1. acc.out \in Seq(Entries(S)) /\ acc.pending \in Seq(S)
  BY DEF Accumulators
<1>2. acc = [out |-> acc.out, pending |-> acc.pending]
  BY DEF Accumulators
<1> DEFINE out == acc.out
           pending == acc.pending
<1>3. Flush(out, pending) \in Seq(Entries(S))
  <2>1. Entry("user", pending) \in Entries(S)
    BY <1>1, EntryTyped
  <2> HIDE DEF out, pending
  <2> QED BY <1>1, <2>1 DEF Flush, out, pending
<1>4. CASE m.role = "tool"
  <2>1. AnthropicStep(acc, m) = [out |-> out, pending |-> Append(pending, ResultPart(m))]
    BY <1>2, <1>4 DEF AnthropicStep
  <2>2. ResultPart(m) \in S
    BY <1>4 DEF Within
  <2>3. Append(pending, ResultPart(m)) \in Seq(S)
    BY <1>1, <2>2
  <2> QED BY <1>1, <1>3, <1>4, <2>1, <2>3 DEF Accumulators
<1>5. CASE m.role # "tool"
  <2>0. m.role \in {"user", "assistant"}
    BY <1>5 DEF IsMessage
  <2> DEFINE x == Entry(m.role, Spoken(m))
             F == Flush(out, pending)
  <2>1. x \in Entries(S)
    BY <1>5, <2>0, SpokenSays, EntryTyped
  <2>2. x = IF m.role = "assistant"
            THEN Entry("assistant",
                   IF TextParts(m) \o CallParts(m) = <<>> THEN <<NoText("(no content)")>>
                   ELSE TextParts(m) \o CallParts(m))
            ELSE Entry("user", <<NonEmpty(m.text)>>)
    BY <2>0 DEF Spoken
  <2> HIDE DEF x, F
  <2>3. AnthropicStep(acc, m) = [out |-> Append(F, x), pending |-> <<>>]
    BY <1>5, <2>2 DEF AnthropicStep, F
  <2>4. Append(F, x) \in Seq(Entries(S)) /\ <<>> \in Seq(S)
    BY <1>3, <2>1 DEF F
  <2>5. AnthropicStep(acc, m) \in Accumulators(S)
    BY <2>3, <2>4 DEF Accumulators
  <2> QED BY <1>3, <1>5, <2>3, <2>5 DEF F, x
<1> QED BY <1>4, <1>5

Runs(S, h, f) ==
  /\ f \in [0..Len(h) -> Accumulators(S)]
  /\ f[0] = NoEntries
  /\ \A i \in 1..Len(h) : f[i] = AnthropicStep(f[i - 1], h[i])
  /\ AnthropicUpTo(h) = f[Len(h)]

LEMMA AnthropicRuns == ASSUME NEW S, NEW h, IsTalk(h, S) PROVE \E f : Runs(S, h, f)
<1> DEFINE n == Len(h)
           X == Accumulators(S)
           step == [a \in X \X (1..n) |-> AnthropicStep(a[1], h[a[2]])]
<1>1. n \in Nat /\ DOMAIN h = 1..n /\ \A i \in 1..n : IsMessage(h[i]) /\ Within(h[i], S)
  BY DEF IsTalk
<1>2. NoEntries \in X
  BY DEF NoEntries, Accumulators
<1>3. IsStep(step, X, n) /\ \A a \in X, i \in 1..n : step[<<a, i>>] = AnthropicStep(a, h[i])
  <2>1. ASSUME NEW a \in X \X (1..n) PROVE AnthropicStep(a[1], h[a[2]]) \in X
    <3>1. a[1] \in X /\ a[2] \in 1..n
      OBVIOUS
    <3> HIDE DEF n
    <3>2. IsMessage(h[a[2]]) /\ Within(h[a[2]], S)
      BY <1>1, <3>1
    <3> QED BY <3>1, <3>2, StepTyped
  <2> HIDE DEF X, n
  <2> QED BY <2>1 DEF IsStep
<1>4. PICK f : Iterates(f, X, n, NoEntries, step)
  <2> HIDE DEF step, X, n
  <2> QED BY <1>1, <1>2, <1>3, Recursion
<1>5. f \in [0..n -> X] /\ f[0] = NoEntries /\ \A i \in 1..n : f[i] = AnthropicStep(f[i - 1], h[i])
  <2> HIDE DEF step, X, n
  <2>1. f \in [0..n -> X] /\ f[0] = NoEntries /\ \A i \in 1..n : f[i] = step[<<f[i - 1], i>>]
    BY <1>4 DEF Iterates
  <2>2. \A i \in 1..n : i - 1 \in 0..n
    BY <1>1
  <2>3. \A i \in 1..n : f[i - 1] \in X
    BY <2>1, <2>2
  <2> QED BY <1>3, <2>1, <2>3
<1> DEFINE Is(g) == g = [i \in 0..n |-> IF i = 0 THEN NoEntries ELSE AnthropicStep(g[i - 1], h[i])]
           G == CHOOSE g : Is(g)
<1>6. AnthropicUpTo(h) = G[n]
  BY DEF AnthropicUpTo, NoEntries
<1> HIDE DEF step, X, n
<1>7. Is(f)
  <2>1. f = [i \in 0..n |-> f[i]]
    BY <1>5
  <2>2. ASSUME NEW i \in 0..n PROVE f[i] = IF i = 0 THEN NoEntries ELSE AnthropicStep(f[i - 1], h[i])
    <3>1. i = 0 \/ i \in 1..n
      BY <1>1
    <3> QED BY <1>5, <3>1
  <2> QED BY <2>1, <2>2
<1>8. Is(G)
  <2> HIDE DEF Is
  <2> QED BY <1>7
<1> HIDE DEF G
<1> DEFINE T == {i \in Nat : i <= n => G[i] = f[i]}
<1>9. 0 \in T
  <2>1. 0 \in 0..n
    BY <1>1
  <2> QED BY <1>5, <1>8, <2>1
<1>10. ASSUME NEW i \in T PROVE i + 1 \in T
  <2>1. CASE i + 1 <= n
    <3>1. i \in Nat /\ i <= n /\ i + 1 \in 0..n /\ i + 1 \in 1..n /\ (i + 1) - 1 = i /\ i + 1 # 0
      BY <1>1, <2>1
    <3>2. G[i] = f[i]
      BY <3>1
    <3>3. G[i + 1] = AnthropicStep(G[i], h[i + 1])
      BY <1>8, <3>1
    <3>4. f[i + 1] = AnthropicStep(f[i], h[i + 1])
      BY <1>5, <3>1
    <3> QED BY <3>1, <3>2, <3>3, <3>4
  <2>2. CASE ~ (i + 1 <= n)
    BY <2>2
  <2> QED BY <2>1, <2>2
<1>11. T = Nat
  <2> HIDE DEF T
  <2>1. T \in SUBSET Nat
    BY DEF T
  <2> QED BY <1>9, <1>10, <2>1, Induction
<1>12. G[n] = f[n]
  <2>1. n \in T
    BY <1>1, <1>11
  <2> QED BY <1>1, <2>1
<1>13. Runs(S, h, f)
  BY <1>5, <1>6, <1>12 DEF Runs, X, n
<1> QED BY <1>13

-----------------------------------------------------------------------------
(* What a conversation says in Anthropic's.                                  *)

LEMMA PartsAppend ==
  ASSUME NEW S, NEW out \in Seq(Entries(S)), NEW q \in Seq(S),
         NEW r \in {"user", "assistant", "tool", "call"}
  PROVE  /\ Append(out, Entry(r, q)) \in Seq(Entries(S))
         /\ PartsOf(Append(out, Entry(r, q))) = PartsOf(out) \o Only(q, Said)
<1> DEFINE x == Entry(r, q)
           y == <<x>>
<1>1. x \in Entries(S) /\ PartsOf(y) = Only(q, Said)
  BY EntryTyped, PartsOne
<1> HIDE DEF x
<1>2. y \in Seq(Entries(S)) /\ Append(out, x) = out \o y /\ Append(out, x) \in Seq(Entries(S))
  BY <1>1
<1> HIDE DEF y
<1>3. PartsOf(out \o y) = PartsOf(out) \o PartsOf(y)
  BY <1>2, PartsCat
<1> QED BY <1>1, <1>2, <1>3 DEF x

(* What is pending is said too, flushed or not.                              *)
LEMMA FlushSays ==
  ASSUME NEW S, NEW out \in Seq(Entries(S)), NEW q \in Seq(S)
  PROVE  /\ Flush(out, q) \in Seq(Entries(S))
         /\ PartsOf(Flush(out, q)) = PartsOf(out) \o Only(q, Said)
<1>1. CASE q = <<>>
  <2>1. Flush(out, q) = out /\ Only(q, Said) = <<>>
    BY <1>1, OnlyNone DEF Flush
  <2>2. PartsOf(out) \in Seq(S)
    BY PartsGathered
  <2> QED BY <2>1, <2>2, CatEmpty
<1>2. CASE q # <<>>
  <2>1. Flush(out, q) = Append(out, Entry("user", q))
    BY <1>2 DEF Flush
  <2> QED BY <2>1, PartsAppend
<1> QED BY <1>1, <1>2

SaidBy(acc) == PartsOf(Flush(acc.out, acc.pending))

LEMMA StepSays ==
  ASSUME NEW S, NEW acc \in Accumulators(S), NEW m, IsMessage(m), Within(m, S)
  PROVE  SaidBy(AnthropicStep(acc, m)) = SaidBy(acc) \o Says(m)
<1> DEFINE next == AnthropicStep(acc, m)
           out == acc.out
           q == acc.pending
           F == Flush(out, q)
<1>1. out \in Seq(Entries(S)) /\ q \in Seq(S) /\ next \in Accumulators(S) /\ F \in Seq(Entries(S))
  BY StepTyped DEF Accumulators
<1>2. PartsOf(F) = PartsOf(out) \o Only(q, Said)
  <2> HIDE DEF out, q
  <2> QED BY <1>1, FlushSays
<1>3. PartsOf(out) \in Seq(S) /\ Only(q, Said) \in Seq(S) /\ PartsOf(F) \in Seq(S)
  <2> HIDE DEF out, q, F
  <2> QED BY <1>1, PartsGathered, OnlyTyped
<1>4. CASE m.role = "tool"
  <2> DEFINE p == ResultPart(m)
             one == <<p>>
             qp == Append(q, p)
             O == Only(q, Said)
             P == PartsOf(out)
  <2>1. next.out = out /\ next.pending = qp
    BY <1>4, StepTyped
  <2>2. one \in Seq(S) /\ Only(one, Said) = one /\ Says(m) = one
    BY <1>4, ResultTyped DEF Says
  <2>3. p \in S
    BY <1>4 DEF Within
  <2>4. qp = q \o one /\ qp \in Seq(S)
    <3> HIDE DEF p, q
    <3> QED BY <1>1, <2>3
  <2>5. Only(q \o one, Said) = O \o one
    <3>1. Only(q \o one, Said) = Only(q, Said) \o Only(one, Said)
      <4> HIDE DEF q, one
      <4> QED BY <1>1, <2>2, OnlyCat
    <3> QED BY <2>2, <3>1
  <2>6. PartsOf(Flush(out, qp)) = P \o Only(qp, Said)
    <3> HIDE DEF out, qp
    <3> QED BY <1>1, <2>4, FlushSays
  <2>7. (P \o O) \o one = P \o (O \o one)
    <3> HIDE DEF P, O, one
    <3> QED BY <1>3, <2>2, CatAssoc DEF P, O
  <2>8. SaidBy(next) = PartsOf(Flush(out, qp))
    <3> HIDE DEF next, out, qp
    <3> QED BY <2>1 DEF SaidBy
  <2>9. SaidBy(acc) = PartsOf(F)
    BY DEF SaidBy
  <2> HIDE DEF next, out, q, F, qp, O, P, one
  <2>10. SaidBy(next) = P \o (O \o one)
    BY <2>4, <2>5, <2>6, <2>8
  <2>11. SaidBy(acc) = P \o O
    BY <1>2, <2>9 DEF O, P
  <2> QED BY <2>2, <2>7, <2>10, <2>11 DEF next
<1>5. CASE m.role # "tool"
  <2> DEFINE s == Spoken(m)
             o == Append(F, Entry(m.role, s))
  <2>0. m.role \in {"user", "assistant"}
    BY <1>5 DEF IsMessage
  <2>1. next.out = o /\ next.pending = <<>>
    BY <1>5, StepTyped
  <2>2. s \in Seq(S) /\ Only(s, Said) = Says(m)
    BY <1>5, SpokenSays
  <2>3. PartsOf(o) = PartsOf(F) \o Only(s, Said)
    <3> HIDE DEF F, s
    <3> QED BY <1>1, <2>0, <2>2, PartsAppend
  <2>4. Flush(next.out, next.pending) = o
    <3> HIDE DEF next, o
    <3> QED BY <2>1 DEF Flush
  <2>5. SaidBy(next) = PartsOf(o)
    <3> HIDE DEF next, o
    <3> QED BY <2>4 DEF SaidBy
  <2>6. SaidBy(acc) = PartsOf(F)
    BY DEF SaidBy
  <2> HIDE DEF next, o, s, F
  <2> QED BY <2>2, <2>3, <2>5, <2>6 DEF next
<1> QED BY <1>4, <1>5

LEMMA AnthropicKeeps ==
  ASSUME NEW S, NEW h, IsTalk(h, S)
  PROVE  PartsOf(Entered(h)) = FlattenSeq(SaysOf(h))
<1> DEFINE n == Len(h)
           A == Accumulators(S)
<1>1. PICK f : Runs(S, h, f)
  BY AnthropicRuns
<1>2. n \in Nat /\ DOMAIN h = 1..n /\ \A i \in 1..n : IsMessage(h[i]) /\ Within(h[i], S)
  BY DEF IsTalk
<1>3. f \in [0..n -> A] /\ f[0] = NoEntries /\ \A i \in 1..n : f[i] = AnthropicStep(f[i - 1], h[i])
  BY <1>1 DEF Runs
<1> DEFINE said(acc) == SaidBy(acc)
           g == [i \in 0..n |-> said(f[i])]
           s == SaysOf(h)
<1>4. s \in Seq(Seq(S)) /\ Len(s) = n /\ \A i \in 1..n : s[i] = Says(h[i])
  BY <1>2, SaysOfTyped DEF SaysOf
<1>5. ASSUME NEW acc \in A PROVE said(acc) \in Seq(S)
  <2>1. acc.out \in Seq(Entries(S)) /\ acc.pending \in Seq(S)
    BY DEF Accumulators
  <2>2. Flush(acc.out, acc.pending) \in Seq(Entries(S))
    BY <2>1, FlushSays
  <2> QED BY <2>2, PartsGathered DEF SaidBy
<1>6. ASSUME NEW i \in 1..n PROVE said(f[i]) = said(f[i - 1]) \o Says(h[i])
  <2> DEFINE acc == f[i - 1]
             m == h[i]
  <2>1. acc \in A /\ IsMessage(m) /\ Within(m, S) /\ f[i] = AnthropicStep(acc, m)
    <3>1. i - 1 \in 0..n
      BY <1>2
    <3> HIDE DEF n, A
    <3> QED BY <1>2, <1>3, <3>1
  <2> HIDE DEF acc, m
  <2>2. said(AnthropicStep(acc, m)) = said(acc) \o Says(m)
    BY <2>1, StepSays
  <2> HIDE DEF said
  <2> QED BY <2>1, <2>2 DEF acc, m
<1>7. said(NoEntries) = <<>>
  BY PartsNone DEF NoEntries, Flush, SaidBy
<1>8. Joins(S, s, g)
  <2> HIDE DEF said, n, s, A
  <2>1. g \in [0..n -> Seq(S)]
    BY <1>3, <1>5
  <2>2. 0 \in 0..n /\ g[0] = <<>>
    BY <1>2, <1>3, <1>7
  <2>3. ASSUME NEW i \in 1..n PROVE g[i] = g[i - 1] \o s[i]
    <3>1. i \in 0..n /\ i - 1 \in 0..n
      BY <1>2
    <3>2. g[i] = said(f[i]) /\ g[i - 1] = said(f[i - 1])
      BY <3>1
    <3> HIDE DEF g
    <3> QED BY <1>4, <1>6, <3>2
  <2> HIDE DEF g
  <2> QED BY <1>4, <2>1, <2>2, <2>3 DEF Joins
<1>9. FlattenSeq(s) = g[n]
  <2> HIDE DEF g, s
  <2> QED BY <1>4, <1>8, JoinsEnd
<1>10. Entered(h) = Flush(f[n].out, f[n].pending)
  BY <1>1 DEF Entered, Runs
<1>11. g[n] = said(f[n])
  <2> HIDE DEF said
  <2> QED BY <1>2
<1>12. said(f[n]) = PartsOf(Entered(h))
  BY <1>10 DEF SaidBy
<1> HIDE DEF g, said
<1> QED BY <1>9, <1>11, <1>12

-----------------------------------------------------------------------------
(* Where the parts of a message are found in the whole.                      *)

Lengthens(b, a, c) ==
  /\ Len(b) = Len(a) + Len(c) /\ Len(b) \in Nat /\ Len(a) \in Nat /\ Len(c) \in Nat
  /\ \A q \in 1..Len(a) : b[q] = a[q]
  /\ \A k \in 1..Len(c) : b[Len(a) + k] = c[k]

LEMMA JoinsStep ==
  ASSUME NEW S, NEW t \in Seq(Seq(S)), NEW f, Joins(S, t, f), NEW i \in 1..Len(t)
  PROVE  Lengthens(f[i], f[i - 1], t[i])
<1> DEFINE a == f[i - 1]
           b == t[i]
<1>1. i \in 0..Len(t) /\ i - 1 \in 0..Len(t) /\ b \in Seq(S)
  OBVIOUS
<1>2. f \in [0..Len(t) -> Seq(S)] /\ f[i] = f[i - 1] \o t[i]
  BY DEF Joins
<1>3. a \in Seq(S) /\ f[i] \in Seq(S)
  BY <1>1, <1>2
<1>4. f[i] = a \o b
  BY <1>2
<1> HIDE DEF a, b
<1>5. /\ Len(a \o b) = Len(a) + Len(b) /\ Len(a) \in Nat /\ Len(b) \in Nat
      /\ \A q \in 1..Len(a) : (a \o b)[q] = a[q]
      /\ \A k \in 1..Len(b) : (a \o b)[Len(a) + k] = b[k]
  BY <1>1, <1>3, CatFacts
<1>6. /\ Len(f[i]) = Len(a) + Len(b) /\ Len(a) \in Nat /\ Len(b) \in Nat
      /\ \A q \in 1..Len(a) : f[i][q] = a[q]
      /\ \A k \in 1..Len(b) : f[i][Len(a) + k] = b[k]
  BY <1>4, <1>5
<1>7. Len(f[i]) \in Nat
  BY <1>6
<1> QED BY <1>6, <1>7 DEF Lengthens, a, b

LEMMA JoinsPrefix ==
  ASSUME NEW S, NEW t \in Seq(Seq(S)), NEW f, Joins(S, t, f)
  PROVE  \A i \in 0..Len(t) :
           /\ Len(f[i]) \in Nat /\ Len(f[Len(t)]) \in Nat /\ Len(f[i]) <= Len(f[Len(t)])
           /\ \A q \in 1..Len(f[i]) : f[Len(t)][q] = f[i][q]
<1> DEFINE N == Len(t)
           L(i) == Len(f[i])
           Begins(i, m) == L(i) <= L(m) /\ \A q \in 1..L(i) : f[m][q] = f[i][q]
           T == {m \in Nat : m <= N => \A i \in 0..m : Begins(i, m)}
<1>1. N \in Nat
  OBVIOUS
<1>2. \A i \in 0..N : L(i) \in Nat
  <2>1. \A i \in 0..N : f[i] \in Seq(S)
    BY DEF Joins
  <2> HIDE DEF N
  <2> QED BY <2>1
<1>3. 0 \in T
  <2>1. \A i \in 0..0 : i = 0
    OBVIOUS
  <2>2. L(0) <= L(0)
    BY <1>1, <1>2
  <2> QED BY <2>1, <2>2
<1>4. ASSUME NEW m \in T PROVE m + 1 \in T
  <2>1. CASE m + 1 <= N
    <3>1. m \in Nat /\ m <= N /\ m + 1 \in 1..N /\ (m + 1) - 1 = m /\ m \in 0..N /\ m + 1 \in 0..N
      BY <1>1, <2>1
    <3>2. \A i \in 0..m : Begins(i, m)
      BY <3>1
    <3>3. L(m + 1) = L(m) + Len(t[m + 1]) /\ Len(t[m + 1]) \in Nat
          /\ \A q \in 1..L(m) : f[m + 1][q] = f[m][q]
      <4> DEFINE j == m + 1
      <4>1. j \in 1..N /\ j - 1 = m
        BY <3>1
      <4> HIDE DEF j
      <4>2. Lengthens(f[j], f[j - 1], t[j])
        BY <4>1, JoinsStep
      <4> QED BY <4>1, <4>2 DEF j, Lengthens
    <3>4. ASSUME NEW i \in 0..(m + 1) PROVE Begins(i, m + 1)
      <4>1. CASE i = m + 1
        <5>1. L(m + 1) <= L(m + 1)
          BY <1>2, <3>1
        <5> QED BY <4>1, <5>1
      <4>2. CASE i # m + 1
        <5>1. i \in 0..m /\ i \in 0..N
          BY <3>1, <4>2
        <5>2. Begins(i, m)
          BY <3>2, <5>1
        <5>3. L(i) \in Nat /\ L(m) \in Nat /\ L(m + 1) \in Nat
          BY <1>2, <3>1, <5>1
        <5>a. L(i) <= L(m) /\ L(m + 1) = L(m) + Len(t[m + 1]) /\ Len(t[m + 1]) \in Nat
          BY <3>3, <5>2
        <5>4. L(i) <= L(m + 1) /\ \A q \in 1..L(i) : q \in 1..L(m)
          <6> HIDE DEF L
          <6> QED BY <5>a, <5>3
        <5>5. \A q \in 1..L(i) : f[m + 1][q] = f[i][q]
          BY <3>3, <5>2, <5>4
        <5> QED BY <5>4, <5>5
      <4> QED BY <4>1, <4>2
    <3> HIDE DEF Begins
    <3> QED BY <3>1, <3>4
  <2>2. CASE ~ (m + 1 <= N)
    <3> HIDE DEF Begins
    <3> QED BY <2>2
  <2> QED BY <2>1, <2>2
<1>5. T = Nat
  <2> HIDE DEF T
  <2>1. T \in SUBSET Nat
    BY DEF T
  <2> QED BY <1>3, <1>4, <2>1, Induction
<1>6. \A i \in 0..N : Begins(i, N)
  <2>1. N \in T
    BY <1>1, <1>5
  <2> HIDE DEF Begins
  <2> QED BY <1>1, <2>1
<1>7. N \in 0..N
  BY <1>1
<1> HIDE DEF N
<1> QED BY <1>2, <1>6, <1>7 DEF N

(* Every piece of a sequence is a piece of the whole, and the other way      *)
(* round.                                                                    *)
InPlace(t, f) ==
  \A i \in 1..Len(t) : \A k \in 1..Len(t[i]) :
    /\ Len(f[i - 1]) + k \in 1..Len(f[Len(t)])
    /\ f[Len(t)][Len(f[i - 1]) + k] = t[i][k]
Covered(t, f) ==
  \A a \in 1..Len(f[Len(t)]) : \E i \in 1..Len(t) : \E k \in 1..Len(t[i]) :
    a = Len(f[i - 1]) + k
LEMMA Located ==
  ASSUME NEW S, NEW t \in Seq(Seq(S)), NEW f, Joins(S, t, f)
  PROVE  InPlace(t, f) /\ Covered(t, f)
<1> DEFINE N == Len(t)
           L(i) == Len(f[i])
<1>1. N \in Nat /\ N \in 0..N
  OBVIOUS
<1>2. \A i \in 0..N : L(i) \in Nat /\ L(i) <= L(N) /\ \A q \in 1..L(i) : f[N][q] = f[i][q]
  BY JoinsPrefix
<1>3. ASSUME NEW i \in 1..N, NEW k \in 1..Len(t[i])
      PROVE  L(i - 1) + k \in 1..L(N) /\ f[N][L(i - 1) + k] = t[i][k]
  <2>1. L(i) = L(i - 1) + Len(t[i]) /\ L(i - 1) \in Nat /\ Len(t[i]) \in Nat
        /\ f[i][L(i - 1) + k] = t[i][k] /\ L(i) \in Nat
    <3>1. Lengthens(f[i], f[i - 1], t[i])
      BY JoinsStep
    <3> QED BY <3>1 DEF Lengthens
  <2>2. i \in 0..N
    BY <1>1
  <2> DEFINE q == L(i - 1) + k
  <2>3. q \in 1..L(i)
    <3> HIDE DEF L
    <3> QED BY <2>1
  <2>4. L(i) \in Nat /\ L(N) \in Nat /\ L(i) <= L(N) /\ f[N][q] = f[i][q]
    <3> HIDE DEF q, L, N
    <3> QED BY <1>1, <1>2, <2>2, <2>3
  <2>5. q \in 1..L(N)
    <3> HIDE DEF q, L
    <3> QED BY <2>3, <2>4
  <2> QED BY <2>1, <2>4, <2>5
<1>4. ASSUME NEW a \in 1..L(N)
      PROVE  \E i \in 1..N : \E k \in 1..Len(t[i]) : a = L(i - 1) + k
  <2> DEFINE T == {i \in 0..N : a <= L(i)}
  <2>0. L(N) \in Nat /\ a \in Nat /\ a > 0
    BY <1>1, <1>2
  <2>1. T \in SUBSET Nat /\ N \in T
    BY <1>1, <2>0
  <2>2. PICK i \in T : \A j \in T : i <= j
    <3> HIDE DEF T
    <3> QED BY <2>1, Least
  <2>3. i # 0
    <3>1. Len(f[0]) = 0
      BY DEF Joins
    <3> QED BY <2>0, <2>2, <3>1
  <2>4. i \in 1..N /\ i - 1 \in 0..N /\ a <= L(i)
    BY <1>1, <2>2, <2>3
  <2>5. ~ (a <= L(i - 1))
    <3>1. ASSUME a <= L(i - 1) PROVE FALSE
      <4>1. i - 1 \in T
        BY <2>4, <3>1
      <4> HIDE DEF T
      <4> QED BY <2>2, <2>4, <4>1
    <3> QED BY <3>1
  <2>6. L(i) = L(i - 1) + Len(t[i]) /\ L(i - 1) \in Nat /\ Len(t[i]) \in Nat
    <3>1. Lengthens(f[i], f[i - 1], t[i])
      <4> HIDE DEF T
      <4> QED BY <2>4, JoinsStep
    <3> HIDE DEF T
    <3> QED BY <3>1 DEF Lengthens
  <2> DEFINE k == a - L(i - 1)
  <2>7. k \in 1..Len(t[i]) /\ a = L(i - 1) + k
    <3> HIDE DEF T, L
    <3> QED BY <2>0, <2>4, <2>5, <2>6
  <2> HIDE DEF k, T
  <2> QED BY <2>4, <2>7
<1> QED BY <1>3, <1>4 DEF InPlace, Covered

-----------------------------------------------------------------------------
(* The answers follow: from the messages to the parts.                       *)

(* t is what each message says: the last n[i] parts of the i-th are its      *)
(* calls, and each of the n[i] messages after it is the answer to one.       *)
CallsLast(t, n) ==
  \A i \in 1..Len(t) : /\ n[i] \in Nat /\ n[i] <= Len(t[i])
                       /\ \A k \in 1..Len(t[i]) : t[i][k].part = "call" <=> k > Len(t[i]) - n[i]
AnswersNext(t, n) ==
  \A i \in 1..Len(t) : \A c \in 1..n[i] :
    /\ i + c \in 1..Len(t) /\ Len(t[i + c]) = 1
    /\ t[i + c][1].part = "result"
    /\ t[i + c][1].id = t[i][(Len(t[i]) - n[i]) + c].call.id

LEMMA AnswersFollow ==
  ASSUME NEW S, NEW t \in Seq(Seq(S)), NEW n, CallsLast(t, n), AnswersNext(t, n)
  PROVE  AnsweredAtOnce(FlattenSeq(t))
<1>1. PICK f : Joins(S, t, f)
  BY JoinsExist
<1> DEFINE N == Len(t)
           p == f[N]
           L(i) == Len(f[i])
<1>2. N \in Nat /\ FlattenSeq(t) = p /\ DOMAIN p = 1..L(N)
  <2>1. FlattenSeq(t) = p /\ p \in Seq(S)
    BY <1>1, JoinsEnd
  <2> QED BY <2>1
<1>3. /\ \A i \in 1..N : \A k \in 1..Len(t[i]) :
           L(i - 1) + k \in 1..L(N) /\ p[L(i - 1) + k] = t[i][k]
      /\ \A a \in 1..L(N) : \E i \in 1..N : \E k \in 1..Len(t[i]) : a = L(i - 1) + k
  <2>1. InPlace(t, f) /\ Covered(t, f)
    BY <1>1, Located
  <2> QED BY <2>1 DEF InPlace, Covered
<1>4. \A i \in 1..N : L(i) = L(i - 1) + Len(t[i]) /\ L(i) \in Nat /\ L(i - 1) \in Nat /\ Len(t[i]) \in Nat
  <2>1. \A i \in 1..N : Lengthens(f[i], f[i - 1], t[i])
    BY <1>1, JoinsStep
  <2> QED BY <2>1 DEF Lengthens
<1>5. ASSUME NEW i \in 1..N, NEW c \in 1..n[i]
      PROVE  /\ L(i) + c \in 1..L(N) /\ p[L(i) + c].part = "result"
             /\ p[L(i) + c].id = t[i][(Len(t[i]) - n[i]) + c].call.id
  <2>0. n[i] \in Nat /\ L(i) \in Nat
    BY <1>4 DEF CallsLast
  <2> DEFINE T == {d \in Nat : d <= n[i] => L(i + d) = L(i) + d}
  <2>1. 0 \in T
    <3>1. i + 0 = i /\ L(i) + 0 = L(i)
      BY <2>0
    <3> QED BY <3>1
  <2>2. ASSUME NEW d \in T PROVE d + 1 \in T
    <3>1. CASE d + 1 <= n[i]
      <4> DEFINE j == i + (d + 1)
      <4>1. d \in Nat /\ d + 1 \in 1..n[i] /\ d <= n[i] /\ j - 1 = i + d
        BY <2>0, <3>1
      <4>2. L(i + d) = L(i) + d
        BY <4>1
      <4>3. j \in 1..N /\ Len(t[j]) = 1
        BY <4>1 DEF AnswersNext
      <4> HIDE DEF j, N
      <4>4. L(j) = L(j - 1) + Len(t[j])
        BY <1>4, <4>3
      <4>5. L(j) = (L(i) + d) + 1
        BY <4>1, <4>2, <4>3, <4>4
      <4>6. L(j) = L(i) + (d + 1)
        <5> HIDE DEF L
        <5> QED BY <2>0, <4>1, <4>5
      <4>7. L(i + (d + 1)) = L(i) + (d + 1)
        BY <4>6 DEF j
      <4> HIDE DEF L
      <4> QED BY <4>1, <4>7
    <3>2. CASE ~ (d + 1 <= n[i])
      BY <3>2
    <3> QED BY <3>1, <3>2
  <2>3. T = Nat
    <3> HIDE DEF T
    <3>1. T \in SUBSET Nat
      BY DEF T
    <3> QED BY <2>1, <2>2, <3>1, Induction
  <2> DEFINE d == c - 1
             j == i + c
  <2>4. d \in Nat /\ d <= n[i] /\ d + 1 = c /\ j - 1 = i + d /\ c \in Nat
    BY <2>0
  <2>5. L(i + d) = L(i) + d
    <3>1. d \in T
      BY <2>3, <2>4
    <3> HIDE DEF d
    <3> QED BY <2>4, <3>1
  <2>6. j \in 1..N /\ Len(t[j]) = 1 /\ t[j][1].part = "result"
        /\ t[j][1].id = t[i][(Len(t[i]) - n[i]) + c].call.id
    BY DEF AnswersNext
  <2> HIDE DEF d, j, N, T
  <2>7. 1 \in 1..Len(t[j])
    BY <2>6
  <2>8. L(j - 1) + 1 \in 1..L(N) /\ p[L(j - 1) + 1] = t[j][1]
    BY <1>3, <2>6, <2>7
  <2>9. L(j - 1) + 1 = L(i) + c
    <3>1. L(j - 1) = L(i) + d
      BY <2>4, <2>5
    <3> HIDE DEF L
    <3> QED BY <2>0, <2>4, <3>1
  <2> QED BY <2>6, <2>8, <2>9
<1>6. \A i \in 1..N : \A k \in 1..Len(t[i]) : p[L(i - 1) + k].part = "call" <=> k > Len(t[i]) - n[i]
  <2>1. ASSUME NEW i \in 1..N, NEW k \in 1..Len(t[i])
        PROVE  p[L(i - 1) + k].part = "call" <=> k > Len(t[i]) - n[i]
    <3>1. p[L(i - 1) + k] = t[i][k]
      BY <1>3
    <3>2. t[i][k].part = "call" <=> k > Len(t[i]) - n[i]
      BY DEF CallsLast
    <3> HIDE DEF p, L
    <3> QED BY <3>1, <3>2
  <2> QED BY <2>1
<1>7. \A i \in 1..N : n[i] \in Nat /\ n[i] <= Len(t[i])
  BY DEF CallsLast
<1>8. \A i \in 1..N : \A k \in 1..Len(t[i]) : L(i - 1) + k \in 1..L(N) /\ p[L(i - 1) + k] = t[i][k]
  BY <1>3
<1>9. \A a \in 1..L(N) : \E i \in 1..N : \E k \in 1..Len(t[i]) : a = L(i - 1) + k
  BY <1>3
<1>10. L(N) \in Nat /\ L(N) = Len(p)
  <2>1. N = 0 \/ N \in 1..N
    BY <1>2
  <2>2. Len(f[0]) = 0
    BY <1>1 DEF Joins
  <2> QED BY <1>4, <2>1, <2>2
<1> HIDE DEF p, L, N
<1> DEFINE Run(a, b) ==
             /\ a <= b
             /\ p[a].part = "call" /\ (a > 1 => p[a - 1].part # "call")
             /\ \A k \in a..b : p[k].part = "call"
             /\ b < L(N) => p[b + 1].part # "call"
           Answered(y, x) == y \in 1..L(N) /\ p[y].part = "result" /\ p[y].id = p[x].call.id
<1>11. ASSUME NEW a \in 1..L(N), NEW b \in 1..L(N), Run(a, b), NEW x \in a..b
       PROVE  Answered(x + (b - a) + 1, x)
  <2>0. PICK i \in 1..N : \E k \in 1..Len(t[i]) : a = L(i - 1) + k
    BY <1>9
  <2>1. PICK k \in 1..Len(t[i]) : a = L(i - 1) + k
    BY <2>0
  <2> DEFINE l == Len(t[i])
             m == n[i]
             K == L(i - 1)
  <2>2. /\ l \in Nat /\ m \in Nat /\ m <= l /\ K \in Nat /\ L(i) = K + l
        /\ k \in 1..l /\ a = K + k
    BY <1>4, <1>7, <2>1
  <2>3. \A q \in 1..l : K + q \in 1..L(N) /\ p[K + q] = t[i][q] /\ (p[K + q].part = "call" <=> q > l - m)
    BY <1>6, <1>8
  <2>4. \A c \in 1..m : /\ (K + l) + c \in 1..L(N) /\ p[(K + l) + c].part = "result"
                        /\ p[(K + l) + c].id = t[i][(l - m) + c].call.id
    BY <1>5, <2>2
  <2> HIDE DEF l, m, K
  <2>5. k = (l - m) + 1 /\ m >= 1
    <3>1. k > l - m
      BY <1>11, <2>2, <2>3
    <3>2. ~ (k > (l - m) + 1)
      <4>1. ASSUME k > (l - m) + 1 PROVE FALSE
        <5>1. k - 1 \in 1..l /\ k - 1 > l - m /\ a > 1 /\ a - 1 = K + (k - 1)
          BY <2>2, <4>1
        <5>2. p[K + (k - 1)].part = "call"
          BY <2>3, <5>1
        <5> QED BY <1>11, <5>1, <5>2
      <4> QED BY <4>1
    <3> QED BY <2>2, <3>1, <3>2
  <2>6. b = K + l
    <3>1. ~ (b > K + l)
      <4>1. ASSUME b > K + l PROVE FALSE
        <5>1. (K + l) + 1 \in a..b
          BY <2>2, <2>5, <4>1, <1>10
        <5>2. p[(K + l) + 1].part = "result"
          BY <2>2, <2>4, <2>5
        <5>3. p[(K + l) + 1].part = "call"
          BY <1>11, <5>1
        <5> QED BY <5>2, <5>3
      <4> QED BY <4>1
    <3>2. ~ (b < K + l)
      <4>1. ASSUME b < K + l PROVE FALSE
        <5> DEFINE q == (b + 1) - K
        <5>1. q \in 1..l /\ q > l - m /\ b + 1 = K + q /\ b \in Nat
          BY <1>10, <2>2, <2>5, <4>1
        <5> HIDE DEF q
        <5>2. p[b + 1].part = "call" /\ b + 1 \in 1..L(N)
          BY <2>3, <5>1
        <5>3. b < L(N)
          BY <1>10, <5>1, <5>2
        <5> QED BY <1>11, <5>2, <5>3
      <4> QED BY <4>1
    <3> QED BY <1>10, <2>2, <3>1, <3>2
  <2> DEFINE c == x - (K + (l - m))
             q == (l - m) + c
  <2>7. c \in 1..m /\ q \in 1..l /\ x = K + q /\ x + (b - a) + 1 = (K + l) + c
    BY <1>10, <2>2, <2>5, <2>6
  <2> HIDE DEF c
  <2>8. p[x] = t[i][q]
    <3> HIDE DEF q
    <3> QED BY <2>3, <2>7
  <2>9. (K + l) + c \in 1..L(N) /\ p[(K + l) + c].part = "result" /\ p[(K + l) + c].id = t[i][q].call.id
    BY <2>4, <2>7
  <2> QED BY <2>7, <2>8, <2>9
<1>12. AnsweredAtOnce(p)
  <2>1. ASSUME NEW a \in DOMAIN p, NEW b \in DOMAIN p,
               p[a].part = "call" /\ (a > 1 => p[a - 1].part # "call"),
               b >= a, \A k \in a..b : p[k].part = "call",
               b < Len(p) => p[b + 1].part # "call",
               NEW x \in a..b
        PROVE  /\ x + (b - a) + 1 \in DOMAIN p /\ p[x + (b - a) + 1].part = "result"
               /\ p[x + (b - a) + 1].id = p[x].call.id
    <3>1. a \in 1..L(N) /\ b \in 1..L(N) /\ a <= b
      BY <1>2, <1>10, <2>1
    <3>2. Run(a, b)
      BY <1>10, <2>1, <3>1
    <3> HIDE DEF Run
    <3>3. Answered(x + (b - a) + 1, x)
      BY <1>11, <3>1, <3>2
    <3> QED BY <1>2, <3>3
  <2> QED BY <2>1 DEF AnsweredAtOnce
<1> QED BY <1>2, <1>12

-----------------------------------------------------------------------------
(* A conversation, its parts and its calls.                                  *)

TextSet(h) == {TextPart(h[i].text) : i \in DOMAIN h}
ResultSet(h) == {ResultPart(h[i]) : i \in DOMAIN h}
Turns(h) == {i \in DOMAIN h : h[i].role = "assistant"}
CallSet(h) == UNION {{CallPart(h[i].calls[k]) : k \in DOMAIN h[i].calls} : i \in Turns(h)}
Fillers == {NoText("(empty)"), NoText("(no content)")}
PartSet(h) == TextSet(h) \cup ResultSet(h) \cup CallSet(h) \cup Fillers

LEMMA InCallSet ==
  ASSUME NEW h, NEW p
  PROVE  p \in CallSet(h) <=>
           \E i \in DOMAIN h : h[i].role = "assistant" /\ \E k \in DOMAIN h[i].calls : p = CallPart(h[i].calls[k])
BY DEF CallSet, Turns

LEMMA ConversationIsTalk ==
  ASSUME NEW h, IsConversation(h)
  PROVE  IsTalk(h, PartSet(h))
<1>1. Len(h) \in Nat /\ DOMAIN h = 1..Len(h)
  BY DEF IsConversation
<1>2. \A i \in DOMAIN h : IsMessage(h[i])
  BY DEF IsConversation
<1>3. ASSUME NEW i \in DOMAIN h PROVE Within(h[i], PartSet(h))
  <2>1. TextPart(h[i].text) \in TextSet(h) /\ ResultPart(h[i]) \in ResultSet(h)
    BY DEF TextSet, ResultSet
  <2>2. NoText("(empty)") \in Fillers /\ NoText("(no content)") \in Fillers
    BY DEF Fillers
  <2>3. h[i].role = "assistant" => \A k \in DOMAIN h[i].calls : CallPart(h[i].calls[k]) \in CallSet(h)
    BY InCallSet
  <2> QED BY <2>1, <2>2, <2>3 DEF Within, PartSet
<1> QED BY <1>1, <1>2, <1>3 DEF IsTalk

LEMMA UnlabelledFacts ==
  ASSUME NEW h, IsConversation(h), NEW p \in PartSet(h)
  PROVE  /\ Unlabelled(p).part = p.part /\ (Said(Unlabelled(p)) <=> Said(p))
         /\ p.part = "call" => Unlabelled(p).call.id = 0
         /\ p.part = "result" => Unlabelled(p).id = 0
<1>1. CASE \E t : p = TextPart(t)
  BY <1>1 DEF Unlabelled, TextPart, Said
<1>2. CASE \E w : p = NoText(w)
  BY <1>2 DEF Unlabelled, NoText, Said
<1>3. CASE \E m : p = ResultPart(m)
  BY <1>3 DEF Unlabelled, ResultPart, Said
<1>4. ASSUME NEW i \in DOMAIN h, h[i].role = "assistant", NEW k \in DOMAIN h[i].calls,
             p = CallPart(h[i].calls[k])
      PROVE  Unlabelled(p).part = p.part /\ (Said(Unlabelled(p)) <=> Said(p))
             /\ p.part = "call" /\ Unlabelled(p).call.id = 0
  <2> DEFINE c == h[i].calls[k]
  <2>1. c = [id |-> c.id, name |-> c.name, args |-> c.args]
    BY <1>4 DEF IsConversation, IsMessage
  <2> HIDE DEF c
  <2>2. p = [part |-> "call", call |-> c]
    BY <1>4 DEF CallPart, c
  <2>3. "id" \in DOMAIN c
    BY <2>1
  <2>4. Unlabelled(p) = [p EXCEPT !.call.id = 0]
    BY <2>2 DEF Unlabelled
  <2>5. Unlabelled(p) = [part |-> "call", call |-> [c EXCEPT !.id = 0]]
    BY <2>2, <2>4
  <2>6. [c EXCEPT !.id = 0].id = 0
    BY <2>3
  <2>7. p.part = "call" /\ Unlabelled(p).part = "call"
    BY <2>2, <2>5
  <2>8. Unlabelled(p).call.id = 0
    <3> DEFINE d == [c EXCEPT !.id = 0]
    <3>1. Unlabelled(p) = [part |-> "call", call |-> d] /\ d.id = 0
      BY <2>5, <2>6
    <3> HIDE DEF d
    <3> QED BY <3>1
  <2> QED BY <2>7, <2>8 DEF Said
<1>5. \/ \E t : p = TextPart(t)
      \/ \E w : p = NoText(w)
      \/ \E m : p = ResultPart(m)
      \/ \E i \in DOMAIN h : h[i].role = "assistant" /\ \E k \in DOMAIN h[i].calls : p = CallPart(h[i].calls[k])
  <2>1. p \in TextSet(h) \/ p \in ResultSet(h) \/ p \in CallSet(h) \/ p \in Fillers
    BY DEF PartSet
  <2>2. p \in TextSet(h) => \E t : p = TextPart(t)
    BY DEF TextSet
  <2>3. p \in ResultSet(h) => \E m : p = ResultPart(m)
    BY DEF ResultSet
  <2>4. p \in Fillers => \E w : p = NoText(w)
    BY DEF Fillers
  <2> QED BY <2>1, <2>2, <2>3, <2>4, InCallSet
<1>6. CASE \E i \in DOMAIN h : h[i].role = "assistant" /\ \E k \in DOMAIN h[i].calls : p = CallPart(h[i].calls[k])
  <2>1. Unlabelled(p).part = p.part /\ (Said(Unlabelled(p)) <=> Said(p))
             /\ p.part = "call" /\ Unlabelled(p).call.id = 0
    BY <1>4, <1>6
  <2> QED BY <2>1
<1> QED BY <1>1, <1>2, <1>3, <1>5, <1>6

(* How many calls each message makes.                                        *)
Asked(h) == [i \in DOMAIN h |-> IF h[i].role = "assistant" THEN Len(h[i].calls) ELSE 0]

MakesCalls(q, n) ==
  /\ n \in Nat /\ n <= Len(q)
  /\ \A k \in 1..Len(q) : q[k].part = "call" <=> k > Len(q) - n

LEMMA SaysFacts ==
  ASSUME NEW h, IsConversation(h), NEW i \in DOMAIN h
  PROVE  /\ MakesCalls(Says(h[i]), Asked(h)[i]) /\ Says(h[i]) \in Seq(PartSet(h))
         /\ h[i].role = "tool" => Says(h[i]) = <<ResultPart(h[i])>>
         /\ \A c \in 1..Asked(h)[i] :
              Says(h[i])[(Len(Says(h[i])) - Asked(h)[i]) + c] = CallPart(h[i].calls[c])
<1> DEFINE m == h[i]
           S == PartSet(h)
<1>0. IsMessage(m) /\ Within(m, S) /\ m.role \in {"user", "assistant", "tool"}
  <2>1. IsTalk(h, S)
    BY ConversationIsTalk
  <2> HIDE DEF S
  <2>2. IsMessage(m) /\ Within(m, S)
    BY <2>1 DEF IsTalk
  <2> QED BY <2>2 DEF IsMessage
<1>1. Says(m) \in Seq(S)
  <2> HIDE DEF m, S
  <2> QED BY <1>0, SaysTyped
<1>2. CASE m.role = "tool"
  <2> DEFINE p == ResultPart(m)
  <2>1. Says(m) = <<p>> /\ Asked(h)[i] = 0
    BY <1>2 DEF Says, Asked
  <2>2. p.part # "call"
    BY PartFacts
  <2> HIDE DEF p
  <2>3. MakesCalls(<<p>>, 0)
    BY <2>2 DEF MakesCalls
  <2>4. 1..0 = {}
    OBVIOUS
  <2> HIDE DEF S
  <2> QED BY <1>1, <1>2, <2>1, <2>3, <2>4 DEF p, S
<1>3. CASE m.role = "user"
  <2> DEFINE t == TextParts(m)
  <2>1. Says(m) = t /\ Asked(h)[i] = 0
    BY <1>3 DEF Says, Asked
  <2>2. t \in Seq(S) /\ \A k \in 1..Len(t) : t[k].part # "call"
    <3> HIDE DEF m, S
    <3> QED BY <1>0, TextTyped
  <2> HIDE DEF t, S
  <2>3. MakesCalls(t, 0)
    BY <2>2 DEF MakesCalls
  <2>4. 1..0 = {}
    OBVIOUS
  <2> QED BY <1>1, <1>3, <2>1, <2>3, <2>4 DEF S
<1>4. CASE m.role = "assistant"
  <2> DEFINE t == TextParts(m)
             c == CallParts(m)
             tc == t \o c
             n == Len(m.calls)
             l == Len(t)
  <2>1. Says(m) = tc /\ Asked(h)[i] = n
    BY <1>4 DEF Says, Asked
  <2>2. t \in Seq(S) /\ \A k \in 1..Len(t) : t[k].part # "call"
    <3> HIDE DEF m, S
    <3> QED BY <1>0, TextTyped
  <2>3. c \in Seq(S) /\ Len(c) = n /\ n \in Nat /\ \A k \in 1..n : c[k] = CallPart(m.calls[k])
    <3> HIDE DEF m, S
    <3> QED BY <1>0, <1>4, CallsTyped
  <2> HIDE DEF t, c, S, m, n
  <2>4. Len(tc) = l + Len(c) /\ l \in Nat /\ (\A k \in 1..l : tc[k] = t[k])
        /\ \A k \in 1..Len(c) : tc[l + k] = c[k]
    <3>1. t \in Seq(S) /\ c \in Seq(S)
      BY <2>2, <2>3
    <3> QED BY <3>1, CatFacts
  <2> HIDE DEF tc, l
  <2>5. Len(tc) = l + n /\ (\A k \in 1..n : tc[l + k] = CallPart(m.calls[k]))
    BY <2>3, <2>4
  <2>6. Len(tc) - n = l
    BY <2>3, <2>4, <2>5
  <2>7. ASSUME NEW k \in 1..Len(tc) PROVE tc[k].part = "call" <=> k > l
    <3>1. CASE k <= l
      <4>1. k \in 1..l
        BY <2>4, <3>1
      <4>2. tc[k] = t[k] /\ t[k].part # "call"
        BY <2>2, <2>4, <4>1 DEF l
      <4> QED BY <2>4, <3>1, <4>2
    <3>2. CASE k > l
      <4> DEFINE j == k - l
      <4>1. j \in 1..n /\ k = l + j
        BY <2>3, <2>4, <2>5, <3>2
      <4> HIDE DEF j
      <4>2. tc[k] = CallPart(m.calls[j])
        BY <2>5, <4>1
      <4>3. tc[k].part = "call"
        BY <4>2, PartFacts
      <4> QED BY <3>2, <4>3
    <3> QED BY <2>4, <3>1, <3>2
  <2>8. n <= Len(tc)
    BY <2>3, <2>4, <2>5
  <2>9. m.role # "tool"
    BY <1>4
  <2>10. MakesCalls(tc, n)
    BY <2>3, <2>6, <2>7, <2>8 DEF MakesCalls
  <2> QED BY <1>1, <2>1, <2>5, <2>6, <2>9, <2>10 DEF m, S
<1> QED BY <1>0, <1>2, <1>3, <1>4

-----------------------------------------------------------------------------
(* The answers follow in every dialect, with ids and without.                *)

LEMMA AskedAnswered ==
  ASSUME NEW h, IsConversation(h), NEW i \in DOMAIN h, NEW c \in 1..Asked(h)[i]
  PROVE  /\ i + c \in DOMAIN h /\ h[i + c].role = "tool"
         /\ h[i + c].id = h[i].calls[c].id /\ h[i].role = "assistant"
<1>1. Len(h) \in Nat /\ DOMAIN h = 1..Len(h)
  BY DEF IsConversation
<1>2. h[i].role = "assistant" /\ c \in 1..Len(h[i].calls)
  BY DEF Asked
<1>3. h[i].calls \in Seq(Range(h[i].calls))
  BY <1>2 DEF IsConversation, IsMessage
<1>4. c \in DOMAIN h[i].calls
  BY <1>2, <1>3
<1>5. AnsweredInTurn(h)
  BY DEF IsConversation
<1> QED BY <1>1, <1>2, <1>4, <1>5 DEF AnsweredInTurn

LEMMA SaysAnswered ==
  ASSUME NEW h, IsConversation(h)
  PROVE  CallsLast(SaysOf(h), Asked(h)) /\ AnswersNext(SaysOf(h), Asked(h))
<1> DEFINE t == SaysOf(h)
           n == Asked(h)
<1>1. Len(h) \in Nat /\ DOMAIN h = 1..Len(h) /\ Len(t) = Len(h)
  BY ConversationIsTalk, SaysOfTyped DEF IsConversation
<1>2. \A i \in 1..Len(h) : t[i] = Says(h[i])
  BY <1>1 DEF SaysOf
<1>3. CallsLast(t, n)
  <2>1. \A i \in 1..Len(h) : MakesCalls(t[i], n[i])
    BY <1>1, <1>2, SaysFacts
  <2> HIDE DEF t, n
  <2> QED BY <1>1, <2>1 DEF CallsLast, MakesCalls
<1>4. ASSUME NEW i \in 1..Len(t), NEW c \in 1..n[i]
      PROVE  /\ i + c \in 1..Len(t) /\ Len(t[i + c]) = 1
             /\ t[i + c][1].part = "result"
             /\ t[i + c][1].id = t[i][(Len(t[i]) - n[i]) + c].call.id
  <2> DEFINE j == i + c
             r == ResultPart(h[j])
  <2>1. i \in DOMAIN h
    BY <1>1
  <2>2. j \in DOMAIN h /\ h[j].role = "tool" /\ h[j].id = h[i].calls[c].id
    BY <2>1, AskedAnswered
  <2> HIDE DEF j
  <2>3. t[j] = <<r>>
    BY <1>1, <1>2, <2>2, SaysFacts
  <2>4. r.part = "result" /\ r.id = h[j].id
    BY PartFacts
  <2>5. t[i][(Len(t[i]) - n[i]) + c] = CallPart(h[i].calls[c])
    BY <1>1, <1>2, <2>1, SaysFacts
  <2>6. CallPart(h[i].calls[c]).call.id = h[i].calls[c].id
    BY PartFacts
  <2> HIDE DEF r, t, n
  <2>7. Len(t[j]) = 1 /\ t[j][1] = r
    BY <2>3
  <2> QED BY <1>1, <2>2, <2>4, <2>5, <2>6, <2>7 DEF j
<1> HIDE DEF t, n
<1>5. AnswersNext(t, n)
  BY <1>4 DEF AnswersNext
<1> QED BY <1>3, <1>5 DEF t, n

LEMMA OpenAIAnswered ==
  ASSUME NEW h, IsConversation(h)
  PROVE  AnsweredAtOnce(FlattenSeq(SaysOf(h)))
<1>1. SaysOf(h) \in Seq(Seq(PartSet(h)))
  BY ConversationIsTalk, SaysOfTyped
<1> QED BY <1>1, SaysAnswered, AnswersFollow

(* Without the ids.                                                          *)
Relabel(S) == [p \in S |-> Unlabelled(p)]
LabelLess(S) == {Unlabelled(p) : p \in S}

LEMMA SaidUnlabelled ==
  ASSUME NEW h, IsConversation(h), NEW q \in Seq(PartSet(h))
  PROVE  /\ [k \in DOMAIN q |-> Unlabelled(q[k])] = Image(Relabel(PartSet(h)), q)
         /\ Only(Image(Relabel(PartSet(h)), q), Said) = Image(Relabel(PartSet(h)), Only(q, Said))
<1> DEFINE S == PartSet(h)
           u == Relabel(S)
           R == LabelLess(S)
           s == [k \in DOMAIN q |-> IF Said(q[k]) THEN <<q[k]>> ELSE <<>>]
           v == Image(u, q)
<1>1. Maps(u, S, R) /\ \A p \in S : u[p] = Unlabelled(p) /\ (Said(u[p]) <=> Said(p))
  <2>1. \A p \in S : u[p] = Unlabelled(p) /\ Unlabelled(p) \in R
    BY DEF Relabel, LabelLess
  <2>2. Maps(u, S, R)
    BY <2>1 DEF Maps, Relabel
  <2> QED BY <2>1, <2>2, UnlabelledFacts
<1>2. \A k \in DOMAIN q : q[k] \in S
  OBVIOUS
<1> HIDE DEF S, u, R
<1>3. DOMAIN v = DOMAIN q /\ \A k \in DOMAIN q : v[k] = u[q[k]]
  BY DEF Image
<1>4. s \in Seq(Seq(S))
  <2>1. Len(q) \in Nat /\ DOMAIN q = 1..Len(q)
    OBVIOUS
  <2>2. \A k \in 1..Len(q) : (IF Said(q[k]) THEN <<q[k]>> ELSE <<>>) \in Seq(S)
    BY <1>2, <2>1
  <2>3. s \in [1..Len(q) -> Seq(S)]
    BY <2>1, <2>2
  <2> HIDE DEF s
  <2> QED BY <2>1, <2>3
<1>5. [k \in DOMAIN v |-> IF Said(v[k]) THEN <<v[k]>> ELSE <<>>] = [k \in DOMAIN s |-> Image(u, s[k])]
  <2>1. ASSUME NEW k \in DOMAIN q
        PROVE  (IF Said(v[k]) THEN <<v[k]>> ELSE <<>>) = Image(u, s[k])
    <3>1. s[k] = (IF Said(q[k]) THEN <<q[k]>> ELSE <<>>) /\ v[k] = u[q[k]] /\ (Said(v[k]) <=> Said(q[k]))
      BY <1>1, <1>2, <1>3
    <3>2. Image(u, <<>>) = <<>> /\ Image(u, <<q[k]>>) = <<u[q[k]]>>
      BY DEF Image
    <3> HIDE DEF s, v
    <3> QED BY <3>1, <3>2
  <2>2. DOMAIN s = DOMAIN q
    OBVIOUS
  <2> HIDE DEF s, v
  <2> QED BY <1>3, <2>1, <2>2
<1>6. Image(u, FlattenSeq(s)) = FlattenSeq([k \in DOMAIN s |-> Image(u, s[k])])
  <2> HIDE DEF s
  <2> QED BY <1>1, <1>4, FlattenImage
<1>7. Only(v, Said) = FlattenSeq([k \in DOMAIN s |-> Image(u, s[k])])
  <2> HIDE DEF s, v
  <2> QED BY <1>5 DEF Only
<1>8. Only(q, Said) = FlattenSeq(s)
  BY DEF Only
<1>9. [k \in DOMAIN q |-> Unlabelled(q[k])] = v
  BY <1>1, <1>2 DEF Image
<1> HIDE DEF s
<1> QED BY <1>6, <1>7, <1>8, <1>9 DEF v, u, S

LEMMA UnlabelledAnswered ==
  ASSUME NEW h, IsConversation(h)
  PROVE  /\ AnsweredAtOnce(PartsOf(WithoutIds(Chat(h))))
         /\ PartsOf(WithoutIds(Chat(h))) = Image(Relabel(PartSet(h)), FlattenSeq(SaysOf(h)))
<1> DEFINE S == PartSet(h)
           u == Relabel(S)
           R == LabelLess(S)
           n == Asked(h)
           es == WithoutIds(Chat(h))
           t == [i \in DOMAIN es |-> Only(es[i].parts, Said)]
<1>1. Len(h) \in Nat /\ DOMAIN h = 1..Len(h) /\ DOMAIN es = 1..Len(h)
  BY DEF IsConversation, WithoutIds, Chat
<1>2. Maps(u, S, R) /\ \A p \in S : u[p] = Unlabelled(p)
  BY DEF Relabel, LabelLess, Maps
<1>3. \A i \in 1..Len(h) : Says(h[i]) \in Seq(S)
  BY <1>1, SaysFacts
<1>4. ASSUME NEW i \in 1..Len(h) PROVE t[i] = Image(u, Says(h[i]))
  <2> DEFINE q == OpenAIParts(h[i])
             m == h[i]
  <2>1. IsMessage(m) /\ Within(m, S)
    BY <1>1, ConversationIsTalk DEF IsTalk
  <2>2. q \in Seq(S) /\ Only(q, Said) = Says(m)
    <3> HIDE DEF S, m
    <3>1. OpenAIParts(m) \in Seq(S) /\ Only(OpenAIParts(m), Said) = Says(m)
      BY <2>1, OpenAISays
    <3> QED BY <3>1 DEF m
  <2>3. Chat(h)[i] = Entry(m.role, q)
    BY <1>1, <2>1, OpenAIEntries
  <2> DEFINE w == [k \in DOMAIN q |-> Unlabelled(q[k])]
  <2>4. es[i].parts = w
    <3>1. es[i] = [Chat(h)[i] EXCEPT !.parts = [k \in DOMAIN @ |-> Unlabelled(@[k])]]
      BY <1>1 DEF WithoutIds, Chat
    <3> HIDE DEF q, es
    <3> QED BY <2>3, <3>1 DEF Entry
  <2>5. w = Image(u, q) /\ Only(Image(u, q), Said) = Image(u, Only(q, Said))
    <3> HIDE DEF q
    <3> QED BY <2>2, SaidUnlabelled
  <2> HIDE DEF q, w, es, u
  <2> QED BY <1>1, <2>2, <2>4, <2>5
<1>5. t \in Seq(Seq(R)) /\ Len(t) = Len(h)
  <2> HIDE DEF es, S, u, R
  <2>1. \A i \in 1..Len(h) : Image(u, Says(h[i])) \in Seq(R)
    BY <1>2, <1>3, ImageTyped
  <2>2. t = [i \in 1..Len(h) |-> t[i]]
    BY <1>1
  <2> HIDE DEF t
  <2>3. t \in [1..Len(h) -> Seq(R)]
    BY <1>4, <2>1, <2>2
  <2> QED BY <1>1, <2>3
<1>6. PartsOf(es) = FlattenSeq(t)
  BY DEF PartsOf
<1>7. ASSUME NEW i \in 1..Len(h)
      PROVE  Len(t[i]) = Len(Says(h[i])) /\ \A k \in 1..Len(Says(h[i])) :
               /\ Says(h[i])[k] \in S /\ t[i][k] = Unlabelled(Says(h[i])[k])
  <2> DEFINE q == Says(h[i])
  <2>1. q \in Seq(S)
    BY <1>3
  <2> HIDE DEF q, S, u, R
  <2>2. Len(Image(u, q)) = Len(q) /\ \A k \in 1..Len(q) : Image(u, q)[k] = u[q[k]]
    BY <1>2, <2>1, ImageTyped
  <2>3. \A k \in 1..Len(q) : q[k] \in S
    BY <2>1
  <2>4. t[i] = Image(u, q)
    BY <1>4 DEF q
  <2> HIDE DEF t
  <2> QED BY <1>2, <2>2, <2>3, <2>4 DEF q
<1>11. FlattenSeq(t) = Image(u, FlattenSeq(SaysOf(h)))
  <2> DEFINE q == SaysOf(h)
  <2>1. q \in Seq(Seq(S)) /\ Len(q) = Len(h)
    BY ConversationIsTalk, SaysOfTyped
  <2>2. DOMAIN q = 1..Len(h) /\ \A i \in 1..Len(h) : q[i] = Says(h[i])
    BY <1>1 DEF SaysOf
  <2>3. DOMAIN t = 1..Len(h)
    BY <1>1
  <2>5. t = [i \in DOMAIN t |-> t[i]]
    OBVIOUS
  <2> HIDE DEF q, t, es, S, u, R
  <2>4. t = [i \in DOMAIN q |-> Image(u, q[i])]
    BY <1>4, <2>2, <2>3, <2>5
  <2>6. Image(u, FlattenSeq(q)) = FlattenSeq([i \in DOMAIN q |-> Image(u, q[i])])
    BY <1>2, <2>1, FlattenImage
  <2> QED BY <2>4, <2>6 DEF q
<1> HIDE DEF es, t, u, R
<1>8. CallsLast(t, n)
  <2>1. ASSUME NEW i \in 1..Len(h) PROVE MakesCalls(t[i], n[i])
    <3> DEFINE q == Says(h[i])
    <3>1. MakesCalls(q, n[i])
      BY <1>1, SaysFacts
    <3>2. Len(t[i]) = Len(q) /\ \A k \in 1..Len(q) : q[k] \in S /\ t[i][k] = Unlabelled(q[k])
      BY <1>7
    <3>3. \A k \in 1..Len(q) : t[i][k].part = q[k].part
      BY <3>2, UnlabelledFacts
    <3> HIDE DEF q, n, S
    <3> QED BY <3>1, <3>2, <3>3 DEF MakesCalls
  <2> HIDE DEF n
  <2> QED BY <1>5, <2>1 DEF CallsLast, MakesCalls
<1>9. ASSUME NEW i \in 1..Len(t), NEW c \in 1..n[i]
      PROVE  /\ i + c \in 1..Len(t) /\ Len(t[i + c]) = 1
             /\ t[i + c][1].part = "result"
             /\ t[i + c][1].id = t[i][(Len(t[i]) - n[i]) + c].call.id
  <2> DEFINE j == i + c
             r == ResultPart(h[j])
             q == Says(h[i])
             k == (Len(q) - n[i]) + c
  <2>1. i \in DOMAIN h /\ i \in 1..Len(h)
    BY <1>1, <1>5
  <2>2. j \in DOMAIN h /\ h[j].role = "tool"
    BY <2>1, AskedAnswered
  <2> HIDE DEF j
  <2>3. Says(h[j]) = <<r>> /\ r.part = "result" /\ j \in 1..Len(h)
    BY <1>1, <2>2, SaysFacts, PartFacts
  <2>4. Len(t[j]) = 1 /\ t[j][1] = Unlabelled(r) /\ r \in S
    <3>1. Len(<<r>>) = 1 /\ <<r>>[1] = r
      OBVIOUS
    <3> HIDE DEF r, S
    <3> QED BY <1>7, <2>3, <3>1
  <2>5. t[j][1].part = "result" /\ t[j][1].id = 0
    BY <2>3, <2>4, UnlabelledFacts
  <2>6. q[k] = CallPart(h[i].calls[c]) /\ q[k].part = "call"
    BY <2>1, SaysFacts, PartFacts
  <2>7. k \in 1..Len(q)
    <3>1. MakesCalls(q, n[i]) /\ q \in Seq(S)
      BY <2>1, SaysFacts
    <3>2. n[i] \in Nat /\ n[i] <= Len(q) /\ Len(q) \in Nat
      BY <3>1 DEF MakesCalls
    <3> HIDE DEF q, n
    <3> QED BY <3>2
  <2>8. Len(t[i]) = Len(q) /\ q[k] \in S /\ t[i][k] = Unlabelled(q[k])
    BY <1>7, <2>1, <2>7
  <2>9. t[i][k].call.id = 0
    BY <2>6, <2>8, UnlabelledFacts
  <2> HIDE DEF q, n, r, S
  <2> QED BY <1>5, <2>3, <2>4, <2>5, <2>8, <2>9 DEF j, k
<1>10. AnswersNext(t, n)
  <2> HIDE DEF n
  <2> QED BY <1>9 DEF AnswersNext
<1> HIDE DEF n
<1>12. AnsweredAtOnce(FlattenSeq(t))
  BY <1>5, <1>8, <1>10, AnswersFollow
<1> QED BY <1>6, <1>11, <1>12 DEF es, u, S

-----------------------------------------------------------------------------
(* Anthropic's entries pair: what is pending after each message, and what    *)
(* is flushed.                                                               *)

CallsOf(m) == IF m.role = "assistant" THEN CallParts(m) ELSE <<>>
Ids(q) == [k \in DOMAIN q |-> q[k].id]
CallIds(q) == [k \in DOMAIN q |-> q[k].call.id]
Paired(es, x) ==
  Only(es[x].parts, IsCall) # <<>> =>
    /\ x + 1 \in DOMAIN es
    /\ Ids(es[x + 1].parts) = CallIds(Only(es[x].parts, IsCall))

LEMMA PairedTogether ==
  ASSUME NEW es, \A x \in DOMAIN es : Paired(es, x)
  PROVE  ResultsTogether(es)
BY DEF ResultsTogether, Paired, Ids, CallIds

(* After i messages: the last entry is the one of the last message that is   *)
(* no result, and what is pending are the results since.                     *)
Pend(h, q, i) ==
  /\ Len(q) \in Nat /\ Len(q) <= i /\ DOMAIN q = 1..Len(q)
  /\ \A k \in 1..Len(q) :
       q[k] = ResultPart(h[(i - Len(q)) + k]) /\ h[(i - Len(q)) + k].role = "tool"
LastOut(h, out, j) ==
  /\ j = 0 => out = <<>>
  /\ j > 0 => /\ h[j].role # "tool" /\ Len(out) > 0
              /\ Only(out[Len(out)].parts, IsCall) = CallsOf(h[j])
Waiting(h, acc, i) ==
  /\ Pend(h, acc.pending, i)
  /\ i - Len(acc.pending) = 0 => i = 0
  /\ LastOut(h, acc.out, i - Len(acc.pending))
  /\ \A x \in 1..(Len(acc.out) - 1) : Paired(acc.out, x)

LEMMA PairedStays ==
  ASSUME NEW E, NEW out \in Seq(E), NEW e \in E, NEW x \in 1..Len(out), Paired(out, x)
  PROVE  Paired(Append(out, e), x)
<1> DEFINE o == Append(out, e)
<1>1. o \in Seq(E) /\ Len(o) = Len(out) + 1 /\ Len(out) \in Nat /\ DOMAIN o = 1..Len(o)
      /\ DOMAIN out = 1..Len(out) /\ \A y \in 1..Len(out) : o[y] = out[y]
  OBVIOUS
<1> HIDE DEF o
<1>2. o[x] = out[x]
  BY <1>1
<1>3. ASSUME Only(out[x].parts, IsCall) # <<>>
      PROVE  x + 1 \in DOMAIN o /\ Ids(o[x + 1].parts) = CallIds(Only(out[x].parts, IsCall))
  <2>1. x + 1 \in 1..Len(out) /\ Ids(out[x + 1].parts) = CallIds(Only(out[x].parts, IsCall))
    BY <1>1, <1>3 DEF Paired
  <2>2. x + 1 \in DOMAIN o /\ o[x + 1] = out[x + 1]
    BY <1>1, <2>1
  <2> QED BY <2>1, <2>2
<1> QED BY <1>2, <1>3 DEF Paired, o

(* The results that are pending when something else is said are all of the   *)
(* calls' results.                                                           *)
LEMMA AllPending ==
  ASSUME NEW h, IsConversation(h), NEW q, NEW i \in 0..Len(h), Pend(h, q, i), Len(q) > 0,
         NEW j \in 1..Len(h), j = i - Len(q), h[j].role = "assistant",
         i + 1 \in DOMAIN h => h[i + 1].role # "tool"
  PROVE  Ids(q) = CallIds(CallParts(h[j]))
<1> DEFINE p == Len(q)
           calls == h[j].calls
           n == Len(calls)
<1>1. Len(h) \in Nat /\ DOMAIN h = 1..Len(h) /\ AnsweredInTurn(h)
  BY DEF IsConversation
<1>2. calls \in Seq(Range(calls))
  BY <1>1 DEF IsConversation, IsMessage
<1>3. n \in Nat /\ DOMAIN calls = 1..n
  BY <1>2
<1>4. p \in Nat /\ p > 0 /\ p <= i /\ DOMAIN q = 1..p /\ i = j + p /\ j \in Nat /\ i \in Nat
  BY <1>1 DEF Pend
<1>5. \A k \in 1..p : q[k] = ResultPart(h[j + k]) /\ h[j + k].role = "tool"
  BY <1>4 DEF Pend
<1>6. \A k \in 1..n : j + k \in 1..Len(h) /\ h[j + k].role = "tool" /\ h[j + k].id = calls[k].id
  <2> HIDE DEF n
  <2> QED BY <1>1, <1>3 DEF AnsweredInTurn
<1> HIDE DEF p, n, calls
<1>7. n <= p
  <2>1. ASSUME n > p PROVE FALSE
    <3>1. p + 1 \in 1..n /\ j + (p + 1) = i + 1
      BY <1>3, <1>4, <2>1, SMTT(30)
    <3>2. i + 1 \in 1..Len(h) /\ h[i + 1].role = "tool"
      BY <1>6, <3>1
    <3> QED BY <1>1, <3>2
  <2> QED BY <1>3, <1>4, <2>1
<1>8. p <= n
  <2>1. i \in DOMAIN h /\ h[i].role = "tool"
    <3>0. p \in Nat /\ p > 0
      BY <1>4
    <3>1. p \in 1..p
      BY <3>0
    <3>2. j + p \in 1..Len(h) /\ i = j + p
      BY <1>1, <1>4
    <3> QED BY <1>1, <1>5, <3>1, <3>2
  <2>2. PICK k \in 1..(i - 1) : h[i - k].role = "assistant" /\ k \in DOMAIN h[i - k].calls
    BY <1>1, <2>1 DEF AnsweredInTurn
  <2> DEFINE a == i - k
  <2>3. /\ a \in DOMAIN h /\ h[a].role = "assistant" /\ k \in DOMAIN h[a].calls
        /\ k \in Nat /\ a \in Nat
    <3>1. k \in Nat /\ a \in Nat /\ a \in 1..Len(h)
      BY <1>1, <1>4, <2>2
    <3> QED BY <1>1, <2>2, <3>1
  <2>4. a + k = i
    BY <1>4
  <2> HIDE DEF a
  <2>5. a <= j
    <3>1. ASSUME a > j PROVE FALSE
      <4> DEFINE d == a - j
      <4>1. d \in 1..p /\ a = j + d
        BY <1>4, <2>2, <2>3, <2>4, <3>1
      <4> HIDE DEF d
      <4>2. h[a].role = "tool"
        BY <1>5, <4>1
      <4> QED BY <2>3, <4>2
    <3> QED BY <1>4, <2>3, <3>1
  <2>6. ~ (a < j)
    <3>1. ASSUME a < j PROVE FALSE
      <4> DEFINE d == j - a
      <4>1. d \in 1..k /\ a + d = j
        BY <1>4, <2>2, <2>3, <2>4, <3>1
      <4>2. d \in DOMAIN h[a].calls
        <5>1. h[a].calls \in Seq(Range(h[a].calls))
          BY <2>3 DEF IsConversation, IsMessage
        <5>2. Len(h[a].calls) \in Nat /\ DOMAIN h[a].calls = 1..Len(h[a].calls)
          BY <5>1
        <5> HIDE DEF d
        <5> QED BY <2>3, <4>1, <5>2
      <4> HIDE DEF d
      <4>3. h[a + d].role = "tool"
        BY <1>1, <2>3, <4>2 DEF AnsweredInTurn
      <4> QED BY <4>1, <4>3
    <3> QED BY <1>4, <2>3, <3>1
  <2>7. a = j
    BY <1>4, <2>3, <2>5, <2>6
  <2>8. k = p
    BY <1>4, <2>3, <2>4, <2>7
  <2>9. p \in 1..n
    BY <1>3, <2>3, <2>7, <2>8 DEF calls
  <2> QED BY <1>3, <2>9
<1>9. p = n
  BY <1>3, <1>4, <1>7, <1>8
<1>10. Ids(q) = [k \in 1..n |-> calls[k].id]
  <2>1. \A k \in 1..n : q[k].id = calls[k].id
    BY <1>5, <1>6, <1>9, PartFacts
  <2> QED BY <1>4, <1>9, <2>1 DEF Ids
<1>11. CallIds(CallParts(h[j])) = [k \in 1..n |-> calls[k].id]
  <2>1. CallParts(h[j]) = [k \in 1..n |-> CallPart(calls[k])]
    BY <1>3 DEF CallParts, calls
  <2>2. \A k \in 1..n : CallPart(calls[k]).call.id = calls[k].id
    BY PartFacts
  <2> QED BY <2>1, <2>2 DEF CallIds
<1> QED BY <1>10, <1>11

LEMMA FlushPairs ==
  ASSUME NEW h, IsConversation(h), NEW S, IsTalk(h, S), NEW acc \in Accumulators(S),
         NEW i \in 0..Len(h), Waiting(h, acc, i), i + 1 \in DOMAIN h => h[i + 1].role # "tool",
         NEW x \in 1..Len(Flush(acc.out, acc.pending))
  PROVE  Paired(Flush(acc.out, acc.pending), x)
<1> DEFINE out == acc.out
           q == acc.pending
           p == Len(q)
           j == i - p
           o == Len(out)
           F == Flush(out, q)
<1>1. out \in Seq(Entries(S)) /\ q \in Seq(S) /\ o \in Nat /\ p \in Nat
      /\ DOMAIN out = 1..o /\ (o = 0 <=> out = <<>>) /\ (p = 0 <=> q = <<>>)
  BY DEF Accumulators
<1>2. Len(h) \in Nat /\ DOMAIN h = 1..Len(h) /\ AnsweredInTurn(h) /\ i \in Nat
  BY DEF IsConversation
<1>3. Pend(h, q, i) /\ (j = 0 => i = 0) /\ LastOut(h, out, j)
      /\ \A y \in 1..(o - 1) : Paired(out, y)
  BY DEF Waiting
<1>4. p <= i /\ j \in Nat /\ j <= i /\ i = j + p /\ j \in 0..Len(h)
  <2>1. p <= i
    BY <1>3 DEF Pend
  <2> HIDE DEF p
  <2> QED BY <1>1, <1>2, <2>1
<1>5. o > 0 => /\ j \in 1..Len(h) /\ h[j].role # "tool"
               /\ Only(out[o].parts, IsCall) = CallsOf(h[j])
  <2> HIDE DEF j, out, o
  <2> QED BY <1>1, <1>2, <1>3, <1>4 DEF LastOut, o
<1>6. CASE p = 0
  <2>1. F = out /\ i = j
    BY <1>1, <1>4, <1>6 DEF Flush
  <2>2. x \in 1..o
    BY <2>1
  <2>3. CASE x # o
    <3>1. x \in 1..(o - 1)
      BY <1>1, <2>2, <2>3
    <3> HIDE DEF F, o, out
    <3> QED BY <1>3, <2>1, <3>1 DEF F, out
  <2>4. CASE x = o
    <3>1. j \in 1..Len(h) /\ h[j].role # "tool" /\ Only(out[x].parts, IsCall) = CallsOf(h[j])
      BY <1>1, <1>5, <2>2, <2>4
    <3>2. CallsOf(h[j]) = <<>>
      <4>1. CASE h[j].role # "assistant"
        BY <4>1 DEF CallsOf
      <4>2. CASE h[j].role = "assistant"
        <5>1. 1 \notin DOMAIN h[j].calls
          <6>1. ASSUME 1 \in DOMAIN h[j].calls PROVE FALSE
            <7> HIDE DEF j
            <7>1. j + 1 \in DOMAIN h /\ h[j + 1].role = "tool"
              BY <1>2, <3>1, <4>2, <6>1 DEF AnsweredInTurn
            <7> QED BY <2>1, <7>1
          <6> QED BY <6>1
        <5>2. h[j].calls \in Seq(Range(h[j].calls))
          <6> HIDE DEF j
          <6> QED BY <1>2, <3>1, <4>2 DEF IsConversation, IsMessage
        <5>3. h[j].calls = <<>>
          <6> DEFINE c == h[j].calls
          <6>1. c \in Seq(Range(c)) /\ 1 \notin DOMAIN c
            BY <5>1, <5>2
          <6> HIDE DEF c
          <6>2. Len(c) \in Nat /\ DOMAIN c = 1..Len(c)
            BY <6>1
          <6>3. Len(c) = 0
            BY <6>1, <6>2
          <6>4. c = <<>>
            BY <6>1, <6>3
          <6> QED BY <6>4 DEF c
        <5> HIDE DEF j
        <5> QED BY <4>2, <5>3 DEF CallsOf, CallParts
      <4> QED BY <4>1, <4>2
    <3> HIDE DEF F, out, j
    <3> QED BY <2>1, <3>1, <3>2 DEF Paired, F, out
  <2> QED BY <2>3, <2>4
<1>7. CASE p # 0
  <2> DEFINE e == Entry("user", q)
  <2>1. e \in Entries(S) /\ e.parts = q
    BY <1>1, EntryTyped
  <2>2. F = Append(out, e)
    BY <1>1, <1>7 DEF Flush
  <2> HIDE DEF e
  <2>3. Append(out, e) \in Seq(Entries(S)) /\ Len(Append(out, e)) = o + 1 /\ Append(out, e)[o + 1] = e
        /\ DOMAIN Append(out, e) = 1..(o + 1) /\ \A y \in 1..o : Append(out, e)[y] = out[y]
    <3> HIDE DEF out
    <3> QED BY <1>1, <2>1 DEF o
  <2>4. x \in 1..(o + 1)
    <3>1. x \in 1..Len(F)
      OBVIOUS
    <3> HIDE DEF F, o
    <3> QED BY <2>2, <2>3, <3>1
  <2> HIDE DEF F, out, o
  <2>5. CASE x \in 1..(o - 1)
    <3>1. Paired(out, x) /\ x \in 1..o
      BY <1>1, <1>3, <2>5
    <3>2. x \in 1..Len(out)
      BY <3>1 DEF o
    <3>3. Paired(Append(out, e), x)
      BY <1>1, <2>1, <3>1, <3>2, PairedStays
    <3> QED BY <2>2, <3>3 DEF F, out
  <2>6. CASE x = o
    <3>1. o > 0 /\ x + 1 = o + 1 /\ x \in 1..o
      BY <1>1, <2>4, <2>6
    <3>2. j \in 1..Len(h) /\ h[j].role # "tool" /\ Only(out[o].parts, IsCall) = CallsOf(h[j])
      BY <1>5, <3>1
    <3>3. F[x] = out[x] /\ F[x + 1] = e /\ x + 1 \in DOMAIN F
      BY <1>1, <2>2, <2>3, <3>1
    <3>4. CASE h[j].role # "assistant"
      <4>1. Only(F[x].parts, IsCall) = <<>>
        BY <2>6, <3>2, <3>3, <3>4 DEF CallsOf
      <4> QED BY <4>1 DEF Paired, F, out
    <3>5. CASE h[j].role = "assistant"
      <4>1. p > 0
        BY <1>1, <1>7
      <4> HIDE DEF q
      <4>2. Ids(q) = CallIds(CallParts(h[j]))
        BY <1>3, <3>2, <3>5, <4>1, AllPending
      <4>3. Only(F[x].parts, IsCall) = CallParts(h[j])
        BY <2>6, <3>2, <3>3, <3>5 DEF CallsOf
      <4>4. Paired(F, x)
        BY <2>1, <3>3, <4>2, <4>3 DEF Paired
      <4> QED BY <4>4 DEF F, out, q
    <3> QED BY <3>4, <3>5
  <2>7. CASE x = o + 1
    <3>1. Only(q, IsCall) = <<>>
      <4>1. \A k \in 1..p : ~ IsCall(q[k])
        <5>1. ASSUME NEW k \in 1..p PROVE ~ IsCall(q[k])
          <6>1. q[k] = ResultPart(h[(i - p) + k])
            BY <1>3 DEF Pend
          <6> QED BY <6>1, PartFacts
        <5> QED BY <5>1
      <4> HIDE DEF q
      <4> QED BY <1>1, <4>1, NoCalls DEF p
    <3>2. F[x] = e
      BY <2>2, <2>3, <2>7
    <3>3. Paired(F, x)
      BY <2>1, <3>1, <3>2 DEF Paired
    <3> QED BY <3>3 DEF F, out
  <2> QED BY <1>1, <2>4, <2>5, <2>6, <2>7
<1> QED BY <1>1, <1>6, <1>7

-----------------------------------------------------------------------------
(* Anthropic's entries pair: step by step.                                   *)

LEMMA WaitingAtFirst ==
  ASSUME NEW h
  PROVE  Waiting(h, NoEntries, 0)
<1>1. NoEntries.out = <<>> /\ NoEntries.pending = <<>>
  BY DEF NoEntries
<1>2. Len(<<>>) = 0 /\ DOMAIN <<>> = {} /\ 1..0 = {} /\ 0 - 0 = 0 /\ 1..(0 - 1) = {}
  OBVIOUS
<1>3. Pend(h, <<>>, 0) /\ LastOut(h, <<>>, 0)
  BY <1>2 DEF Pend, LastOut
<1> QED BY <1>1, <1>2, <1>3 DEF Waiting

LEMMA ToolWaits ==
  ASSUME NEW h, IsConversation(h), NEW S, IsTalk(h, S), NEW acc \in Accumulators(S),
         NEW i \in Nat, i + 1 \in DOMAIN h, Waiting(h, acc, i), h[i + 1].role = "tool"
  PROVE  Waiting(h, AnthropicStep(acc, h[i + 1]), i + 1)
<1> DEFINE m == h[i + 1]
           next == AnthropicStep(acc, m)
           q == acc.pending
           p == Len(q)
           r == ResultPart(m)
<1>1. IsMessage(m) /\ Within(m, S)
  BY DEF IsTalk
<1>2. next.out = acc.out /\ next.pending = Append(q, r)
  BY <1>1, StepTyped
<1>3. q \in Seq(S) /\ r \in S
  BY <1>1 DEF Accumulators, Within
<1> HIDE DEF r
<1>4. Len(Append(q, r)) = p + 1 /\ DOMAIN Append(q, r) = 1..(p + 1) /\ p \in Nat
      /\ Append(q, r)[p + 1] = r /\ \A k \in 1..p : Append(q, r)[k] = q[k]
  <2> HIDE DEF q
  <2> QED BY <1>3
<1>5. Pend(h, q, i) /\ (i - p = 0 => i = 0) /\ LastOut(h, acc.out, i - p)
      /\ \A x \in 1..(Len(acc.out) - 1) : Paired(acc.out, x)
  BY DEF Waiting
<1>6. p <= i /\ \A k \in 1..p : q[k] = ResultPart(h[(i - p) + k]) /\ h[(i - p) + k].role = "tool"
  BY <1>5 DEF Pend
<1> DEFINE a == Append(q, r)
<1> HIDE DEF q, p
<1>7. Pend(h, a, i + 1)
  <2>1. ASSUME NEW k \in 1..(p + 1)
        PROVE  a[k] = ResultPart(h[((i + 1) - (p + 1)) + k])
               /\ h[((i + 1) - (p + 1)) + k].role = "tool"
    <3>1. ((i + 1) - (p + 1)) + k = (i - p) + k
      BY <1>4
    <3>2. CASE k \in 1..p
      BY <1>4, <1>6, <3>1, <3>2
    <3>3. CASE k = p + 1
      <4>1. (i - p) + k = i + 1
        BY <1>4, <3>3
      <4> QED BY <1>4, <3>1, <3>3, <4>1 DEF r
    <3> QED BY <1>4, <3>2, <3>3
  <2>2. Len(a) = p + 1 /\ p + 1 \in Nat /\ p + 1 <= i + 1 /\ DOMAIN a = 1..(p + 1)
    BY <1>4, <1>6
  <2> HIDE DEF a
  <2> QED BY <2>1, <2>2 DEF Pend
<1>8. i # 0
  <2>1. ASSUME i = 0 PROVE FALSE
    <3>1. \E k \in 1..((i + 1) - 1) :
            h[(i + 1) - k].role = "assistant" /\ k \in DOMAIN h[(i + 1) - k].calls
      BY DEF IsConversation, AnsweredInTurn
    <3>2. 1..((i + 1) - 1) = {}
      BY <2>1
    <3> QED BY <3>1, <3>2
  <2> QED BY <2>1
<1>9. Len(a) = p + 1 /\ (i + 1) - (p + 1) = i - p /\ i - p # 0
  BY <1>4, <1>5, <1>8 DEF p
<1> HIDE DEF a, next
<1>10. next.pending = a /\ next.out = acc.out
  BY <1>2 DEF a
<1>11. Waiting(h, next, i + 1)
  <2>1. LastOut(h, acc.out, i - p)
    BY <1>5 DEF p
  <2> QED BY <1>5, <1>7, <1>9, <1>10, <2>1 DEF Waiting
<1> QED BY <1>11 DEF next

LEMMA SpokenWaits ==
  ASSUME NEW h, IsConversation(h), NEW S, IsTalk(h, S), NEW acc \in Accumulators(S),
         NEW i \in Nat, i + 1 \in DOMAIN h, Waiting(h, acc, i), h[i + 1].role # "tool"
  PROVE  Waiting(h, AnthropicStep(acc, h[i + 1]), i + 1)
<1> DEFINE m == h[i + 1]
           next == AnthropicStep(acc, m)
           F == Flush(acc.out, acc.pending)
           e == Entry(m.role, Spoken(m))
           n == i + 1
<1>1. IsMessage(m) /\ Within(m, S)
  BY DEF IsTalk
<1>2. next.out = Append(F, e) /\ next.pending = <<>> /\ F \in Seq(Entries(S))
  BY <1>1, StepTyped
<1>3. Spoken(m) \in Seq(S) /\ Only(Spoken(m), IsCall) = CallsOf(m)
  BY <1>1, SpokenSays DEF CallsOf
<1>4. m.role \in {"user", "assistant", "tool", "call"}
  BY <1>1 DEF IsMessage
<1>5. e \in Entries(S) /\ e.parts = Spoken(m)
  BY <1>3, <1>4, EntryTyped
<1>6. i \in 0..Len(h)
  BY DEF IsTalk
<1>7. \A x \in 1..Len(F) : Paired(F, x)
  BY <1>6, FlushPairs
<1> HIDE DEF e, F
<1>8. Len(Append(F, e)) = Len(F) + 1 /\ Len(F) \in Nat /\ Append(F, e)[Len(F) + 1] = e
  BY <1>2, <1>5
<1>9. \A x \in 1..Len(F) : Paired(Append(F, e), x)
  BY <1>2, <1>5, <1>7, PairedStays
<1>10. Len(<<>>) = 0 /\ DOMAIN <<>> = 1..0 /\ 1..0 = {} /\ n - 0 = n /\ n > 0 /\ n \in Nat
  OBVIOUS
<1> DEFINE o == Append(F, e)
<1> HIDE DEF o, next
<1>11. Len(o) = Len(F) + 1 /\ Len(o) > 0 /\ Len(o) - 1 = Len(F) /\ o[Len(o)] = e
  BY <1>8 DEF o
<1>12. \A x \in 1..(Len(o) - 1) : Paired(o, x)
  BY <1>9, <1>11 DEF o
<1>13. LastOut(h, o, n)
  <2>1. h[n].role # "tool" /\ Only(o[Len(o)].parts, IsCall) = CallsOf(h[n])
    BY <1>3, <1>5, <1>11
  <2> HIDE DEF n
  <2> QED BY <1>10, <1>11, <2>1 DEF LastOut
<1>14. Pend(h, <<>>, n)
  <2> HIDE DEF n
  <2> QED BY <1>10 DEF Pend
<1>15. next.out = o /\ next.pending = <<>>
  BY <1>2 DEF o
<1>16. Waiting(h, next, n)
  <2> HIDE DEF n
  <2> QED BY <1>10, <1>12, <1>13, <1>14, <1>15 DEF Waiting
<1> QED BY <1>16 DEF next

(* Every answer to a turn's calls is in the entry after it.                  *)
LEMMA AnthropicTogether ==
  ASSUME NEW h, IsConversation(h)
  PROVE  ResultsTogether(Entered(h))
<1> DEFINE S == PartSet(h)
           n == Len(h)
<1>1. IsTalk(h, S) /\ n \in Nat /\ DOMAIN h = 1..n
  BY ConversationIsTalk DEF IsConversation
<1> HIDE DEF S
<1>2. PICK f : Runs(S, h, f)
  BY <1>1, AnthropicRuns
<1>3. f[0] = NoEntries /\ \A i \in 0..n : f[i] \in Accumulators(S)
  BY <1>2 DEF Runs
<1>4. \A i \in 1..n : f[i] = AnthropicStep(f[i - 1], h[i])
  BY <1>2 DEF Runs
<1> DEFINE T == {i \in Nat : i <= n => Waiting(h, f[i], i)}
<1>5. 0 \in T
  BY <1>3, WaitingAtFirst
<1>6. ASSUME NEW i \in T PROVE i + 1 \in T
  <2>1. ASSUME i + 1 <= n PROVE Waiting(h, f[i + 1], i + 1)
    <3> DEFINE a == f[i]
    <3>1. i \in Nat /\ i + 1 \in DOMAIN h /\ i \in 0..n /\ i + 1 \in 1..n /\ (i + 1) - 1 = i
      BY <1>1, <1>6, <2>1
    <3>2. a \in Accumulators(S) /\ Waiting(h, a, i)
      BY <1>3, <1>6, <3>1
    <3>3. f[i + 1] = AnthropicStep(a, h[i + 1])
      BY <1>4, <3>1
    <3> HIDE DEF a
    <3>4. Waiting(h, AnthropicStep(a, h[i + 1]), i + 1)
      <4>1. CASE h[i + 1].role = "tool"
        BY <1>1, <3>1, <3>2, <4>1, ToolWaits
      <4>2. CASE h[i + 1].role # "tool"
        BY <1>1, <3>1, <3>2, <4>2, SpokenWaits
      <4> QED BY <4>1, <4>2
    <3> QED BY <3>3, <3>4
  <2>2. i + 1 \in Nat
    BY <1>6
  <2> QED BY <2>1, <2>2
<1>7. T = Nat
  <2>1. T \in SUBSET Nat
    OBVIOUS
  <2> HIDE DEF T
  <2> QED BY <1>5, <1>6, <2>1, Induction
<1> DEFINE a == f[n]
<1>8. a \in Accumulators(S) /\ Waiting(h, a, n) /\ n \in 0..n /\ n + 1 \notin DOMAIN h
  <2>1. n \in T /\ n \in 0..n /\ n <= n /\ n + 1 \notin DOMAIN h
    BY <1>1, <1>7
  <2> QED BY <1>3, <2>1
<1>9. Entered(h) = Flush(a.out, a.pending)
  BY <1>2 DEF Entered, Runs
<1> DEFINE F == Flush(a.out, a.pending)
<1> HIDE DEF a
<1>10. \A x \in 1..Len(F) : Paired(F, x)
  BY <1>1, <1>8, FlushPairs
<1>11. F \in Seq(Entries(S))
  <2>1. a.out \in Seq(Entries(S)) /\ a.pending \in Seq(S)
    BY <1>8 DEF Accumulators
  <2> QED BY <2>1, FlushSays
<1> HIDE DEF F
<1>12. DOMAIN F = 1..Len(F)
  BY <1>11
<1>13. ResultsTogether(F)
  BY <1>10, <1>12, PairedTogether
<1> QED BY <1>9, <1>13 DEF F

-----------------------------------------------------------------------------
(* Every dialect keeps the conversation.                                     *)

(* A conversation as a dialect is told it is still one, with the same calls. *)
LEMMA ToldMessage ==
  ASSUME NEW s, NEW h, IsConversation(h), NEW i \in DOMAIN h
  PROVE  /\ IsMessage(Told(s, h)[i]) /\ Told(s, h)[i].role = h[i].role
         /\ h[i].role = "tool" => Told(s, h)[i].id = h[i].id
         /\ h[i].role = "assistant" =>
              /\ Told(s, h)[i].text = h[i].text
              /\ DOMAIN Told(s, h)[i].calls = DOMAIN h[i].calls
              /\ \A k \in DOMAIN h[i].calls :
                   /\ Told(s, h)[i].calls[k] = SentCall(s, h[i].calls[k])
                   /\ Told(s, h)[i].calls[k].id = h[i].calls[k].id
<1> DEFINE m == h[i]
           c == m.calls
           d == [k \in DOMAIN c |-> SentCall(s, c[k])]
<1>0. IsMessage(m)
  BY DEF IsConversation
<1>1. CASE m.role = "user"
  <2>1. Told(s, h)[i] = m
    BY <1>1 DEF Told, AsTold
  <2> QED BY <1>0, <1>1, <2>1
<1>2. CASE m.role = "tool"
  <2>1. m = [id |-> m.id, name |-> m.name, text |-> m.text, role |-> "tool"]
    BY <1>0, <1>2 DEF IsMessage, User, Assistant, Tool
  <2>2. Told(s, h)[i] \in {m, [m EXCEPT !.text = Empty]}
    BY <1>2 DEF Told, AsTold
  <2> DEFINE e == [m EXCEPT !.text = Empty]
  <2> HIDE DEF m
  <2>3. e = [id |-> m.id, name |-> m.name, text |-> Empty, role |-> "tool"]
    BY <2>1
  <2>4. IsMessage(e) /\ e.role = "tool" /\ e.id = m.id
    BY <2>3 DEF IsMessage, Tool
  <2> QED BY <1>0, <1>2, <2>2, <2>4 DEF m
<1>3. CASE m.role = "assistant"
  <2>1. m = [text |-> m.text, calls |-> c, role |-> "assistant"] /\ c \in Seq(Range(c))
    BY <1>0, <1>3 DEF IsMessage, User, Assistant, Tool
  <2>2. \A k \in DOMAIN c : c[k] = [id |-> c[k].id, name |-> c[k].name, args |-> c[k].args]
    BY <1>0, <1>3 DEF IsMessage
  <2>3. Told(s, h)[i] = [m EXCEPT !.calls = d]
    <3>1. Told(s, h)[i] = AsTold(s, m)
      BY DEF Told
    <3> HIDE DEF m
    <3>2. AsTold(s, m) = [m EXCEPT !.calls = d]
      BY <1>3 DEF AsTold
    <3> QED BY <3>1, <3>2
  <2> HIDE DEF m
  <2>4. Told(s, h)[i] = [text |-> m.text, calls |-> d, role |-> "assistant"]
    BY <2>1, <2>3
  <2>5. \A k \in DOMAIN c :
          /\ d[k] = SentCall(s, c[k])
          /\ d[k] = [id |-> c[k].id, name |-> c[k].name, args |-> Arguments(s, c[k].args)]
    <3>1. ASSUME NEW x, x = [id |-> x.id, name |-> x.name, args |-> x.args]
          PROVE  SentCall(s, x) = [id |-> x.id, name |-> x.name, args |-> Arguments(s, x.args)]
      BY <3>1 DEF SentCall
    <3>2. \A k \in DOMAIN c : d[k] = SentCall(s, c[k])
      OBVIOUS
    <3> HIDE DEF c, d
    <3> QED BY <2>2, <3>1, <3>2
  <2>6. DOMAIN d = DOMAIN c /\ DOMAIN c = 1..Len(c) /\ Len(c) \in Nat
    BY <2>1
  <2> HIDE DEF c, d
  <2>7. d \in Seq(Range(d))
    <3>1. \A k \in DOMAIN d : d[k] \in Range(d)
      BY DEF Range
    <3>2. d = [k \in 1..Len(c) |-> d[k]]
      BY <2>6 DEF d
    <3>3. d \in [1..Len(c) -> Range(d)]
      BY <2>6, <3>1, <3>2
    <3> QED BY <2>6, <3>3
  <2>8. \A k \in DOMAIN d :
          d[k] = [id |-> d[k].id, name |-> d[k].name, args |-> d[k].args] /\ d[k].id = c[k].id
    BY <2>5, <2>6
  <2> DEFINE t == [text |-> m.text, calls |-> d, role |-> "assistant"]
  <2>9. t.text = m.text /\ t.calls = d /\ t.role = "assistant" /\ t = Assistant(t.text, t.calls)
    BY DEF Assistant
  <2> HIDE DEF t
  <2>10. IsMessage(t)
    BY <2>7, <2>8, <2>9 DEF IsMessage
  <2>11. Told(s, h)[i] = t
    BY <2>4 DEF t
  <2> QED BY <1>3, <2>5, <2>6, <2>8, <2>9, <2>10, <2>11 DEF m, c
<1> QED BY <1>0, <1>1, <1>2, <1>3 DEF IsMessage

LEMMA ToldIsConversation ==
  ASSUME NEW s, NEW h, IsConversation(h)
  PROVE  IsConversation(Told(s, h)) /\ Len(Told(s, h)) = Len(h) /\ DOMAIN Told(s, h) = DOMAIN h
<1> DEFINE t == Told(s, h)
<1>1. Len(h) \in Nat /\ DOMAIN h = 1..Len(h) /\ AnsweredInTurn(h)
  BY DEF IsConversation
<1>2. DOMAIN t = DOMAIN h
  BY DEF Told
<1>3. t \in Seq(Range(t)) /\ Len(t) = Len(h)
  <2>1. t = [i \in 1..Len(h) |-> t[i]]
    BY <1>1 DEF Told
  <2> HIDE DEF t
  <2>2. \A i \in DOMAIN t : t[i] \in Range(t)
    BY DEF Range
  <2>3. t \in [1..Len(h) -> Range(t)]
    BY <1>1, <1>2, <2>1, <2>2
  <2> QED BY <1>1, <2>3
<1>4. \A i \in DOMAIN t : IsMessage(t[i]) /\ t[i].role = h[i].role
  BY <1>2, ToldMessage
<1>5. ASSUME NEW i \in DOMAIN t, t[i].role = "assistant", NEW k \in DOMAIN t[i].calls
      PROVE  i + k \in DOMAIN t /\ t[i + k].role = "tool" /\ t[i + k].id = t[i].calls[k].id
  <2>1. h[i].role = "assistant" /\ k \in DOMAIN h[i].calls /\ t[i].calls[k].id = h[i].calls[k].id
    <3>1. i \in DOMAIN h /\ h[i].role = "assistant"
      BY <1>2, <1>4, <1>5
    <3>2. /\ DOMAIN t[i].calls = DOMAIN h[i].calls
          /\ \A j \in DOMAIN h[i].calls : t[i].calls[j].id = h[i].calls[j].id
      BY <3>1, ToldMessage
    <3>3. k \in DOMAIN t[i].calls
      BY <1>5
    <3> HIDE DEF t
    <3>4. k \in DOMAIN h[i].calls
      BY <3>2, <3>3
    <3> QED BY <3>1, <3>2, <3>4
  <2>2. i + k \in DOMAIN h /\ h[i + k].role = "tool" /\ h[i + k].id = h[i].calls[k].id
    BY <1>1, <1>2, <2>1 DEF AnsweredInTurn
  <2>3. t[i + k].role = "tool" /\ t[i + k].id = h[i + k].id
    BY <1>2, <1>4, <2>2, ToldMessage
  <2> QED BY <1>2, <2>1, <2>2, <2>3
<1>6. ASSUME NEW i \in DOMAIN t, t[i].role = "tool"
      PROVE  \E k \in 1..(i - 1) : t[i - k].role = "assistant" /\ k \in DOMAIN t[i - k].calls
  <2>1. h[i].role = "tool"
    BY <1>4, <1>6
  <2>2. PICK k \in 1..(i - 1) : h[i - k].role = "assistant" /\ k \in DOMAIN h[i - k].calls
    BY <1>1, <1>2, <2>1 DEF AnsweredInTurn
  <2>3. i - k \in DOMAIN h
    BY <1>1, <1>2, <2>2
  <2>4. t[i - k].role = "assistant" /\ DOMAIN t[i - k].calls = DOMAIN h[i - k].calls
    BY <1>2, <1>4, <2>2, <2>3, ToldMessage
  <2> QED BY <2>2, <2>4
<1> HIDE DEF t
<1>7. AnsweredInTurn(t)
  BY <1>5, <1>6 DEF AnsweredInTurn
<1> QED BY <1>2, <1>3, <1>4, <1>7 DEF IsConversation, t

(* Each of its parts is the conversation's, retold.                          *)
Retelling(s, S) == [p \in S |-> Retold(s, p)]
RetoldSet(s, S) == {Retold(s, p) : p \in S}

LEMMA RetoldPart ==
  ASSUME NEW s
  PROVE  /\ \A t : Retold(s, TextPart(t)) = TextPart(t)
         /\ \A c : Retold(s, CallPart(c)) = CallPart(SentCall(s, c))
         /\ \A m : Retold(s, ResultPart(m)) =
                     IF m.text = <<>> /\ s = "anthropic"
                     THEN [part |-> "result", id |-> m.id, text |-> Empty] ELSE ResultPart(m)
BY DEF Retold, TextPart, CallPart, ResultPart

LEMMA ToldSays ==
  ASSUME NEW s, NEW h, IsConversation(h), NEW i \in DOMAIN h
  PROVE  Says(Told(s, h)[i]) = Image(Retelling(s, PartSet(h)), Says(h[i]))
<1> DEFINE S == PartSet(h)
           u == Retelling(s, S)
           m == h[i]
           t == Told(s, h)[i]
<1>1. /\ IsMessage(m) /\ Within(m, S) /\ m.role \in {"user", "assistant", "tool"}
      /\ t.role = m.role
  BY ConversationIsTalk, ToldMessage DEF IsTalk, IsMessage
<1>2. Maps(u, S, RetoldSet(s, S)) /\ \A p \in S : u[p] = Retold(s, p)
  BY DEF Retelling, RetoldSet, Maps
<1>3. CASE m.role = "tool"
  <2>1. Says(m) = <<ResultPart(m)>> /\ Says(t) = <<ResultPart(t)>>
    BY <1>1, <1>3 DEF Says
  <2>2. ResultPart(m) \in S
    BY <1>1, <1>3 DEF Within
  <2>3. m = [id |-> m.id, name |-> m.name, text |-> m.text, role |-> "tool"]
    BY <1>1, <1>3 DEF IsMessage, User, Assistant, Tool
  <2>4. t = IF m.text = <<>> /\ s = "anthropic" THEN [m EXCEPT !.text = Empty] ELSE m
    BY <1>3 DEF Told, AsTold
  <2> HIDE DEF m, t, S, u
  <2>5. ResultPart(t) = IF m.text = <<>> /\ s = "anthropic"
                        THEN [part |-> "result", id |-> m.id, text |-> Empty] ELSE ResultPart(m)
    BY <2>3, <2>4 DEF ResultPart
  <2>6. u[ResultPart(m)] = ResultPart(t)
    BY <1>2, <2>2, <2>5, RetoldPart
  <2> DEFINE r == ResultPart(m)
  <2> HIDE DEF r
  <2>7. Image(u, <<r>>) = <<u[r]>>
    BY DEF Image
  <2> QED BY <2>1, <2>6, <2>7 DEF r, m, t, u, S
<1>4. ASSUME NEW x, x.text = m.text
      PROVE  TextParts(m) \in Seq(S) /\ Image(u, TextParts(m)) = TextParts(x)
  <2> DEFINE p == TextPart(m.text)
  <2>1. p \in S /\ u[p] = p
    BY <1>1, <1>2, RetoldPart DEF Within
  <2>2. TextParts(m) = (IF m.text = <<>> THEN <<>> ELSE <<p>>) /\ TextParts(x) = TextParts(m)
    BY <1>4 DEF TextParts
  <2> HIDE DEF p, u, S
  <2>3. Image(u, <<>>) = <<>> /\ Image(u, <<p>>) = <<u[p]>>
    BY DEF Image
  <2> QED BY <2>1, <2>2, <2>3
<1>5. CASE m.role = "user"
  <2>1. t = m
    BY <1>5 DEF Told, AsTold
  <2>2. Says(m) = TextParts(m) /\ Says(t) = TextParts(m)
    BY <1>5, <2>1 DEF Says
  <2> QED BY <1>4, <2>2
<1>6. CASE m.role = "assistant"
  <2> DEFINE c == m.calls
             a == TextParts(m)
             b == CallParts(m)
  <2>1. /\ t.text = m.text /\ DOMAIN t.calls = DOMAIN c
        /\ \A k \in DOMAIN c : t.calls[k] = SentCall(s, c[k])
    BY <1>6, ToldMessage
  <2>2. Says(m) = a \o b /\ Says(t) = TextParts(t) \o CallParts(t)
    BY <1>1, <1>6 DEF Says
  <2>3. b \in Seq(S) /\ b = [k \in DOMAIN c |-> CallPart(c[k])]
    BY <1>1, <1>6, CallsTyped DEF CallParts
  <2>4. CallParts(t) = [k \in DOMAIN c |-> CallPart(SentCall(s, c[k]))]
    BY <2>1 DEF CallParts
  <2>5. a \in Seq(S) /\ Image(u, a) = TextParts(t)
    BY <1>4, <2>1
  <2>6. \A k \in DOMAIN c : CallPart(c[k]) \in S
    BY <1>1, <1>6 DEF Within
  <2> HIDE DEF a, c, t, m, u, S
  <2>7. \A k \in DOMAIN c :
          u[CallPart(c[k])] = CallPart(SentCall(s, c[k]))
    BY <1>2, <2>6, RetoldPart, Zenon
  <2> HIDE DEF b
  <2>8. Image(u, b) = CallParts(t)
    <3>1. DOMAIN b = DOMAIN c /\ \A k \in DOMAIN c : b[k] = CallPart(c[k])
      BY <2>3
    <3> QED BY <2>4, <2>7, <3>1 DEF Image
  <2>9. Image(u, a \o b) = Image(u, a) \o Image(u, b)
    <3>1. a \in Seq(S) /\ b \in Seq(S) /\ Maps(u, S, RetoldSet(s, S))
      BY <1>2, <2>3, <2>5
    <3> QED BY <3>1, ImageCat
  <2> QED BY <2>2, <2>5, <2>8, <2>9 DEF m, t, u, S
<1> QED BY <1>1, <1>3, <1>5, <1>6

LEMMA ToldParts ==
  ASSUME NEW s, NEW h, IsConversation(h)
  PROVE  /\ PartsOf(Chat(h)) \in Seq(PartSet(h))
         /\ FlattenSeq(SaysOf(Told(s, h)))
              = [k \in DOMAIN PartsOf(Chat(h)) |-> Retold(s, PartsOf(Chat(h))[k])]
<1> DEFINE S == PartSet(h)
           u == Retelling(s, S)
           q == SaysOf(h)
           t == Told(s, h)
           all == PartsOf(Chat(h))
<1>1. IsTalk(h, S) /\ DOMAIN t = DOMAIN h
  BY ConversationIsTalk, ToldIsConversation
<1>2. Maps(u, S, RetoldSet(s, S)) /\ \A p \in S : u[p] = Retold(s, p)
  BY DEF Retelling, RetoldSet, Maps
<1>3. \A i \in DOMAIN h : Says(t[i]) = Image(u, Says(h[i]))
  BY ToldSays
<1>4. SaysOf(t) = [i \in DOMAIN q |-> Image(u, q[i])]
  <2>1. DOMAIN q = DOMAIN h /\ \A i \in DOMAIN h : q[i] = Says(h[i])
    BY DEF SaysOf
  <2> HIDE DEF q, u, t
  <2> QED BY <1>1, <1>3, <2>1 DEF SaysOf
<1> HIDE DEF S, u, t
<1>5. q \in Seq(Seq(S)) /\ all = FlattenSeq(q)
  BY <1>1, SaysOfTyped, OpenAIKeeps
<1> HIDE DEF q, all
<1>6. all \in Seq(S)
  BY <1>5, FlattenTyped
<1>7. Image(u, all) = FlattenSeq([i \in DOMAIN q |-> Image(u, q[i])])
  BY <1>2, <1>5, FlattenImage
<1>8. \A k \in DOMAIN all : all[k] \in S
  BY <1>6
<1>9. Image(u, all) = [k \in DOMAIN all |-> Retold(s, all[k])]
  BY <1>2, <1>8 DEF Image
<1> QED BY <1>4, <1>6, <1>7, <1>9 DEF all, t, S

(* Whatever dialect a conversation is put into, it says the same, as the     *)
(* dialect puts it; the calls are answered at once, and Anthropic's entries  *)
(* pair.                                                                     *)
SaidAs(s, h) == [k \in DOMAIN PartsOf(Chat(h)) |-> Put(s, PartsOf(Chat(h))[k])]
KeptIn(s, h) ==
  /\ PartsOf(Messages(s, h)) = SaidAs(s, h)
  /\ AnsweredAtOnce(PartsOf(Messages(s, h)))
  /\ s = "anthropic" => ResultsTogether(Messages(s, h))

LEMMA EveryDialectKeeps ==
  ASSUME NEW h, IsConversation(h), NEW s \in Styles
  PROVE  KeptIn(s, h)
<1> DEFINE t == Told(s, h)
           S == PartSet(t)
           all == FlattenSeq(SaysOf(t))
           parts == PartsOf(Chat(h))
           retold == [k \in DOMAIN parts |-> Retold(s, parts[k])]
<1>1. IsConversation(t) /\ IsTalk(t, S)
  BY ToldIsConversation, ConversationIsTalk
<1>2. all = retold
  BY ToldParts
<1>3. all \in Seq(S)
  BY <1>1, SaysOfTyped, FlattenTyped
<1> HIDE DEF t, S
<1>4. /\ PartsOf(Chat(t)) = all
      /\ PartsOf(Items(t)) = all
      /\ PartsOf(Entered(t)) = all
  BY <1>1, OpenAIKeeps, ResponsesKeeps, AnthropicKeeps
<1>5. AnsweredAtOnce(all)
  BY <1>1, OpenAIAnswered
<1>6. CASE s \in {"openai", "anthropic", "responses"}
  <2>1. SaidAs(s, h) = retold
    BY <1>6 DEF SaidAs, Put
  <2>2. PartsOf(Messages(s, h)) = all
    <3>1. CASE s = "openai"
      BY <1>4, <3>1 DEF Messages, OpenAIMessages, t
    <3>2. CASE s = "responses"
      BY <1>4, <3>2 DEF Messages, ResponsesInput, t
    <3>3. CASE s = "anthropic"
      BY <1>4, <3>3 DEF Messages, AnthropicMessages, Entered, t
    <3> QED BY <1>6, <3>1, <3>2, <3>3
  <2>3. ASSUME s = "anthropic" PROVE ResultsTogether(Messages(s, h))
    <3>1. Messages(s, h) = Entered(t)
      BY <2>3 DEF Messages, AnthropicMessages, Entered, t
    <3>2. ResultsTogether(Entered(t))
      BY <1>1, AnthropicTogether
    <3> QED BY <3>1, <3>2
  <2> HIDE DEF all, retold
  <2> QED BY <1>2, <1>5, <2>1, <2>2, <2>3 DEF KeptIn
<1>7. CASE s \in {"ollama", "completions"}
  <2> DEFINE bare == PartsOf(WithoutIds(Chat(t)))
  <2>1. Messages(s, h) = WithoutIds(Chat(t)) /\ s # "anthropic"
    BY <1>7 DEF Messages, OllamaMessages, CompletionPrompt, t
  <2>2. AnsweredAtOnce(bare) /\ bare = Image(Relabel(S), all)
    BY <1>1, UnlabelledAnswered DEF S
  <2>3. SaidAs(s, h) = [k \in DOMAIN parts |-> Unlabelled(Retold(s, parts[k]))]
    BY <1>7 DEF SaidAs, Put
  <2>4. DOMAIN all = DOMAIN parts /\ \A k \in DOMAIN parts : all[k] = Retold(s, parts[k])
    BY <1>2
  <2>5. \A k \in DOMAIN all : all[k] \in S
    BY <1>3
  <2> HIDE DEF all, parts, bare
  <2>6. Image(Relabel(S), all) = [k \in DOMAIN all |-> Unlabelled(all[k])]
    BY <2>5 DEF Image, Relabel
  <2>7. bare = SaidAs(s, h)
    BY <2>2, <2>3, <2>4, <2>6
  <2> QED BY <2>1, <2>2, <2>7 DEF KeptIn, bare
<1> QED BY <1>6, <1>7 DEF Styles

LEMMA NothingIsConversation == IsConversation(<<>>)
<1>1. <<>> \in Seq(Range(<<>>)) /\ DOMAIN <<>> = {}
  OBVIOUS
<1> QED BY <1>1 DEF IsConversation, AnsweredInTurn

-----------------------------------------------------------------------------
(* The type of the client's state, and the theorem.                          *)

ValuesTyped ==
  /\ serves \in [style : Served, model : Models]
  /\ phase \in {"idle", "listing", "probing", "send", "waiting", "failed",
               "backoff", "reading"}
  /\ streaming \in BOOLEAN /\ history \in Histories \cup {<<>>}
  /\ ctx \in {"live", "idle", "interrupted"}
  /\ answer \in Answers \cup {<<>>} /\ limit \in BOOLEAN
  /\ outcome.how \in {"none", "error", "reply"} /\ current \in BOOLEAN
NumbersTyped ==
  probe \in 0..Len(DetectionOrder) /\ rest \in 0..BackoffLimit /\ asks \in 0..MaxAsks
LeftOfAnswer ==
  left # <<>> =>
    DOMAIN left = DOMAIN answer /\ \A b \in DOMAIN answer : left[b] \in 0..Events(answer)[b]

LEMMA Powers == ASSUME NEW n \in 0..29 PROVE 2 ^ n \in Nat
PROOF
  <1>1. n \in {0, 1, 2, 3, 4, 5, 6, 7, 8, 9, 10, 11, 12, 13, 14,
               15, 16, 17, 18, 19, 20, 21, 22, 23, 24, 25, 26, 27, 28, 29}
    OBVIOUS
  <1>2.
    /\ 2 ^ 0 \in Nat /\ 2 ^ 1 \in Nat /\ 2 ^ 2 \in Nat /\ 2 ^ 3 \in Nat /\ 2 ^ 4 \in Nat
    /\ 2 ^ 5 \in Nat /\ 2 ^ 6 \in Nat /\ 2 ^ 7 \in Nat /\ 2 ^ 8 \in Nat /\ 2 ^ 9 \in Nat
    /\ 2 ^ 10 \in Nat /\ 2 ^ 11 \in Nat /\ 2 ^ 12 \in Nat /\ 2 ^ 13 \in Nat /\ 2 ^ 14 \in Nat
    /\ 2 ^ 15 \in Nat /\ 2 ^ 16 \in Nat /\ 2 ^ 17 \in Nat /\ 2 ^ 18 \in Nat /\ 2 ^ 19 \in Nat
    /\ 2 ^ 20 \in Nat /\ 2 ^ 21 \in Nat /\ 2 ^ 22 \in Nat /\ 2 ^ 23 \in Nat /\ 2 ^ 24 \in Nat
    /\ 2 ^ 25 \in Nat /\ 2 ^ 26 \in Nat /\ 2 ^ 27 \in Nat /\ 2 ^ 28 \in Nat /\ 2 ^ 29 \in Nat
    OBVIOUS
  <1> QED
    BY <1>1, <1>2

LEMMA BackoffTyped == ASSUME NEW n \in Nat PROVE RetryBackoff(n + 1) \in 0..BackoffLimit
PROOF
  <1>1. BackoffLimit \in Nat /\ (n + 1) - 1 = n /\ BackoffLimit \in 0..BackoffLimit
    BY ClientAssumption
  <1>2. CASE n + 1 > 30 \/ 2 ^ ((n + 1) - 1) >= BackoffLimit
    BY <1>1, <1>2 DEF RetryBackoff
  <1>3. CASE ~ (n + 1 > 30 \/ 2 ^ ((n + 1) - 1) >= BackoffLimit)
    <2> DEFINE x == 2 ^ n
    <2>1. n \in 0..29
      BY <1>3
    <2>2. x \in Nat
      BY <2>1, Powers
    <2>3. ~ (x >= BackoffLimit) /\ RetryBackoff(n + 1) = x
      BY <1>1, <1>3 DEF RetryBackoff
    <2> HIDE DEF x
    <2> QED
      BY <1>1, <2>2, <2>3
  <1> QED
    BY <1>2, <1>3

LEMMA EventsTyped ==
  ASSUME NEW a \in Answers, NEW b \in DOMAIN a
  PROVE  Events(a)[b] \in Nat /\ DOMAIN Events(a) = DOMAIN a
PROOF
  <1>1. a[b].size \in Nat
    BY ConversationAssumption DEF IsReplyBlock
  <1> QED
    BY <1>1 DEF Events

LEMMA ValuesKept == ASSUME ServiceTyped, ValuesTyped, Next PROVE ValuesTyped'
PROOF
  <1> USE DEF ValuesTyped, service, route, reply, reader, asked
  <1>1. ASSUME NEW h \in Histories, NEW live \in BOOLEAN, Prompt(h, live) \/ Retry(h, live)
        PROVE  ValuesTyped'
    <2>1. UNCHANGED <<serves, answer, limit>> /\ history' = h /\ streaming' = live
          /\ ctx' = "live" /\ outcome' = Silent /\ phase' \in {"listing", "send"}
          /\ current' \in {TRUE, current}
      BY <1>1 DEF Prompt, Retry, Begin
    <2>2. outcome'.how = "none"
      BY <2>1 DEF Silent
    <2> QED
      BY <2>1, <2>2
  <1>2. CASE Interrupt
    BY <1>2 DEF Interrupt
  <1>3. CASE ListModels \/ NotDetected
    <2>1. UNCHANGED <<serves, streaming, history, ctx, answer, limit, current>>
          /\ phase' \in {"idle", "probing", "send"}
      BY <1>3 DEF ListModels, NotDetected, Ends
    <2>2. outcome' = outcome \/ outcome' = Failure("no model") \/ outcome' = Failure("no style")
      BY <1>3 DEF ListModels, NotDetected, Ends
    <2>3. \A why : Failure(why).how = "error"
      BY DEF Failure
    <2>4. outcome'.how \in {"none", "error", "reply"}
      BY <2>2, <2>3
    <2> QED
      BY <2>1, <2>4
  <1>4. ASSUME NEW a, Probe(a) PROVE ValuesTyped'
    <2>1. UNCHANGED <<serves, streaming, history, ctx, answer, limit, current>>
      BY <1>4 DEF Probe
    <2>2. phase' \in {"idle", "send", phase}
      BY <1>4 DEF Probe, Ends
    <2>3. outcome' = outcome \/ outcome'.how = "error"
      BY <1>4 DEF Probe, Ends, Failure
    <2> QED
      BY <2>1, <2>2, <2>3
  <1>5. CASE Send
    BY <1>5 DEF Send, Failure
  <1>6. CASE AfterFailure \/ PauseEnds
    BY <1>6 DEF AfterFailure, PauseEnds, Ends
  <1>7. ASSUME NEW why, AttemptFails(why) PROVE ValuesTyped'
    BY <1>7 DEF AttemptFails, Failure
  <1>8. ASSUME NEW s \in Served, Restart(s) PROVE ValuesTyped'
    <2>1. restarts < MaxRestarts /\ restarts' = restarts + 1
          /\ serves' = [style |-> s, model |-> restarts' + 1] /\ current' = FALSE
      BY <1>8 DEF Restart
    <2>2. UNCHANGED <<phase, streaming, history, ctx, answer, limit, outcome>>
      BY <1>8 DEF Restart
    <2>3. restarts' + 1 \in Models
      <3>1. MaxRestarts \in Nat /\ restarts \in 0..MaxRestarts
        BY ClientAssumption DEF ServiceTyped
      <3>2. restarts' \in Nat /\ restarts' + 1 <= MaxRestarts + 1
        BY <2>1, <3>1
      <3>3. restarts' + 1 \in 1..(MaxRestarts + 1)
        <4> DEFINE r == restarts'
                   m == MaxRestarts
        <4>1. r \in Nat /\ m \in Nat /\ r + 1 <= m + 1
          BY <3>1, <3>2
        <4> HIDE DEF r, m
        <4>2. r + 1 \in 1..(m + 1)
          BY <4>1
        <4> QED
          BY <4>2 DEF r, m
      <3> QED
        BY <3>3 DEF Models
    <2> QED
      BY <2>1, <2>2, <2>3
  <1>9. ASSUME NEW a \in Answers, NEW full \in BOOLEAN, Answer(a, full) PROVE ValuesTyped'
    BY <1>9 DEF Answer, Ends
  <1>10. ASSUME NEW b, ReadPiece(b) PROVE ValuesTyped'
    BY <1>10 DEF ReadPiece
  <1>11. CASE StreamBreaks \/ Unparsed \/ \E cut \in BOOLEAN : StreamEnds(cut)
    BY <1>11 DEF StreamBreaks, Unparsed, StreamEnds, Ends, Failure
  <1>12. CASE Tick
    BY <1>12 DEF Tick
  <1> QED
    BY <1>1, <1>2, <1>3, <1>4, <1>5, <1>6, <1>7, <1>8, <1>9, <1>10, <1>11, <1>12, Steps

LEMMA NumbersKept == ASSUME NumbersTyped, Counted, Next PROVE NumbersTyped'
PROOF
  <1> USE DEF asked
  <1>0. Len(DetectionOrder) = 5 /\ BackoffLimit \in Nat /\ MaxAsks \in Nat
    BY ClientAssumption DEF DetectionOrder
  <1>1. CASE UNCHANGED <<probe, asks, rest>>
    BY <1>1 DEF NumbersTyped
  <1>2. ASSUME NEW h, NEW live, Prompt(h, live) \/ Retry(h, live) PROVE NumbersTyped'
    <2>1. asks < MaxAsks /\ asks' = asks + 1 /\ probe' = 0 /\ rest' = 0
      BY <1>2 DEF Prompt, Retry, Begin
    <2> QED
      BY <1>0, <2>1 DEF NumbersTyped
  <1>3. ASSUME NEW a, Probe(a) PROVE NumbersTyped'
    <2>1. probe < Len(DetectionOrder) /\ probe' = probe + 1 /\ UNCHANGED <<asks, rest>>
      BY <1>3 DEF Probe
    <2> QED
      BY <1>0, <2>1 DEF NumbersTyped
  <1>4. CASE AfterFailure
    <2>1. UNCHANGED <<probe, asks>> /\ (rest' = rest \/ rest' = RetryBackoff(attempt + 1))
      BY <1>4 DEF AfterFailure
    <2>2. RetryBackoff(attempt + 1) \in 0..BackoffLimit
      BY BackoffTyped, CountsAreNat
    <2> QED
      BY <2>1, <2>2 DEF NumbersTyped
  <1>5. CASE Tick
    <2>1. UNCHANGED <<probe, asks>> /\ (rest' = rest \/ (rest > 0 /\ rest' = rest - 1))
      BY <1>5 DEF Tick
    <2> QED
      BY <1>0, <2>1 DEF NumbersTyped
  <1> QED
    BY <1>1, <1>2, <1>3, <1>4, <1>5, Steps
    DEF Interrupt, ListModels, NotDetected, Send, PauseEnds, AttemptFails, Restart,
        Answer, Unparsed, ReadPiece, StreamEnds, StreamBreaks

LEMMA LeftKept == ASSUME ValuesTyped, LeftOfAnswer, Next PROVE LeftOfAnswer'
PROOF
  <1> USE DEF reply
  <1>1. CASE UNCHANGED <<answer, left>>
    BY <1>1 DEF LeftOfAnswer, Events
  <1>2. ASSUME NEW a \in Answers, NEW full, Answer(a, full) PROVE LeftOfAnswer'
    <2>1. answer' = a /\ (left' = <<>> \/ left' = Events(a))
      BY <1>2 DEF Answer
    <2>2. DOMAIN Events(a) = DOMAIN a
      BY DEF Events
    <2>3. \A b \in DOMAIN a : Events(a)[b] \in 0..Events(a)[b]
      BY EventsTyped
    <2>4. Events(answer)' = Events(a)
      BY <2>1 DEF Events
    <2> QED
      BY <2>1, <2>2, <2>3, <2>4 DEF LeftOfAnswer
  <1>3. ASSUME NEW b \in DOMAIN left, ReadPiece(b) PROVE LeftOfAnswer'
    <2>1. /\ left' = [left EXCEPT ![b] = IF Whole(b) THEN 0 ELSE @ - 1]
          /\ answer' = answer /\ left[b] > 0
      BY <1>3 DEF ReadPiece, InTurn
    <2>2. left # <<>>
      OBVIOUS
    <2>3. DOMAIN left = DOMAIN answer /\ \A c \in DOMAIN answer : left[c] \in 0..Events(answer)[c]
      BY <2>2 DEF LeftOfAnswer
    <2>4. answer \in Answers
      <3>1. answer # <<>>
        BY <2>3
      <3> QED
        BY <3>1 DEF ValuesTyped
    <2>5. Events(answer)[b] \in Nat
      BY <2>3, <2>4, EventsTyped
    <2>6. Events(answer)' = Events(answer)
      BY <2>1 DEF Events
    <2>7. DOMAIN left' = DOMAIN left /\ (\A c \in DOMAIN left : c # b => left'[c] = left[c])
          /\ left'[b] \in {0, left[b] - 1}
      BY <2>1
    <2>8. left'[b] \in 0..Events(answer)[b]
      <3> DEFINE x == left[b]
                 n == Events(answer)[b]
      <3>1. x \in 0..n /\ n \in Nat /\ x > 0 /\ left'[b] \in {0, x - 1}
        BY <2>1, <2>3, <2>5, <2>7
      <3> HIDE DEF x, n
      <3> QED
        BY <3>1 DEF n
    <2> QED
      BY <2>1, <2>3, <2>6, <2>7, <2>8 DEF LeftOfAnswer
  <1> QED
    BY <1>1, <1>2, <1>3, Steps
    DEF Prompt, Retry, Begin, Interrupt, ListModels, NotDetected, Send, AfterFailure, PauseEnds,
        Probe, AttemptFails, Restart, Unparsed, StreamEnds, StreamBreaks, Tick

(* The values are of their types.                                            *)
Typed == ValuesTyped /\ NumbersTyped /\ LeftOfAnswer

LEMMA TypedAtFirst == ASSUME Init PROVE Typed
PROOF
  <1>1. ValuesTyped
    BY Constants DEF Init, ValuesTyped, Silent
  <1>2. NumbersTyped
    <2>1. Len(DetectionOrder) = 5 /\ BackoffLimit \in Nat /\ MaxAsks \in Nat
      BY ClientAssumption DEF DetectionOrder
    <2> QED
      BY <2>1 DEF Init, NumbersTyped
  <1>3. LeftOfAnswer
    BY DEF Init, LeftOfAnswer
  <1> QED
    BY <1>1, <1>2, <1>3 DEF Typed

LEMMA TypedRests == ASSUME Typed, UNCHANGED vars PROVE Typed'
PROOF
  <1> USE DEF vars, service, route, reply, reader, asked
  <1>1. ValuesTyped' /\ NumbersTyped'
    BY DEF Typed, ValuesTyped, NumbersTyped
  <1>2. LeftOfAnswer'
    BY DEF Typed, LeftOfAnswer, Events
  <1> QED
    BY <1>1, <1>2 DEF Typed

LEMMA TypedInvariance == Spec => [](ClientInv /\ Typed)
PROOF
  <1>1. Init => Typed
    BY TypedAtFirst
  <1>2. ClientInv /\ Typed /\ [Next]_vars => Typed'
    BY TypedRests, ValuesKept, NumbersKept, LeftKept DEF ClientInv, Typed
  <1> QED
    BY <1>1, <1>2, ClientInvariance, PTL DEF Spec

LEMMA TypesHold == ASSUME ClientInv, Typed PROVE TypeOK
PROOF
  <1>1. \A b \in DOMAIN left : left[b] \in 0..Events(answer)[b]
    BY DEF Typed, LeftOfAnswer
  <1> QED
    BY <1>1 DEF TypeOK, ClientInv, Typed, ValuesTyped, NumbersTyped, ServiceTyped, Counted

(* Whatever the dialect - detected or configured, before or after a restart  *)
(* of the service - and whatever the conversation, the request buildBody     *)
(* makes says what the conversation says, in its order; the results of a     *)
(* turn's calls follow them at once, and in Anthropic's dialect in the next  *)
(* entry.                                                                    *)
THEOREM RequestsAreFaithful == Spec => []RequestsKeepTheConversation
PROOF
  <1>1. ASSUME ClientInv, Typed PROVE RequestsKeepTheConversation
    <2>1. TypeOK
      BY <1>1, TypesHold
    <2>2. ASSUME phase = "waiting" PROVE KeptIn(style, history)
      <3>1. style \in Styles
        BY <1>1, <2>2 DEF ClientInv, Found, ServiceTyped
      <3>2. IsConversation(history)
        BY <1>1, ConversationAssumption, NothingIsConversation DEF Typed, ValuesTyped
      <3> QED
        BY <3>1, <3>2, EveryDialectKeeps
    <2> QED
      BY <2>1, <2>2 DEF RequestsKeepTheConversation, KeptIn, SaidAs
  <1> QED
    BY <1>1, TypedInvariance, PTL

-----------------------------------------------------------------------------
(* What grows in the middle.                                                *)

(* A piece more at the end of a part that comes last is one more of the whole. *)
LEMMA CatAppend ==
  ASSUME NEW S, NEW a \in Seq(S), NEW b \in Seq(S), NEW x \in S
  PROVE  a \o Append(b, x) = Append(a \o b, x)
<1>1. <<x>> \in Seq(S)
  OBVIOUS
<1>2. Append(b, x) = b \o <<x>> /\ Append(a \o b, x) = (a \o b) \o <<x>>
  <2> DEFINE d == a \o b
  <2>1. d \in Seq(S)
    BY CatFacts
  <2> HIDE DEF d
  <2>2. Append(b, x) = b \o <<x>> /\ Append(d, x) = d \o <<x>>
    BY <2>1, AppendIsConcat
  <2> QED BY <2>2 DEF d
<1> DEFINE c == <<x>>
<1> HIDE DEF c
<1>3. c \in Seq(S) /\ Append(b, x) = b \o c /\ Append(a \o b, x) = (a \o b) \o c
  BY <1>1, <1>2 DEF c
<1>4. (a \o b) \o c = a \o (b \o c)
  BY <1>3, CatAssoc
<1> QED BY <1>3, <1>4

(* The b-th sequence has one piece more, and nothing comes after it.        *)
GrowsAt(s, t, b, x) ==
  /\ Len(t) = Len(s) /\ b \in 1..Len(s)
  /\ \A c \in 1..Len(s) : c # b => t[c] = s[c]
  /\ t[b] = Append(s[b], x)
  /\ \A c \in 1..Len(s) : c > b => s[c] = <<>>

(* So the whole has that piece more, at its end.                            *)
LEMMA GrownFlatten ==
  ASSUME NEW S, NEW s \in Seq(Seq(S)), NEW t \in Seq(Seq(S)), NEW b, NEW x \in S, GrowsAt(s, t, b, x)
  PROVE  FlattenSeq(t) = Append(FlattenSeq(s), x)
<1> DEFINE n == Len(s)
<1>1. PICK f : Joins(S, s, f)
  BY JoinsExist
<1>2. PICK g : Joins(S, t, g)
  BY JoinsExist
<1>3. n \in Nat /\ Len(t) = n /\ b \in 1..n
  BY DEF GrowsAt
<1>4. \A i \in 0..n : f[i] \in Seq(S) /\ g[i] \in Seq(S)
  BY <1>1, <1>2, <1>3 DEF Joins
<1>5. f[0] = <<>> /\ g[0] = <<>>
  BY <1>1, <1>2 DEF Joins
<1>6. \A i \in 1..n : f[i] = f[i - 1] \o s[i] /\ g[i] = g[i - 1] \o t[i]
  BY <1>1, <1>2, <1>3 DEF Joins
<1>7. \A i \in 1..n : s[i] \in Seq(S)
  OBVIOUS
<1>8. \A c \in 1..n : (c # b => t[c] = s[c]) /\ (c > b => s[c] = <<>>)
  BY DEF GrowsAt
<1>9. t[b] = Append(s[b], x)
  BY DEF GrowsAt
<1>10. FlattenSeq(s) = f[n] /\ FlattenSeq(t) = g[n]
  BY <1>1, <1>2, <1>3, JoinsEnd
<1> HIDE DEF n
<1> DEFINE T == {i \in Nat : i <= n => (i < b => g[i] = f[i]) /\ (~ (i < b) => g[i] = Append(f[i], x))}
<1>11. 0 \in T
  BY <1>3, <1>5
<1>12. ASSUME NEW i \in T PROVE i + 1 \in T
  <2> DEFINE j == i + 1
  <2>1. i \in Nat /\ j \in Nat /\ j - 1 = i
    BY <1>12
  <2>2. ASSUME j <= n PROVE (j < b => g[j] = f[j]) /\ (~ (j < b) => g[j] = Append(f[j], x))
    <3>1. j \in 1..n /\ i \in 0..n /\ i <= n
      BY <1>3, <2>1, <2>2
    <3>2. (i < b => g[i] = f[i]) /\ (~ (i < b) => g[i] = Append(f[i], x))
      BY <1>12, <3>1
    <3> HIDE DEF T, j
    <3>3. f[j] = f[i] \o s[j] /\ g[j] = g[i] \o t[j]
      BY <1>6, <2>1, <3>1
    <3> DEFINE p == f[i]
               q == s[j]
    <3>4. p \in Seq(S) /\ q \in Seq(S)
      BY <1>4, <1>7, <3>1
    <3>5. f[j] = p \o q
      BY <3>3
    <3>6. CASE j < b
      <4>1. i < b /\ j # b
        BY <1>3, <2>1, <3>6 DEF j
      <4> QED BY <1>8, <3>1, <3>2, <3>3, <3>6, <4>1
    <3>7. CASE j = b
      <4>1. i < b
        BY <1>3, <2>1, <3>7 DEF j
      <4>2. g[j] = p \o Append(q, x)
        BY <1>9, <3>2, <3>3, <3>7, <4>1
      <4> HIDE DEF p, q
      <4>3. p \o Append(q, x) = Append(p \o q, x)
        BY <3>4, CatAppend
      <4>4. ~ (j < b)
        BY <1>3, <3>7
      <4> QED BY <3>5, <4>2, <4>3, <4>4
    <3>8. CASE j > b
      <4>1. ~ (i < b) /\ ~ (j < b) /\ j # b
        BY <1>3, <2>1, <3>8 DEF j
      <4>2. t[j] = <<>> /\ q = <<>>
        BY <1>8, <3>1, <3>8, <4>1
      <4>3. g[j] = Append(p, x) \o <<>>
        BY <3>2, <3>3, <4>1, <4>2
      <4>4. f[j] = p \o <<>>
        BY <3>5, <4>2
      <4> HIDE DEF p, q
      <4>5. Append(p, x) \in Seq(S)
        BY <3>4
      <4>6. p \o <<>> = p /\ Append(p, x) \o <<>> = Append(p, x)
        BY <3>4, <4>5, CatEmpty
      <4> QED BY <4>1, <4>3, <4>4, <4>6
    <3>9. j < b \/ j = b \/ j > b
      BY <1>3, <2>1
    <3> QED BY <3>6, <3>7, <3>8, <3>9
  <2> QED BY <2>1, <2>2
<1>13. T = Nat
  <2>1. T \in SUBSET Nat
    OBVIOUS
  <2> HIDE DEF T
  <2> QED BY <1>11, <1>12, <2>1, Induction
<1>14. n \in T /\ n <= n /\ ~ (n < b)
  <2> HIDE DEF T
  <2> QED BY <1>3, <1>13
<1>15. g[n] = Append(f[n], x)
  BY <1>14
<1> QED BY <1>10, <1>15

(* Every sequence begins the one it stands for, and what has begun has all  *)
(* before it complete.                                                      *)
Begins(S, s, w) ==
  /\ Len(w) = Len(s)
  /\ \A a \in 1..Len(s) : \E r \in Seq(S) : w[a] = s[a] \o r
  /\ \A c \in 1..Len(s) : s[c] # <<>> => \A a \in 1..(c - 1) : s[a] = w[a]

(* So the whole begins with what they are joined to.                        *)
LEMMA BeginsFlatten ==
  ASSUME NEW S, NEW s \in Seq(Seq(S)), NEW w \in Seq(Seq(S)), Begins(S, s, w)
  PROVE  \E r \in Seq(S) : FlattenSeq(w) = FlattenSeq(s) \o r
<1> DEFINE n == Len(s)
<1>1. PICK f : Joins(S, s, f)
  BY JoinsExist
<1>2. PICK g : Joins(S, w, g)
  BY JoinsExist
<1>3. n \in Nat /\ Len(w) = n
  BY DEF Begins
<1>4. \A i \in 0..n : f[i] \in Seq(S) /\ g[i] \in Seq(S)
  BY <1>1, <1>2, <1>3 DEF Joins
<1>5. f[0] = <<>> /\ g[0] = <<>>
  BY <1>1, <1>2 DEF Joins
<1>6. \A i \in 1..n : f[i] = f[i - 1] \o s[i] /\ g[i] = g[i - 1] \o w[i]
  BY <1>1, <1>2, <1>3 DEF Joins
<1>7. \A i \in 1..n : s[i] \in Seq(S) /\ w[i] \in Seq(S)
  BY <1>3
<1>8. \A a \in 1..n : \E r \in Seq(S) : w[a] = s[a] \o r
  BY DEF Begins
<1>9. \A c \in 1..n : s[c] # <<>> => \A a \in 1..(c - 1) : s[a] = w[a]
  BY DEF Begins
<1>10. FlattenSeq(s) = f[n] /\ FlattenSeq(w) = g[n]
  BY <1>1, <1>2, <1>3, JoinsEnd
<1> HIDE DEF n
<1> DEFINE Same(i) == \A a \in 1..i : s[a] = w[a]
           Longer(i) == \E r \in Seq(S) : g[i] = f[i] \o r
           T == {i \in Nat : i <= n => (Same(i) => g[i] = f[i]) /\ Longer(i)}
<1>11. 0 \in T
  <2> DEFINE e == <<>>
  <2>1. e \in Seq(S) /\ e \o e = e
    OBVIOUS
  <2>2. Longer(0)
    BY <1>5, <2>1
  <2> HIDE DEF Longer, Same
  <2> QED BY <1>5, <2>2
<1>12. ASSUME NEW i \in T PROVE i + 1 \in T
  <2> DEFINE j == i + 1
  <2>1. i \in Nat /\ j \in Nat /\ j - 1 = i
    BY <1>12
  <2>2. ASSUME j <= n PROVE (Same(j) => g[j] = f[j]) /\ Longer(j)
    <3>1. j \in 1..n /\ i \in 0..n /\ i <= n
      BY <1>3, <2>1, <2>2
    <3>2. (Same(i) => g[i] = f[i]) /\ Longer(i)
      BY <1>12, <3>1
    <3>0. 1..i \subseteq 1..j /\ j \in 1..j
      BY <2>1
    <3> HIDE DEF T, j
    <3>3. f[j] = f[i] \o s[j] /\ g[j] = g[i] \o w[j]
      BY <1>6, <2>1, <3>1
    <3> DEFINE p == f[i]
               q == s[j]
               v == w[j]
    <3>4. p \in Seq(S) /\ q \in Seq(S) /\ v \in Seq(S)
      BY <1>4, <1>7, <3>1
    <3>5. f[j] = p \o q /\ g[j] = g[i] \o v
      BY <3>3
    <3>6. CASE Same(i)
      <4>1. PICK r \in Seq(S) : v = q \o r
        BY <1>8, <3>1
      <4>2. g[j] = p \o v
        BY <3>2, <3>5, <3>6
      <4>3. Same(j) => g[j] = f[j]
        <5>1. ASSUME Same(j) PROVE v = q
          BY <3>0, <5>1
        <5> HIDE DEF p, q, v, Same
        <5> QED BY <3>5, <4>2, <5>1
      <4>4. g[j] = f[j] \o r
        <5> HIDE DEF p, q, v
        <5>1. (p \o q) \o r = p \o (q \o r)
          BY <3>4, CatAssoc
        <5> QED BY <3>5, <4>1, <4>2, <5>1
      <4> HIDE DEF Same
      <4> QED BY <4>3, <4>4
    <3>7. CASE ~ Same(i)
      <4>1. ~ Same(j)
        BY <3>0, <3>7
      <4>2. q = <<>>
        <5>1. j - 1 = i
          BY <2>1
        <5> QED BY <1>9, <3>1, <3>7, <5>1
      <4>3. PICK r \in Seq(S) : g[i] = p \o r
        BY <3>2
      <4>4. f[j] = p \o <<>> /\ g[j] = (p \o r) \o v
        BY <3>5, <4>2, <4>3
      <4> HIDE DEF Same, p, q, v
      <4>5. p \o <<>> = p
        BY <3>4, CatEmpty
      <4>6. (p \o r) \o v = p \o (r \o v)
        BY <3>4, CatAssoc
      <4>7. r \o v \in Seq(S)
        BY <3>4, CatFacts
      <4>8. g[j] = f[j] \o (r \o v)
        BY <4>4, <4>5, <4>6
      <4> QED BY <4>1, <4>7, <4>8
    <3> HIDE DEF Same, Longer
    <3> QED BY <3>6, <3>7
  <2> HIDE DEF Same, Longer
  <2> QED BY <2>1, <2>2
<1>13. T = Nat
  <2>1. T \in SUBSET Nat
    OBVIOUS
  <2> HIDE DEF T
  <2> QED BY <1>11, <1>12, <2>1, Induction
<1>14. n \in T /\ n <= n
  <2> HIDE DEF T
  <2> QED BY <1>3, <1>13
<1>15. Longer(n)
  <2> HIDE DEF Longer, Same
  <2> QED BY <1>14
<1> QED BY <1>10, <1>15

LEMMA LongerIsPrefix ==
  ASSUME NEW S, NEW p \in Seq(S), NEW r \in Seq(S)
  PROVE  IsPrefixOf(p, p \o r)
<1> DEFINE q == p \o r
           b == SubSeq(q, 1, Len(p))
<1>1. q \in Seq(S) /\ Len(q) = Len(p) + Len(r) /\ Len(p) \in Nat /\ Len(r) \in Nat
      /\ \A i \in 1..Len(p) : q[i] = p[i]
  BY CatFacts
<1> HIDE DEF q
<1>2. Len(p) <= Len(q)
  BY <1>1
<1>3. b \in Seq(S) /\ Len(b) = Len(p) /\ \A i \in 1..Len(p) : b[i] = q[i]
  BY <1>1, <1>2
<1> HIDE DEF b
<1>4. p = b
  BY <1>1, <1>3, SameSeq
<1> QED BY <1>2, <1>4 DEF IsPrefixOf, b, q

-----------------------------------------------------------------------------
(* The blocks of a kind, in their order.                                    *)

(* The members of K among 1..n, in their order.                             *)
Stubs(K, n) == [b \in 1..n |-> IF b \in K THEN <<b>> ELSE <<>>]
Listed(K, n) == FlattenSeq(Stubs(K, n))
Lists(q, K, i) ==
  /\ q \in Seq(Nat)
  /\ \A k \in DOMAIN q : q[k] \in K /\ q[k] <= i
  /\ \A b \in K : b <= i => \E k \in DOMAIN q : q[k] = b
  /\ \A k, l \in DOMAIN q : q[k] = q[l] => k = l

LEMMA StubsTyped ==
  ASSUME NEW K, NEW n \in Nat
  PROVE  /\ Stubs(K, n) \in Seq(Seq(Nat)) /\ Len(Stubs(K, n)) = n
         /\ \A b \in 1..n : (b \in K => Stubs(K, n)[b] = <<b>>) /\ (b \notin K => Stubs(K, n)[b] = <<>>)
<1>1. \A b \in 1..n : <<b>> \in Seq(Nat) /\ <<>> \in Seq(Nat)
  OBVIOUS
<1>2. Stubs(K, n) \in [1..n -> Seq(Nat)]
  BY <1>1 DEF Stubs
<1>3. Stubs(K, n) \in Seq(Seq(Nat)) /\ Len(Stubs(K, n)) = n
  BY <1>2
<1> QED BY <1>3 DEF Stubs

LEMMA ListsNext ==
  ASSUME NEW K \in SUBSET Nat, NEW i \in Nat, NEW q, Lists(q, K, i), i + 1 \in K
  PROVE  Lists(Append(q, i + 1), K, i + 1)
<1> DEFINE j == i + 1
           p == Append(q, j)
           l == Len(q)
<1>1. j \in Nat /\ j \in K /\ j > i
  OBVIOUS
<1>2. q \in Seq(Nat) /\ (\A k \in DOMAIN q : q[k] \in K /\ q[k] <= i)
      /\ (\A b \in K : b <= i => \E k \in DOMAIN q : q[k] = b)
  BY DEF Lists
<1>3. \A k, m \in DOMAIN q : q[k] = q[m] => k = m
  BY DEF Lists
<1> HIDE DEF j
<1>4. p \in Seq(Nat) /\ DOMAIN p = 1..(l + 1) /\ DOMAIN q = 1..l /\ l \in Nat
      /\ p[l + 1] = j /\ \A k \in 1..l : p[k] = q[k]
  BY <1>1, <1>2
<1> HIDE DEF p, l
<1>5. \A k \in 1..l : q[k] \in Nat /\ q[k] <= i
  BY <1>2, <1>4
<1>6. ASSUME NEW k \in DOMAIN p PROVE p[k] \in K /\ p[k] <= j
  <2>1. CASE k \in 1..l
    BY <1>1, <1>2, <1>4, <1>5, <2>1
  <2>2. CASE k = l + 1
    BY <1>1, <1>4, <2>2
  <2> QED BY <1>4, <2>1, <2>2
<1>7. ASSUME NEW b \in K, b <= j PROVE \E k \in DOMAIN p : p[k] = b
  <2>1. CASE b <= i
    BY <1>2, <1>4, <2>1
  <2>2. CASE ~ (b <= i)
    <3>1. b = j
      BY <1>7, <2>2 DEF j
    <3>2. l + 1 \in DOMAIN p
      BY <1>4
    <3> QED BY <1>4, <3>1, <3>2
  <2> QED BY <2>1, <2>2
<1>8. ASSUME NEW k \in DOMAIN p, NEW m \in DOMAIN p, p[k] = p[m] PROVE k = m
  <2>1. k \in 1..l \/ k = l + 1
    BY <1>4
  <2>2. m \in 1..l \/ m = l + 1
    BY <1>4
  <2>3. CASE k \in 1..l /\ m \in 1..l
    <3>1. p[k] = q[k] /\ p[m] = q[m] /\ k \in DOMAIN q /\ m \in DOMAIN q
      BY <1>4, <2>3
    <3> QED BY <1>3, <1>8, <3>1
  <2>4. CASE k \in 1..l /\ m = l + 1
    <3>1. q[k] = j /\ q[k] \in Nat /\ q[k] <= i
      BY <1>4, <1>5, <1>8, <2>4
    <3> QED BY <1>1, <3>1
  <2>5. CASE k = l + 1 /\ m \in 1..l
    <3>1. q[m] = j /\ q[m] \in Nat /\ q[m] <= i
      BY <1>4, <1>5, <1>8, <2>5
    <3> QED BY <1>1, <3>1
  <2> QED BY <2>1, <2>2, <2>3, <2>4, <2>5
<1>9. Lists(p, K, j)
  <2>1. \A k, m \in DOMAIN p : p[k] = p[m] => k = m
    BY <1>8
  <2> QED BY <1>4, <1>6, <1>7, <2>1 DEF Lists
<1> QED BY <1>9 DEF p, j

LEMMA ListsSkip ==
  ASSUME NEW K \in SUBSET Nat, NEW i \in Nat, NEW q, Lists(q, K, i), i + 1 \notin K
  PROVE  Lists(q, K, i + 1)
<1>1. q \in Seq(Nat) /\ (\A k, l \in DOMAIN q : q[k] = q[l] => k = l)
  BY DEF Lists
<1>2. \A k \in DOMAIN q : q[k] \in K /\ q[k] <= i + 1
  BY DEF Lists
<1>3. ASSUME NEW b \in K, b <= i + 1 PROVE \E k \in DOMAIN q : q[k] = b
  <2>1. b \in Nat /\ b # i + 1
    OBVIOUS
  <2>2. b <= i
    BY <1>3, <2>1
  <2> QED BY <2>2 DEF Lists
<1> QED BY <1>1, <1>2, <1>3 DEF Lists

(* They are listed once each, and nothing else is.                          *)
LEMMA ListedLists ==
  ASSUME NEW n \in Nat, NEW K \in SUBSET (1..n)
  PROVE  Lists(Listed(K, n), K, n)
<1> DEFINE s == Stubs(K, n)
<1>1. s \in Seq(Seq(Nat)) /\ Len(s) = n
      /\ \A b \in 1..n : (b \in K => s[b] = <<b>>) /\ (b \notin K => s[b] = <<>>)
  BY StubsTyped
<1> HIDE DEF s
<1>2. PICK f : Joins(Nat, s, f)
  BY <1>1, JoinsExist
<1>3. f[0] = <<>> /\ \A i \in 1..n : f[i] = f[i - 1] \o s[i]
  BY <1>1, <1>2 DEF Joins
<1>4. \A i \in 0..n : f[i] \in Seq(Nat)
  BY <1>1, <1>2 DEF Joins
<1>0. K \in SUBSET Nat
  OBVIOUS
<1> DEFINE T == {i \in Nat : i <= n => Lists(f[i], K, i)}
<1>5. 0 \in T
  <2>1. \A b \in K : ~ (b <= 0)
    OBVIOUS
  <2>2. <<>> \in Seq(Nat) /\ DOMAIN <<>> = {}
    OBVIOUS
  <2>3. Lists(f[0], K, 0)
    BY <1>3, <2>1, <2>2 DEF Lists
  <2> QED BY <2>3
<1>6. ASSUME NEW i \in T PROVE i + 1 \in T
  <2>1. i \in Nat /\ i + 1 \in Nat
    BY <1>6
  <2>2. ASSUME i + 1 <= n PROVE Lists(f[i + 1], K, i + 1)
    <3>1. i <= n /\ i + 1 \in 1..n /\ (i + 1) - 1 = i /\ i \in 0..n
      BY <2>1, <2>2
    <3>2. Lists(f[i], K, i)
      BY <1>6, <3>1
    <3> DEFINE q == f[i]
               j == i + 1
    <3>3. q \in Seq(Nat) /\ f[i + 1] = q \o s[i + 1]
      BY <1>3, <1>4, <3>1
    <3>4. CASE i + 1 \in K
      <4>1. f[i + 1] = q \o <<j>>
        BY <1>1, <3>1, <3>3, <3>4
      <4>2. j \in Nat
        BY <2>1
      <4>3. Lists(Append(q, i + 1), K, i + 1)
        BY <1>0, <2>1, <3>2, <3>4, ListsNext
      <4> HIDE DEF q, j
      <4>4. Append(q, j) = q \o <<j>>
        BY <3>3, <4>2, AppendIsConcat
      <4> QED BY <4>1, <4>3, <4>4 DEF j
    <3>5. CASE i + 1 \notin K
      <4>1. f[i + 1] = q \o <<>>
        BY <1>1, <3>1, <3>3, <3>5
      <4>2. Lists(q, K, i + 1)
        BY <1>0, <2>1, <3>2, <3>5, ListsSkip
      <4> HIDE DEF q
      <4>3. q \o <<>> = q
        BY <3>3, CatEmpty
      <4> QED BY <4>1, <4>2, <4>3
    <3> QED BY <3>4, <3>5
  <2> QED BY <2>1, <2>2
<1>7. T = Nat
  <2>1. T \in SUBSET Nat
    OBVIOUS
  <2> HIDE DEF T
  <2> QED BY <1>5, <1>6, <2>1, Induction
<1>8. Lists(f[n], K, n)
  <2>1. n \in T /\ n <= n
    <3> HIDE DEF T
    <3> QED BY <1>7
  <2> QED BY <2>1
<1>9. Listed(K, n) = f[n]
  <2>1. FlattenSeq(s) = f[n]
    BY <1>1, <1>2, JoinsEnd
  <2> QED BY <2>1 DEF Listed, s
<1> QED BY <1>8, <1>9

(* A block after all of them is listed last.                                *)
LEMMA ListedGrows ==
  ASSUME NEW n \in Nat, NEW K \in SUBSET (1..n), NEW b \in 1..n, \A c \in K : c < b
  PROVE  Listed(K \cup {b}, n) = Append(Listed(K, n), b)
<1> DEFINE s == Stubs(K, n)
           L == K \cup {b}
           t == Stubs(L, n)
<1>1. s \in Seq(Seq(Nat)) /\ Len(s) = n
      /\ \A c \in 1..n : (c \in K => s[c] = <<c>>) /\ (c \notin K => s[c] = <<>>)
  BY StubsTyped
<1>2. t \in Seq(Seq(Nat)) /\ Len(t) = n
      /\ \A c \in 1..n : (c \in L => t[c] = <<c>>) /\ (c \notin L => t[c] = <<>>)
  BY StubsTyped
<1>3. b \in L /\ b \notin K /\ \A c \in 1..n : c # b => (c \in L <=> c \in K)
  OBVIOUS
<1>4. \A c \in 1..n : c > b => c \notin K
  OBVIOUS
<1> HIDE DEF s, t, L
<1>5. GrowsAt(s, t, b, b)
  <2>1. s[b] = <<>> /\ t[b] = <<b>>
    BY <1>1, <1>2, <1>3
  <2>2. t[b] = Append(s[b], b)
    BY <2>1
  <2> QED BY <1>1, <1>2, <1>3, <1>4, <2>2 DEF GrowsAt
<1>6. FlattenSeq(t) = Append(FlattenSeq(s), b)
  <2>1. b \in Nat
    OBVIOUS
  <2> QED BY <1>1, <1>2, <1>5, <2>1, GrownFlatten
<1> QED BY <1>6 DEF Listed, s, t, L

(* If what is missing comes after them all, they are a beginning.           *)
LEMMA ListedBegins ==
  ASSUME NEW n \in Nat, NEW K \in SUBSET (1..n), NEW L \in SUBSET (1..n), K \subseteq L,
         \A c \in K : \A a \in L : a < c => a \in K
  PROVE  \E r \in Seq(Nat) : Listed(L, n) = Listed(K, n) \o r
<1> DEFINE s == Stubs(K, n)
           t == Stubs(L, n)
<1>1. s \in Seq(Seq(Nat)) /\ Len(s) = n
      /\ \A c \in 1..n : (c \in K => s[c] = <<c>>) /\ (c \notin K => s[c] = <<>>)
  BY StubsTyped
<1>2. t \in Seq(Seq(Nat)) /\ Len(t) = n
      /\ \A c \in 1..n : (c \in L => t[c] = <<c>>) /\ (c \notin L => t[c] = <<>>)
  BY StubsTyped
<1> HIDE DEF s, t
<1>3. ASSUME NEW a \in 1..n PROVE \E r \in Seq(Nat) : t[a] = s[a] \o r
  <2> DEFINE p == s[a]
             q == t[a]
             e == <<>>
  <2>0. e \in Seq(Nat)
    OBVIOUS
  <2>6. p \in Seq(Nat) /\ q \in Seq(Nat)
    BY <1>1, <1>2
  <2>7. p = q \/ p = e
    <3>1. CASE a \in K
      <4>1. a \in L
        BY <3>1
      <4> QED BY <1>1, <1>2, <3>1, <4>1
    <3>2. CASE a \notin K
      BY <1>1, <3>2
    <3> QED BY <3>1, <3>2
  <2>1. p \in Seq(Nat) /\ q \in Seq(Nat) /\ e \in Seq(Nat) /\ (p = q \/ p = e)
    BY <2>0, <2>6, <2>7
  <2> HIDE DEF p, q
  <2>2. p \o <<>> = p /\ <<>> \o q = q
    <3>1. p \o <<>> = p
      BY <2>1, CatEmpty
    <3>2. <<>> \o q = q
      BY <2>1, CatEmpty
    <3> QED BY <3>1, <3>2
  <2>5. p \o e = p /\ e \o q = q
    BY <2>2
  <2> HIDE DEF e
  <2>3. q = p \o e \/ q = p \o q
    BY <2>1, <2>5
  <2>4. \E r \in Seq(Nat) : q = p \o r
    <3>1. CASE q = p \o e
      BY <2>1, <3>1
    <3>2. CASE q = p \o q
      BY <2>1, <3>2
    <3> QED BY <2>3, <3>1, <3>2
  <2> QED BY <2>4 DEF p, q
<1>4. ASSUME NEW c \in 1..n, s[c] # <<>>, NEW a \in 1..(c - 1) PROVE s[a] = t[a]
  <2>1. c \in K /\ a \in 1..n /\ a < c
    BY <1>1, <1>4
  <2>2. a \in K <=> a \in L
    BY <2>1
  <2> QED BY <1>1, <1>2, <2>1, <2>2
<1>5. Begins(Nat, s, t)
  BY <1>1, <1>2, <1>3, <1>4 DEF Begins
<1>6. \E r \in Seq(Nat) : FlattenSeq(t) = FlattenSeq(s) \o r
  BY <1>1, <1>2, <1>5, BeginsFlatten
<1> QED BY <1>6 DEF Listed, s, t

-----------------------------------------------------------------------------
(* How much of a reply has been read.                                       *)

(* A reply, and how many events of each of its blocks have been read.       *)
IsReply(a) ==
  a \in Seq(Range(a)) /\ \A b \in DOMAIN a : IsReplyBlock(a[b])
SentInTurn(s, a, m, b, c) ==
  m[b] = Events(a)[b] \/ (s = "openai" /\ m[b] > 0 /\ a[b].block = "call" /\ a[c].block = "call")
IsSent(s, a, m) ==
  /\ IsReply(a) /\ s \in StreamingStyles
  /\ m \in [DOMAIN a -> Nat]
  /\ \A b \in DOMAIN a : m[b] <= Events(a)[b]
  /\ \A b \in DOMAIN a : s = "ollama" /\ a[b].block = "call" => m[b] \in {0, Events(a)[b]}
  /\ \A c \in DOMAIN a : m[c] > 0 => \A b \in 1..(c - 1) : SentInTurn(s, a, m, b, c)
MayRead(s, a, m, b) ==
  /\ b \in DOMAIN a /\ m[b] < Events(a)[b]
  /\ \A c \in 1..(b - 1) : SentInTurn(s, a, m, c, b)
After(s, a, m, b) ==
  [m EXCEPT ![b] = IF s = "ollama" /\ a[b].block = "call" THEN Events(a)[b] ELSE @ + 1]

LEMMA ReplyFacts ==
  ASSUME NEW a, IsReply(a)
  PROVE  /\ Len(a) \in Nat /\ DOMAIN a = 1..Len(a)
         /\ \A b \in DOMAIN a :
              /\ a[b].block \in {"text", "thinking", "redacted", "call"} /\ a[b].size \in Nat
              /\ a[b].block = "redacted" => a[b].size = 0
         /\ \A b \in DOMAIN a : Events(a)[b] = IF a[b].block = "call" THEN a[b].size + 1 ELSE a[b].size
         /\ \A b \in DOMAIN a : Events(a)[b] \in Nat
<1>1. Len(a) \in Nat /\ DOMAIN a = 1..Len(a)
  BY DEF IsReply
<1>2. ASSUME NEW b \in DOMAIN a
      PROVE  /\ a[b].block \in {"text", "thinking", "redacted", "call"} /\ a[b].size \in Nat
             /\ a[b].block = "redacted" => a[b].size = 0
  <2>1. IsReplyBlock(a[b])
    BY DEF IsReply
  <2> QED BY <2>1 DEF IsReplyBlock, TextBlock, ThinkBlock, RedactedBlock, CallBlock
<1>3. \A b \in DOMAIN a : Events(a)[b] = IF a[b].block = "call" THEN a[b].size + 1 ELSE a[b].size
  BY DEF Events
<1>4. ASSUME NEW b \in DOMAIN a PROVE Events(a)[b] \in Nat
  <2> DEFINE z == a[b].size
  <2>1. z \in Nat /\ (Events(a)[b] = z \/ Events(a)[b] = z + 1)
    BY <1>2, <1>3
  <2> HIDE DEF z
  <2> QED BY <2>1
<1> QED BY <1>1, <1>2, <1>3, <1>4

(* One event more of block b.                                               *)
LEMMA AfterFacts ==
  ASSUME NEW s, NEW a, NEW m, IsSent(s, a, m), NEW b, MayRead(s, a, m, b)
  PROVE  /\ After(s, a, m, b) \in [DOMAIN a -> Nat]
         /\ \A c \in DOMAIN a : c # b => After(s, a, m, b)[c] = m[c]
         /\ After(s, a, m, b)[b] > 0 /\ After(s, a, m, b)[b] <= Events(a)[b]
         /\ a[b].block # "call" \/ s # "ollama" => After(s, a, m, b)[b] = m[b] + 1
         /\ a[b].block = "call" /\ s = "ollama" =>
              After(s, a, m, b)[b] = Events(a)[b] /\ m[b] = 0
         /\ b \in DOMAIN a /\ m[b] \in Nat /\ m[b] < Events(a)[b]
<1> DEFINE n == After(s, a, m, b)
           E == Events(a)[b]
<1>1. m \in [DOMAIN a -> Nat] /\ IsReply(a) /\ b \in DOMAIN a /\ m[b] < E
      /\ (s = "ollama" /\ a[b].block = "call" => m[b] \in {0, E})
  BY DEF IsSent, MayRead
<1>2. E \in Nat /\ m[b] \in Nat
  BY <1>1, ReplyFacts
<1> HIDE DEF E
<1>3. m[b] + 1 \in Nat /\ m[b] + 1 <= E /\ m[b] + 1 > 0 /\ E > 0 /\ m[b] # E
  BY <1>1, <1>2
<1>4. n = [m EXCEPT ![b] = IF s = "ollama" /\ a[b].block = "call" THEN E ELSE m[b] + 1]
  BY <1>1 DEF After, E
<1> HIDE DEF n
<1>5. n \in [DOMAIN a -> Nat] /\ (\A c \in DOMAIN a : c # b => n[c] = m[c])
      /\ n[b] = IF s = "ollama" /\ a[b].block = "call" THEN E ELSE m[b] + 1
  BY <1>1, <1>2, <1>3, <1>4
<1>6. n[b] > 0 /\ n[b] <= E
  BY <1>2, <1>3, <1>5
<1>7. a[b].block = "call" /\ s = "ollama" => n[b] = E /\ m[b] = 0
  BY <1>1, <1>3, <1>5
<1>8. a[b].block # "call" \/ s # "ollama" => n[b] = m[b] + 1
  BY <1>5
<1> QED BY <1>1, <1>2, <1>5, <1>6, <1>7, <1>8 DEF n, E

(* A dialect's order of events is kept by the next that is in turn.         *)
LEMMA AfterSent ==
  ASSUME NEW s, NEW a, NEW m, IsSent(s, a, m), NEW b, MayRead(s, a, m, b)
  PROVE  IsSent(s, a, After(s, a, m, b))
<1> DEFINE n == After(s, a, m, b)
<1>1. /\ n \in [DOMAIN a -> Nat] /\ \A c \in DOMAIN a : c # b => n[c] = m[c]
      /\ n[b] > 0 /\ n[b] <= Events(a)[b] /\ m[b] \in Nat /\ m[b] < Events(a)[b] /\ b \in DOMAIN a
      /\ a[b].block = "call" /\ s = "ollama" => n[b] = Events(a)[b]
  BY AfterFacts
<1>2. IsReply(a) /\ s \in StreamingStyles
  BY DEF IsSent
<1>3. Len(a) \in Nat /\ DOMAIN a = 1..Len(a) /\ Events(a)[b] \in Nat
  BY <1>1, <1>2, ReplyFacts
<1> HIDE DEF n
<1>4. \A c \in DOMAIN a : n[c] <= Events(a)[c]
  BY <1>1 DEF IsSent
<1>5. \A c \in DOMAIN a : s = "ollama" /\ a[c].block = "call" => n[c] \in {0, Events(a)[c]}
  <2>1. ASSUME s = "ollama", NEW c \in DOMAIN a, a[c].block = "call" PROVE n[c] \in {0, Events(a)[c]}
    <3>1. CASE c = b
      BY <1>1, <2>1, <3>1
    <3>2. CASE c # b
      BY <1>1, <2>1, <3>2 DEF IsSent
    <3> QED BY <3>1, <3>2
  <2> QED BY <2>1
<1>6. ASSUME NEW c \in DOMAIN a, n[c] > 0, NEW d \in 1..(c - 1) PROVE SentInTurn(s, a, n, d, c)
  <2>0. d \in DOMAIN a /\ d # c
    BY <1>3
  <2>1. CASE c = b
    <3>1. SentInTurn(s, a, m, d, b)
      BY <2>1 DEF MayRead
    <3>2. n[d] = m[d]
      BY <1>1, <2>0, <2>1
    <3> QED BY <2>1, <3>1, <3>2 DEF SentInTurn
  <2>2. CASE c # b
    <3>1. SentInTurn(s, a, m, d, c)
      BY <1>1, <1>6, <2>2 DEF IsSent
    <3>2. CASE d # b
      <4>1. n[d] = m[d]
        BY <1>1, <2>0, <3>2
      <4> QED BY <3>1, <4>1 DEF SentInTurn
    <3>3. CASE d = b
      <4>1. m[b] # Events(a)[b]
        BY <1>1, <1>3
      <4> QED BY <1>1, <3>1, <3>3, <4>1 DEF SentInTurn
    <3> QED BY <3>2, <3>3
  <2> QED BY <2>1, <2>2
<1>7. IsSent(s, a, n)
  BY <1>1, <1>2, <1>4, <1>5, <1>6 DEF IsSent
<1> QED BY <1>7 DEF n

(* Behind the block that is read only calls may have come, behind a call    *)
(* that has its name.                                                       *)
LEMMA Behind ==
  ASSUME NEW s, NEW a, NEW m, IsSent(s, a, m), NEW b, MayRead(s, a, m, b),
         NEW c \in DOMAIN a, c > b, m[c] # 0
  PROVE  m[b] > 0 /\ a[b].block = "call" /\ a[c].block = "call"
<1>1. IsReply(a) /\ m[c] \in Nat /\ b \in DOMAIN a
  BY DEF IsSent, MayRead
<1>2. DOMAIN a = 1..Len(a) /\ Len(a) \in Nat /\ Events(a)[b] \in Nat
  BY <1>1, ReplyFacts
<1>3. b \in 1..(c - 1) /\ m[c] > 0
  BY <1>1, <1>2
<1>4. SentInTurn(s, a, m, b, c)
  BY <1>3 DEF IsSent
<1>5. m[b] # Events(a)[b]
  <2>1. m[b] \in Nat /\ m[b] < Events(a)[b]
    BY AfterFacts
  <2> QED BY <1>2, <2>1
<1> QED BY <1>4, <1>5 DEF SentInTurn

-----------------------------------------------------------------------------
LEMMA PiecesFacts ==
  ASSUME NEW b \in Nat, NEW m \in Nat
  PROVE  /\ Pieces(b, m) \in Seq(Nat \X Nat) /\ Len(Pieces(b, m)) = m
         /\ \A k \in 1..m : Pieces(b, m)[k] = <<b, k>>
<1>1. Pieces(b, m) \in [1..m -> Nat \X Nat]
  BY DEF Pieces
<1>2. Pieces(b, m) \in Seq(Nat \X Nat) /\ Len(Pieces(b, m)) = m
  BY <1>1
<1> QED BY <1>2 DEF Pieces

LEMMA NextPiece ==
  ASSUME NEW b \in Nat, NEW m \in Nat
  PROVE  Pieces(b, m + 1) = Append(Pieces(b, m), <<b, m + 1>>)
<1> DEFINE p == Pieces(b, m)
           x == <<b, m + 1>>
           q == Pieces(b, m + 1)
           S == Nat \X Nat
<1>1. p \in Seq(S) /\ Len(p) = m /\ \A k \in 1..m : p[k] = <<b, k>>
  BY PiecesFacts
<1>2. q \in Seq(S) /\ Len(q) = m + 1 /\ \A k \in 1..(m + 1) : q[k] = <<b, k>>
  <2>1. m + 1 \in Nat
    OBVIOUS
  <2> QED BY <2>1, PiecesFacts
<1>3. x \in S
  OBVIOUS
<1>4. q[m + 1] = x
  BY <1>2
<1> HIDE DEF p, q, x, S
<1> DEFINE a == Append(p, x)
<1>5. a \in Seq(S) /\ Len(a) = m + 1 /\ a[m + 1] = x /\ \A k \in 1..m : a[k] = p[k]
  BY <1>1, <1>3
<1> HIDE DEF a
<1>6. ASSUME NEW k \in 1..(m + 1) PROVE q[k] = a[k]
  <2>1. CASE k \in 1..m
    BY <1>1, <1>2, <1>5, <2>1
  <2>2. CASE k = m + 1
    BY <1>4, <1>5, <2>2
  <2> QED BY <2>1, <2>2
<1>7. q = a
  BY <1>2, <1>5, <1>6, SameSeq
<1> QED BY <1>7 DEF a, p, q, x

LEMMA MorePieces ==
  ASSUME NEW b \in Nat, NEW m \in Nat, NEW k \in Nat, m <= k
  PROVE  \E r \in Seq(Nat \X Nat) : Pieces(b, k) = Pieces(b, m) \o r
<1> DEFINE S == Nat \X Nat
           p == Pieces(b, m)
           q == Pieces(b, k)
           r == [i \in 1..(k - m) |-> q[m + i]]
<1>1. p \in Seq(S) /\ Len(p) = m /\ \A i \in 1..m : p[i] = <<b, i>>
  BY PiecesFacts
<1>2. q \in Seq(S) /\ Len(q) = k /\ \A i \in 1..k : q[i] = <<b, i>>
  BY PiecesFacts
<1> HIDE DEF p, q, S
<1>3. r \in Seq(S) /\ Len(r) = k - m /\ \A i \in 1..(k - m) : r[i] = q[m + i]
  <2>1. \A i \in 1..(k - m) : m + i \in 1..k
    OBVIOUS
  <2>2. r \in [1..(k - m) -> S]
    BY <1>2, <2>1
  <2>3. k - m \in Nat
    OBVIOUS
  <2> QED BY <2>2, <2>3
<1> HIDE DEF r
<1> DEFINE c == p \o r
<1>4. c \in Seq(S) /\ Len(c) = k /\ (\A i \in 1..m : c[i] = p[i])
      /\ \A i \in 1..(k - m) : c[m + i] = r[i]
  <2>1. c \in Seq(S) /\ Len(c) = Len(p) + Len(r) /\ (\A i \in 1..Len(p) : c[i] = p[i])
        /\ \A i \in 1..Len(r) : c[Len(p) + i] = r[i]
    BY <1>1, <1>3, CatFacts
  <2> HIDE DEF c
  <2> QED BY <1>1, <1>3, <2>1
<1> HIDE DEF c
<1>5. ASSUME NEW i \in 1..k PROVE q[i] = c[i]
  <2>1. CASE i <= m
    BY <1>1, <1>2, <1>4, <2>1
  <2>2. CASE i > m
    <3> DEFINE j == i - m
    <3>1. j \in 1..(k - m) /\ m + j = i
      BY <2>2
    <3> HIDE DEF j
    <3> QED BY <1>3, <1>4, <3>1
  <2> QED BY <2>1, <2>2
<1>6. q = c
  BY <1>2, <1>4, <1>5, SameSeq
<1> QED BY <1>3, <1>6 DEF c, p, q, S

-----------------------------------------------------------------------------
(* What has been put together of it.                                        *)

Counts(a, m) == m \in [DOMAIN a -> Nat]
TheCalls(a) == {b \in DOMAIN a : a[b].block = "call"}
Called(a, m) == {b \in TheCalls(a) : m[b] > 0}
SoFar(a, m, kind) == [b \in DOMAIN a |-> IF a[b].block = kind THEN Pieces(b, m[b]) ELSE <<>>]
CallNow(s, a, b, k) ==
  [block |-> b, id |-> IF s = "ollama" THEN 0 ELSE a[b].id, name |-> a[b].name,
   args |-> Pieces(b, k)]
CallsAs(s, a, m) ==
  LET q == Listed(Called(a, m), Len(a)) IN [i \in DOMAIN q |-> CallNow(s, a, q[i], m[q[i]] - 1)]
ReadAs(s, a, m) ==
  [text |-> FlattenSeq(SoFar(a, m, "text")), thinking |-> FlattenSeq(SoFar(a, m, "thinking")),
   calls |-> CallsAs(s, a, m), truncated |-> FALSE]

WithCalls(r, c) == [r EXCEPT !.calls = c]
Lengthened(c, i, x) == [c EXCEPT ![i].args = Append(@, x)]

LEMMA SoFarFacts ==
  ASSUME NEW a, IsReply(a), NEW m, Counts(a, m), NEW kind
  PROVE  /\ SoFar(a, m, kind) \in Seq(Seq(Nat \X Nat)) /\ Len(SoFar(a, m, kind)) = Len(a)
         /\ \A b \in 1..Len(a) : /\ a[b].block = kind => SoFar(a, m, kind)[b] = Pieces(b, m[b])
                                 /\ a[b].block # kind => SoFar(a, m, kind)[b] = <<>>
<1> DEFINE S == Nat \X Nat
           t == SoFar(a, m, kind)
<1>1. Len(a) \in Nat /\ DOMAIN a = 1..Len(a)
  BY ReplyFacts
<1>2. ASSUME NEW b \in 1..Len(a) PROVE Pieces(b, m[b]) \in Seq(S) /\ <<>> \in Seq(S)
  <2> DEFINE k == m[b]
  <2>1. b \in Nat /\ k \in Nat
    BY <1>1 DEF Counts
  <2>2. <<>> \in Seq(S)
    OBVIOUS
  <2> HIDE DEF k
  <2>3. Pieces(b, k) \in Seq(S)
    BY <2>1, PiecesFacts
  <2> QED BY <2>2, <2>3 DEF k
<1> HIDE DEF S
<1>3. t = [b \in 1..Len(a) |-> IF a[b].block = kind THEN Pieces(b, m[b]) ELSE <<>>]
  BY <1>1 DEF SoFar
<1> HIDE DEF t
<1>4. t \in [1..Len(a) -> Seq(S)]
  BY <1>2, <1>3
<1>5. t \in Seq(Seq(S)) /\ Len(t) = Len(a)
  BY <1>1, <1>4
<1>6. \A b \in 1..Len(a) : /\ a[b].block = kind => t[b] = Pieces(b, m[b])
                           /\ a[b].block # kind => t[b] = <<>>
  BY <1>3
<1> QED BY <1>5, <1>6 DEF t, S

LEMMA SentCounts == ASSUME NEW s, NEW a, NEW m, IsSent(s, a, m) PROVE IsReply(a) /\ Counts(a, m)
BY DEF IsSent, Counts

(* An event of a text or a thought adds its piece at the end of all of them. *)
LEMMA ContentGrows ==
  ASSUME NEW s, NEW a, NEW m, IsSent(s, a, m), NEW b, MayRead(s, a, m, b),
         NEW kind, a[b].block = kind, kind # "call"
  PROVE  FlattenSeq(SoFar(a, After(s, a, m, b), kind))
           = Append(FlattenSeq(SoFar(a, m, kind)), <<b, m[b] + 1>>)
<1> DEFINE n == After(s, a, m, b)
           S == Nat \X Nat
           p == SoFar(a, m, kind)
           q == SoFar(a, n, kind)
           x == <<b, m[b] + 1>>
<1>1. IsReply(a) /\ Counts(a, m)
  BY SentCounts
<1>2. Counts(a, n)
  <2>1. IsSent(s, a, n)
    BY AfterSent
  <2> QED BY <2>1, SentCounts
<1>3. /\ \A c \in DOMAIN a : c # b => n[c] = m[c]
      /\ n[b] = m[b] + 1 /\ b \in DOMAIN a /\ m[b] \in Nat
  BY AfterFacts
<1>4. Len(a) \in Nat /\ DOMAIN a = 1..Len(a)
  BY <1>1, ReplyFacts
<1> HIDE DEF n
<1>5. /\ p \in Seq(Seq(S)) /\ Len(p) = Len(a)
      /\ \A c \in 1..Len(a) : /\ a[c].block = kind => p[c] = Pieces(c, m[c])
                              /\ a[c].block # kind => p[c] = <<>>
  BY <1>1, SoFarFacts
<1>6. /\ q \in Seq(Seq(S)) /\ Len(q) = Len(a)
      /\ \A c \in 1..Len(a) : /\ a[c].block = kind => q[c] = Pieces(c, n[c])
                              /\ a[c].block # kind => q[c] = <<>>
  BY <1>1, <1>2, SoFarFacts
<1>7. \A c \in DOMAIN a : c > b => m[c] = 0
  BY Behind
<1>8. b \in Nat /\ x \in S
  BY <1>3, <1>4
<1>9. \A c \in 1..Len(a) : Pieces(c, 0) = <<>>
  BY DEF Pieces
<1>10. Pieces(b, m[b] + 1) = Append(Pieces(b, m[b]), x)
  BY <1>3, <1>8, NextPiece
<1> HIDE DEF p, q, x, S
<1>11. GrowsAt(p, q, b, x)
  <2>1. \A c \in 1..Len(p) : c # b => q[c] = p[c]
    BY <1>3, <1>4, <1>5, <1>6
  <2>2. q[b] = Append(p[b], x)
    BY <1>3, <1>4, <1>5, <1>6, <1>10
  <2>3. \A c \in 1..Len(p) : c > b => p[c] = <<>>
    <3>1. ASSUME NEW c \in 1..Len(p), c > b PROVE p[c] = <<>>
      <4>1. m[c] = 0
        BY <1>4, <1>5, <1>7, <3>1
      <4> QED BY <1>5, <1>9, <4>1
    <3> QED BY <3>1
  <2> QED BY <1>3, <1>4, <1>5, <1>6, <2>1, <2>2, <2>3 DEF GrowsAt
<1>12. FlattenSeq(q) = Append(FlattenSeq(p), x)
  BY <1>5, <1>6, <1>8, <1>11, GrownFlatten
<1> QED BY <1>12 DEF p, q, x, n

(* It changes nothing of another kind.                                      *)
LEMMA ContentStays ==
  ASSUME NEW s, NEW a, NEW m, IsSent(s, a, m), NEW b, MayRead(s, a, m, b),
         NEW kind, a[b].block # kind
  PROVE  SoFar(a, After(s, a, m, b), kind) = SoFar(a, m, kind)
<1> DEFINE n == After(s, a, m, b)
<1>1. \A c \in DOMAIN a : c # b => n[c] = m[c]
  BY AfterFacts
<1> HIDE DEF n
<1>2. \A c \in DOMAIN a : a[c].block = kind => n[c] = m[c]
  BY <1>1
<1>3. SoFar(a, n, kind) = SoFar(a, m, kind)
  BY <1>2 DEF SoFar
<1> QED BY <1>3 DEF n

-----------------------------------------------------------------------------
LEMMA CalledFacts ==
  ASSUME NEW s, NEW a, NEW m, IsSent(s, a, m)
  PROVE  /\ Called(a, m) \in SUBSET (1..Len(a)) /\ Len(a) \in Nat
         /\ Lists(Listed(Called(a, m), Len(a)), Called(a, m), Len(a))
<1>1. Len(a) \in Nat /\ DOMAIN a = 1..Len(a)
  BY SentCounts, ReplyFacts
<1>2. Called(a, m) \in SUBSET (1..Len(a))
  BY <1>1 DEF Called, TheCalls
<1> QED BY <1>1, <1>2, ListedLists

LEMMA CallsStay ==
  ASSUME NEW s, NEW a, NEW m, IsSent(s, a, m), NEW b, MayRead(s, a, m, b), a[b].block # "call"
  PROVE  CallsAs(s, a, After(s, a, m, b)) = CallsAs(s, a, m)
<1> DEFINE n == After(s, a, m, b)
           K == Called(a, m)
           q == Listed(K, Len(a))
<1>1. \A c \in DOMAIN a : c # b => n[c] = m[c]
  BY AfterFacts
<1> HIDE DEF n
<1>2. \A c \in TheCalls(a) : n[c] = m[c]
  BY <1>1 DEF TheCalls
<1>3. Called(a, n) = K
  BY <1>2 DEF Called
<1>4. Lists(q, K, Len(a))
  BY CalledFacts
<1>5. \A k \in DOMAIN q : q[k] \in K
  BY <1>4 DEF Lists
<1>6. K \subseteq TheCalls(a)
  BY DEF Called
<1>7. CallsAs(s, a, n) = [i \in DOMAIN q |-> CallNow(s, a, q[i], n[q[i]] - 1)]
  BY <1>3 DEF CallsAs
<1>8. CallsAs(s, a, m) = [i \in DOMAIN q |-> CallNow(s, a, q[i], m[q[i]] - 1)]
  BY DEF CallsAs
<1> HIDE DEF q, K
<1>9. \A i \in DOMAIN q : n[q[i]] = m[q[i]]
  BY <1>2, <1>5, <1>6
<1>10. CallsAs(s, a, n) = CallsAs(s, a, m)
  BY <1>7, <1>8, <1>9
<1> QED BY <1>10 DEF n

(* The first event of a call adds the call at the end.                      *)
LEMMA FirstSight ==
  ASSUME NEW s, NEW a, NEW m, IsSent(s, a, m), NEW b, MayRead(s, a, m, b), a[b].block = "call", m[b] = 0
  PROVE  /\ \A i \in DOMAIN CallsAs(s, a, m) : CallsAs(s, a, m)[i].block # b
         /\ CallsAs(s, a, After(s, a, m, b))
              = Append(CallsAs(s, a, m), CallNow(s, a, b, After(s, a, m, b)[b] - 1))
<1> DEFINE n == After(s, a, m, b)
           K == Called(a, m)
           L == Called(a, n)
           q == Listed(K, Len(a))
           p == Listed(L, Len(a))
           l == Len(q)
<1>1. /\ \A c \in DOMAIN a : c # b => n[c] = m[c]
      /\ n[b] > 0 /\ b \in DOMAIN a
  BY AfterFacts
<1>2. Len(a) \in Nat /\ DOMAIN a = 1..Len(a)
  BY SentCounts, ReplyFacts
<1> HIDE DEF n
<1>3. L = K \cup {b} /\ b \notin K
  BY <1>1 DEF Called, TheCalls
<1>4. K \in SUBSET (1..Len(a)) /\ Lists(q, K, Len(a))
  BY CalledFacts
<1>5. ASSUME NEW c \in K PROVE c < b
  <2>1. c \in DOMAIN a /\ m[c] > 0
    BY DEF Called, TheCalls
  <2>2. c # b
    BY <1>3
  <2>3. ~ (c > b)
    <3>1. ASSUME c > b PROVE FALSE
      <4>1. m[c] # 0
        BY <2>1
      <4>2. m[b] > 0
        BY <2>1, <3>1, <4>1, Behind
      <4> QED BY <4>2
    <3> QED BY <3>1
  <2> QED BY <1>1, <1>2, <2>1, <2>2, <2>3
<1>6. p = Append(q, b)
  <2> HIDE DEF K, L
  <2>1. b \in 1..Len(a)
    BY <1>1, <1>2
  <2>2. \A c \in K : c < b
    BY <1>5
  <2>3. Listed(K \cup {b}, Len(a)) = Append(Listed(K, Len(a)), b)
    BY <1>2, <1>4, <2>1, <2>2, ListedGrows
  <2> QED BY <1>3, <2>3
<1>7. q \in Seq(Nat) /\ \A k \in DOMAIN q : q[k] \in K
  BY <1>4 DEF Lists
<1>8. CallsAs(s, a, n) = [i \in DOMAIN p |-> CallNow(s, a, p[i], n[p[i]] - 1)]
  BY DEF CallsAs
<1>9. CallsAs(s, a, m) = [i \in DOMAIN q |-> CallNow(s, a, q[i], m[q[i]] - 1)]
  BY DEF CallsAs
<1>10. K \subseteq DOMAIN a
  BY DEF Called, TheCalls
<1> HIDE DEF q, p, K, L
<1>11. \A i \in DOMAIN q : n[q[i]] = m[q[i]] /\ q[i] # b
  BY <1>1, <1>3, <1>7, <1>10
<1>12. b \in Nat
  BY <1>1, <1>2
<1>13. l \in Nat /\ DOMAIN q = 1..l /\ DOMAIN p = 1..(l + 1) /\ p[l + 1] = b
       /\ \A i \in 1..l : p[i] = q[i]
  BY <1>6, <1>7, <1>12
<1> HIDE DEF l
<1> DEFINE C == CallsAs(s, a, m)
           D == CallsAs(s, a, n)
           x == CallNow(s, a, b, n[b] - 1)
           R == {C[i] : i \in 1..l} \cup {x}
<1>14. C = [i \in 1..l |-> CallNow(s, a, q[i], m[q[i]] - 1)]
  BY <1>9, <1>13
<1>15. D = [i \in 1..(l + 1) |-> CallNow(s, a, p[i], n[p[i]] - 1)]
  BY <1>8, <1>13
<1> HIDE DEF C, D
<1>16. ASSUME NEW i \in 1..l PROVE C[i].block # b /\ D[i] = C[i]
  <2>1. C[i] = CallNow(s, a, q[i], m[q[i]] - 1)
    BY <1>14
  <2>2. i \in 1..(l + 1)
    BY <1>13
  <2>3. D[i] = CallNow(s, a, p[i], n[p[i]] - 1)
    BY <1>15, <2>2
  <2>4. p[i] = q[i] /\ n[q[i]] = m[q[i]] /\ q[i] # b
    BY <1>11, <1>13
  <2>5. C[i].block = q[i]
    BY <2>1 DEF CallNow
  <2> QED BY <2>1, <2>3, <2>4, <2>5
<1>17. D[l + 1] = x
  <2>1. l + 1 \in 1..(l + 1)
    BY <1>13
  <2> QED BY <1>13, <1>15, <2>1
<1> HIDE DEF x
<1>18. C \in [1..l -> R] /\ x \in R
  BY <1>14
<1>19. D \in [1..(l + 1) -> R]
  <2>1. ASSUME NEW i \in 1..(l + 1) PROVE D[i] \in R
    <3>1. i \in 1..l \/ i = l + 1
      BY <1>13
    <3>2. CASE i \in 1..l
      BY <1>16, <3>2
    <3>3. CASE i = l + 1
      BY <1>17, <3>3
    <3> QED BY <3>1, <3>2, <3>3
  <2>2. D = [i \in 1..(l + 1) |-> D[i]]
    BY <1>15
  <2> HIDE DEF R
  <2> QED BY <2>1, <2>2
<1> HIDE DEF R
<1>20. D = Append(C, x)
  <2>1. C \in Seq(R) /\ Len(C) = l /\ D \in Seq(R) /\ Len(D) = l + 1
    BY <1>13, <1>18, <1>19
  <2> DEFINE E == Append(C, x)
  <2>2. E \in Seq(R) /\ Len(E) = l + 1 /\ E[l + 1] = x /\ \A i \in 1..l : E[i] = C[i]
    BY <1>13, <1>18, <2>1
  <2> HIDE DEF E
  <2>3. ASSUME NEW i \in 1..(l + 1) PROVE D[i] = E[i]
    <3>1. i \in 1..l \/ i = l + 1
      BY <1>13
    <3> QED BY <1>16, <1>17, <2>2, <3>1
  <2>4. D = E
    BY <2>1, <2>2, <2>3, SameSeq
  <2> QED BY <2>4 DEF E
<1>21. \A i \in DOMAIN C : C[i].block # b
  BY <1>14, <1>16
<1> QED BY <1>20, <1>21 DEF C, D, x, n

(* The others are found by the block they belong to, and lengthen its       *)
(* arguments, wherever in the list it is by now.                            *)
LEMMA NextArgument ==
  ASSUME NEW s, NEW a, NEW m, IsSent(s, a, m), NEW b, MayRead(s, a, m, b), a[b].block = "call", m[b] # 0
  PROVE  \E i \in DOMAIN CallsAs(s, a, m) :
           /\ \A j \in DOMAIN CallsAs(s, a, m) : CallsAs(s, a, m)[j].block = b <=> j = i
           /\ CallsAs(s, a, After(s, a, m, b)) = Lengthened(CallsAs(s, a, m), i, <<b, m[b]>>)
<1> DEFINE n == After(s, a, m, b)
           K == Called(a, m)
           q == Listed(K, Len(a))
           C == CallsAs(s, a, m)
           D == CallsAs(s, a, n)
<1>1. /\ \A c \in DOMAIN a : c # b => n[c] = m[c]
      /\ n[b] > 0 /\ b \in DOMAIN a /\ m[b] \in Nat
      /\ n[b] = m[b] + 1
  BY AfterFacts
<1>2. Len(a) \in Nat /\ DOMAIN a = 1..Len(a)
  BY SentCounts, ReplyFacts
<1> HIDE DEF n
<1>3. Called(a, n) = K /\ b \in K
  BY <1>1 DEF Called, TheCalls
<1>4. K \in SUBSET (1..Len(a)) /\ Lists(q, K, Len(a))
  BY CalledFacts
<1>5. /\ q \in Seq(Nat) /\ \A k \in DOMAIN q : q[k] \in K
      /\ \A k, l \in DOMAIN q : q[k] = q[l] => k = l
  BY <1>4 DEF Lists
<1>6. PICK i \in DOMAIN q : q[i] = b
  <2>1. b <= Len(a)
    BY <1>1, <1>2
  <2> QED BY <1>3, <1>4, <2>1 DEF Lists
<1>7. D = [j \in DOMAIN q |-> CallNow(s, a, q[j], n[q[j]] - 1)]
  BY <1>3 DEF CallsAs
<1>8. C = [j \in DOMAIN q |-> CallNow(s, a, q[j], m[q[j]] - 1)]
  BY DEF CallsAs
<1>9. K \subseteq DOMAIN a
  BY DEF Called, TheCalls
<1> HIDE DEF K, q, C, D
<1>10. \A j \in DOMAIN C : C[j].block = q[j]
  BY <1>8 DEF CallNow
<1>11. \A j \in DOMAIN C : C[j].block = b <=> j = i
  BY <1>5, <1>6, <1>8, <1>10
<1>12. ASSUME NEW j \in DOMAIN q, j # i PROVE D[j] = C[j]
  <2>1. q[j] # b /\ q[j] \in DOMAIN a
    BY <1>5, <1>6, <1>9, <1>12
  <2>2. n[q[j]] = m[q[j]]
    BY <1>1, <2>1
  <2> QED BY <1>7, <1>8, <2>2
<1>13. D[i] = [C[i] EXCEPT !.args = Append(@, <<b, m[b]>>)]
  <2> DEFINE k == m[b] - 1
             x == <<b, m[b]>>
  <2>1. k \in Nat /\ k + 1 = m[b] /\ n[b] - 1 = k + 1 /\ b \in Nat
    BY <1>1, <1>2
  <2>2. Pieces(b, k + 1) = Append(Pieces(b, k), <<b, k + 1>>)
    BY <2>1, NextPiece
  <2>3. C[i] = CallNow(s, a, b, k) /\ D[i] = CallNow(s, a, b, k + 1)
    BY <1>6, <1>7, <1>8, <2>1
  <2>4. <<b, k + 1>> = x
    BY <2>1
  <2> HIDE DEF k, x
  <2> DEFINE p == Pieces(b, k)
             r == Pieces(b, k + 1)
             id == IF s = "ollama" THEN 0 ELSE a[b].id
             w == Append(p, x)
  <2>6. /\ C[i] = [block |-> b, id |-> id, name |-> a[b].name, args |-> p]
        /\ D[i] = [block |-> b, id |-> id, name |-> a[b].name, args |-> r]
    BY <2>3 DEF CallNow
  <2>7. r = w
    BY <2>2, <2>4
  <2> HIDE DEF p, r, id, w
  <2>8. C[i].args = p
    BY <2>6
  <2>9. [C[i] EXCEPT !.args = w] = D[i]
    BY <2>6, <2>7
  <2>5. D[i] = [C[i] EXCEPT !.args = Append(@, x)]
    BY <2>8, <2>9 DEF w
  <2> QED BY <2>5 DEF x
<1>14. D = [C EXCEPT ![i].args = Append(@, <<b, m[b]>>)]
  <2> DEFINE e == [C EXCEPT ![i].args = Append(@, <<b, m[b]>>)]
  <2>1. e = [j \in DOMAIN q |-> IF j = i THEN [C[i] EXCEPT !.args = Append(@, <<b, m[b]>>)] ELSE C[j]]
    BY <1>6, <1>8
  <2>2. \A j \in DOMAIN q : e[j] = D[j]
    <3> HIDE DEF e
    <3> QED BY <1>12, <1>13, <2>1
  <2>3. e = [j \in DOMAIN q |-> e[j]] /\ D = [j \in DOMAIN q |-> D[j]]
    <3> HIDE DEF e
    <3> QED BY <1>7, <2>1
  <2> HIDE DEF e
  <2>4. e = D
    BY <2>2, <2>3
  <2> QED BY <2>4 DEF e
<1>15. i \in DOMAIN C
  BY <1>6, <1>8
<1>16. \E j \in DOMAIN C : (\A k \in DOMAIN C : C[k].block = b <=> k = j)
         /\ D = Lengthened(C, j, <<b, m[b]>>)
  <2>1. D = Lengthened(C, i, <<b, m[b]>>)
    BY <1>14 DEF Lengthened
  <2> QED BY <1>11, <1>15, <2>1
<1> QED BY <1>16 DEF C, D, n

-----------------------------------------------------------------------------
(* What one event adds.                                                     *)

(* What the readers of the three dialects do with an event.                 *)
LEMMA Dialects ==
  ASSUME NEW soFar, NEW block, NEW b, NEW k
  PROVE  /\ ReadEvent("openai", soFar, block, b, k) = ReadOpenAI(soFar, block, b, k)
         /\ ReadEvent("anthropic", soFar, block, b, k) = ReadAnthropic(soFar, block, b, k)
         /\ ReadEvent("ollama", soFar, block, b, k) = ReadOllama(soFar, block, b, k)
<1>1. ReadEvent("openai", soFar, block, b, k) = ReadOpenAI(soFar, block, b, k)
  BY DEF ReadEvent
<1>2. ReadEvent("anthropic", soFar, block, b, k) = ReadAnthropic(soFar, block, b, k)
  BY DEF ReadEvent
<1>3. ReadEvent("ollama", soFar, block, b, k) = ReadOllama(soFar, block, b, k)
  BY DEF ReadEvent
<1> QED BY <1>1, <1>2, <1>3

LEMMA ReadsContent ==
  ASSUME NEW s \in StreamingStyles, NEW soFar, NEW block, block.block # "call", NEW b, NEW k
  PROVE  ReadEvent(s, soFar, block, b, k) = Content(soFar, b, k, block.block)
<1>1. /\ ReadOpenAI(soFar, block, b, k) = Content(soFar, b, k, block.block)
      /\ ReadAnthropic(soFar, block, b, k) = Content(soFar, b, k, block.block)
      /\ ReadOllama(soFar, block, b, k) = Content(soFar, b, k, block.block)
  BY DEF ReadOpenAI, ReadAnthropic, ReadOllama
<1> QED BY <1>1, Dialects DEF StreamingStyles

LEMMA ReadsName ==
  ASSUME NEW s \in {"openai", "anthropic"}, NEW soFar, NEW block, block.block = "call", NEW b, ~ Known(soFar, b)
  PROVE  ReadEvent(s, soFar, block, b, 0) = Pending(soFar, b, block)
<1>1. ReadOpenAI(soFar, block, b, 0) = Pending(soFar, b, block)
  BY DEF ReadOpenAI
<1>2. ReadAnthropic(soFar, block, b, 0) = Pending(soFar, b, block)
  BY DEF ReadAnthropic
<1> QED BY <1>1, <1>2, Dialects

LEMMA ReadsArgument ==
  ASSUME NEW s \in {"openai", "anthropic"}, NEW soFar, NEW block, block.block = "call", NEW b, Known(soFar, b),
         NEW k, k # 0, NEW i, i = IndexOf(soFar, b)
  PROVE  ReadEvent(s, soFar, block, b, k) = WithCalls(soFar, Lengthened(soFar.calls, i, <<b, k>>))
<1>1. ReadOpenAI(soFar, block, b, k) = WithCalls(soFar, Lengthened(soFar.calls, i, <<b, k>>))
  BY DEF ReadOpenAI, WithCalls, Lengthened
<1>2. ReadAnthropic(soFar, block, b, k) = WithCalls(soFar, Lengthened(soFar.calls, i, <<b, k>>))
  BY DEF ReadAnthropic, WithCalls, Lengthened
<1> QED BY <1>1, <1>2, Dialects

LEMMA ReadsCall ==
  ASSUME NEW s, NEW a, NEW m, IsSent(s, a, m), NEW b, MayRead(s, a, m, b), a[b].block = "call"
  PROVE  ReadEvent(s, ReadAs(s, a, m), a[b], b, m[b])
           = WithCalls(ReadAs(s, a, m), CallsAs(s, a, After(s, a, m, b)))
<1> DEFINE soFar == ReadAs(s, a, m)
           n == After(s, a, m, b)
           C == CallsAs(s, a, m)
           D == CallsAs(s, a, n)
           x == CallNow(s, a, b, n[b] - 1)
<1>1. /\ s # "ollama" => n[b] = m[b] + 1
      /\ s = "ollama" => n[b] = Events(a)[b] /\ m[b] = 0
      /\ b \in DOMAIN a /\ m[b] \in Nat
  BY AfterFacts
<1>2. IsReply(a) /\ s \in StreamingStyles
  BY DEF IsSent
<1>3. b \in Nat /\ a[b].size \in Nat /\ Events(a)[b] = a[b].size + 1
  BY <1>1, <1>2, ReplyFacts
<1>4. soFar.calls = C
  BY DEF ReadAs
<1>5. \E R : C \in Seq(R)
  <2> DEFINE q == Listed(Called(a, m), Len(a))
  <2>1. q \in Seq(Nat)
    BY CalledFacts DEF Lists
  <2>2. C = [i \in DOMAIN q |-> CallNow(s, a, q[i], m[q[i]] - 1)]
    BY DEF CallsAs
  <2> HIDE DEF q, C
  <2> DEFINE R == {C[i] : i \in DOMAIN q}
             l == Len(q)
  <2>3. DOMAIN q = 1..l /\ l \in Nat
    BY <2>1
  <2>4. C \in [1..l -> R]
    BY <2>2, <2>3
  <2> HIDE DEF R, l
  <2>5. C \in Seq(R)
    BY <2>3, <2>4
  <2> QED BY <2>5
<1>8. CASE m[b] = 0
  <2>1. (\A i \in DOMAIN C : C[i].block # b) /\ D = Append(C, x)
    BY <1>8, FirstSight
  <2> HIDE DEF C, D, soFar, n
  <2>2. ~ Known(soFar, b)
    BY <1>4, <2>1 DEF Known
  <2>3. CASE s # "ollama"
    <3>1. n[b] - 1 = 0
      BY <1>1, <1>8, <2>3
    <3>2. Pieces(b, 0) = <<>>
      BY DEF Pieces
    <3>3. x = CallOf(b, a[b], <<>>)
      BY <2>3, <3>1, <3>2 DEF CallNow, CallOf
    <3> HIDE DEF x
    <3>4. Pending(soFar, b, a[b]) = WithCalls(soFar, D)
      BY <1>4, <2>1, <3>3 DEF Pending, WithCalls
    <3>5. s \in {"openai", "anthropic"}
      BY <1>2, <2>3 DEF StreamingStyles
    <3>6. ReadEvent(s, soFar, a[b], b, 0) = Pending(soFar, b, a[b])
      BY <2>2, <3>5, ReadsName
    <3> QED BY <1>8, <3>4, <3>6 DEF D, soFar, n
  <2>4. CASE s = "ollama"
    <3> DEFINE c == CallOf(b, a[b], Pieces(b, a[b].size))
    <3>1. n[b] - 1 = a[b].size
      BY <1>1, <1>3, <2>4
    <3>2. x = [c EXCEPT !.id = 0]
      BY <2>4, <3>1 DEF CallNow, CallOf
    <3> HIDE DEF c, x
    <3>3. NewIds(<<c>>) = <<x>>
      BY <3>2 DEF NewIds
    <3>4. C \o <<x>> = Append(C, x)
      <4>1. PICK R : C \in Seq(R)
        BY <1>5
      <4> DEFINE T == R \cup {x}
      <4>2. C \in Seq(T) /\ x \in T
        BY <4>1
      <4> HIDE DEF T
      <4> QED BY <4>2, AppendIsConcat
    <3>5. ReadOllama(soFar, a[b], b, m[b]) = WithCalls(soFar, C \o NewIds(<<c>>))
      BY <1>4 DEF ReadOllama, c, WithCalls
    <3>6. ReadOllama(soFar, a[b], b, m[b]) = WithCalls(soFar, D)
      BY <2>1, <3>3, <3>4, <3>5
    <3> QED BY <2>4, <3>6, Dialects DEF D, soFar, n
  <2> QED BY <2>3, <2>4
<1>7. CASE m[b] # 0
  <2>1. PICK i \in DOMAIN C : /\ \A j \in DOMAIN C : C[j].block = b <=> j = i
                              /\ D = Lengthened(C, i, <<b, m[b]>>)
    BY <1>7, NextArgument
  <2> HIDE DEF C, D, soFar, n
  <2>2. Known(soFar, b) /\ IndexOf(soFar, b) = i
    <3>1. \E j \in DOMAIN soFar.calls : soFar.calls[j].block = b
      BY <1>4, <2>1
    <3>2. IndexOf(soFar, b) \in DOMAIN soFar.calls /\ soFar.calls[IndexOf(soFar, b)].block = b
      BY <3>1 DEF IndexOf
    <3> QED BY <1>4, <2>1, <3>1, <3>2 DEF Known
  <2>3. s # "ollama"
    BY <1>1, <1>7
  <2>5. s \in {"openai", "anthropic"}
    BY <1>2, <2>3 DEF StreamingStyles
  <2>6. ReadEvent(s, soFar, a[b], b, m[b]) = WithCalls(soFar, Lengthened(soFar.calls, i, <<b, m[b]>>))
    <3> DEFINE k == m[b]
               block == a[b]
    <3>1. k # 0 /\ block.block = "call" /\ i = IndexOf(soFar, b)
      BY <1>7, <2>2
    <3> HIDE DEF k, block
    <3>2. ReadEvent(s, soFar, block, b, k) = WithCalls(soFar, Lengthened(soFar.calls, i, <<b, k>>))
      BY <2>2, <2>5, <3>1, ReadsArgument
    <3> QED BY <3>2 DEF k, block
  <2> QED BY <1>4, <2>1, <2>6 DEF D, soFar, n
<1> QED BY <1>7, <1>8

(* Whatever the dialect, an event takes what was put together of the events *)
(* so far to what is put together of one more.                              *)
LEMMA EventRead ==
  ASSUME NEW s, NEW a, NEW m, IsSent(s, a, m), NEW b, MayRead(s, a, m, b)
  PROVE  ReadEvent(s, ReadAs(s, a, m), a[b], b, IF a[b].block = "call" THEN m[b] ELSE m[b] + 1)
           = ReadAs(s, a, After(s, a, m, b))
<1> DEFINE n == After(s, a, m, b)
           soFar == ReadAs(s, a, m)
           k == m[b] + 1
           x == <<b, k>>
<1>1. s \in StreamingStyles /\ IsReply(a) /\ b \in DOMAIN a
  BY DEF IsSent, MayRead
<1>2. a[b].block \in {"text", "thinking", "call"}
  <2>1. m[b] \in Nat /\ m[b] < Events(a)[b]
    BY AfterFacts
  <2>2. a[b].block \in {"text", "thinking", "redacted", "call"}
        /\ (a[b].block = "redacted" => Events(a)[b] = 0)
    BY <1>1, ReplyFacts
  <2> QED BY <2>1, <2>2
<1>3. CASE a[b].block = "call"
  <2>1. /\ SoFar(a, n, "text") = SoFar(a, m, "text")
        /\ SoFar(a, n, "thinking") = SoFar(a, m, "thinking")
    <3>1. a[b].block # "text" /\ a[b].block # "thinking"
      BY <1>3
    <3> QED BY <3>1, ContentStays
  <2> DEFINE t == FlattenSeq(SoFar(a, m, "text"))
             h == FlattenSeq(SoFar(a, m, "thinking"))
             C == CallsAs(s, a, m)
             D == CallsAs(s, a, n)
             f == FALSE
  <2>2. ReadEvent(s, soFar, a[b], b, m[b]) = WithCalls(soFar, D)
    BY <1>3, ReadsCall
  <2>4. soFar = [text |-> t, thinking |-> h, calls |-> C, truncated |-> f]
    BY DEF ReadAs
  <2>5. ReadAs(s, a, n) = [text |-> t, thinking |-> h, calls |-> D, truncated |-> f]
    BY <2>1 DEF ReadAs
  <2> HIDE DEF D, C, t, h, f, soFar, n
  <2>3. WithCalls(soFar, D) = ReadAs(s, a, n)
    BY <2>4, <2>5 DEF WithCalls
  <2> QED BY <1>3, <2>2, <2>3 DEF soFar, n
<1>4. CASE a[b].block # "call"
  <2>1. CallsAs(s, a, n) = CallsAs(s, a, m)
    BY <1>4, CallsStay
  <2>2. ReadEvent(s, soFar, a[b], b, k) = Content(soFar, b, k, a[b].block)
    <3> HIDE DEF soFar, k
    <3> QED BY <1>1, <1>4, ReadsContent
  <2> DEFINE t == FlattenSeq(SoFar(a, m, "text"))
             h == FlattenSeq(SoFar(a, m, "thinking"))
             C == CallsAs(s, a, m)
             kind == a[b].block
  <2>6. FlattenSeq(SoFar(a, n, kind)) = Append(FlattenSeq(SoFar(a, m, kind)), x)
    <3>1. kind # "call" /\ a[b].block = kind
      BY <1>4
    <3> HIDE DEF kind
    <3> QED BY <3>1, ContentGrows
  <2>3. soFar = [text |-> t, thinking |-> h, calls |-> C, truncated |-> FALSE]
    BY DEF ReadAs
  <2>4. CASE a[b].block = "text"
    <3>1. FlattenSeq(SoFar(a, n, "text")) = Append(t, x)
      BY <2>4, <2>6
    <3>2. SoFar(a, n, "thinking") = SoFar(a, m, "thinking")
      BY <2>4, ContentStays
    <3>3. ReadAs(s, a, n) = [text |-> Append(t, x), thinking |-> h, calls |-> C, truncated |-> FALSE]
      BY <2>1, <3>1, <3>2 DEF ReadAs
    <3> HIDE DEF t, h, C, n, soFar
    <3>4. Content(soFar, b, k, "text") = [text |-> Append(t, x), thinking |-> h, calls |-> C, truncated |-> FALSE]
      BY <2>3 DEF Content
    <3> QED BY <1>4, <2>2, <2>4, <3>3, <3>4 DEF soFar, n
  <2>5. CASE a[b].block = "thinking"
    <3>1. FlattenSeq(SoFar(a, n, "thinking")) = Append(h, x)
      BY <2>5, <2>6
    <3>2. SoFar(a, n, "text") = SoFar(a, m, "text")
      BY <2>5, ContentStays
    <3>3. ReadAs(s, a, n) = [text |-> t, thinking |-> Append(h, x), calls |-> C, truncated |-> FALSE]
      BY <2>1, <3>1, <3>2 DEF ReadAs
    <3> HIDE DEF t, h, C, n, soFar
    <3>4. Content(soFar, b, k, "thinking") = [text |-> t, thinking |-> Append(h, x), calls |-> C, truncated |-> FALSE]
      BY <2>3 DEF Content
    <3> QED BY <1>4, <2>2, <2>5, <3>3, <3>4 DEF soFar, n
  <2> QED BY <1>2, <1>4, <2>4, <2>5
<1> QED BY <1>3, <1>4

-----------------------------------------------------------------------------
(* Beginnings of the whole reply.                                           *)

(* Of a reply that has come whole.                                          *)
LEMMA WholeContent ==
  ASSUME NEW a, IsReply(a), NEW kind, kind # "call"
  PROVE  Joined(a, kind) = FlattenSeq(SoFar(a, Events(a), kind))
<1> DEFINE t == [b \in DOMAIN a |-> IF a[b].block = kind THEN Pieces(b, a[b].size) ELSE <<>>]
<1>1. \A b \in DOMAIN a : a[b].block = kind => Events(a)[b] = a[b].size
  BY ReplyFacts
<1>2. SoFar(a, Events(a), kind) = t
  BY <1>1 DEF SoFar
<1>3. Joined(a, kind) = FlattenSeq(t)
  BY DEF Joined
<1> QED BY <1>2, <1>3

LEMMA EventsCount == ASSUME NEW a, IsReply(a) PROVE Counts(a, Events(a))
<1>1. \A b \in DOMAIN a : Events(a)[b] \in Nat
  BY ReplyFacts
<1>2. Events(a) = [b \in DOMAIN a |-> Events(a)[b]]
  BY DEF Events
<1> DEFINE e == Events(a)
<1> HIDE DEF e
<1>3. e \in [DOMAIN a -> Nat]
  BY <1>1, <1>2 DEF e
<1> QED BY <1>3 DEF Counts, e

LEMMA WholeTyped ==
  ASSUME NEW a, IsReply(a), NEW kind, kind # "call"
  PROVE  Joined(a, kind) \in Seq(Nat \X Nat)
<1> DEFINE t == SoFar(a, Events(a), kind)
<1>1. t \in Seq(Seq(Nat \X Nat))
  BY EventsCount, SoFarFacts
<1> HIDE DEF t
<1>2. FlattenSeq(t) \in Seq(Nat \X Nat)
  BY <1>1, FlattenTyped
<1> QED BY <1>2, WholeContent DEF t

(* What has come of the texts is a beginning of them all: behind a block    *)
(* that is not whole nothing has come but calls.                            *)
LEMMA ContentBegins ==
  ASSUME NEW s, NEW a, NEW m, IsSent(s, a, m), NEW kind, kind # "call"
  PROVE  IsPrefixOf(FlattenSeq(SoFar(a, m, kind)), Joined(a, kind))
<1> DEFINE S == Nat \X Nat
           n == Events(a)
           p == SoFar(a, m, kind)
           q == SoFar(a, n, kind)
<1>1. IsReply(a) /\ Counts(a, m) /\ Counts(a, n)
  BY SentCounts, EventsCount
<1>2. Len(a) \in Nat /\ DOMAIN a = 1..Len(a)
  BY <1>1, ReplyFacts
<1>3. \A b \in DOMAIN a : m[b] \in Nat /\ n[b] \in Nat /\ m[b] <= n[b]
  BY <1>1 DEF IsSent, Counts
<1> HIDE DEF n
<1>4. /\ p \in Seq(Seq(S)) /\ Len(p) = Len(a)
      /\ \A c \in 1..Len(a) : /\ a[c].block = kind => p[c] = Pieces(c, m[c])
                              /\ a[c].block # kind => p[c] = <<>>
  BY <1>1, SoFarFacts
<1>5. /\ q \in Seq(Seq(S)) /\ Len(q) = Len(a)
      /\ \A c \in 1..Len(a) : /\ a[c].block = kind => q[c] = Pieces(c, n[c])
                              /\ a[c].block # kind => q[c] = <<>>
  BY <1>1, SoFarFacts
<1> HIDE DEF p, q
<1>6. ASSUME NEW c \in 1..Len(p) PROVE \E r \in Seq(S) : q[c] = p[c] \o r
  <2>1. CASE a[c].block = kind
    <3> DEFINE k == m[c]
               l == n[c]
    <3>0. c \in DOMAIN a /\ c \in Nat
      BY <1>2, <1>4
    <3>1. k \in Nat /\ l \in Nat /\ k <= l
      BY <1>3, <3>0
    <3> HIDE DEF k, l
    <3>2. \E r \in Seq(S) : Pieces(c, l) = Pieces(c, k) \o r
      BY <3>0, <3>1, MorePieces
    <3> QED BY <1>4, <1>5, <2>1, <3>2 DEF k, l
  <2>2. CASE a[c].block # kind
    <3> DEFINE e == <<>>
    <3>1. e \in Seq(S) /\ e \o e = e
      OBVIOUS
    <3>2. q[c] = e /\ p[c] = e
      BY <1>4, <1>5, <2>2
    <3> HIDE DEF e
    <3>3. q[c] = p[c] \o e
      BY <3>1, <3>2
    <3> QED BY <3>1, <3>3
  <2> QED BY <2>1, <2>2
<1>7. ASSUME NEW c \in 1..Len(p), p[c] # <<>>, NEW b \in 1..(c - 1) PROVE p[b] = q[b]
  <2>1. c \in DOMAIN a /\ b \in DOMAIN a
    BY <1>2, <1>4
  <2>2. a[c].block = kind
    BY <1>4, <1>7
  <2>3. m[c] > 0
    <3>1. Pieces(c, 0) = <<>>
      BY DEF Pieces
    <3>2. m[c] # 0
      BY <1>4, <1>7, <2>2, <3>1
    <3> QED BY <1>3, <2>1, <3>2
  <2>4. SentInTurn(s, a, m, b, c)
    BY <2>1, <2>3 DEF IsSent
  <2>5. m[b] = n[b]
    BY <2>2, <2>4 DEF SentInTurn, n
  <2> QED BY <1>2, <1>4, <1>5, <2>1, <2>5
<1>8. Begins(S, p, q)
  BY <1>4, <1>5, <1>6, <1>7 DEF Begins
<1>9. PICK r \in Seq(S) : FlattenSeq(q) = FlattenSeq(p) \o r
  BY <1>4, <1>5, <1>8, BeginsFlatten
<1> DEFINE P == FlattenSeq(p)
<1>10. P \in Seq(S)
  BY <1>4, FlattenTyped
<1> HIDE DEF P
<1>11. IsPrefixOf(P, P \o r)
  BY <1>9, <1>10, LongerIsPrefix
<1>12. Joined(a, kind) = FlattenSeq(q)
  BY <1>1, WholeContent DEF q, n
<1> QED BY <1>9, <1>11, <1>12 DEF P, p

-----------------------------------------------------------------------------
CallKept(s, a, b, k) ==
  [block |-> b, id |-> IF s = "ollama" THEN 0 ELSE a[b].id, name |-> a[b].name,
   args |-> RawArguments(Pieces(b, k), FALSE)]

(* What the reader returns at the end of the stream.                        *)
LEMMA KeptCalls ==
  ASSUME NEW s, NEW a, NEW m, NEW f
  PROVE  /\ Assembled(ReadAs(s, a, m), f).text = FlattenSeq(SoFar(a, m, "text"))
         /\ Assembled(ReadAs(s, a, m), f).thinking = FlattenSeq(SoFar(a, m, "thinking"))
         /\ Assembled(ReadAs(s, a, m), f).calls
              = LET q == Listed(Called(a, m), Len(a))
                IN  [i \in DOMAIN q |-> CallKept(s, a, q[i], m[q[i]] - 1)]
         /\ Assembled(ReadAs(s, a, m), f)
              = [text |-> Assembled(ReadAs(s, a, m), f).text,
                 thinking |-> Assembled(ReadAs(s, a, m), f).thinking,
                 calls |-> Assembled(ReadAs(s, a, m), f).calls, truncated |-> f]
<1> DEFINE t == FlattenSeq(SoFar(a, m, "text"))
           h == FlattenSeq(SoFar(a, m, "thinking"))
           C == CallsAs(s, a, m)
           q == Listed(Called(a, m), Len(a))
           no == FALSE
           D == [i \in DOMAIN C |-> Complete(C[i])]
           g == ReadAs(s, a, m)
           A == Assembled(g, f)
<1>1. g = [text |-> t, thinking |-> h, calls |-> C, truncated |-> no]
  BY DEF ReadAs
<1> HIDE DEF t, h, C, no, g
<1>8. g.text = t /\ g.thinking = h /\ g.calls = C
  BY <1>1
<1>2. A = [text |-> t, thinking |-> h, calls |-> D, truncated |-> f]
  BY <1>8 DEF Assembled
<1>3. C = [i \in DOMAIN q |-> CallNow(s, a, q[i], m[q[i]] - 1)]
  BY DEF C, CallsAs
<1> HIDE DEF q
<1>4. ASSUME NEW b, NEW k PROVE Complete(CallNow(s, a, b, k)) = CallKept(s, a, b, k)
  <2> DEFINE p == Pieces(b, k)
             x == RawArguments(p, FALSE)
             i == IF s = "ollama" THEN 0 ELSE a[b].id
             n == a[b].name
             c == CallNow(s, a, b, k)
  <2>1. c = [block |-> b, id |-> i, name |-> n, args |-> p]
    BY DEF CallNow
  <2>2. CallKept(s, a, b, k) = [block |-> b, id |-> i, name |-> n, args |-> x]
    BY DEF CallKept
  <2> HIDE DEF p, i, n, c
  <2>3. c.args = p
    BY <2>1
  <2>4. Complete(c) = [c EXCEPT !.args = x]
    BY <2>3 DEF Complete
  <2> HIDE DEF x
  <2> QED BY <2>1, <2>2, <2>4 DEF c
<1>5. D = [i \in DOMAIN q |-> CallKept(s, a, q[i], m[q[i]] - 1)]
  BY <1>3, <1>4 DEF D
<1> HIDE DEF A, D
<1>6. A.text = t /\ A.thinking = h /\ A.calls = D
  BY <1>2
<1>7. A = [text |-> A.text, thinking |-> A.thinking, calls |-> A.calls, truncated |-> f]
  BY <1>2, <1>6
<1> QED BY <1>5, <1>6, <1>7 DEF A, g, t, h, q

-----------------------------------------------------------------------------
LEMMA FlattenEmpties ==
  ASSUME NEW S, NEW s \in Seq(Seq(S)), \A i \in 1..Len(s) : s[i] = <<>>
  PROVE  FlattenSeq(s) = <<>>
<1> DEFINE n == Len(s)
<1>1. PICK f : Joins(S, s, f)
  BY JoinsExist
<1>8. n \in Nat /\ f[0] = <<>> /\ \A i \in 1..n : f[i] = f[i - 1] \o s[i]
  BY <1>1 DEF Joins
<1>2. n \in Nat /\ f[0] = <<>> /\ \A i \in 1..n : f[i] = f[i - 1] \o <<>>
  <2> HIDE DEF n
  <2>1. \A i \in 1..n : s[i] = <<>>
    BY DEF n
  <2> QED BY <1>8, <2>1
<1>3. FlattenSeq(s) = f[n]
  BY <1>1, JoinsEnd
<1> HIDE DEF n
<1> DEFINE T == {i \in Nat : i <= n => f[i] = <<>>}
<1>4. 0 \in T
  BY <1>2
<1>5. ASSUME NEW i \in T PROVE i + 1 \in T
  <2>1. i + 1 \in Nat
    OBVIOUS
  <2>2. ASSUME i + 1 <= n PROVE f[i + 1] = <<>>
    <3>1. i + 1 \in 1..n /\ (i + 1) - 1 = i /\ i <= n
      BY <1>2, <2>2
    <3>2. f[i + 1] = f[i] \o <<>> /\ f[i] = <<>>
      BY <1>2, <3>1
    <3>3. <<>> \o <<>> = <<>>
      OBVIOUS
    <3> QED BY <3>2, <3>3
  <2> QED BY <2>1, <2>2
<1>6. T = Nat
  <2>1. T \in SUBSET Nat
    OBVIOUS
  <2> HIDE DEF T
  <2> QED BY <1>4, <1>5, <2>1, Induction
<1>7. n \in T /\ n <= n
  <2> HIDE DEF T
  <2> QED BY <1>2, <1>6
<1> QED BY <1>3, <1>7

(* Of what is written between and for the blocks nothing is the service's.  *)

LEMMA TheirsKept ==
  ASSUME NEW S, NEW q \in Seq(S)
  PROVE  Only(q, Theirs) = Kept({p \in S : Theirs(p)}, S, q)
<1> DEFINE K == {p \in S : Theirs(p)}
<1>1. \A k \in DOMAIN q : q[k] \in S
  OBVIOUS
<1>2. \A k \in DOMAIN q : KeepIn(K, S)[q[k]] = IF Theirs(q[k]) THEN <<q[k]>> ELSE <<>>
  BY <1>1 DEF KeepIn
<1>3. Image(KeepIn(K, S), q) = [k \in DOMAIN q |-> IF Theirs(q[k]) THEN <<q[k]>> ELSE <<>>]
  BY <1>2 DEF Image
<1> QED BY <1>3 DEF Kept, Gather, Only

LEMMA TheirPieces ==
  ASSUME NEW b \in Nat \ {0}, NEW m \in Nat
  PROVE  Pieces(b, m) \in Seq((Nat \ {0}) \X Nat)
<1>1. Pieces(b, m) \in [1..m -> (Nat \ {0}) \X Nat]
  BY DEF Pieces
<1> QED BY <1>1

(* A text put together of pieces only is all the service's.                 *)
LEMMA AllTheirs ==
  ASSUME NEW a, IsReply(a), NEW m, Counts(a, m), NEW kind
  PROVE  Only(FlattenSeq(SoFar(a, m, kind)), Theirs) = FlattenSeq(SoFar(a, m, kind))
<1> DEFINE S == (Nat \ {0}) \X Nat
           t == SoFar(a, m, kind)
           w == FlattenSeq(t)
           K == {p \in S : Theirs(p)}
<1>1. Len(a) \in Nat /\ DOMAIN a = 1..Len(a)
  BY ReplyFacts
<1>2. ASSUME NEW b \in 1..Len(a) PROVE Pieces(b, m[b]) \in Seq(S) /\ <<>> \in Seq(S)
  <2> DEFINE k == m[b]
  <2>1. b \in Nat \ {0} /\ k \in Nat
    BY <1>1 DEF Counts
  <2>2. <<>> \in Seq(S)
    OBVIOUS
  <2> HIDE DEF k
  <2>3. Pieces(b, k) \in Seq(S)
    BY <2>1, TheirPieces
  <2> QED BY <2>2, <2>3 DEF k
<1>3. \A p \in S : Theirs(p)
  BY DEF Theirs
<1> HIDE DEF S
<1>4. t = [b \in 1..Len(a) |-> IF a[b].block = kind THEN Pieces(b, m[b]) ELSE <<>>]
  BY <1>1 DEF SoFar
<1> HIDE DEF t
<1>5. t \in [1..Len(a) -> Seq(S)]
  BY <1>2, <1>4
<1>6. t \in Seq(Seq(S))
  BY <1>1, <1>5
<1>7. w \in Seq(S)
  BY <1>6, FlattenTyped
<1> HIDE DEF w
<1>8. \A k \in 1..Len(w) : w[k] \in K
  BY <1>3, <1>7
<1>9. Only(w, Theirs) = Kept(K, S, w)
  BY <1>7, TheirsKept
<1> HIDE DEF K
<1>10. Kept(K, S, w) = w
  BY <1>7, <1>8, KeptAll
<1> QED BY <1>9, <1>10 DEF w, t

(* Blocks on lines of their own say what the pieces joined do.              *)
LEMMA LinesKept ==
  ASSUME NEW a, IsReply(a), NEW kind \in {"text", "thinking"}, NEW B,
         \A b \in B : b \in DOMAIN a /\ a[b].block \in {kind, "redacted"},
         \A b \in DOMAIN a : a[b].block = kind /\ b \notin B => a[b].size = 0
  PROVE  Only(Lines(a, B), Theirs) = Joined(a, kind)
<1> DEFINE S == Nat \X Nat
           n == Len(a)
           K == {p \in S : Theirs(p)}
           sep(b) == IF \E c \in B : c < b THEN <<NewLine>> ELSE <<>>
           t == [b \in DOMAIN a |-> IF b \in B THEN sep(b) \o Line(b, a[b]) ELSE <<>>]
           j == [b \in DOMAIN a |-> IF a[b].block = kind THEN Pieces(b, a[b].size) ELSE <<>>]
<1>1. n \in Nat /\ DOMAIN a = 1..n /\ \A b \in DOMAIN a : b \in Nat \ {0} /\ a[b].size \in Nat
  <2>1. Len(a) \in Nat /\ DOMAIN a = 1..Len(a) /\ \A b \in DOMAIN a : a[b].size \in Nat
    BY ReplyFacts
  <2> QED BY <2>1
<1>2. NewLine \in S /\ Redacted \in S /\ NewLine \notin K /\ Redacted \notin K
  BY DEF NewLine, Redacted, Theirs
<1>0. <<>> \in Seq(S) /\ <<NewLine>> \in Seq(S) /\ <<Redacted>> \in Seq(S)
  BY <1>2
<1>3. ASSUME NEW b \in 1..n
      PROVE  Pieces(b, a[b].size) \in Seq(S) /\ Kept(K, S, Pieces(b, a[b].size)) = Pieces(b, a[b].size)
  <2> DEFINE w == Pieces(b, a[b].size)
             z == a[b].size
  <2>1. z \in Nat /\ b \in Nat /\ b # 0
    BY <1>1
  <2> HIDE DEF z, S
  <2>2. Pieces(b, z) \in Seq(S) /\ Len(Pieces(b, z)) = z /\ \A k \in 1..z : Pieces(b, z)[k] = <<b, k>>
    BY <2>1, PiecesFacts DEF S
  <2>3. \A k \in 1..z : <<b, k>> \in K
    BY <2>1 DEF S, Theirs
  <2> HIDE DEF K
  <2>4. Kept(K, S, Pieces(b, z)) = Pieces(b, z)
    <3> DEFINE v == Pieces(b, z)
    <3>1. v \in Seq(S) /\ \A k \in 1..Len(v) : v[k] \in K
      BY <2>2, <2>3
    <3> HIDE DEF v
    <3>2. Kept(K, S, v) = v
      BY <3>1, KeptAll
    <3> QED BY <3>2 DEF v
  <2> QED BY <2>2, <2>4 DEF z
<1> HIDE DEF S, K
<1>4. Kept(K, S, <<>>) = <<>> /\ Kept(K, S, <<NewLine>>) = <<>> /\ Kept(K, S, <<Redacted>>) = <<>>
  BY <1>2, KeptNone, KeptOne
<1>5. ASSUME NEW b \in 1..n PROVE sep(b) \in Seq(S) /\ Kept(K, S, sep(b)) = <<>>
  BY <1>0, <1>4
<1>6. ASSUME NEW b \in 1..n, b \in B
      PROVE  /\ Line(b, a[b]) \in Seq(S)
             /\ Kept(K, S, Line(b, a[b])) = IF a[b].block = kind THEN Pieces(b, a[b].size) ELSE <<>>
  <2>1. CASE a[b].block = "redacted"
    <3>1. Line(b, a[b]) = <<Redacted>> /\ a[b].block # kind
      BY <2>1 DEF Line
    <3> QED BY <1>0, <1>4, <3>1
  <2>2. CASE a[b].block # "redacted"
    <3>1. Line(b, a[b]) = Pieces(b, a[b].size) /\ a[b].block = kind
      BY <1>6, <2>2 DEF Line
    <3> QED BY <1>3, <3>1
  <2> QED BY <2>1, <2>2
<1>7. ASSUME NEW b \in 1..n PROVE t[b] \in Seq(S) /\ Kept(K, S, t[b]) = j[b]
  <2>1. CASE b \in B
    <3> DEFINE x == sep(b)
               y == Line(b, a[b])
    <3>1. t[b] = x \o y
      BY <1>1, <2>1
    <3>2. x \in Seq(S) /\ Kept(K, S, x) = <<>>
      BY <1>5
    <3>3. y \in Seq(S) /\ Kept(K, S, y) = j[b] /\ j[b] \in Seq(S)
      BY <1>0, <1>1, <1>3, <1>6, <2>1
    <3> HIDE DEF x, y, t, j
    <3>4. x \o y \in Seq(S)
      BY <3>2, <3>3, CatFacts
    <3>5. Kept(K, S, x \o y) = Kept(K, S, x) \o Kept(K, S, y)
      BY <3>2, <3>3, KeptCat
    <3>6. <<>> \o j[b] = j[b]
      BY <3>3, CatEmpty
    <3> QED BY <3>1, <3>2, <3>3, <3>4, <3>5, <3>6
  <2>2. CASE b \notin B
    <3>1. t[b] = <<>>
      BY <1>1, <2>2
    <3>2. j[b] = <<>>
      <4>1. Pieces(b, 0) = <<>>
        BY DEF Pieces
      <4> QED BY <1>1, <2>2, <4>1
    <3> HIDE DEF t, j
    <3> QED BY <1>0, <1>4, <3>1, <3>2
  <2> QED BY <2>1, <2>2
<1>8. t \in Seq(Seq(S)) /\ DOMAIN t = 1..n
  <2>1. t = [b \in 1..n |-> t[b]]
    BY <1>1
  <2> HIDE DEF t, n
  <2>2. t \in [1..n -> Seq(S)]
    BY <1>7, <2>1
  <2> QED BY <1>1, <2>2
<1>9. Lines(a, B) = FlattenSeq(t)
  BY DEF Lines
<1>10. Joined(a, kind) = FlattenSeq(j)
  BY DEF Joined
<1>11. j = [b \in 1..n |-> j[b]]
  BY <1>1
<1> HIDE DEF t, j, n
<1>12. FlattenSeq(t) \in Seq(S)
  BY <1>8, FlattenTyped
<1>13. Only(FlattenSeq(t), Theirs) = Kept(K, S, FlattenSeq(t))
  BY <1>12, TheirsKept DEF K
<1>14. Kept(K, S, FlattenSeq(t)) = FlattenSeq([i \in DOMAIN t |-> Kept(K, S, t[i])])
  <2> DEFINE e == KeepIn(K, S)
  <2>1. Maps(e, S, Seq(S))
    BY KeepMaps
  <2>2. \A q : Kept(K, S, q) = Gather(e, q)
    BY DEF Kept
  <2> HIDE DEF e
  <2>3. Gather(e, FlattenSeq(t)) = FlattenSeq([i \in DOMAIN t |-> Gather(e, t[i])])
    <3>1. t \in Seq(Seq(S))
      BY <1>8
    <3> QED BY <2>1, <3>1, GatherFlatten
  <2> QED BY <2>2, <2>3
<1>15. [i \in DOMAIN t |-> Kept(K, S, t[i])] = j
  BY <1>7, <1>8, <1>11
<1> QED BY <1>9, <1>10, <1>13, <1>14, <1>15

-----------------------------------------------------------------------------
(* The calls that are sent, and those a whole reply is parsed to.           *)

(* What is made of some of the blocks, in their order.                      *)
LEMMA Picked ==
  ASSUME NEW a, IsReply(a), NEW K \in SUBSET (1..Len(a)), NEW u, DOMAIN u = DOMAIN a
  PROVE  FlattenSeq([b \in DOMAIN a |-> IF b \in K THEN <<u[b]>> ELSE <<>>])
           = Image(u, Listed(K, Len(a)))
<1> DEFINE n == Len(a)
           S == 1..n
           v == [b \in S |-> u[b]]
           R == {u[b] : b \in S}
           s == Stubs(K, n)
           t == [b \in DOMAIN a |-> IF b \in K THEN <<u[b]>> ELSE <<>>]
<1>1. n \in Nat /\ DOMAIN a = S
  BY ReplyFacts
<1>2. Maps(v, S, R)
  BY DEF Maps
<1>3. s \in Seq(Seq(S)) /\ DOMAIN s = S
      /\ \A b \in S : (b \in K => s[b] = <<b>>) /\ (b \notin K => s[b] = <<>>)
  <2>1. \A b \in S : <<b>> \in Seq(S) /\ <<>> \in Seq(S)
    OBVIOUS
  <2>2. s \in [1..n -> Seq(S)]
    BY <2>1 DEF Stubs
  <2>3. s \in Seq(Seq(S)) /\ DOMAIN s = S
    BY <1>1, <2>2
  <2> QED BY <2>3 DEF Stubs
<1>4. \A b \in S : v[b] = u[b]
  OBVIOUS
<1> HIDE DEF S, v, R, s
<1>6. Image(v, FlattenSeq(s)) = FlattenSeq([i \in DOMAIN s |-> Image(v, s[i])])
  BY <1>2, <1>3, FlattenImage
<1>7. ASSUME NEW b \in S PROVE Image(v, s[b]) = t[b]
  <2>1. CASE b \in K
    <3>1. s[b] = <<b>>
      BY <1>3, <2>1
    <3>2. t[b] = <<v[b]>>
      BY <1>1, <1>4, <2>1
    <3>3. Image(v, <<b>>) = <<v[b]>>
      BY DEF Image
    <3> HIDE DEF t
    <3> QED BY <3>1, <3>2, <3>3
  <2>2. CASE b \notin K
    <3>1. s[b] = <<>>
      BY <1>3, <2>2
    <3>2. t[b] = <<>>
      BY <1>1, <2>2
    <3>3. Image(v, <<>>) = <<>>
      BY DEF Image
    <3> HIDE DEF t
    <3> QED BY <3>1, <3>2, <3>3
  <2> QED BY <2>1, <2>2
<1>8. t = [b \in S |-> t[b]]
  BY <1>1
<1> HIDE DEF t
<1>9. [i \in DOMAIN s |-> Image(v, s[i])] = t
  BY <1>3, <1>7, <1>8
<1>10. FlattenSeq(s) \in Seq(S)
  BY <1>3, FlattenTyped
<1>11. Image(v, FlattenSeq(s)) = Image(u, FlattenSeq(s))
  <2> DEFINE q == FlattenSeq(s)
  <2>1. \A k \in DOMAIN q : q[k] \in S
    BY <1>10
  <2> HIDE DEF q
  <2>2. Image(v, q) = Image(u, q)
    BY <1>4, <2>1 DEF Image
  <2> QED BY <2>2 DEF q
<1> QED BY <1>6, <1>9, <1>11 DEF Listed, s, t, n

(* The blocks a reader is told of as calls, and what is sent of them.       *)
ToldOf(s, a, full) == IF s = "completions" THEN Fenced(a, full) ELSE Blocks(a, {"call"})
Label(s, a, b) == IF s \in {"ollama", "completions"} THEN 0 ELSE a[b].id
Sent(s, a, b) ==
  [block |-> b, id |-> Label(s, a, b), name |-> a[b].name, args |-> Pieces(b, a[b].size)]

LEMMA ToldFacts ==
  ASSUME NEW s, NEW a, IsReply(a), NEW full
  PROVE  /\ ToldOf(s, a, full) \in SUBSET (1..Len(a)) /\ Len(a) \in Nat
         /\ Listed(ToldOf(s, a, full), Len(a)) \in Seq(Nat)
         /\ \A i \in DOMAIN Listed(ToldOf(s, a, full), Len(a)) :
              /\ Listed(ToldOf(s, a, full), Len(a))[i] \in ToldOf(s, a, full)
              /\ Listed(ToldOf(s, a, full), Len(a))[i] \in DOMAIN a
<1> DEFINE K == ToldOf(s, a, full)
           n == Len(a)
           q == Listed(K, n)
<1>1. n \in Nat /\ DOMAIN a = 1..n
  BY ReplyFacts
<1>2. K \in SUBSET (1..n)
  BY <1>1 DEF ToldOf, Fenced, Blocks
<1> HIDE DEF K, n
<1>3. Lists(q, K, n)
  BY <1>1, <1>2, ListedLists
<1> HIDE DEF q
<1>4. q \in Seq(Nat) /\ \A i \in DOMAIN q : q[i] \in K /\ q[i] \in DOMAIN a
  BY <1>1, <1>2, <1>3 DEF Lists
<1> QED BY <1>1, <1>2, <1>4 DEF K, n, q

LEMMA SentListed ==
  ASSUME NEW s, NEW a, IsReply(a), NEW full
  PROVE  SentCalls(s, a, full)
           = LET q == Listed(ToldOf(s, a, full), Len(a)) IN [i \in DOMAIN q |-> Sent(s, a, q[i])]
<1> DEFINE K == ToldOf(s, a, full)
           q == Listed(K, Len(a))
           u == [b \in DOMAIN a |-> CallOf(b, a[b], Pieces(b, a[b].size))]
           C == FlattenSeq([b \in DOMAIN a |-> IF b \in K THEN <<u[b]>> ELSE <<>>])
<1>1. K \in SUBSET (1..Len(a)) /\ \A i \in DOMAIN q : q[i] \in DOMAIN a
  BY ToldFacts
<1>2. SentCalls(s, a, full) = IF s \in {"ollama", "completions"} THEN NewIds(C) ELSE C
  BY DEF SentCalls, ToldOf
<1>3. C = Image(u, q)
  <2>1. DOMAIN u = DOMAIN a
    OBVIOUS
  <2> HIDE DEF K, u
  <2> QED BY <1>1, <2>1, Picked
<1>4. \A b \in DOMAIN a : u[b] = CallOf(b, a[b], Pieces(b, a[b].size))
  OBVIOUS
<1> HIDE DEF K, q, u, C
<1>5. C = [i \in DOMAIN q |-> CallOf(q[i], a[q[i]], Pieces(q[i], a[q[i]].size))]
  BY <1>1, <1>3, <1>4 DEF Image
<1>6. CASE s \in {"ollama", "completions"}
  <2>1. \A b : [CallOf(b, a[b], Pieces(b, a[b].size)) EXCEPT !.id = 0] = Sent(s, a, b)
    BY <1>6 DEF CallOf, Sent, Label
  <2>2. NewIds(C) = [i \in DOMAIN q |-> Sent(s, a, q[i])]
    BY <1>5, <2>1 DEF NewIds
  <2> QED BY <1>2, <1>6, <2>2 DEF q, K
<1>7. CASE s \notin {"ollama", "completions"}
  <2>1. \A b : CallOf(b, a[b], Pieces(b, a[b].size)) = Sent(s, a, b)
    BY <1>7 DEF CallOf, Sent, Label
  <2>2. C = [i \in DOMAIN q |-> Sent(s, a, q[i])]
    BY <1>5, <2>1
  <2> QED BY <1>2, <1>7, <2>2 DEF q, K
<1> QED BY <1>6, <1>7

(* The arguments a whole reply's call is given.                             *)
WholeArgs(a, b) ==
  IF Pieces(b, a[b].size) # <<>> /\ Pieces(b, a[b].size) \in JSON
  THEN Pieces(b, a[b].size) ELSE EmptyObject

LEMMA ArgumentsWhole ==
  ASSUME NEW a, NEW b
  PROVE  /\ RawArguments(Pieces(b, a[b].size), TRUE) = WholeArgs(a, b)
         /\ Pieces(b, a[b].size) \in JSON \cup {<<>>} =>
              RawArguments(Pieces(b, a[b].size), FALSE) = WholeArgs(a, b)
<1> DEFINE x == Pieces(b, a[b].size)
<1>1. WholeArgs(a, b) = IF x # <<>> /\ x \in JSON THEN x ELSE EmptyObject
  BY DEF WholeArgs
<1> HIDE DEF x
<1>2. RawArguments(x, TRUE) = WholeArgs(a, b)
  BY <1>1 DEF RawArguments
<1>3. x \in JSON \cup {<<>>} => RawArguments(x, FALSE) = WholeArgs(a, b)
  BY <1>1 DEF RawArguments
<1> QED BY <1>2, <1>3 DEF x

LEMMA CallsMade ==
  ASSUME NEW a, IsReply(a), NEW K \in SUBSET (1..Len(a)), NEW strings \in BOOLEAN,
         \A b \in K : RawArguments(Pieces(b, a[b].size), strings) = WholeArgs(a, b)
  PROVE  CallsIn(a, K, strings)
           = LET q == Listed(K, Len(a)) IN [i \in DOMAIN q |-> CallOf(q[i], a[q[i]], WholeArgs(a, q[i]))]
<1> DEFINE q == Listed(K, Len(a))
           u == [b \in DOMAIN a |-> CallOf(b, a[b], WholeArgs(a, b))]
           C == FlattenSeq([b \in DOMAIN a |-> IF b \in K THEN <<u[b]>> ELSE <<>>])
<1>1. \A i \in DOMAIN q : q[i] \in DOMAIN a
  <2>1. Len(a) \in Nat /\ DOMAIN a = 1..Len(a)
    BY ReplyFacts
  <2>2. Lists(q, K, Len(a))
    BY <2>1, ListedLists
  <2>3. \A i \in DOMAIN q : q[i] \in K
    BY <2>2 DEF Lists
  <2> QED BY <2>1, <2>3
<1>2. CallsIn(a, K, strings) = C
  <2>1. \A b \in DOMAIN a : b \in K =>
          CallOf(b, a[b], RawArguments(Pieces(b, a[b].size), strings)) = u[b]
    OBVIOUS
  <2> HIDE DEF u
  <2>2. [b \in DOMAIN a |-> IF b \in K
           THEN <<CallOf(b, a[b], RawArguments(Pieces(b, a[b].size), strings))>> ELSE <<>>]
          = [b \in DOMAIN a |-> IF b \in K THEN <<u[b]>> ELSE <<>>]
    BY <2>1
  <2> QED BY <2>2 DEF CallsIn
<1>3. C = Image(u, q)
  <2>1. DOMAIN u = DOMAIN a
    OBVIOUS
  <2> HIDE DEF u
  <2> QED BY <2>1, Picked
<1>4. \A b \in DOMAIN a : u[b] = CallOf(b, a[b], WholeArgs(a, b))
  OBVIOUS
<1> HIDE DEF q, u, C
<1>5. C = [i \in DOMAIN q |-> CallOf(q[i], a[q[i]], WholeArgs(a, q[i]))]
  BY <1>1, <1>3, <1>4 DEF Image
<1> QED BY <1>2, <1>5 DEF q

(* What a dialect can carry, in a reply that is not streamed.               *)
Carried(s, a) ==
  /\ \A b \in DOMAIN a : a[b].block = "thinking" => s # "completions"
  /\ s \in {"ollama", "anthropic"} =>
       \A b \in Blocks(a, {"call"}) : Pieces(b, a[b].size) \in JSON \cup {<<>>}

LEMMA ReplyFields ==
  ASSUME NEW t, NEW h, NEW c, NEW f
  PROVE  Reply(t, h, c, f).text = t /\ Reply(t, h, c, f).thinking = h /\ Reply(t, h, c, f).calls = c
BY DEF Reply

(* What a whole reply is parsed to, field by field, in each dialect.         *)
LEMMA ParsedOpenAI ==
  ASSUME NEW a, NEW f
  PROVE  /\ ParseFullReply("openai", a, f).text = Joined(a, "text")
         /\ ParseFullReply("openai", a, f).thinking = Joined(a, "thinking")
         /\ ParseFullReply("openai", a, f).calls = CallsIn(a, Blocks(a, {"call"}), TRUE)
<1> DEFINE t == Joined(a, "text")
           h == Joined(a, "thinking")
           c == CallsIn(a, Blocks(a, {"call"}), TRUE)
           W == ParseFullReply("openai", a, f)
           P == ParseOpenAIChat(a, f)
<1>1. W = P
  BY DEF ParseFullReply
<1>2. P = Reply(t, h, c, f)
  BY DEF ParseOpenAIChat
<1> HIDE DEF t, h, c, W, P
<1>3. W.text = t /\ W.thinking = h /\ W.calls = c
  BY <1>1, <1>2, ReplyFields
<1> QED BY <1>3 DEF t, h, c, W

LEMMA ParsedResponses ==
  ASSUME NEW a, NEW f
  PROVE  /\ ParseFullReply("responses", a, f).text = Lines(a, Blocks(a, {"text"}))
         /\ ParseFullReply("responses", a, f).thinking = Lines(a, {b \in Blocks(a, {"thinking"}) : a[b].size > 0})
         /\ ParseFullReply("responses", a, f).calls = CallsIn(a, Blocks(a, {"call"}), TRUE)
<1> DEFINE t == Lines(a, Blocks(a, {"text"}))
           h == Lines(a, {b \in Blocks(a, {"thinking"}) : a[b].size > 0})
           c == CallsIn(a, Blocks(a, {"call"}), TRUE)
           W == ParseFullReply("responses", a, f)
           P == ParseResponses(a, f)
<1>1. W = P
  BY DEF ParseFullReply
<1>2. P = Reply(t, h, c, f)
  BY DEF ParseResponses
<1> HIDE DEF t, h, c, W, P
<1>3. W.text = t /\ W.thinking = h /\ W.calls = c
  BY <1>1, <1>2, ReplyFields
<1> QED BY <1>3 DEF t, h, c, W

LEMMA ParsedAnthropic ==
  ASSUME NEW a, NEW f
  PROVE  /\ ParseFullReply("anthropic", a, f).text = Lines(a, Blocks(a, {"text"}))
         /\ ParseFullReply("anthropic", a, f).thinking = Lines(a, Blocks(a, {"thinking", "redacted"}))
         /\ ParseFullReply("anthropic", a, f).calls = CallsIn(a, Blocks(a, {"call"}), FALSE)
<1> DEFINE t == Lines(a, Blocks(a, {"text"}))
           h == Lines(a, Blocks(a, {"thinking", "redacted"}))
           c == CallsIn(a, Blocks(a, {"call"}), FALSE)
           W == ParseFullReply("anthropic", a, f)
           P == ParseAnthropic(a, f)
<1>1. W = P
  BY DEF ParseFullReply
<1>2. P = Reply(t, h, c, f)
  BY DEF ParseAnthropic
<1> HIDE DEF t, h, c, W, P
<1>3. W.text = t /\ W.thinking = h /\ W.calls = c
  BY <1>1, <1>2, ReplyFields
<1> QED BY <1>3 DEF t, h, c, W

LEMMA ParsedOllama ==
  ASSUME NEW a, NEW f
  PROVE  /\ ParseFullReply("ollama", a, f).text = Joined(a, "text")
         /\ ParseFullReply("ollama", a, f).thinking = Joined(a, "thinking")
         /\ ParseFullReply("ollama", a, f).calls = NewIds(CallsIn(a, Blocks(a, {"call"}), FALSE))
<1> DEFINE t == Joined(a, "text")
           h == Joined(a, "thinking")
           c == NewIds(CallsIn(a, Blocks(a, {"call"}), FALSE))
           W == ParseFullReply("ollama", a, f)
           P == ParseOllama(a, f)
<1>1. W = P
  BY DEF ParseFullReply
<1>2. P = Reply(t, h, c, f)
  BY DEF ParseOllama
<1> HIDE DEF t, h, c, W, P
<1>3. W.text = t /\ W.thinking = h /\ W.calls = c
  BY <1>1, <1>2, ReplyFields
<1> QED BY <1>3 DEF t, h, c, W

LEMMA ParsedCompletions ==
  ASSUME NEW a, NEW f
  PROVE  /\ ParseFullReply("completions", a, f).text = FlattenSeq([b \in DOMAIN a |->
               CASE a[b].block = "text" -> Pieces(b, a[b].size)
                 [] b \in Open(a, f) -> <<<<b, 0>>>> \o Pieces(b, a[b].size)
                 [] OTHER -> <<>>])
         /\ ParseFullReply("completions", a, f).thinking = <<>>
         /\ ParseFullReply("completions", a, f).calls = NewIds(CallsIn(a, Fenced(a, f), FALSE))
<1> DEFINE t == FlattenSeq([b \in DOMAIN a |->
             CASE a[b].block = "text" -> Pieces(b, a[b].size)
               [] b \in Open(a, f) -> <<<<b, 0>>>> \o Pieces(b, a[b].size)
               [] OTHER -> <<>>])
           h == <<>>
           c == NewIds(CallsIn(a, Fenced(a, f), FALSE))
           W == ParseFullReply("completions", a, f)
           P == ParseCompletions(a, f)
<1>1. W = P
  BY DEF ParseFullReply
<1>2. P = Reply(t, h, c, f)
  BY DEF ParseCompletions
<1> HIDE DEF t, h, c, W, P
<1>3. W.text = t /\ W.thinking = h /\ W.calls = c
  BY <1>1, <1>2, ReplyFields
<1> QED BY <1>3 DEF t, h, c, W

WholeCall(s, a, b) ==
  [block |-> b, id |-> Label(s, a, b), name |-> a[b].name, args |-> WholeArgs(a, b)]

LEMMA WholeCalls ==
  ASSUME NEW s \in Styles, NEW a, IsReply(a), NEW full, Carried(s, a)
  PROVE  ParseFullReply(s, a, full).calls
           = LET q == Listed(ToldOf(s, a, full), Len(a)) IN [i \in DOMAIN q |-> WholeCall(s, a, q[i])]
<1> DEFINE W == ParseFullReply(s, a, full)
           K == ToldOf(s, a, full)
           q == Listed(K, Len(a))
           C == [i \in DOMAIN q |-> CallOf(q[i], a[q[i]], WholeArgs(a, q[i]))]
<1>1. K \in SUBSET (1..Len(a))
  BY ToldFacts
<1>2. \A b \in K : RawArguments(Pieces(b, a[b].size), TRUE) = WholeArgs(a, b)
  BY ArgumentsWhole
<1>3. CallsIn(a, K, TRUE) = C
  <2> HIDE DEF K
  <2> QED BY <1>1, <1>2, CallsMade
<1>4. ASSUME \A b \in K : Pieces(b, a[b].size) \in JSON \cup {<<>>}
      PROVE  CallsIn(a, K, FALSE) = C
  <2>1. \A b \in K : RawArguments(Pieces(b, a[b].size), FALSE) = WholeArgs(a, b)
    BY <1>4, ArgumentsWhole
  <2> HIDE DEF K
  <2> QED BY <1>1, <2>1, CallsMade
<1>5. s # "completions" => K = Blocks(a, {"call"})
  BY DEF ToldOf
<1>6. s = "completions" => K = Fenced(a, full)
  BY DEF ToldOf
<1>7. s \notin {"ollama", "completions"} => C = [i \in DOMAIN q |-> WholeCall(s, a, q[i])]
  <2>1. ASSUME s \notin {"ollama", "completions"}
        PROVE  \A b : CallOf(b, a[b], WholeArgs(a, b)) = WholeCall(s, a, b)
    BY <2>1 DEF CallOf, WholeCall, Label
  <2> HIDE DEF q
  <2> QED BY <2>1
<1>8. s \in {"ollama", "completions"} => NewIds(C) = [i \in DOMAIN q |-> WholeCall(s, a, q[i])]
  <2>1. ASSUME s \in {"ollama", "completions"}
        PROVE  \A b : [CallOf(b, a[b], WholeArgs(a, b)) EXCEPT !.id = 0] = WholeCall(s, a, b)
    BY <2>1 DEF CallOf, WholeCall, Label
  <2> HIDE DEF q
  <2>2. C = [i \in DOMAIN q |-> CallOf(q[i], a[q[i]], WholeArgs(a, q[i]))]
    OBVIOUS
  <2> HIDE DEF C
  <2> QED BY <2>1, <2>2 DEF NewIds
<1> HIDE DEF C, K, q
<1>9. CASE s = "openai"
  <2>1. W.calls = CallsIn(a, K, TRUE)
    BY <1>5, <1>9, ParsedOpenAI DEF W
  <2> QED BY <1>3, <1>7, <1>9, <2>1 DEF W, q, K
<1>10. CASE s = "responses"
  <2>1. W.calls = CallsIn(a, K, TRUE)
    BY <1>5, <1>10, ParsedResponses DEF W
  <2> QED BY <1>3, <1>7, <1>10, <2>1 DEF W, q, K
<1>11. CASE s = "anthropic"
  <2>1. W.calls = CallsIn(a, K, FALSE)
    BY <1>5, <1>11, ParsedAnthropic DEF W
  <2>2. \A b \in K : Pieces(b, a[b].size) \in JSON \cup {<<>>}
    BY <1>5, <1>11 DEF Carried
  <2> QED BY <1>4, <1>7, <1>11, <2>1, <2>2 DEF W, q, K
<1>12. CASE s = "ollama"
  <2>1. W.calls = NewIds(CallsIn(a, K, FALSE))
    BY <1>5, <1>12, ParsedOllama DEF W
  <2>2. \A b \in K : Pieces(b, a[b].size) \in JSON \cup {<<>>}
    BY <1>5, <1>12 DEF Carried
  <2> QED BY <1>4, <1>8, <1>12, <2>1, <2>2 DEF W, q, K
<1>13. CASE s = "completions"
  <2>1. W.calls = NewIds(CallsIn(a, K, FALSE))
    BY <1>6, <1>13, ParsedCompletions DEF W
  <2>2. \A b \in K : Pieces(b, a[b].size) \in JSON \cup {<<>>}
    BY <1>6, <1>13 DEF Fenced
  <2> QED BY <1>4, <1>8, <1>13, <2>1, <2>2 DEF W, q, K
<1> QED BY <1>9, <1>10, <1>11, <1>12, <1>13 DEF Styles

(* The text of a legacy completion: all texts, and the open fence, which is *)
(* behind them all.                                                         *)
LEMMA CompletionText ==
  ASSUME NEW a, IsReply(a), NEW full \in BOOLEAN
  PROVE  /\ ~full => ParseFullReply("completions", a, full).text = Joined(a, "text")
         /\ IsPrefixOf(Joined(a, "text"), ParseFullReply("completions", a, full).text)
<1> DEFINE S == Nat \X Nat
           n == Len(a)
           open == Open(a, full)
           stub(b) == <<<<b, 0>>>> \o Pieces(b, a[b].size)
           j == [b \in DOMAIN a |-> IF a[b].block = "text" THEN Pieces(b, a[b].size) ELSE <<>>]
           t == [b \in DOMAIN a |-> CASE a[b].block = "text" -> Pieces(b, a[b].size)
                                      [] b \in open -> <<<<b, 0>>>> \o Pieces(b, a[b].size)
                                      [] OTHER -> <<>>]
<1>1. n \in Nat /\ DOMAIN a = 1..n /\ \A b \in DOMAIN a : b \in Nat /\ a[b].size \in Nat
  <2>1. Len(a) \in Nat /\ DOMAIN a = 1..Len(a) /\ \A b \in DOMAIN a : a[b].size \in Nat
    BY ReplyFacts
  <2> QED BY <2>1
<1>2. ParseFullReply("completions", a, full).text = FlattenSeq(t)
  BY ParsedCompletions
<1>3. Joined(a, "text") = FlattenSeq(j)
  BY DEF Joined
<1>4. \A b \in open : b = n /\ a[b].block = "call" /\ full
  BY DEF Open, Blocks
<1>5. ASSUME NEW b \in 1..n PROVE Pieces(b, a[b].size) \in Seq(S) /\ stub(b) \in Seq(S) /\ <<>> \in Seq(S)
  <2> DEFINE z == a[b].size
             p == Pieces(b, z)
             f == <<<<b, 0>>>>
  <2>1. z \in Nat /\ b \in Nat
    BY <1>1
  <2>2. f \in Seq(S) /\ <<>> \in Seq(S)
    BY <2>1
  <2> HIDE DEF z, S
  <2>3. p \in Seq(S)
    BY <2>1, PiecesFacts DEF S
  <2> HIDE DEF p, f
  <2>4. f \o p \in Seq(S)
    BY <2>2, <2>3, CatFacts
  <2> QED BY <2>2, <2>3, <2>4 DEF p, f, z
<1> HIDE DEF S, open
<1>6. ASSUME NEW b \in 1..n
      PROVE  /\ b \in open => t[b] = stub(b) /\ j[b] = <<>>
             /\ b \notin open => t[b] = j[b]
             /\ j[b] \in Seq(S)
  <2>1. b \in DOMAIN a
    BY <1>1
  <2>2. CASE a[b].block = "text"
    <3>1. b \notin open
      BY <1>4, <2>2
    <3> QED BY <1>5, <2>1, <2>2, <3>1
  <2>3. CASE a[b].block # "text"
    BY <1>5, <2>1, <2>3
  <2> QED BY <2>2, <2>3
<1>7. t = [b \in 1..n |-> t[b]] /\ j = [b \in 1..n |-> j[b]]
  BY <1>1
<1> HIDE DEF t, j, n, stub
<1>8. t \in Seq(Seq(S)) /\ Len(t) = n /\ j \in Seq(Seq(S)) /\ Len(j) = n
  <2>1. \A b \in 1..n : t[b] \in Seq(S) /\ j[b] \in Seq(S)
    <3>1. \A b \in 1..n : stub(b) \in Seq(S)
      BY <1>5 DEF stub
    <3> QED BY <1>6, <3>1
  <2>2. t \in [1..n -> Seq(S)] /\ j \in [1..n -> Seq(S)]
    BY <1>7, <2>1
  <2> QED BY <1>1, <2>2
<1>9. ASSUME ~full PROVE t = j
  <2>1. \A b \in 1..n : t[b] = j[b]
    BY <1>4, <1>6, <1>9
  <2> QED BY <1>7, <2>1
<1>10. ASSUME NEW c \in 1..n PROVE \E r \in Seq(S) : t[c] = j[c] \o r
  <2> DEFINE e == <<>>
             f == stub(c)
             x == j[c]
  <2>1. e \in Seq(S) /\ f \in Seq(S) /\ x \in Seq(S)
    BY <1>5, <1>6 DEF stub
  <2>2. <<>> \o f = f /\ x \o <<>> = x
    BY <2>1, CatEmpty
  <2>3. CASE c \in open
    <3>1. t[c] = f /\ x = e
      BY <1>6, <2>3
    <3>2. t[c] = x \o f
      BY <2>2, <3>1
    <3> QED BY <2>1, <3>2
  <2>4. CASE c \notin open
    <3>1. t[c] = x \o e
      BY <1>6, <2>2, <2>4
    <3> QED BY <2>1, <3>1
  <2> QED BY <2>3, <2>4
<1>11. ASSUME NEW c \in 1..n, NEW b \in 1..(c - 1) PROVE j[b] = t[b]
  <2>1. b \in 1..n /\ b # n
    BY <1>1
  <2> QED BY <1>4, <1>6, <2>1
<1>12. Begins(S, j, t)
  BY <1>8, <1>10, <1>11 DEF Begins
<1>13. PICK r \in Seq(S) : FlattenSeq(t) = FlattenSeq(j) \o r
  BY <1>8, <1>12, BeginsFlatten
<1> DEFINE J == FlattenSeq(j)
<1>14. J \in Seq(S)
  BY <1>8, FlattenTyped
<1> HIDE DEF J
<1>15. IsPrefixOf(J, J \o r)
  BY <1>13, <1>14, LongerIsPrefix
<1> QED BY <1>2, <1>3, <1>9, <1>13, <1>15 DEF J

LEMMA WholeTexts ==
  ASSUME NEW s \in Styles, NEW a, IsReply(a), NEW full \in BOOLEAN, Carried(s, a)
  PROVE  /\ Only(ParseFullReply(s, a, full).thinking, Theirs) = Joined(a, "thinking")
         /\ ~ (s = "completions" /\ full) =>
              Only(ParseFullReply(s, a, full).text, Theirs) = Joined(a, "text")
         /\ s = "completions" /\ full =>
              IsPrefixOf(Joined(a, "text"), ParseFullReply(s, a, full).text)
<1> DEFINE W == ParseFullReply(s, a, full)
           t == Joined(a, "text")
           h == Joined(a, "thinking")
<1>1. ASSUME NEW kind, kind # "call" PROVE Only(Joined(a, kind), Theirs) = Joined(a, kind)
  <2>1. Joined(a, kind) = FlattenSeq(SoFar(a, Events(a), kind))
    BY <1>1, WholeContent
  <2>2. Counts(a, Events(a))
    BY EventsCount
  <2>3. Only(FlattenSeq(SoFar(a, Events(a), kind)), Theirs) = FlattenSeq(SoFar(a, Events(a), kind))
    BY <2>2, AllTheirs
  <2> QED BY <2>1, <2>3
<1>2. Only(t, Theirs) = t /\ Only(h, Theirs) = h
  <2>1. "text" # "call" /\ "thinking" # "call"
    OBVIOUS
  <2> QED BY <1>1, <2>1
<1>3. Only(Lines(a, Blocks(a, {"text"})), Theirs) = t
  <2> DEFINE B == Blocks(a, {"text"})
  <2>1. /\ \A b \in B : b \in DOMAIN a /\ a[b].block \in {"text", "redacted"}
        /\ \A b \in DOMAIN a : a[b].block = "text" /\ b \notin B => a[b].size = 0
    BY DEF Blocks
  <2> HIDE DEF B
  <2>2. Only(Lines(a, B), Theirs) = Joined(a, "text")
    BY <2>1, LinesKept
  <2> QED BY <2>2 DEF B
<1>4. Only(Lines(a, Blocks(a, {"thinking", "redacted"})), Theirs) = h
  <2> DEFINE B == Blocks(a, {"thinking", "redacted"})
  <2>1. /\ \A b \in B : b \in DOMAIN a /\ a[b].block \in {"thinking", "redacted"}
        /\ \A b \in DOMAIN a : a[b].block = "thinking" /\ b \notin B => a[b].size = 0
    BY DEF Blocks
  <2> HIDE DEF B
  <2>2. Only(Lines(a, B), Theirs) = Joined(a, "thinking")
    BY <2>1, LinesKept
  <2> QED BY <2>2 DEF B
<1>5. Only(Lines(a, {b \in Blocks(a, {"thinking"}) : a[b].size > 0}), Theirs) = h
  <2> DEFINE B == {b \in Blocks(a, {"thinking"}) : a[b].size > 0}
  <2>0. \A b \in DOMAIN a : a[b].size \in Nat
    BY ReplyFacts
  <2>1. \A b \in B : b \in DOMAIN a /\ a[b].block \in {"thinking", "redacted"}
    BY DEF Blocks
  <2>3. ASSUME NEW b \in DOMAIN a, a[b].block = "thinking", b \notin B PROVE a[b].size = 0
    <3> DEFINE z == a[b].size
    <3>1. z \in Nat /\ ~ (z > 0)
      BY <2>0, <2>3 DEF Blocks
    <3> HIDE DEF z
    <3>2. z = 0
      BY <3>1
    <3> QED BY <3>2 DEF z
  <2> HIDE DEF B
  <2>2. Only(Lines(a, B), Theirs) = Joined(a, "thinking")
    BY <2>1, <2>3, LinesKept
  <2> QED BY <2>2 DEF B
<1> HIDE DEF t, h
<1>6. CASE s = "openai"
  <2>1. W.text = t /\ W.thinking = h
    BY <1>6, ParsedOpenAI DEF W, t, h
  <2> QED BY <1>2, <1>6, <2>1 DEF t, h
<1>7. CASE s = "ollama"
  <2>1. W.text = t /\ W.thinking = h
    BY <1>7, ParsedOllama DEF W, t, h
  <2> QED BY <1>2, <1>7, <2>1 DEF t, h
<1>8. CASE s = "anthropic"
  <2>1. W.text = Lines(a, Blocks(a, {"text"})) /\ W.thinking = Lines(a, Blocks(a, {"thinking", "redacted"}))
    BY <1>8, ParsedAnthropic DEF W
  <2> QED BY <1>3, <1>4, <1>8, <2>1 DEF t, h
<1>9. CASE s = "responses"
  <2>1. /\ W.text = Lines(a, Blocks(a, {"text"}))
        /\ W.thinking = Lines(a, {b \in Blocks(a, {"thinking"}) : a[b].size > 0})
    BY <1>9, ParsedResponses DEF W
  <2> QED BY <1>3, <1>5, <1>9, <2>1 DEF t, h
<1>10. CASE s = "completions"
  <2>1. W.thinking = <<>>
    BY <1>10, ParsedCompletions DEF W
  <2>2. h = <<>>
    <3> DEFINE j == [b \in DOMAIN a |-> IF a[b].block = "thinking" THEN Pieces(b, a[b].size) ELSE <<>>]
               S == Nat \X Nat
    <3>1. Len(a) \in Nat /\ DOMAIN a = 1..Len(a)
      BY ReplyFacts
    <3>2. \A b \in DOMAIN a : a[b].block # "thinking"
      BY <1>10 DEF Carried
    <3>3. j = [b \in 1..Len(a) |-> <<>>]
      BY <3>1, <3>2
    <3>4. h = FlattenSeq(j)
      BY DEF h, Joined
    <3> HIDE DEF j
    <3>5. <<>> \in Seq(S)
      OBVIOUS
    <3>6. j \in [1..Len(a) -> Seq(S)] /\ \A b \in 1..Len(a) : j[b] = <<>>
      BY <3>3, <3>5
    <3>7. j \in Seq(Seq(S)) /\ Len(j) = Len(a)
      BY <3>1, <3>6
    <3> HIDE DEF S
    <3>8. FlattenSeq(j) = <<>>
      BY <3>6, <3>7, FlattenEmpties
    <3> QED BY <3>4, <3>8
  <2>3. ~full => W.text = t
    BY <1>10, CompletionText DEF t
  <2>4. full => IsPrefixOf(t, W.text)
    BY <1>10, CompletionText DEF t
  <2> QED BY <1>2, <1>10, <2>1, <2>2, <2>3, <2>4 DEF t, h
<1> QED BY <1>6, <1>7, <1>8, <1>9, <1>10 DEF Styles

-----------------------------------------------------------------------------
(* What is kept at the end of a stream, or of a whole reply.                *)

(* What is kept of a reply is what the property says.                       *)
KeptOf(s, a, full, cut, streams, kept) ==
  LET sent == SentCalls(s, a, full)
      text == Joined(a, "text")
      usable(args) == args # <<>> /\ (streams \/ args \in JSON)
      isWhole(part, whole) == IF cut THEN IsPrefixOf(part, whole) ELSE part = whole
  IN  /\ isWhole(Only(kept.thinking, Theirs), Joined(a, "thinking"))
      /\ IF s = "completions" /\ full
         THEN IsPrefixOf(text, kept.text)
         ELSE isWhole(Only(kept.text, Theirs), text)
      /\ IF cut THEN Len(kept.calls) <= Len(sent) ELSE Len(kept.calls) = Len(sent)
      /\ \A i \in DOMAIN kept.calls :
           /\ kept.calls[i].id = sent[i].id
           /\ kept.calls[i].name = sent[i].name
           /\ IF cut
              THEN IsPrefixOf(kept.calls[i].args, sent[i].args) \/ kept.calls[i].args = EmptyObject
              ELSE kept.calls[i].args = IF usable(sent[i].args) THEN sent[i].args ELSE EmptyObject

(* Arguments that were cut are a beginning, or taken for an empty object.   *)
LEMMA ArgumentsBegin ==
  ASSUME NEW b \in Nat, NEW k \in Nat, NEW l \in Nat, k <= l
  PROVE  \/ IsPrefixOf(RawArguments(Pieces(b, k), FALSE), Pieces(b, l))
         \/ RawArguments(Pieces(b, k), FALSE) = EmptyObject
<1> DEFINE S == Nat \X Nat
           p == Pieces(b, k)
           q == Pieces(b, l)
<1>1. p \in Seq(S)
  BY PiecesFacts
<1>2. PICK r \in Seq(S) : q = p \o r
  BY MorePieces
<1> HIDE DEF p, q, S
<1>3. RawArguments(p, FALSE) \in {p, EmptyObject}
  BY DEF RawArguments
<1>4. IsPrefixOf(p, p \o r)
  BY <1>1, <1>2, LongerIsPrefix
<1> QED BY <1>2, <1>3, <1>4 DEF p, q

(* The end of a stream, and of one that was cut.                            *)
LEMMA StreamKept ==
  ASSUME NEW s, NEW a, NEW m, IsSent(s, a, m), NEW full \in BOOLEAN, NEW cut \in BOOLEAN,
         ~cut => m = Events(a)
  PROVE  KeptOf(s, a, full, cut, TRUE, Assembled(ReadAs(s, a, m), full /\ ~cut))
<1> DEFINE f == full /\ ~cut
           kept == Assembled(ReadAs(s, a, m), f)
           sent == SentCalls(s, a, full)
           K == Called(a, m)
           L == TheCalls(a)
           n == Len(a)
           q == Listed(K, n)
           p == Listed(L, n)
           t == FlattenSeq(SoFar(a, m, "text"))
           h == FlattenSeq(SoFar(a, m, "thinking"))
<1>1. IsReply(a) /\ s \in StreamingStyles /\ Counts(a, m)
  BY SentCounts DEF IsSent
<1>2. n \in Nat /\ DOMAIN a = 1..n
  BY <1>1, ReplyFacts
<1>3. L \in SUBSET (1..n) /\ K \in SUBSET (1..n) /\ K \subseteq L
  BY <1>2 DEF TheCalls, Called
<1>4. /\ kept.text = t /\ kept.thinking = h
      /\ kept.calls = [i \in DOMAIN q |-> CallKept(s, a, q[i], m[q[i]] - 1)]
  BY KeptCalls
<1>0. s # "completions"
  BY <1>1 DEF StreamingStyles
<1>5. sent = [i \in DOMAIN p |-> Sent(s, a, p[i])]
  <2>1. ToldOf(s, a, full) = L
    BY <1>0 DEF ToldOf, Blocks, TheCalls
  <2> HIDE DEF L
  <2> QED BY <1>1, <2>1, SentListed
<1>6. \A c \in L : Events(a)[c] = a[c].size + 1 /\ a[c].size \in Nat /\ m[c] \in Nat /\ m[c] <= Events(a)[c] /\ c \in Nat
  BY <1>1, <1>2, ReplyFacts DEF TheCalls, Counts, IsSent
<1>7. Lists(q, K, n) /\ Lists(p, L, n)
  BY <1>2, <1>3, ListedLists
<1>8. /\ q \in Seq(Nat) /\ (\A i \in DOMAIN q : q[i] \in K)
      /\ p \in Seq(Nat) /\ (\A i \in DOMAIN p : p[i] \in L)
  BY <1>7 DEF Lists
<1>9. Only(t, Theirs) = t /\ Only(h, Theirs) = h
  BY <1>1, AllTheirs
<1>10. /\ IsPrefixOf(t, Joined(a, "text")) /\ IsPrefixOf(h, Joined(a, "thinking"))
       /\ ~cut => t = Joined(a, "text") /\ h = Joined(a, "thinking")
  <2>1. IsPrefixOf(t, Joined(a, "text")) /\ IsPrefixOf(h, Joined(a, "thinking"))
    BY ContentBegins
  <2>2. ASSUME ~cut PROVE t = Joined(a, "text") /\ h = Joined(a, "thinking")
    BY <1>1, <2>2, WholeContent
  <2> QED BY <2>1, <2>2
<1>11. PICK r \in Seq(Nat) : p = q \o r
  <2>1. ASSUME NEW c \in K, NEW d \in L, d < c PROVE d \in K
    <3>1. c \in DOMAIN a /\ m[c] > 0 /\ d \in 1..(c - 1)
      BY <1>2, <1>3, <2>1 DEF Called, TheCalls
    <3>2. SentInTurn(s, a, m, d, c)
      BY <3>1 DEF IsSent
    <3>3. m[d] > 0
      BY <1>6, <3>2 DEF SentInTurn
    <3> QED BY <3>3 DEF Called
  <2>2. \A c \in K : \A d \in L : d < c => d \in K
    BY <2>1
  <2> HIDE DEF K, L, n
  <2> QED BY <1>2, <1>3, <2>2, ListedBegins
<1>12. ~cut => q = p /\ \A c \in L : m[c] - 1 = a[c].size
  <2>1. ASSUME ~cut PROVE \A c \in L : m[c] > 0 /\ m[c] - 1 = a[c].size
    BY <1>6, <2>1
  <2>2. ASSUME ~cut PROVE K = L
    BY <2>1, <2>2 DEF Called
  <2> QED BY <2>1, <2>2
<1> HIDE DEF f, kept, sent, q, p, K, L, n, t, h
<1>13. /\ Len(q) \in Nat /\ Len(p) \in Nat /\ Len(q) <= Len(p) /\ DOMAIN q = 1..Len(q) /\ DOMAIN p = 1..Len(p)
       /\ \A i \in 1..Len(q) : p[i] = q[i]
  <2> DEFINE c == q \o r
  <2>1. /\ Len(c) = Len(q) + Len(r) /\ Len(q) \in Nat /\ Len(r) \in Nat
        /\ \A i \in 1..Len(q) : c[i] = q[i]
    BY <1>8, CatFacts
  <2>2. p = c
    BY <1>11
  <2> HIDE DEF c
  <2>3. DOMAIN q = 1..Len(q) /\ DOMAIN p = 1..Len(p)
    BY <1>8
  <2> QED BY <2>1, <2>2, <2>3
<1>14. Len(kept.calls) = Len(q) /\ DOMAIN kept.calls = 1..Len(q) /\ Len(sent) = Len(p)
  <2> DEFINE l == Len(q)
             o == Len(p)
  <2>1. l \in Nat /\ o \in Nat
    BY <1>13
  <2>2. kept.calls = [i \in 1..l |-> CallKept(s, a, q[i], m[q[i]] - 1)]
    BY <1>4, <1>13
  <2>3. sent = [i \in 1..o |-> Sent(s, a, p[i])]
    BY <1>5, <1>13
  <2> HIDE DEF l, o
  <2>4. Len(kept.calls) = l /\ DOMAIN kept.calls = 1..l
    BY <2>1, <2>2
  <2>5. Len(sent) = o
    BY <2>1, <2>3
  <2> QED BY <2>4, <2>5 DEF l, o
<1>15. ASSUME NEW i \in DOMAIN kept.calls
       PROVE  /\ kept.calls[i].id = sent[i].id /\ kept.calls[i].name = sent[i].name
              /\ IsPrefixOf(kept.calls[i].args, sent[i].args) \/ kept.calls[i].args = EmptyObject
              /\ ~cut => kept.calls[i].args = IF sent[i].args # <<>> THEN sent[i].args ELSE EmptyObject
  <2> DEFINE b == q[i]
             k == m[b] - 1
             l == a[b].size
  <2>1. i \in DOMAIN q /\ i \in DOMAIN p /\ p[i] = b /\ b \in K /\ b \in L
    BY <1>3, <1>8, <1>13, <1>14
  <2>2. b \in Nat /\ k \in Nat /\ l \in Nat /\ k <= l
    <3>1. m[b] > 0
      BY <2>1 DEF K, Called
    <3> QED BY <1>6, <2>1, <3>1
  <2>3. kept.calls[i] = CallKept(s, a, b, k)
    BY <1>4, <2>1
  <2>4. sent[i] = Sent(s, a, b)
    BY <1>5, <2>1
  <2>5. ~cut => k = l
    BY <1>12, <2>1
  <2>6. sent[i].args = Pieces(b, l) /\ sent[i].name = a[b].name /\ sent[i].id = Label(s, a, b)
    BY <2>4 DEF Sent
  <2> HIDE DEF b, k, l
  <2>7. /\ kept.calls[i].args = RawArguments(Pieces(b, k), FALSE)
        /\ kept.calls[i].name = a[b].name
        /\ kept.calls[i].id = IF s = "ollama" THEN 0 ELSE a[b].id
    BY <2>3 DEF CallKept
  <2>8. kept.calls[i].id = sent[i].id
    BY <1>0, <2>6, <2>7 DEF Label
  <2>9. \/ IsPrefixOf(RawArguments(Pieces(b, k), FALSE), Pieces(b, l))
        \/ RawArguments(Pieces(b, k), FALSE) = EmptyObject
    BY <2>2, ArgumentsBegin
  <2>10. ASSUME ~cut
         PROVE kept.calls[i].args = IF sent[i].args # <<>> THEN sent[i].args ELSE EmptyObject
    <3> DEFINE x == Pieces(b, l)
    <3> HIDE DEF x
    <3>1. kept.calls[i].args = RawArguments(x, FALSE) /\ sent[i].args = x
      BY <2>5, <2>6, <2>7, <2>10 DEF x
    <3>2. RawArguments(x, FALSE) = IF x # <<>> THEN x ELSE EmptyObject
      BY DEF RawArguments
    <3> QED BY <3>1, <3>2
  <2> QED BY <2>6, <2>7, <2>8, <2>9, <2>10
<1>16. IF cut THEN Len(kept.calls) <= Len(sent) ELSE Len(kept.calls) = Len(sent)
  BY <1>12, <1>13, <1>14
<1>17. KeptOf(s, a, full, cut, TRUE, kept)
  BY <1>0, <1>4, <1>9, <1>10, <1>15, <1>16 DEF KeptOf, sent
<1> QED BY <1>17 DEF kept, f

(* A reply that was not streamed.                                           *)
LEMMA WholeKept ==
  ASSUME NEW s \in Styles, NEW a, IsReply(a), NEW full \in BOOLEAN, Carried(s, a)
  PROVE  KeptOf(s, a, full, FALSE, FALSE, ParseFullReply(s, a, full))
<1> DEFINE W == ParseFullReply(s, a, full)
           sent == SentCalls(s, a, full)
           q == Listed(ToldOf(s, a, full), Len(a))
<1>1. W.calls = [i \in DOMAIN q |-> WholeCall(s, a, q[i])]
  BY WholeCalls
<1>2. sent = [i \in DOMAIN q |-> Sent(s, a, q[i])]
  BY SentListed
<1>3. q \in Seq(Nat)
  BY ToldFacts
<1>4. /\ Only(W.thinking, Theirs) = Joined(a, "thinking")
      /\ ~ (s = "completions" /\ full) => Only(W.text, Theirs) = Joined(a, "text")
      /\ s = "completions" /\ full => IsPrefixOf(Joined(a, "text"), W.text)
  BY WholeTexts
<1> HIDE DEF W, sent, q
<1>5. Len(W.calls) = Len(sent) /\ DOMAIN W.calls = DOMAIN q
  <2> DEFINE l == Len(q)
  <2>1. l \in Nat /\ DOMAIN q = 1..l
    BY <1>3
  <2> HIDE DEF l
  <2>2. /\ W.calls = [i \in 1..l |-> WholeCall(s, a, q[i])]
        /\ sent = [i \in 1..l |-> Sent(s, a, q[i])]
    BY <1>1, <1>2, <2>1
  <2>3. Len(W.calls) = l
    BY <2>1, <2>2
  <2>4. Len(sent) = l
    BY <2>1, <2>2
  <2> QED BY <1>1, <2>3, <2>4
<1>6. ASSUME NEW i \in DOMAIN W.calls
      PROVE  /\ W.calls[i].id = sent[i].id /\ W.calls[i].name = sent[i].name
             /\ W.calls[i].args
                  = IF sent[i].args # <<>> /\ sent[i].args \in JSON THEN sent[i].args ELSE EmptyObject
  <2> DEFINE b == q[i]
  <2>1. W.calls[i] = WholeCall(s, a, b) /\ sent[i] = Sent(s, a, b)
    BY <1>1, <1>2, <1>5
  <2> HIDE DEF b
  <2>2. /\ W.calls[i].id = Label(s, a, b) /\ W.calls[i].name = a[b].name
        /\ W.calls[i].args = WholeArgs(a, b)
    BY <2>1 DEF WholeCall
  <2>3. /\ sent[i].id = Label(s, a, b) /\ sent[i].name = a[b].name
        /\ sent[i].args = Pieces(b, a[b].size)
    BY <2>1 DEF Sent
  <2> QED BY <2>2, <2>3 DEF WholeArgs
<1>7. KeptOf(s, a, full, FALSE, FALSE, W)
  BY <1>4, <1>5, <1>6 DEF KeptOf, sent
<1> QED BY <1>7 DEF W

-----------------------------------------------------------------------------
(* The invariant of the reader, and one event more.                         *)

(* Before the first event nothing has been put together.                    *)
LEMMA NothingRead ==
  ASSUME NEW s \in StreamingStyles, NEW a, IsReply(a), NEW m, m = [b \in DOMAIN a |-> 0]
  PROVE  IsSent(s, a, m) /\ ReadAs(s, a, m) = NothingYet
<1>1. m \in [DOMAIN a -> Nat] /\ \A b \in DOMAIN a : m[b] = 0
  OBVIOUS
<1>2. Len(a) \in Nat /\ DOMAIN a = 1..Len(a) /\ \A b \in DOMAIN a : Events(a)[b] \in Nat
  BY ReplyFacts
<1>3. \A b \in DOMAIN a : m[b] <= Events(a)[b]
  BY <1>1, <1>2
<1>4. IsSent(s, a, m)
  BY <1>1, <1>3 DEF IsSent
<1>5. ASSUME NEW kind PROVE FlattenSeq(SoFar(a, m, kind)) = <<>>
  <2> DEFINE t == SoFar(a, m, kind)
             S == Nat \X Nat
  <2>1. /\ t \in Seq(Seq(S)) /\ Len(t) = Len(a)
        /\ \A b \in 1..Len(a) : /\ a[b].block = kind => t[b] = Pieces(b, m[b])
                                /\ a[b].block # kind => t[b] = <<>>
    BY <1>1, SoFarFacts DEF Counts
  <2>2. \A b \in 1..Len(a) : Pieces(b, 0) = <<>>
    BY DEF Pieces
  <2> HIDE DEF t, S
  <2>3. \A b \in 1..Len(t) : t[b] = <<>>
    BY <1>1, <1>2, <2>1, <2>2
  <2>4. FlattenSeq(t) = <<>>
    BY <2>1, <2>3, FlattenEmpties
  <2> QED BY <2>4 DEF t
<1>6. CallsAs(s, a, m) = <<>>
  <2> DEFINE q == Listed(Called(a, m), Len(a))
  <2>1. Called(a, m) = {}
    BY <1>1 DEF Called, TheCalls
  <2>2. q \in Seq(Nat) /\ \A k \in DOMAIN q : q[k] \in {}
    BY <1>4, <2>1, CalledFacts DEF Lists
  <2> HIDE DEF q
  <2>3. DOMAIN q = {}
    BY <2>2
  <2>4. CallsAs(s, a, m) = [i \in DOMAIN q |-> CallNow(s, a, q[i], m[q[i]] - 1)]
    BY DEF CallsAs, q
  <2> QED BY <2>3, <2>4
<1>7. ReadAs(s, a, m) = NothingYet
  <2>1. FlattenSeq(SoFar(a, m, "text")) = <<>> /\ FlattenSeq(SoFar(a, m, "thinking")) = <<>>
    BY <1>5
  <2> QED BY <1>6, <2>1 DEF ReadAs, NothingYet
<1> QED BY <1>4, <1>7

-----------------------------------------------------------------------------
(* While a stream is read, what has been put together is what has come of   *)
(* the service's reply.                                                     *)
ReadOf == [b \in DOMAIN answer |-> Events(answer)[b] - left[b]]
LeftToRead ==
  DOMAIN left = DOMAIN answer /\ \A b \in DOMAIN answer : left[b] \in 0..Events(answer)[b]
Reading ==
  phase = "reading" =>
    /\ Streams /\ LeftToRead
    /\ IsSent(style, answer, ReadOf)
    /\ got = ReadAs(style, answer, ReadOf)
    /\ shown = got.text
NotReading == phase \notin {"idle", "reading"} => got = NothingYet /\ shown = <<>>
Replied ==
  outcome.how = "reply" =>
    /\ phase = "idle"
    /\ KeptOf(style, answer, limit, outcome.cut, Streams, outcome.reply)
    /\ shown # <<>> => shown = outcome.reply.text
ReadInv == Reading /\ NotReading /\ Replied

LEMMA RepliesAreReplies == \A a \in Answers : IsReply(a)
BY ConversationAssumption DEF IsReply

LEMMA KindGrows ==
  ASSUME NEW s, NEW a, NEW m, IsSent(s, a, m), NEW b, MayRead(s, a, m, b), a[b].block # "call"
  PROVE  FlattenSeq(SoFar(a, After(s, a, m, b), a[b].block))
           = Append(FlattenSeq(SoFar(a, m, a[b].block)), <<b, m[b] + 1>>)
<1> DEFINE kind == a[b].block
<1>1. kind # "call" /\ a[b].block = kind
  OBVIOUS
<1> HIDE DEF kind
<1>2. FlattenSeq(SoFar(a, After(s, a, m, b), kind)) = Append(FlattenSeq(SoFar(a, m, kind)), <<b, m[b] + 1>>)
  BY <1>1, ContentGrows
<1> QED BY <1>2 DEF kind

LEMMA TextGrows ==
  ASSUME NEW s, NEW a, NEW m, IsSent(s, a, m), NEW b, MayRead(s, a, m, b), a[b].block = "text"
  PROVE  FlattenSeq(SoFar(a, After(s, a, m, b), "text")) = Append(FlattenSeq(SoFar(a, m, "text")), <<b, m[b] + 1>>)
<1>1. a[b].block # "call"
  OBVIOUS
<1>2. FlattenSeq(SoFar(a, After(s, a, m, b), a[b].block))
        = Append(FlattenSeq(SoFar(a, m, a[b].block)), <<b, m[b] + 1>>)
  BY <1>1, KindGrows, SMTT(30)
<1> QED BY <1>2

(* What one more event changes.                                             *)
LEMMA ReadOne ==
  ASSUME ReadInv, NEW b \in DOMAIN left, ReadPiece(b)
  PROVE  ReadInv'
<1> DEFINE m == ReadOf
           E == Events(answer)
           k == E[b] - left[b]
           n == After(style, answer, m, b)
<1>1. /\ phase = "reading" /\ InTurn(b)
      /\ left' = [left EXCEPT ![b] = IF Whole(b) THEN 0 ELSE @ - 1]
      /\ got' = ReadEvent(style, got, answer[b], b, IF answer[b].block = "call" THEN k ELSE k + 1)
      /\ shown' = IF answer[b].block = "text"
                  THEN Append(shown, <<b, IF answer[b].block = "call" THEN k ELSE k + 1>>) ELSE shown
      /\ phase' = phase /\ style' = style /\ streaming' = streaming /\ answer' = answer
      /\ outcome' = outcome /\ limit' = limit
  BY DEF ReadPiece, route, asked
<1>2. /\ Streams /\ LeftToRead /\ IsSent(style, answer, m)
      /\ got = ReadAs(style, answer, m) /\ shown = got.text
  BY <1>1 DEF ReadInv, Reading
<1>3. IsReply(answer) /\ style \in StreamingStyles
  BY <1>2 DEF IsSent
<1>4. DOMAIN left = DOMAIN answer /\ b \in DOMAIN answer
      /\ \A c \in DOMAIN answer : left[c] \in 0..E[c] /\ E[c] \in Nat /\ m[c] = E[c] - left[c]
  BY <1>2, <1>3, ReplyFacts DEF LeftToRead, ReadOf
<1>5. m[b] = k
  BY <1>4
<1>6. Len(answer) \in Nat /\ DOMAIN answer = 1..Len(answer)
  BY <1>3, ReplyFacts
<1>7. MayRead(style, answer, m, b)
  <2>1. left[b] > 0 /\ m[b] < E[b]
    <3> DEFINE x == left[b]
               y == E[b]
    <3>1. x > 0 /\ x \in 0..y /\ y \in Nat /\ m[b] = y - x
      BY <1>1, <1>4 DEF InTurn
    <3> HIDE DEF x, y, m
    <3>2. x > 0 /\ m[b] < y
      BY <3>1
    <3> QED BY <3>2 DEF x, y
  <2>2. ASSUME NEW c \in 1..(b - 1) PROVE SentInTurn(style, answer, m, c, b)
    <3>1. c \in DOMAIN answer
      BY <1>4, <1>6
    <3>2. \/ left[c] = 0
          \/ /\ style = "openai" /\ left[c] <= answer[c].size
             /\ answer[c].block = "call" /\ answer[b].block = "call"
      BY <1>1 DEF InTurn, Named
    <3> DEFINE x == left[c]
               y == E[c]
               z == answer[c].size
    <3>3. x \in 0..y /\ y \in Nat /\ m[c] = y - x
      BY <1>4, <3>1
    <3>4. z \in Nat /\ (answer[c].block = "call" => y = z + 1)
      BY <1>3, <3>1, ReplyFacts
    <3> HIDE DEF m
    <3>5. CASE x = 0
      <4> HIDE DEF x, y, z
      <4>1. m[c] = y
        BY <3>3, <3>5
      <4> QED BY <4>1 DEF SentInTurn, y
    <3>6. CASE style = "openai" /\ x <= z /\ answer[c].block = "call" /\ answer[b].block = "call"
      <4> HIDE DEF x, y, z
      <4>1. m[c] > 0
        BY <3>3, <3>4, <3>6
      <4> QED BY <3>6, <4>1 DEF SentInTurn
    <3> QED BY <3>2, <3>5, <3>6
  <2> QED BY <1>4, <2>1, <2>2 DEF MayRead
<1>8. IsSent(style, answer, n)
  BY <1>2, <1>7, AfterSent
<1>9. ReadEvent(style, ReadAs(style, answer, m), answer[b], b, IF answer[b].block = "call" THEN m[b] ELSE m[b] + 1)
        = ReadAs(style, answer, n)
  BY <1>2, <1>7, EventRead
<1>10. got' = ReadAs(style, answer, n)
  <2> HIDE DEF m, k, n
  <2> QED BY <1>1, <1>2, <1>5, <1>9
<1>11. /\ n \in [DOMAIN answer -> Nat]
       /\ \A c \in DOMAIN answer : c # b => n[c] = m[c]
       /\ answer[b].block # "call" \/ style # "ollama" => n[b] = m[b] + 1
       /\ answer[b].block = "call" /\ style = "ollama" => n[b] = E[b] /\ m[b] = 0
  BY <1>2, <1>7, AfterFacts
<1> HIDE DEF n
<1>12. /\ DOMAIN left' = DOMAIN left
       /\ \A c \in DOMAIN left : c # b => left'[c] = left[c]
       /\ left'[b] = IF Whole(b) THEN 0 ELSE left[b] - 1
  BY <1>1, <1>4
<1>13. left'[b] \in 0..E[b] /\ n[b] = E[b] - left'[b]
  <2> DEFINE x == left[b]
             y == E[b]
             z == left'[b]
  <2>1. x \in 0..y /\ y \in Nat /\ x > 0 /\ m[b] = y - x /\ z = IF Whole(b) THEN 0 ELSE x - 1
    BY <1>1, <1>4, <1>12 DEF InTurn
  <2>2. CASE Whole(b)
    <3>1. n[b] = y
      BY <1>11, <2>2 DEF Whole
    <3> HIDE DEF x, y, z, m
    <3>2. z \in 0..y /\ n[b] = y - z
      BY <2>1, <2>2, <3>1
    <3> QED BY <3>2 DEF y, z
  <2>3. CASE ~ Whole(b)
    <3>1. n[b] = m[b] + 1
      BY <1>11, <2>3 DEF Whole
    <3> HIDE DEF x, y, z, m
    <3>2. z \in 0..y /\ n[b] = y - z
      BY <2>1, <2>3, <3>1
    <3> QED BY <3>2 DEF y, z
  <2> QED BY <2>2, <2>3
<1>14. Events(answer)' = E
  BY <1>1 DEF Events
<1>15. LeftToRead'
  BY <1>1, <1>4, <1>12, <1>13, <1>14 DEF LeftToRead
<1>16. ReadOf' = n
  <2>1. ReadOf' = [c \in DOMAIN answer |-> E[c] - left'[c]]
    BY <1>1, <1>14 DEF ReadOf
  <2>2. \A c \in DOMAIN answer : n[c] = E[c] - left'[c]
    BY <1>4, <1>11, <1>12, <1>13
  <2>3. n = [c \in DOMAIN answer |-> n[c]]
    BY <1>11
  <2> HIDE DEF E, m
  <2> QED BY <2>1, <2>2, <2>3
<1>17. shown' = got'.text
  <2> DEFINE t == FlattenSeq(SoFar(answer, m, "text"))
             u == FlattenSeq(SoFar(answer, n, "text"))
  <2>1. got.text = t /\ got'.text = u
    BY <1>2, <1>10 DEF ReadAs
  <2>2. CASE answer[b].block = "text"
    <3> HIDE DEF m, t, u, k, E
    <3>2. FlattenSeq(SoFar(answer, After(style, answer, m, b), "text"))
            = Append(FlattenSeq(SoFar(answer, m, "text")), <<b, m[b] + 1>>)
      BY <1>2, <1>7, <2>2, TextGrows
    <3>3. u = Append(t, <<b, k + 1>>)
      BY <1>5, <3>2 DEF n, t, u
    <3>4. shown' = Append(shown, <<b, k + 1>>)
      BY <1>1, <2>2 DEF k, E
    <3> QED BY <1>2, <2>1, <3>3, <3>4
  <2>3. CASE answer[b].block # "text"
    <3>1. SoFar(answer, n, "text") = SoFar(answer, m, "text")
      <4> HIDE DEF m
      <4> QED BY <1>2, <1>7, <2>3, ContentStays DEF n
    <3>2. shown' = shown
      BY <1>1, <2>3
    <3> QED BY <1>2, <2>1, <3>1, <3>2
  <2> QED BY <2>2, <2>3
<1>18. Streams'
  BY <1>1, <1>2 DEF Streams
<1>19. Reading'
  BY <1>1, <1>8, <1>10, <1>15, <1>16, <1>17, <1>18 DEF Reading
<1>20. NotReading'
  BY <1>1 DEF NotReading
<1>21. Replied'
  BY <1>1 DEF ReadInv, Replied
<1> QED BY <1>19, <1>20, <1>21 DEF ReadInv

-----------------------------------------------------------------------------
(* Every step keeps it.                                                     *)

LEMMA ReadAtFirst == ASSUME Init PROVE ReadInv
<1>1. phase = "idle" /\ outcome.how = "none"
  BY DEF Init, Silent
<1> QED BY <1>1 DEF ReadInv, Reading, NotReading, Replied

(* Before the stream begins no step puts anything together.                 *)
LEMMA NotYetRead ==
  ASSUME ReadInv, phase \notin {"idle", "reading"}, phase' # "reading", got' = got, shown' = shown,
         outcome' = outcome \/ outcome'.how # "reply"
  PROVE  ReadInv'
<1>1. outcome'.how # "reply"
  BY DEF ReadInv, Replied
<1>2. got = NothingYet /\ shown = <<>>
  BY DEF ReadInv, NotReading
<1>3. Reading'
  BY DEF Reading
<1>4. NotReading'
  BY <1>2 DEF NotReading
<1>5. Replied'
  BY <1>1 DEF Replied
<1> QED BY <1>3, <1>4, <1>5 DEF ReadInv

LEMMA ReadRests ==
  ASSUME ReadInv, UNCHANGED <<phase, style, streaming, answer, limit, left, got, shown, outcome>>
  PROVE  ReadInv'
<1>1. Events(answer)' = Events(answer)
  BY DEF Events
<1>2. ReadOf' = ReadOf /\ LeftToRead' = LeftToRead /\ Streams' = Streams
  BY <1>1 DEF ReadOf, LeftToRead, Streams
<1>3. Reading'
  BY <1>2 DEF ReadInv, Reading
<1>4. NotReading'
  BY DEF ReadInv, NotReading
<1>5. Replied'
  <2>1. ASSUME outcome.how = "reply"
        PROVE KeptOf(style', answer', limit', outcome'.cut, Streams', outcome'.reply)
    BY <1>2, <2>1 DEF ReadInv, Replied
  <2>2. ASSUME outcome.how = "reply"
        PROVE KeptOf(style, answer, limit, outcome.cut, Streams, outcome.reply)'
    BY <2>1, <2>2 DEF KeptOf
  <2> QED BY <2>2 DEF ReadInv, Replied
<1> QED BY <1>3, <1>4, <1>5 DEF ReadInv

(* The stream begins, or the whole reply is there.                          *)
LEMMA ReadFromStart ==
  ASSUME ReadInv, ValuesTyped, NEW a \in Answers, NEW full \in BOOLEAN, Answer(a, full)
  PROVE  ReadInv'
<1>1. /\ phase = "waiting" /\ serves.style = style /\ answer' = a /\ limit' = full
      /\ left' = IF Streams THEN Events(a) ELSE <<>>
      /\ style' = style /\ streaming' = streaming /\ got' = got /\ shown' = shown
      /\ Carries(a)
  BY DEF Answer, route, asked, reader
<1>2. IsReply(a)
  BY RepliesAreReplies
<1>3. style \in Styles
  BY <1>1, ClientAssumption DEF ValuesTyped
<1>4. got = NothingYet /\ shown = <<>> /\ outcome.how # "reply"
  BY <1>1 DEF ReadInv, NotReading, Replied
<1>5. CASE Streams
  <2>1. phase' = "reading" /\ outcome' = outcome /\ left' = Events(a)
    BY <1>1, <1>5 DEF Answer
  <2>2. Streams' /\ style \in StreamingStyles
    BY <1>1, <1>5 DEF Streams
  <2>3. Events(answer)' = Events(a)
    BY <1>1 DEF Events
  <2>4. \A b \in DOMAIN a : Events(a)[b] \in Nat
    BY <1>2, ReplyFacts
  <2>5. DOMAIN Events(a) = DOMAIN a
    BY DEF Events
  <2>6. LeftToRead'
    BY <1>1, <2>1, <2>3, <2>4, <2>5 DEF LeftToRead
  <2> DEFINE m == [b \in DOMAIN a |-> 0]
  <2>7. ReadOf' = m
    <3>1. ReadOf' = [b \in DOMAIN a |-> Events(a)[b] - Events(a)[b]]
      BY <1>1, <2>1, <2>3 DEF ReadOf
    <3>2. \A b \in DOMAIN a : Events(a)[b] - Events(a)[b] = 0
      BY <2>4
    <3> QED BY <3>1, <3>2
  <2>8. IsSent(style, a, m) /\ ReadAs(style, a, m) = NothingYet
    BY <1>2, <2>2, NothingRead
  <2>9. NothingYet.text = <<>>
    BY DEF NothingYet
  <2> HIDE DEF m
  <2>10. Reading'
    BY <1>1, <1>4, <2>2, <2>6, <2>7, <2>8, <2>9 DEF Reading
  <2>11. NotReading' /\ Replied'
    BY <1>4, <2>1 DEF NotReading, Replied
  <2> QED BY <2>10, <2>11 DEF ReadInv
<1>6. CASE ~ Streams
  <2> DEFINE W == ParseFullReply(style, a, full)
             f == FALSE
  <2>1. phase' = "idle" /\ outcome' = [how |-> "reply", cut |-> f, reply |-> W]
    BY <1>6 DEF Answer, Ends
  <2> HIDE DEF W, f
  <2>2. outcome'.cut = f /\ outcome'.reply = W
    BY <2>1
  <2>7. Carried(style, a)
    BY <1>1, <1>6 DEF Carries, Carried
  <2>3. KeptOf(style, a, full, f, Streams, W)
    <3>1. KeptOf(style, a, full, FALSE, FALSE, ParseFullReply(style, a, full))
      BY <1>2, <1>3, <2>7, WholeKept
    <3> QED BY <1>6, <3>1 DEF KeptOf, f, W
  <2>8. Streams' = Streams
    BY <1>1 DEF Streams
  <2>4. KeptOf(style, answer, limit, outcome.cut, Streams, outcome.reply)'
    <3>1. KeptOf(style', answer', limit', outcome'.cut, Streams', outcome'.reply)
      BY <1>1, <2>2, <2>3, <2>8
    <3> QED BY <3>1 DEF KeptOf
  <2>5. Replied'
    BY <1>1, <1>4, <2>1, <2>4 DEF Replied
  <2>6. Reading' /\ NotReading'
    BY <2>1 DEF Reading, NotReading
  <2> QED BY <2>5, <2>6 DEF ReadInv
<1> QED BY <1>5, <1>6

(* The stream ends.                                                         *)
LEMMA ReadToEnd ==
  ASSUME ReadInv, ValuesTyped, NEW cut \in BOOLEAN, StreamEnds(cut)
  PROVE  ReadInv'
<1> DEFINE R == Assembled(got, limit /\ ~cut)
<1>1. /\ phase = "reading" /\ phase' = "idle" /\ (~cut => AllSent)
      /\ outcome' = [how |-> "reply", cut |-> cut, reply |-> R]
      /\ style' = style /\ answer' = answer /\ limit' = limit /\ got' = got /\ shown' = shown
      /\ streaming' = streaming
  BY DEF StreamEnds, Ends, route, asked, reply, reader
<1>2. /\ Streams /\ LeftToRead /\ IsSent(style, answer, ReadOf)
      /\ got = ReadAs(style, answer, ReadOf) /\ shown = got.text
  BY <1>1 DEF ReadInv, Reading
<1>3. IsReply(answer)
  BY <1>2 DEF IsSent
<1>4. ASSUME ~cut PROVE ReadOf = Events(answer)
  <2>1. \A b \in DOMAIN answer : left[b] = 0 /\ Events(answer)[b] \in Nat
    BY <1>1, <1>2, <1>3, <1>4, ReplyFacts DEF AllSent, LeftToRead
  <2>2. \A b \in DOMAIN answer : Events(answer)[b] - left[b] = Events(answer)[b]
    BY <2>1
  <2>3. Events(answer) = [b \in DOMAIN answer |-> Events(answer)[b]]
    BY DEF Events
  <2> QED BY <2>2, <2>3 DEF ReadOf
<1>5. limit \in BOOLEAN
  BY DEF ValuesTyped
<1>6. KeptOf(style, answer, limit, cut, TRUE, R)
  <2> DEFINE m == ReadOf
  <2> HIDE DEF m
  <2>1. IsSent(style, answer, m) /\ (~cut => m = Events(answer))
    BY <1>2, <1>4 DEF m
  <2>2. KeptOf(style, answer, limit, cut, TRUE, Assembled(ReadAs(style, answer, m), limit /\ ~cut))
    BY <1>5, <2>1, StreamKept
  <2> QED BY <1>2, <2>2 DEF m
<1>7. R.text = got.text
  BY DEF Assembled
<1> HIDE DEF R
<1>8. outcome'.cut = cut /\ outcome'.reply = R /\ outcome'.how = "reply"
  BY <1>1
<1>9. KeptOf(style, answer, limit, outcome.cut, Streams, outcome.reply)'
  <2>1. Streams'
    BY <1>1, <1>2 DEF Streams
  <2>2. KeptOf(style', answer', limit', outcome'.cut, TRUE, outcome'.reply)
    BY <1>1, <1>6, <1>8
  <2>3. KeptOf(style', answer', limit', outcome'.cut, Streams', outcome'.reply)
    BY <2>1, <2>2 DEF KeptOf
  <2> QED BY <2>3 DEF KeptOf
<1>10. shown' = outcome'.reply.text
  BY <1>1, <1>2, <1>7, <1>8
<1>11. Replied'
  BY <1>1, <1>9, <1>10 DEF Replied
<1>12. Reading' /\ NotReading'
  BY <1>1 DEF Reading, NotReading
<1> QED BY <1>11, <1>12 DEF ReadInv

LEMMA ReadKept == ASSUME ReadInv, ValuesTyped, Next PROVE ReadInv'
<1> USE DEF service, route, reply, reader, asked
<1>1. ASSUME NEW h \in Histories, NEW live \in BOOLEAN, Prompt(h, live) \/ Retry(h, live) PROVE ReadInv'
  <2>1. /\ phase' = "listing" \/ phase' = "send"
        /\ got' = NothingYet /\ shown' = <<>> /\ outcome' = Silent
    BY <1>1 DEF Prompt, Retry, Begin
  <2>2. outcome'.how # "reply"
    BY <2>1 DEF Silent
  <2> QED BY <2>1, <2>2 DEF ReadInv, Reading, NotReading, Replied
<1>2. CASE Interrupt
  BY <1>2, ReadRests DEF Interrupt
<1>3. \A why : Failure(why).how # "reply"
  BY DEF Failure
<1>4. CASE ListModels
  BY <1>3, <1>4, NotYetRead DEF ListModels, Ends
<1>5. CASE NotDetected
  BY <1>3, <1>5, NotYetRead DEF NotDetected, Ends
<1>6. CASE Send
  BY <1>3, <1>6, NotYetRead DEF Send
<1>7. CASE AfterFailure
  BY <1>7, NotYetRead DEF AfterFailure, Ends
<1>8. CASE PauseEnds
  BY <1>8, NotYetRead DEF PauseEnds, Ends
<1>9. ASSUME NEW a \in {"ok", "unreachable", "refused"}, Probe(a) PROVE ReadInv'
  <2>1. /\ phase = "probing" /\ got' = got /\ shown' = shown
        /\ (phase' = "idle" /\ \E why : outcome' = Failure(why))
             \/ (phase' = "send" /\ outcome' = outcome) \/ (phase' = phase /\ outcome' = outcome)
    BY <1>9 DEF Probe, Ends
  <2> QED BY <1>3, <2>1, NotYetRead
<1>10. ASSUME NEW why, phase = "waiting", AttemptFails(why) PROVE ReadInv'
  BY <1>3, <1>10, NotYetRead DEF AttemptFails
<1>11. ASSUME NEW s \in Served, Restart(s) PROVE ReadInv'
  BY <1>11, ReadRests DEF Restart
<1>12. ASSUME NEW a \in Answers, NEW full \in BOOLEAN, Answer(a, full) PROVE ReadInv'
  BY <1>12, ReadFromStart
<1>13. ASSUME NEW b \in DOMAIN left, ReadPiece(b) PROVE ReadInv'
  BY <1>13, ReadOne
<1>14. ASSUME NEW cut \in BOOLEAN, StreamEnds(cut) PROVE ReadInv'
  BY <1>14, ReadToEnd
<1>15. CASE StreamBreaks
  <2>1. phase' = "idle" /\ \E why : outcome' = Failure(why)
    BY <1>15 DEF StreamBreaks, Ends
  <2> QED BY <1>3, <2>1 DEF ReadInv, Reading, NotReading, Replied
<1>16. CASE Tick
  BY <1>16, ReadRests DEF Tick
<1>17. CASE Unparsed
  BY <1>3, <1>17, NotYetRead DEF Unparsed, Ends
<1> QED
  BY <1>1, <1>2, <1>4, <1>5, <1>6, <1>7, <1>8, <1>9, <1>10, <1>11, <1>12, <1>13, <1>14,
     <1>15, <1>16, <1>17, Steps

(* Whatever the reply and its length, in whatever order the dialect lets the *)
(* pieces come - with OpenAI's calls mixed - and wherever the stream is cut: *)
(* what readOpenAIStream, readAnthropicStream, readOllamaStream and          *)
(* parseFullReply return of a whole reply has the texts, the thoughts and    *)
(* the calls that were sent, but for what joining the blocks puts between    *)
(* them and for arguments that did not come or, where they are parsed at     *)
(* once, are no JSON; of a cut one it is a beginning of them; and its text   *)
(* is what was shown.                                                        *)
THEOREM StreamsAreFaithful == Spec => []StreamedReplyFaithful
<1>1. Init => ReadInv
  BY ReadAtFirst
<1>2. ReadInv /\ Typed /\ [Next]_vars => ReadInv'
  <2>1. ASSUME ReadInv, UNCHANGED vars PROVE ReadInv'
    BY <2>1, ReadRests DEF vars, route, asked, reply, reader
  <2> QED BY <2>1, ReadKept DEF Typed
<1>3. ReadInv => StreamedReplyFaithful
  BY DEF ReadInv, Replied, KeptOf, StreamedReplyFaithful
<1> QED BY <1>1, <1>2, <1>3, TypedInvariance, PTL DEF Spec
=============================================================================
