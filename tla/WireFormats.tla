----------------------------- MODULE WireFormats -----------------------------
(***************************************************************************)
(* The dialects of a model endpoint (agent_llm.go): how the agent's one    *)
(* representation of a conversation is put into each of them, and how a    *)
(* reply is put together again, whole or from the events of a stream.      *)
(* A text is a sequence of pieces, <<>> when it is blank; so are the       *)
(* arguments of a call, which are JSON or not.                             *)
(***************************************************************************)
EXTENDS Integers, Sequences, SequencesExt

CONSTANTS
  JSON,         (* the arguments that are JSON                               *)
  Objects       (* those of them that are an object                          *)

EmptyObject == <<<<0, 0>>>>
ASSUME ArgumentsAssumption ==
  Objects \subseteq JSON /\ EmptyObject \in Objects /\ <<>> \notin JSON

Styles == {"openai", "anthropic", "responses", "ollama", "completions"}
DetectionOrder == <<"openai", "anthropic", "responses", "ollama", "completions">>
StreamingStyles == {"openai", "anthropic", "ollama"}

-----------------------------------------------------------------------------
(* Requests. *)

User(text) == [text |-> text, role |-> "user"]
Assistant(text, calls) == [text |-> text, calls |-> calls, role |-> "assistant"]
Tool(id, name, text) == [id |-> id, name |-> name, text |-> text, role |-> "tool"]
IsMessage(m) ==
  \/ m.role = "user" /\ m = User(m.text)
  \/ /\ m.role = "assistant" /\ m = Assistant(m.text, m.calls)
     /\ m.calls \in Seq(Range(m.calls))
     /\ \A c \in DOMAIN m.calls :
          m.calls[c] = [id |-> m.calls[c].id, name |-> m.calls[c].name,
                        args |-> m.calls[c].args]
  \/ m.role = "tool" /\ m = Tool(m.id, m.name, m.text)

(* Every call is answered right after the turn that makes it, the calls of   *)
(* a turn in their order, and nothing else is an answer.                     *)
AnsweredInTurn(h) ==
  \A i \in DOMAIN h :
    /\ h[i].role = "assistant" => \A k \in DOMAIN h[i].calls :
         i + k \in DOMAIN h /\ h[i + k].role = "tool" /\ h[i + k].id = h[i].calls[k].id
    /\ h[i].role = "tool" => \E k \in 1..(i - 1) :
         h[i - k].role = "assistant" /\ k \in DOMAIN h[i - k].calls
IsConversation(h) ==
  /\ h \in Seq(Range(h))
  /\ \A i \in DOMAIN h : IsMessage(h[i])
  /\ AnsweredInTurn(h)

(* What the arguments of a call are sent as: an object where the dialect     *)
(* wants one, and otherwise the string they are.                             *)
ArgsObject(args) == IF args \in Objects THEN args ELSE EmptyObject
ArgsString(args) == IF args = <<>> THEN EmptyObject ELSE args
Arguments(style, args) ==
  IF style \in {"anthropic", "ollama"} THEN ArgsObject(args) ELSE ArgsString(args)

(* A conversation with the arguments a dialect sends, and, in Anthropic's,   *)
(* something for a result that is blank.                                     *)
Empty == <<"(empty)">>
SentCall(style, call) == [call EXCEPT !.args = Arguments(style, @)]
AsTold(style, m) ==
  CASE m.role = "assistant" ->
         [m EXCEPT !.calls = [k \in DOMAIN @ |-> SentCall(style, @[k])]]
    [] m.role = "tool" /\ m.text = <<>> /\ style = "anthropic" -> [m EXCEPT !.text = Empty]
    [] OTHER -> m
Told(style, h) == [i \in DOMAIN h |-> AsTold(style, h[i])]

TextPart(text) == [part |-> "text", text |-> text]
NoText(why) == [part |-> "filler", why |-> why]
CallPart(call) == [part |-> "call", call |-> call]
ResultPart(m) == [part |-> "result", id |-> m.id, text |-> m.text]
NonEmpty(text) == IF text = <<>> THEN NoText("(empty)") ELSE TextPart(text)
Entry(role, parts) == [role |-> role, parts |-> parts]

TextParts(m) == IF m.text = <<>> THEN <<>> ELSE <<TextPart(m.text)>>
CallParts(m) == [i \in DOMAIN m.calls |-> CallPart(m.calls[i])]

(* A chat has one entry per message.                                         *)
Chat(h) ==
  [i \in DOMAIN h |->
     CASE h[i].role = "tool" -> Entry("tool", <<ResultPart(h[i])>>)
       [] h[i].role = "assistant" -> Entry("assistant", <<TextPart(h[i].text)>> \o CallParts(h[i]))
       [] OTHER -> Entry("user", <<TextPart(h[i].text)>>)]
OpenAIMessages(h) == Chat(Told("openai", h))

Unlabelled(part) ==
  CASE part.part = "call" -> [part EXCEPT !.call.id = 0]
    [] part.part = "result" -> [part EXCEPT !.id = 0]
    [] OTHER -> part
WithoutIds(entries) ==
  [i \in DOMAIN entries |->
     [entries[i] EXCEPT !.parts = [k \in DOMAIN @ |-> Unlabelled(@[k])]]]

(* Ollama's chat and the prompt of the legacy completions have no ids: a     *)
(* result is told from the others by its place only.                         *)
OllamaMessages(h) == WithoutIds(Chat(Told("ollama", h)))
CompletionPrompt(h) == WithoutIds(Chat(Told("completions", h)))

(* Responses: one entry per item, a message or a call or its output.         *)
Items(h) ==
  FlattenSeq([i \in DOMAIN h |->
     CASE h[i].role = "tool" -> <<Entry("tool", <<ResultPart(h[i])>>)>>
       [] h[i].role = "assistant" ->
            [k \in DOMAIN TextParts(h[i]) |-> Entry("assistant", <<TextParts(h[i])[k]>>)]
              \o [k \in DOMAIN CallParts(h[i]) |-> Entry("call", <<CallParts(h[i])[k]>>)]
       [] OTHER -> <<Entry("user", <<TextPart(h[i].text)>>)>>])
ResponsesInput(h) == Items(Told("responses", h))

(* Anthropic: results gather until another message or the end flushes them   *)
(* into one user entry.                                                      *)
Flush(out, pending) == IF pending = <<>> THEN out ELSE Append(out, Entry("user", pending))

AnthropicStep(acc, m) ==
  IF m.role = "tool"
  THEN [acc EXCEPT !.pending = Append(@, ResultPart(m))]
  ELSE [out |-> Append(Flush(acc.out, acc.pending),
                  IF m.role = "assistant"
                  THEN Entry("assistant",
                         IF TextParts(m) \o CallParts(m) = <<>> THEN <<NoText("(no content)")>>
                         ELSE TextParts(m) \o CallParts(m))
                  ELSE Entry("user", <<NonEmpty(m.text)>>)),
        pending |-> <<>>]

AnthropicUpTo(h) ==
  LET upTo[i \in 0..Len(h)] ==
        IF i = 0 THEN [out |-> <<>>, pending |-> <<>>] ELSE AnthropicStep(upTo[i - 1], h[i])
  IN  upTo[Len(h)]
AnthropicUnflushed(h) == AnthropicUpTo(Told("anthropic", h)).out  \* mutant: the last results stay behind
AnthropicMessages(h) ==
  LET last == AnthropicUpTo(Told("anthropic", h)) IN Flush(last.out, last.pending)

Messages(style, h) ==
  CASE style = "anthropic" -> AnthropicMessages(h)
    [] style = "responses" -> ResponsesInput(h)
    [] style = "openai" -> OpenAIMessages(h)
    [] style = "ollama" -> OllamaMessages(h)
    [] style = "completions" -> CompletionPrompt(h)

-----------------------------------------------------------------------------
(* Replies: a list of blocks, as the service means it.  A call comes with    *)
(* the id the service gives it; 0 stands for the one newCallID makes up      *)
(* when it gives none.                                                       *)

TextBlock(n) == [block |-> "text", size |-> n]
ThinkBlock(n) == [block |-> "thinking", size |-> n]
RedactedBlock == [block |-> "redacted", size |-> 0]
CallBlock(id, name, n) == [id |-> id, name |-> name, block |-> "call", size |-> n]
IsReplyBlock(b) ==
  /\ \/ b \in {TextBlock(b.size), ThinkBlock(b.size), RedactedBlock}
     \/ b = CallBlock(b.id, b.name, b.size)
  /\ b.size \in Nat
Blocks(answer, kinds) == {b \in DOMAIN answer : answer[b].block \in kinds}

Pieces(b, size) == [k \in 1..size |-> <<b, k>>]
CallOf(b, block, args) ==
  [block |-> b, id |-> block.id, name |-> block.name, args |-> args]

(* Arguments that did not come at all are taken for an empty object, and so  *)
(* is a JSON string that holds no JSON.  Others stay as they are: a value of *)
(* a whole reply, and what the fragments of a stream add up to.              *)
RawArguments(args, isString) ==
  IF args = <<>> \/ (isString /\ args \notin JSON) THEN EmptyObject ELSE args

(* Texts one after the other, as one content holds them, and the calls.      *)
Joined(answer, kind) ==
  FlattenSeq([b \in DOMAIN answer |->
    IF answer[b].block = kind THEN Pieces(b, answer[b].size) ELSE <<>>])
CallsIn(answer, calls, areStrings) ==
  FlattenSeq([b \in DOMAIN answer |->
    IF b \in calls
    THEN <<CallOf(b, answer[b], RawArguments(Pieces(b, answer[b].size), areStrings))>>
    ELSE <<>>])
NewIds(calls) == [i \in DOMAIN calls |-> [calls[i] EXCEPT !.id = 0]]
Reply(text, thinking, calls, limit) ==
  [text |-> text, thinking |-> thinking, calls |-> calls, truncated |-> limit]

(* Texts that come in blocks of their own, each on a new line.               *)
NewLine == <<0, 1>>
Redacted == <<0, 2>>
Line(b, block) == IF block.block = "redacted" THEN <<Redacted>> ELSE Pieces(b, block.size)
Lines(answer, blocks) ==
  FlattenSeq([b \in DOMAIN answer |->
    IF b \in blocks
    THEN (IF \E a \in blocks : a < b THEN <<NewLine>> ELSE <<>>) \o Line(b, answer[b])
    ELSE <<>>])

ParseOpenAIChat(answer, limit) ==
  Reply(Joined(answer, "text"), Joined(answer, "thinking"),
        CallsIn(answer, Blocks(answer, {"call"}), TRUE), limit)
ParseAnthropic(answer, limit) ==
  Reply(Lines(answer, Blocks(answer, {"text"})),
        Lines(answer, Blocks(answer, {"thinking", "redacted"})),
        CallsIn(answer, Blocks(answer, {"call"}), FALSE), limit)
ParseResponses(answer, limit) ==
  Reply(Lines(answer, Blocks(answer, {"text"})),
        Lines(answer, {b \in Blocks(answer, {"thinking"}) : answer[b].size > 0}),
        CallsIn(answer, Blocks(answer, {"call"}), TRUE), limit)
ParseOllama(answer, limit) ==
  Reply(Joined(answer, "text"), Joined(answer, "thinking"),
        NewIds(CallsIn(answer, Blocks(answer, {"call"}), FALSE)), limit)

(* The legacy API's calls are fenced blocks of its text: one whose JSON does *)
(* not parse is lost, and at the limit the fence of the last is still open,  *)
(* which leaves it in the text (piece 0 is the fence, with the name).        *)
Open(answer, limit) ==
  IF limit THEN Blocks(answer, {"call"}) \cap {Len(answer)} ELSE {}
Fenced(answer, limit) ==
  {b \in Blocks(answer, {"call"}) \ Open(answer, limit) :
     Pieces(b, answer[b].size) \in JSON \cup {<<>>}}
ParseCompletions(answer, limit) ==
  Reply(FlattenSeq([b \in DOMAIN answer |->
          CASE answer[b].block = "text" -> Pieces(b, answer[b].size)
            [] b \in Open(answer, limit) -> <<<<b, 0>>>> \o Pieces(b, answer[b].size)
            [] OTHER -> <<>>]),
        <<>>, NewIds(CallsIn(answer, Fenced(answer, limit), FALSE)), limit)

ParseFullReply(style, answer, limit) ==
  CASE style = "anthropic" -> ParseAnthropic(answer, limit)
    [] style = "responses" -> ParseResponses(answer, limit)
    [] style = "ollama" -> ParseOllama(answer, limit)
    [] style = "completions" -> ParseCompletions(answer, limit)
    [] style = "openai" -> ParseOpenAIChat(answer, limit)

NothingYet == [text |-> <<>>, thinking |-> <<>>, calls |-> <<>>, truncated |-> FALSE]

(* One event of a stream: piece k of block b, where piece 0 of a call is its *)
(* name and id.                                                              *)
IndexOf(got, b) == CHOOSE i \in DOMAIN got.calls : got.calls[i].block = b
Known(got, b) == \E i \in DOMAIN got.calls : got.calls[i].block = b
Pending(got, b, block) == [got EXCEPT !.calls = Append(@, CallOf(b, block, <<>>))]
Content(got, b, k, kind) ==
  IF kind = "text" THEN [got EXCEPT !.text = Append(@, <<b, k>>)]
                   ELSE [got EXCEPT !.thinking = Append(@, <<b, k>>)]

(* OpenAI's fragments carry the index of their call, which is made when it   *)
(* is first seen.                                                            *)
LatestCallOf(got, block, b, k) ==  \* mutant: a fragment continues the latest call
  LET seen == IF Known(got, b) THEN got ELSE Pending(got, b, block) IN
  IF block.block # "call" THEN Content(got, b, k, block.block)
  ELSE IF k = 0 THEN seen
  ELSE [seen EXCEPT !.calls[Len(seen.calls)].args = Append(@, <<b, k>>)]
ReadOpenAI(got, block, b, k) ==
  LET seen == IF Known(got, b) THEN got ELSE Pending(got, b, block) IN
  IF block.block # "call" THEN Content(got, b, k, block.block)
  ELSE IF k = 0 THEN seen
  ELSE [seen EXCEPT !.calls[IndexOf(seen, b)].args = Append(@, <<b, k>>)]

(* Anthropic's blocks have a start; a fragment of one not started is lost.   *)
ReadAnthropic(got, block, b, k) ==
  IF block.block # "call" THEN Content(got, b, k, block.block)
  ELSE IF k = 0 THEN Pending(got, b, block)
  ELSE IF ~Known(got, b) THEN got
  ELSE [got EXCEPT !.calls[IndexOf(got, b)].args = Append(@, <<b, k>>)]

(* Ollama's calls come whole, and without an id.                             *)
ReadOllama(got, block, b, k) ==
  IF block.block # "call" THEN Content(got, b, k, block.block)
  ELSE [got EXCEPT !.calls =
          @ \o NewIds(<<CallOf(b, block, Pieces(b, block.size))>>)]

ReadEvent(style, got, block, b, k) ==
  CASE style = "openai" -> ReadOpenAI(got, block, b, k)
    [] style = "anthropic" -> ReadAnthropic(got, block, b, k)
    [] style = "ollama" -> ReadOllama(got, block, b, k)

(* What the reader of a stream returns at its end.                           *)
Complete(call) == [call EXCEPT !.args = RawArguments(@, FALSE)]
Assembled(got, limit) ==
  [text |-> got.text, thinking |-> got.thinking, truncated |-> limit,
   calls |-> [i \in DOMAIN got.calls |-> Complete(got.calls[i])]]

-----------------------------------------------------------------------------
(* What a request must still say: the conversation's parts, in its order.    *)

Only(parts, Passes(_)) ==
  FlattenSeq([k \in DOMAIN parts |-> IF Passes(parts[k]) THEN <<parts[k]>> ELSE <<>>])
Said(part) == part.part # "filler" /\ (part.part = "text" => part.text # <<>>)
IsCall(part) == part.part = "call"
PartsOf(entries) == FlattenSeq([i \in DOMAIN entries |-> Only(entries[i].parts, Said)])

(* How a part of the conversation is put: the arguments as the dialect sends *)
(* them, and without the id where it has none.                               *)
Retold(style, part) ==
  CASE part.part = "call" -> [part EXCEPT !.call = SentCall(style, @)]
    [] part.part = "result" /\ part.text = <<>> /\ style = "anthropic" ->
         [part EXCEPT !.text = Empty]
    [] OTHER -> part
Put(style, part) ==
  IF style \in {"ollama", "completions"}
  THEN Unlabelled(Retold(style, part)) ELSE Retold(style, part)

(* The calls of an assistant's turn are answered right after it, all of      *)
(* them, in their order, before anything else is said.                       *)
AnsweredAtOnce(parts) ==
  LET are(kind, i, j) == \A k \in i..j : parts[k].part = kind
      starts(i) == parts[i].part = "call" /\ (i > 1 => parts[i - 1].part # "call")
  IN  \A i, j \in DOMAIN parts :
        /\ starts(i) /\ j >= i /\ are("call", i, j)
        /\ (j < Len(parts) => parts[j + 1].part # "call")
        => \A k \in i..j :
             LET answers == k + (j - i) + 1 IN
             /\ answers \in DOMAIN parts
             /\ parts[answers].part = "result"
             /\ parts[answers].id = parts[k].call.id

(* Where one entry carries several results, they answer the entry before it: *)
(* a dialect that pairs entries finds every answer in the next one.          *)
ResultsTogether(entries) ==
  \A i \in DOMAIN entries :
    LET asked == Only(entries[i].parts, IsCall)
    IN  asked # <<>> =>
          /\ i + 1 \in DOMAIN entries
          /\ [k \in DOMAIN entries[i + 1].parts |-> entries[i + 1].parts[k].id]
               = [k \in DOMAIN asked |-> asked[k].call.id]

-----------------------------------------------------------------------------
(* What of a reply is the service's, and what joining its blocks has put in; *)
(* and the calls a reader can be told of, as they were sent.                 *)

Theirs(piece) == piece[1] # 0
SentCalls(style, answer, limit) ==
  LET sent == [b \in DOMAIN answer |-> CallOf(b, answer[b], Pieces(b, answer[b].size))]
      told == IF style = "completions" THEN Fenced(answer, limit)
                                       ELSE Blocks(answer, {"call"})
      all == FlattenSeq([b \in DOMAIN answer |-> IF b \in told THEN <<sent[b]>> ELSE <<>>])
  IN  IF style \in {"ollama", "completions"} THEN NewIds(all) ELSE all
===============================================================================
