------------------------------ MODULE Exchange ------------------------------
(***************************************************************************)
(* One buffered exchange through the gateway proxy, for what becomes of    *)
(* its content: the client's request is inspected and redacted, forwarded  *)
(* to the provider in the provider's protocol or refused, and the answer   *)
(* comes back in the client's protocol.  (GatewayPipeline has the control  *)
(* of the same pipeline: admission, failures, audit and usage rows;        *)
(* StreamTranslation has streamed answers.)                                *)
(*                                                                         *)
(* A character of a text is "p" if governance finds it sensitive; the      *)
(* marker it puts there shares the character "e" with ordinary text, as    *)
(* "[EMAIL]" does.                                                         *)
(***************************************************************************)
EXTENDS RequestTranslation, ResponseTranslation

CONSTANT
  MaxParts            \* how many parts a list of content has at most

ASSUME ExchangeAssumption == MaxParts \in Nat

VARIABLES
  stage,              \* where the exchange is
  provider,           \* the provider the model is routed to
  original,           \* the request as the client sent it
  request,            \* the request as the pipeline holds it
  forwarded,          \* {} or the body sent to the provider
  answer,             \* {} or what the provider answered
  reply               \* {} or what the client got back

vars == <<stage, provider, original, request, forwarded, answer, reply>>

-----------------------------------------------------------------------------
(* The requests.                                                            *)

Sensitive == <<"p">>
Plain == <<"e">>
Texts == {<<>>, Plain, Sensitive, Plain \o Sensitive}

Lists(parts) == {List(s) : s \in BoundedSeq(parts, MaxParts)}

ChatUsers == {Message("user", c) : c \in {Str(t) : t \in Texts}
                                   \cup Lists({Text(Plain), Text(Sensitive), Image, Other("audio")})}
ChatOthers ==
  {Message(r, Str(Plain)) : r \in {"system", "developer", "assistant", "function"}}
    \cup {Message("developer", List(<<Text(Plain), Text(Plain)>>))}
    \cup {AssistantCalls(c, calls) :
            c \in {Null, Str(<<>>), Str(Plain), List(<<Text(Plain)>>), List(<<Other("refusal")>>)},
            calls \in {<<Call(1, "object")>>, <<Call(1, "object"), Call(2, "object")>>,
                       <<Call(1, "invalid")>>, <<Call(1, "custom")>>, <<Call(1, "legacy")>>}}
    \cup {ToolMessage(id, c) : id \in 1 .. 2, c \in {Str(Plain), List(<<Text(Plain), Text(Plain)>>)}}

ResponsesMessages ==
  {Message("user", c) : c \in {Str(t) : t \in Texts}
                              \cup Lists({Text(Plain), Text(Sensitive), NoText, Other("input_image")})}
    \cup {Message(r, Str(Plain)) : r \in {"system", "developer", "assistant", "tool"}}
    \cup {Message("assistant", List(<<Other("output_text")>>)), Message("function_call", Null)}

Results == {ToolResult(1, c, FALSE) : c \in {Null, Str(Sensitive), List(<<Image>>), List(<<>>),
                                            List(<<Text(Sensitive), Image, Text(Plain)>>)}}
             \cup {ToolResult(2, Str(Plain), FALSE), ToolResult(1, Str(Plain), TRUE)}

AnthropicMessages ==
  {Message("user", c) : c \in {Str(t) : t \in Texts}
                              \cup Lists({Text(Plain), Text(Sensitive), Image} \cup Results)}
    \cup {Message("assistant", c) :
            c \in {Str(Plain)} \cup Lists({Text(Plain), ToolUse(1), ToolUse(2), Other("thinking")})}
    \cup {Message("system", c) : c \in {Str(Plain), List(<<Text(Plain), Text(Plain)>>), List(<<Image>>)}}

\* Conversations of at most two messages, with a system prompt of at most one,
\* and every setting of the fields on a fixed one.
Requests ==
  {Payload("openai_chat", Null, ms, {}, "unset") :
     ms \in {<<>>} \cup {<<u>> : u \in ChatUsers} \cup ({<<u, o>> : u \in ChatUsers, o \in ChatOthers})
            \cup {<<o, u>> : u \in ChatUsers, o \in ChatOthers}
            \cup {<<o, q>> : o \in ChatOthers, q \in ChatOthers}}
    \cup {Payload("openai_responses", s, ms, {}, "unset") :
            s \in {Null}, ms \in BoundedSeq(ResponsesMessages, 2)}
    \cup {Payload("openai_responses", s, ms, {}, "unset") :
            s \in {Str(Plain), List(<<Text(Plain), Other("input_image")>>)},
            ms \in BoundedSeq(ResponsesMessages, 1)}
    \cup {Payload("anthropic_messages", s, ms, {}, "unset") :
            s \in {Null}, ms \in BoundedSeq(AnthropicMessages, 2)}
    \cup {Payload("anthropic_messages", s, ms, {}, "unset") :
            s \in {Str(<<>>), List(<<Text(Plain)>>), List(<<Image>>)},
            ms \in BoundedSeq(AnthropicMessages, 1)}
    \cup {Payload("openai_chat", Null, <<Message("user", Str(Plain))>>, fs, c) :
            fs \in SUBSET ChatFields, c \in ToolChoices}
    \cup {Payload("openai_responses", Null, <<Message("user", Str(Plain))>>, fs, c) :
            fs \in SUBSET ResponsesFields, c \in ToolChoices}
    \cup {Payload("anthropic_messages", Null, <<Message("user", Str(Plain))>>, fs, c) :
            fs \in SUBSET AnthropicFields, c \in ToolChoices}

-----------------------------------------------------------------------------
(* The answers.                                                             *)

AnswerCalls == {<<>>, <<Call(1, "object")>>, <<Call(1, "object"), Call(2, "object")>>}
                 \cup {<<Call(1, f)>> : f \in {"value", "invalid", "empty", "no_function", "no_id"}}

ChatAnswers ==
  {ChatCompletion(<<Choice(c, calls, finish)>>) :
     c \in {Null, Str(<<>>), Str(Plain), List(<<Text(Plain), Text(Plain)>>), List(<<Other("refusal")>>)},
     calls \in AnswerCalls,
     finish \in {"stop", "length", "tool_calls", "content_filter"}}
    \cup {ChatCompletion(<<>>), Garbled,
          ChatCompletion(<<Choice(Null, <<>>, "stop"), Choice(Str(Plain), <<>>, "stop")>>)}

AnthropicAnswers ==
  {AnthropicAnswer(bs, stop) :
     bs \in BoundedSeq({Text(Plain), ToolUse(1), ToolUse(2), Other("thinking")}, MaxParts),
     stop \in {"end_turn", "max_tokens", "tool_use", "stop_sequence", "refusal"}}

GeminiAnswers ==
  {GeminiAnswer(ps, finish) :
     ps \in BoundedSeq({Text(Plain), FunctionCall(1), FunctionCall(2), Other("executableCode")}, MaxParts),
     finish \in {"STOP", "MAX_TOKENS", "SAFETY", "MODEL_ARMOR", "RECITATION"}}
    \cup {GeminiEmpty(TRUE), GeminiEmpty(FALSE)}

Answers(p) ==
  IF p = "anthropic" THEN AnthropicAnswers
  ELSE IF p = "gemini" THEN GeminiAnswers
  ELSE ChatAnswers

-----------------------------------------------------------------------------
(* The exchange.                                                            *)

None == "none"

Init ==
  /\ request \in {p \in Requests : Accepts(p)}
  /\ original = request
  /\ provider = None
  /\ stage = "new"
  /\ forwarded = {}
  /\ answer = {}
  /\ reply = {}

\* What governance answers: a finding per sensitive character.
FindingsOf(text) ==
  DeduplicateFindings(LET hits == SelectSeq([n \in DOMAIN text |-> n], LAMBDA n : text[n] = "p")
                      IN  [k \in DOMAIN hits |-> Finding("e", hits[k] - 1, hits[k], 1)])

Inspect ==
  /\ stage = "new"
  /\ stage' = "inspected"
  /\ LET text == GovernanceText(request)
         fs   == FindingsOf(text)
     IN  request' = IF fs = <<>> THEN request
                    ELSE WithRedactedText(request, RedactWithTypedMarkers(text, fs))
  /\ UNCHANGED <<provider, original, forwarded, answer, reply>>

Dispatch(p) ==
  /\ stage = "inspected"
  /\ provider' = p
  /\ forwarded' = Forward(request, p)
  /\ stage' = IF forwarded' = {} THEN "refused" ELSE "forwarded"
  /\ UNCHANGED <<original, request, answer, reply>>

\* Whether the answer is in the client's own protocol, and passed on unread.
NativeAnswer == provider \in NativeProviders[request.protocol]

\* The provider answers; the request is done with.
Answer ==
  /\ stage = "forwarded"
  /\ ~ NativeAnswer
  /\ answer' \in {{a} : a \in Answers(provider)}
  /\ stage' = "answered"
  /\ request' = Payload(request.protocol, Null, <<>>, {}, "unset")
  /\ original' = request'
  /\ forwarded' = {}
  /\ UNCHANGED <<provider, reply>>

Encode ==
  /\ stage = "answered"
  /\ stage' = "replied"
  /\ reply' = {EncodeResponse(request.protocol, AdapterAnswer(a)) : a \in answer}
  /\ UNCHANGED <<provider, original, request, forwarded, answer>>

Next == Inspect \/ (\E p \in Providers : Dispatch(p)) \/ Answer \/ Encode

Spec == Init /\ [][Next]_vars

-----------------------------------------------------------------------------
(* Reading a request: who says what, in order, whatever the protocol.       *)

Chars(who, id, text) == [n \in DOMAIN text |-> <<who, id, text[n]>>]

\* A text part by its characters, any other by its kind; calls are read apart.
PartReading(who, id, part) ==
  IF IsText(part) THEN Chars(who, id, part.text)
  ELSE IF part.kind \in {"tool_use", "empty_tool_use"} THEN <<>>
  ELSE <<<<who, id, part.kind>>>>

ContentReading(who, id, content) ==
  FlattenSeq([n \in DOMAIN content.parts |-> PartReading(who, id, content.parts[n])])

ResultReading(id, content, isError) ==
  <<<<"result", id, IF isError THEN "error" ELSE "ok">>>> \o ContentReading("result", id, content)

\* The function calls; the adapters keep neither a Chat client's custom calls nor
\* its legacy function_call whole.
CallReading(m) ==
  LET uses  == SelectSeq(m.content.parts, LAMBDA b : b.kind = "tool_use")
      calls == SelectSeq(m.calls, LAMBDA c : c.form \in {"object", "invalid"})
  IN  [n \in DOMAIN uses |-> <<"call", uses[n].id, "">>]
        \o [n \in DOMAIN calls |-> <<"call", calls[n].id, "">>]

\* What an assistant says comes before what it calls, as in a Chat message.
MessageReading(m) ==
  LET who == IF m.role = "model" THEN "assistant" ELSE m.role
      BlockReading(b) == IF b.kind = "tool_result" THEN ResultReading(b.id, b.content, b.isError)
                                                   ELSE PartReading(who, 0, b)
  IN  IF m.role = "tool" THEN ResultReading(m.id, m.content, FALSE)
      ELSE FlattenSeq([n \in DOMAIN m.content.parts |-> BlockReading(m.content.parts[n])])
             \o CallReading(m)

Reading(p) ==
  LET turns == SelectSeq(p.messages, LAMBDA m : ~ ChatSystem(m))
  IN  FlattenSeq([n \in DOMAIN turns |-> MessageReading(turns[n])])

\* The system prompt and the system messages, without the separators.
SystemReading(p) ==
  LET systems == SelectSeq(p.messages, ChatSystem)
  IN  SelectSeq(ContentReading("system", 0, p.system)
                  \o FlattenSeq([n \in DOMAIN systems |->
                       ContentReading("system", 0, systems[n].content)]),
                LAMBDA a : a[3] # "nl")

-----------------------------------------------------------------------------
(* Properties of the request.                                               *)

\* The parts of a payload; of a governed one only what is not governed text.
Skeleton(part) ==
  IF part.kind = "tool_result"
    THEN [part EXCEPT !.content = SelectSeq(part.content.parts, LAMBDA b : ~ IsText(b))]
    ELSE Text(<<>>)

Rest(p, governed) ==
  [m \in DOMAIN p.messages |->
    [n \in DOMAIN p.messages[m].content.parts |->
      IF <<m, n>> \in governed THEN Skeleton(PartAt(p, <<m, n>>)) ELSE PartAt(p, <<m, n>>)]]

\* Nothing that governance marked leaves the gateway: whatever the shape of the
\* content, the text of all governed leaves together, read from the rewritten
\* request (with_redacted_text), is the text governance returned, nothing lost,
\* doubled or left as it was; and images, calls, the ids of results, the other
\* messages and the fields of the request are as the client sent them.  Which
\* leaf has which piece of that text is the matter of UnaffectedTextKept.
RedactionRoundTrip ==
  stage = "inspected" =>
    LET text == GovernanceText(original)
        governed == ToSet(Leaves(original))
    IN  /\ GovernanceText(request) = RedactWithTypedMarkers(text, FindingsOf(text))
        /\ Rest(request, governed) = Rest(original, governed)
        /\ [request EXCEPT !.messages = <<>>] = [original EXCEPT !.messages = <<>>]
        /\ \A m \in DOMAIN request.messages :
             [request.messages[m] EXCEPT !.content = Null] =
               [original.messages[m] EXCEPT !.content = Null]

\* "Apply a flattened redaction while preserving text-leaf identity and
\* unaffected text." (redistribute_redacted_text): a leaf in which governance
\* found nothing has its text after the redaction of the others.
UnaffectedTextKept ==
  stage = "inspected" =>
    \A n \in DOMAIN Leaves(original) :
      FindingsOf(LeafTexts(original)[n]) = <<>> =>
        LeafTexts(request)[n] = LeafTexts(original)[n]

\* A request is translated whole or refused: through up to two translations and
\* whatever the order of its blocks, the provider reads the same turns, results,
\* images and calls in the same order, the same system prompt, and every field
\* the client set; only a Responses client's metadata is left out by
\* _request_to_chat_body.
ReadingKept ==
  \A body \in forwarded :
    LET dropped == IF request.protocol = "openai_responses" THEN {"metadata"} ELSE {}
    IN  /\ Reading(body) = Reading(request)
        /\ SystemReading(body) = SystemReading(request)
        /\ request.fields \ dropped \subseteq body.fields
        /\ body.choice = request.choice

-----------------------------------------------------------------------------
(* Properties of the answer.                                                *)

\* What an answer says and calls, in any protocol.
Said(body) ==
  IF body.kind = "chat" THEN PartsText(body.choices[1].content.parts)
  ELSE IF body.kind = "anthropic" THEN PartsText(body.blocks)
  ELSE IF body.kind = "responses" THEN PartsText(body.output)
  ELSE IF body.kind = "gemini" THEN PartsText(body.parts)
  ELSE <<>>

\* A Chat call without a function is none.
Called(body) ==
  IF body.kind = "chat" THEN SelectSeq(body.choices[1].calls, LAMBDA c : c.form # "no_function")
  ELSE Uses(IF body.kind = "anthropic" THEN body.blocks
            ELSE IF body.kind = "responses" THEN body.output
            ELSE IF body.kind = "gemini" THEN body.parts
            ELSE <<>>)

Comparable(body) == body.kind # "garbled" /\ (body.kind = "chat" => Len(body.choices) = 1)

\* An answer cut off at the token limit.
Truncated(body) ==
  \/ body.kind = "chat" /\ body.choices # <<>> /\ body.choices[1].finish = "length"
  \/ body.kind = "anthropic" /\ body.stop = "max_tokens"
  \/ body.kind = "gemini" /\ body.finish = "MAX_TOKENS"
  \/ body.kind = "responses" /\ body.status = "incomplete"

\* A successful answer says and calls what the provider's answer does, in its
\* order and with its ids, whatever the protocols at the two ends.  A cut answer
\* is not passed off as a whole one, nor a whole one as cut; only a Gemini answer
\* with function calls hides that it was cut.
AnswerKept ==
  stage = "replied" =>
    \A a \in answer, r \in reply :
      r.status = "ok" =>
        LET Ids(body) == [n \in DOMAIN Called(body) |-> Called(body)[n].id]
        IN  /\ Comparable(a) => Said(r.body) = Said(a) /\ Ids(r.body) = Ids(a)
            /\ ~ (a.kind = "gemini" /\ Called(a) # <<>>) => (Truncated(a) <=> Truncated(r.body))
=============================================================================
