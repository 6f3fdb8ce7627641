------------------------- MODULE RequestTranslation -------------------------
(***************************************************************************)
(* A request on its way to a provider that does not speak the client's     *)
(* protocol: first to a Chat body (responses_compat.py,                    *)
(* anthropic_compat.py), then, after the check of its fields               *)
(* (provider_capabilities.py), to the provider's own body                  *)
(* (providers/anthropic.py, providers/_gemini_common.py).  Each step       *)
(* translates the whole request or refuses it.                             *)
(*                                                                         *)
(* A translation returns a set: the translated request, or nothing.        *)
(***************************************************************************)
EXTENDS Payloads

Refused == {}

Providers == {"openai", "generic", "anthropic", "gemini", "mock"}

-----------------------------------------------------------------------------
(* Fields, by class: one name stands for all that are treated alike.        *)

\* "limit": max_tokens and its other names; "sampling": temperature, top_p.
\* "state": previous_response_id; "store" for the other 20 refused fields.
ResponsesFields == {"limit", "sampling", "tools", "state", "store", "metadata"}

\* "native": cache_control, thinking, metadata and the rest of native_only_fields.
AnthropicFields == {"sampling", "top_k", "stop", "tools", "native", "serial"}

\* "logprobs" for the Chat fields only a Chat provider takes.
ChatFields == {"limit", "sampling", "stop", "tools", "serial", "logprobs", "metadata"}

ToolChoices == {"unset", "auto", "none", "required", "named", "custom", "allowed"}

\* What the request models accept.  serial is disable_parallel_tool_use, a
\* field of tool_choice; forcing a tool needs tools, and is not for a client
\* that thinks.
Accepts(p) ==
  IF p.protocol = "anthropic_messages"
    THEN /\ p.choice \in {"required", "named"} => "tools" \in p.fields
         /\ p.choice \in {"required", "named"} => "native" \notin p.fields
         /\ "serial" \in p.fields => p.choice # "unset"
         /\ p.choice \notin {"custom", "allowed"}
    ELSE TRUE

-----------------------------------------------------------------------------
(* Responses to Chat (_request_to_chat_body).                               *)

OnlyText(content) == \A n \in DOMAIN content.parts : IsText(content.parts[n])

Flat(content) == Str(PartsText(content.parts))

ResponsesMessageOk(m) ==
  /\ m.role \in {"system", "developer", "user", "assistant"}
  /\ OnlyText(m.content)

ResponsesMessage(m) ==
  Message(IF m.role = "developer" THEN "system" ELSE m.role, Flat(m.content))

SystemFirst(content, messages) ==
  IF content = Null THEN messages ELSE <<Message("system", Flat(content))>> \o messages

ResponsesToChat(p) ==
  LET messages == SystemFirst(p.system, [n \in DOMAIN p.messages |-> ResponsesMessage(p.messages[n])])
  IN  IF \/ p.fields \cap {"tools", "state", "store"} # {}
         \/ p.choice # "unset"
         \/ ~ OnlyText(p.system)
         \/ \E n \in DOMAIN p.messages : ~ ResponsesMessageOk(p.messages[n])
         \/ messages = <<>>
        THEN Refused
        ELSE {Payload("openai_chat", Null, messages, p.fields \cap {"limit", "sampling"}, "unset")}

-----------------------------------------------------------------------------
(* Anthropic to Chat (messages_to_chat_body).                               *)

\* _content_str; a call in a system prompt would be kept as its JSON text.
SystemOk(content) ==
  \A n \in DOMAIN content.parts : content.parts[n].kind \in {"text", "tool_result"}

SystemText(content) ==
  Str(Join([n \in DOMAIN content.parts |-> LeafText(content.parts[n])]))

ResultOk(block) ==
  ~ block.isError /\ \A n \in DOMAIN block.content.parts : IsText(block.content.parts[n])

UserOk(blocks) ==
  \A n \in DOMAIN blocks :
    IsText(blocks[n]) \/ (blocks[n].kind = "tool_result" /\ ResultOk(blocks[n]))

\* Mutant: as ExpandUserBlocks, but the text comes first.
ExpandUserBlocksTextFirst(blocks) ==
  LET results == SelectSeq(blocks, LAMBDA b : ~ IsText(b))
      texts   == SelectSeq(blocks, IsText)
  IN  (IF texts = <<>> THEN <<>> ELSE <<Message("user", Flat(List(texts)))>>)
        \o [n \in DOMAIN results |-> ToolMessage(results[n].id, Flat(results[n].content))]

\* One user message for contiguous text blocks, one tool message per result.
ExpandUserBlocks(blocks) ==
  LET Add(messages, b) ==
        IF ~ IsText(b)
          THEN Append(messages, ToolMessage(b.id, Flat(b.content)))
        ELSE IF messages # <<>> /\ Last(messages).role = "user"
          THEN Append(Front(messages),
                 Message("user", Str(PartsText(Last(messages).content.parts) \o b.text)))
        ELSE Append(messages, Message("user", Str(b.text)))
  IN  IF blocks = <<>> THEN <<Message("user", Str(<<>>))>>
      ELSE FoldLeft(Add, <<>>, blocks)

AssistantOk(blocks) == \A n \in DOMAIN blocks : blocks[n].kind \in {"text", "tool_use"}

AssistantMessage(blocks) ==
  LET calls == SelectSeq(blocks, LAMBDA b : b.kind = "tool_use")
  IN  AssistantCalls(Str(PartsText(blocks)), [n \in DOMAIN calls |-> Call(calls[n].id, "object")])

AnthropicMessageOk(m) ==
  \/ m.content.form = "str"
  \/ m.role = "system" /\ SystemOk(m.content)
  \/ m.role = "user" /\ UserOk(m.content.parts)
  \/ m.role = "assistant" /\ AssistantOk(m.content.parts)

AnthropicMessage(m) ==
  IF m.role = "system" THEN <<Message("system", SystemText(m.content))>>
  ELSE IF m.content.form = "str" THEN <<m>>
  ELSE IF m.role = "user" THEN ExpandUserBlocks(m.content.parts)
  ELSE <<AssistantMessage(m.content.parts)>>

\* An empty system prompt is none.
AnthropicToChat(p) ==
  LET system == IF p.system \in {Str(<<>>), List(<<>>)} THEN Null ELSE p.system
  IN  IF \/ ~ SystemOk(system)
         \/ \E n \in DOMAIN p.messages : ~ AnthropicMessageOk(p.messages[n])
         \/ "native" \in p.fields
        THEN Refused
        ELSE {Payload("openai_chat", Null,
                (IF system = Null THEN <<>> ELSE <<Message("system", SystemText(system))>>)
                  \o FlattenSeq([n \in DOMAIN p.messages |-> AnthropicMessage(p.messages[n])]),
                {"limit"} \cup p.fields, p.choice)}

ToChatBody(p) ==
  IF p.protocol = "openai_responses" THEN ResponsesToChat(p)
  ELSE IF p.protocol = "anthropic_messages" THEN AnthropicToChat(p)
  ELSE {p}

-----------------------------------------------------------------------------
(* The fields a provider keeps (unsupported_chat_fields).                   *)

\* Mutant: as SupportedFields, but Anthropic is thought to keep serial.
SupportedFieldsLoose(provider) ==
  IF provider \in {"anthropic", "gemini"}
    THEN {"limit", "sampling", "stop", "tools", "serial"}
    ELSE ChatFields

SupportedFields(provider) ==
  IF provider \in {"anthropic", "gemini"}
    THEN {"limit", "sampling", "stop", "tools"}
    ELSE ChatFields

-----------------------------------------------------------------------------
(* Chat to Anthropic (providers/anthropic.py, _translate_request).          *)

ChatSystem(m) == m.role \in {"system", "developer"}

\* Joined by newlines, with "nl" for the separator; no texts, no system prompt.
JoinLines(texts) ==
  IF texts = <<>> THEN Null
  ELSE Str(Join([n \in DOMAIN texts |-> IF n = 1 THEN texts[1] ELSE <<"nl">> \o texts[n]]))

\* Every part of a system or developer message is a line.
AnthropicSystem(messages) ==
  LET systems == SelectSeq(messages, ChatSystem)
  IN  JoinLines(FlattenSeq([n \in DOMAIN systems |->
        [k \in DOMAIN systems[n].content.parts |-> systems[n].content.parts[k].text]]))

AnthropicPartsOk(content, images) ==
  \A n \in DOMAIN content.parts :
    IsText(content.parts[n]) \/ (images /\ content.parts[n].kind = "image")

\* An absent content becomes the empty string.
TranslateContent(content) == IF content.form = "null" THEN Str(<<>>) ELSE content

\* tool_calls; the deprecated function_call ("legacy") is not one of them, and
\* neither adapter looks at it.
ToolCalls(m) == SelectSeq(m.calls, LAMBDA c : c.form # "legacy")

\* A call of a custom tool has no function: its block has no name or input.
ChatCallBlock(call) ==
  IF call.form = "custom" THEN [kind |-> "empty_tool_use", id |-> call.id] ELSE ToolUse(call.id)

ForAnthropicOk(m) ==
  /\ m.role \in {"system", "developer", "tool", "user", "assistant"}
  /\ AnthropicPartsOk(m.content, m.role \in {"user", "assistant"})
  /\ \A n \in DOMAIN m.calls : m.calls[n].form # "invalid"

ForAnthropicMessage(m) ==
  IF m.role = "tool"
    THEN Message("user", List(<<ToolResult(m.id, TranslateContent(m.content), FALSE)>>))
  ELSE IF ToolCalls(m) # <<>>
    THEN LET texts == IF m.content = Str(<<>>) THEN <<>> ELSE m.content.parts
             calls == ToolCalls(m)
         IN  Message("assistant",
               List(texts \o [n \in DOMAIN calls |-> ChatCallBlock(calls[n])]))
  ELSE Message(m.role, TranslateContent(m.content))

ToolsOk(body) == body.choice \notin {"custom", "allowed"}

ForAnthropic(body) ==
  LET turns == SelectSeq(body.messages, LAMBDA m : ~ ChatSystem(m))
  IN  IF \/ \E n \in DOMAIN body.messages : ~ ForAnthropicOk(body.messages[n])
         \/ ~ ToolsOk(body)
        THEN Refused
        ELSE {Payload("anthropic_messages", AnthropicSystem(body.messages),
                [n \in DOMAIN turns |-> ForAnthropicMessage(turns[n])],
                {"limit"} \cup (body.fields \cap {"sampling", "stop", "tools", "top_k", "metadata"}),
                body.choice)}

-----------------------------------------------------------------------------
(* Chat to Gemini (_gemini_common.py, translate_chat_request).              *)

\* The calls a tool message may answer: those of the messages before it.
PriorCalls(messages, n) ==
  UNION {{c.id : c \in ToSet(ToolCalls(messages[k]))} : k \in 1 .. n - 1}

ForGeminiOk(messages, n) ==
  /\ messages[n].role \in {"system", "developer", "tool", "user", "assistant"}
  /\ OnlyText(messages[n].content)
  /\ \A c \in DOMAIN messages[n].calls : messages[n].calls[c].form \in {"object", "legacy"}
  /\ messages[n].role = "tool" => messages[n].id \in PriorCalls(messages, n)

\* Every system or developer message is a line.
GeminiSystem(messages) ==
  LET systems == SelectSeq(messages, ChatSystem)
  IN  JoinLines([n \in DOMAIN systems |-> PartsText(systems[n].content.parts)])

\* Parts of a Content: the text, unless an assistant has none, and the calls.
ForGeminiMessage(m) ==
  LET text  == PartsText(m.content.parts)
      calls == ToolCalls(m)
  IN  IF m.role = "tool" THEN Message("user", List(<<ToolResult(m.id, Str(text), FALSE)>>))
      ELSE IF m.role = "user" THEN Message("user", List(<<Text(text)>>))
      ELSE Message("model",
             List((IF text = <<>> THEN <<>> ELSE <<Text(text)>>)
                    \o [n \in DOMAIN calls |-> ToolUse(calls[n].id)]))

ForGemini(body) ==
  LET turns == SelectSeq(body.messages, LAMBDA m : ~ ChatSystem(m))
  IN  IF \/ body.fields \ SupportedFields("gemini") # {}
         \/ \E n \in DOMAIN body.messages : ~ ForGeminiOk(body.messages, n)
         \/ ~ ToolsOk(body)
        THEN Refused
        ELSE {Payload("gemini", GeminiSystem(body.messages),
                [n \in DOMAIN turns |-> ForGeminiMessage(turns[n])],
                body.fields \cap {"limit", "sampling", "stop", "tools"}, body.choice)}

-----------------------------------------------------------------------------
(* Dispatch (provider_dispatch.py).                                         *)

TranslateFor(provider, body) ==
  IF provider = "anthropic" THEN ForAnthropic(body)
  ELSE IF provider = "gemini" THEN ForGemini(body)
  ELSE {body}

\* The native body for a provider of the client's protocol; else the Chat body,
\* whose fields are checked unless the provider is the mock, then translated.
Forward(p, provider) ==
  IF provider \in NativeProviders[p.protocol] THEN {p}
  ELSE UNION {IF provider # "mock" /\ body.fields \ SupportedFields(provider) # {}
                THEN Refused ELSE TranslateFor(provider, body) : body \in ToChatBody(p)}
=============================================================================
