------------------------ MODULE ResponseTranslation ------------------------
(***************************************************************************)
(* A buffered answer on its way back: the provider's body becomes a Chat   *)
(* completion (providers/anthropic.py, providers/_gemini_common.py) and    *)
(* that the body of the client's protocol (responses_compat.py,            *)
(* anthropic_compat.py, client_codecs.py).                                 *)
(***************************************************************************)
EXTENDS Payloads

-----------------------------------------------------------------------------
(* Bodies.                                                                  *)

\* calls have the forms of tool_calls entries: the arguments are a JSON object,
\* JSON that is no object ("value"), no JSON ("invalid") or absent ("empty");
\* "no_function" has no function, "no_id" no id.
Choice(content, calls, finish) == [content |-> content, calls |-> calls, finish |-> finish]

ChatCompletion(choices) == [kind |-> "chat", choices |-> choices]
Garbled == [kind |-> "garbled"]               \* JSON of some other shape

\* The answer of the Anthropic API, and of Gemini: at most one candidate counts.
AnthropicAnswer(blocks, stop) == [kind |-> "anthropic", blocks |-> blocks, stop |-> stop]
GeminiAnswer(parts, finish) == [kind |-> "gemini", parts |-> parts, finish |-> finish]
GeminiEmpty(blocked) == [kind |-> "gemini_empty", blocked |-> blocked]

\* A function call in a Gemini part; its id may be missing.
FunctionCall(id) == ToolUse(id)

Ok(body) == [status |-> "ok", body |-> body]
Error == [status |-> "error", body |-> Garbled]

-----------------------------------------------------------------------------
(* Provider to Chat.                                                        *)

\* Stop reasons the map does not have count as an ordinary end.
AnthropicStop(stop) ==
  IF stop \in {"max_tokens", "tool_use"}
    THEN [max_tokens |-> "length", tool_use |-> "tool_calls"][stop]
    ELSE "stop"

Uses(parts) ==
  LET uses == SelectSeq(parts, LAMBDA b : b.kind = "tool_use")
  IN  [n \in DOMAIN uses |-> Call(uses[n].id, "object")]

\* A block of another type raises ValueError, which nothing catches.
TranslateAnthropic(a) ==
  IF \E n \in DOMAIN a.blocks : a.blocks[n].kind \notin {"text", "tool_use"}
    THEN Error
    ELSE Ok(ChatCompletion(<<Choice(Str(PartsText(a.blocks)), Uses(a.blocks),
                                    AnthropicStop(a.stop))>>))

\* None for a finishReason outside the map.  ("MODEL_ARMOR": Vertex's own.)
GeminiFinish(finish) ==
  IF finish \in {"STOP", "MAX_TOKENS", "SAFETY", "MODEL_ARMOR"}
    THEN {[STOP |-> "stop", MAX_TOKENS |-> "length", SAFETY |-> "content_filter",
           MODEL_ARMOR |-> "content_filter"][finish]}
    ELSE {}

\* Function calls override the reason; parts that are neither are left out.
TranslateGemini(a) ==
  IF GeminiFinish(a.finish) = {} THEN Error
  ELSE LET calls  == Uses(a.parts)
           finish == IF calls # <<>> THEN "tool_calls"
                     ELSE CHOOSE f \in GeminiFinish(a.finish) : TRUE
       IN  Ok(ChatCompletion(<<Choice(Str(PartsText(a.parts)), calls, finish)>>))

TranslateGeminiEmpty(a) ==
  IF a.blocked THEN Error ELSE Ok(ChatCompletion(<<Choice(Str(<<>>), <<>>, "stop")>>))

\* What the adapter hands on; a Chat provider's body passes unread.
AdapterAnswer(a) ==
  IF a.kind = "anthropic" THEN TranslateAnthropic(a)
  ELSE IF a.kind = "gemini" THEN TranslateGemini(a)
  ELSE IF a.kind = "gemini_empty" THEN TranslateGeminiEmpty(a)
  ELSE Ok(a)

-----------------------------------------------------------------------------
(* Chat to Responses (translate_chat_response).                             *)

\* The text of the first choice that has a content.
AssistantText(choices) ==
  LET withText == {n \in DOMAIN choices : choices[n].content.form # "null"}
  IN  IF withText = {} THEN <<>> ELSE PartsText(choices[Min(withText)].content.parts)

\* Mutant: as ResponsesStatus, but a cut answer counts as completed.
ResponsesStatusCompleted(finish) == "completed"

ResponsesStatus(finish) == IF finish = "length" THEN "incomplete" ELSE "completed"

\* An answer of calls alone has no message item.
ToResponses(chat) ==
  LET first == chat.choices[1]
      calls == IF chat.choices = <<>> THEN <<>> ELSE first.calls
      text  == AssistantText(chat.choices)
      status == IF chat.choices = <<>> THEN "completed" ELSE ResponsesStatus(first.finish)
  IN  IF chat.kind # "chat" THEN Error
      ELSE IF \E n \in DOMAIN calls : calls[n].form \in {"no_function", "no_id"} THEN Error
      ELSE Ok([kind |-> "responses", status |-> status,
               output |-> (IF text # <<>> \/ calls = <<>> THEN <<Text(text)>> ELSE <<>>)
                            \o [n \in DOMAIN calls |-> ToolUse(calls[n].id)]])

-----------------------------------------------------------------------------
(* Chat to Anthropic (chat_response_to_anthropic).                          *)

FinishToStop(finish) ==
  IF finish \in {"length", "tool_calls"}
    THEN [length |-> "max_tokens", tool_calls |-> "tool_use"][finish]
    ELSE "end_turn"

\* Mutant: as ToolCallsToBlocks, but arguments that are no object lose the call.
ToolCallsToBlocksStrict(calls) ==
  LET kept == SelectSeq(calls, LAMBDA c : c.form \in {"object", "empty", "no_id"})
  IN  [n \in DOMAIN kept |-> ToolUse(kept[n].id)]

\* A call without a function is skipped; arguments that are no object are
\* wrapped in one; a missing id is invented.
ToolCallsToBlocks(calls) ==
  LET kept == SelectSeq(calls, LAMBDA c : c.form # "no_function")
  IN  [n \in DOMAIN kept |-> ToolUse(kept[n].id)]

ToAnthropic(chat) ==
  LET first == chat.choices[1]
      texts == IF first.content = Str(<<>>) THEN <<>> ELSE first.content.parts
      blocks == texts \o ToolCallsToBlocks(first.calls)
  IN  IF chat.kind # "chat" THEN Error
      ELSE IF chat.choices = <<>> THEN Error
      ELSE IF \E n \in DOMAIN texts : ~ IsText(texts[n]) THEN Error
      ELSE Ok(AnthropicAnswer(IF blocks = <<>> THEN <<Text(<<>>)>> ELSE blocks,
                              FinishToStop(first.finish)))

-----------------------------------------------------------------------------
(* The client's codec (client_codecs.py).                                   *)

\* An Anthropic client gets a body that cannot be translated as it is.
EncodeResponse(protocol, adapted) ==
  IF adapted.status = "error" \/ protocol = "openai_chat" THEN adapted
  ELSE IF protocol = "openai_responses" THEN ToResponses(adapted.body)
  ELSE LET reply == ToAnthropic(adapted.body)
       IN  IF reply = Error THEN adapted ELSE reply
=============================================================================
