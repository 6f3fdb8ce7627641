------------------------------ MODULE Payloads ------------------------------
(***************************************************************************)
(* Requests of the three client protocols, the text the gateway proxy has  *)
(* governance inspect of each, and how a redaction is written back.        *)
(*                                                                         *)
(* Content is a string or a list of parts; a string is kept as a list of   *)
(* one text part marked "str".  Anthropic calls its parts blocks, and its  *)
(* tool_result block has content of its own.                               *)
(***************************************************************************)
EXTENDS Redaction

-----------------------------------------------------------------------------
(* Parts, contents and messages.                                            *)

Text(t) == [kind |-> "text", text |-> t]
NoText == [kind |-> "no_text"]                \* a text part whose text is null
Image == [kind |-> "image"]
Other(kind) == [kind |-> kind]                \* a part no translation knows

Str(t) == [form |-> "str", parts |-> <<Text(t)>>]
List(parts) == [form |-> "list", parts |-> parts]
Null == [form |-> "null", parts |-> <<>>]

ToolUse(id) == [kind |-> "tool_use", id |-> id]
ToolResult(id, content, isError) ==
  [kind |-> "tool_result", id |-> id, content |-> content, isError |-> isError]

\* tool_calls of a Chat assistant message: "object" and "invalid" are function
\* calls, whose arguments are a JSON object or are not.
Call(id, form) == [id |-> id, form |-> form]

\* calls: tool_calls of an assistant; id: tool_call_id of a tool message.
Message(role, content) == [role |-> role, content |-> content, calls |-> <<>>, id |-> 0]
AssistantCalls(content, calls) == [Message("assistant", content) EXCEPT !.calls = calls]
ToolMessage(id, content) == [Message("tool", content) EXCEPT !.id = id]

\* A request.  system is Anthropic's system or Responses' instructions; fields
\* are the optional fields that are set, choice is tool_choice.
Payload(protocol, system, messages, fields, choice) ==
  [protocol |-> protocol, system |-> system, messages |-> messages,
   fields |-> fields, choice |-> choice]

NativeProviders ==
  [openai_chat |-> {"openai", "generic"}, openai_responses |-> {"openai"},
   anthropic_messages |-> {"anthropic"}]

-----------------------------------------------------------------------------
(* The governed leaves.                                                     *)

IsText(part) == part.kind = "text"

\* The text of a list of parts, as the joins of the code have it.
PartsText(parts) ==
  LET texts == SelectSeq(parts, IsText)
  IN  Join([n \in DOMAIN texts |-> texts[n].text])

UserMessages(p) == {m \in DOMAIN p.messages : p.messages[m].role = "user"}

\* Chat and Anthropic have the last user message inspected, Responses all.
GovernedMessages(p) ==
  IF p.protocol = "openai_responses" \/ UserMessages(p) = {}
    THEN UserMessages(p)
    ELSE {Max(UserMessages(p))}

\* Only Anthropic user messages have tool results, only Responses null texts.
GovernedPart(part) == part.kind \in {"text", "no_text", "tool_result"}

LeafText(part) ==
  IF part.kind = "text" THEN part.text
  ELSE IF part.kind = "tool_result" THEN PartsText(part.content.parts)
  ELSE <<>>

\* The governed leaves <<message, part>> in the order of the request.
Leaves(p) ==
  FlattenSeq([m \in DOMAIN p.messages |->
    IF m \notin GovernedMessages(p) THEN <<>>
    ELSE LET parts == p.messages[m].content.parts
         IN  SelectSeq([n \in DOMAIN parts |-> <<m, n>>],
                       LAMBDA leaf : GovernedPart(parts[leaf[2]]))])

PartAt(p, leaf) == p.messages[leaf[1]].content.parts[leaf[2]]

LeafTexts(p) == LET leaves == Leaves(p)
                IN  [n \in DOMAIN leaves |-> LeafText(PartAt(p, leaves[n]))]

GovernanceText(p) == Join(LeafTexts(p))

-----------------------------------------------------------------------------
(* Writing a redaction back.                                                *)

\* Mutant: as ResultContent, but the content of a result becomes a string.
ResultContentFlat(content, share) ==
  IF content.parts = <<>> /\ share = <<>> THEN content ELSE Str(share)

\* _redact_tool_result_content: a share for a result without a text block
\* becomes its string, or a block after the images.
ResultContent(content, share) ==
  LET parts == content.parts
      texts == {n \in DOMAIN parts : IsText(parts[n])}
      order == SelectSeq([n \in DOMAIN parts |-> n], LAMBDA n : n \in texts)
      shares == RedistributeRedactedText([k \in DOMAIN order |-> parts[order[k]].text], share)
      Rank(n) == CHOOSE k \in DOMAIN order : order[k] = n
  IN  IF content.form = "str" THEN Str(share)
      ELSE IF texts = {} /\ share = <<>> THEN content
      ELSE IF content.form = "null" THEN Str(share)
      ELSE IF texts = {} THEN List(Append(parts, Text(share)))
      ELSE List([n \in DOMAIN parts |-> IF n \in texts THEN Text(shares[Rank(n)])
                                                       ELSE parts[n]])

RewritePart(part, share) ==
  IF part.kind = "tool_result"
    THEN [part EXCEPT !.content = ResultContent(part.content, share)]
    ELSE Text(share)

\* Mutant: as WithRedactedText, but the whole text goes to the first leaf.
WithRedactedTextFirst(p, redacted) ==
  LET leaves == Leaves(p)
  IN  IF leaves = <<>> THEN p
      ELSE [p EXCEPT !.messages[leaves[1][1]].content.parts[leaves[1][2]] =
              RewritePart(PartAt(p, leaves[1]), redacted)]

WithRedactedText(p, redacted) ==
  LET leaves == Leaves(p)
      shares == RedistributeRedactedText(LeafTexts(p), redacted)
      Rewrite(m, n, part) ==
        IF \E k \in DOMAIN leaves : leaves[k] = <<m, n>>
          THEN RewritePart(part, shares[CHOOSE k \in DOMAIN leaves : leaves[k] = <<m, n>>])
          ELSE part
  IN  [p EXCEPT !.messages =
         [m \in DOMAIN p.messages |->
            [p.messages[m] EXCEPT !.content.parts =
               [n \in DOMAIN p.messages[m].content.parts |->
                  Rewrite(m, n, p.messages[m].content.parts[n])]]]]
=============================================================================
