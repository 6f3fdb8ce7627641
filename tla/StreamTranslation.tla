------------------------- MODULE StreamTranslation -------------------------
(***************************************************************************)
(* One streamed answer on its way from a provider to a client, through the *)
(* chain of generators the gateway proxy builds for it:                    *)
(*                                                                         *)
(*   provider adapter -> Chat SSE -> usage watcher -> client encoder       *)
(*                                                                         *)
(* The adapter reads the provider's wire events and yields Chat chunks     *)
(* (inbox); the usage watcher hands them on one by one; the encoder of the *)
(* client's protocol turns each into frames, which the client sees as they *)
(* are yielded.  Every stage is a generator: it runs only when the next    *)
(* one asks, so a wire event is read only once the chunks of the previous  *)
(* one are gone and the encoder asks for more.  A step of an encoder runs  *)
(* from one of the places in its code where it may yield to the next.      *)
(*                                                                         *)
(* Tool calls are numbered as the provider starts them; the number is the  *)
(* call's id on the wire.  An arguments fragment is named by the call the  *)
(* provider meant it for, so that one arriving at the wrong call is seen.  *)
(***************************************************************************)
EXTENDS Integers, Sequences, FiniteSets, SequencesExt

CONSTANTS
  MaxCalls,           \* how many tool calls a stream has at most
  MaxEvents           \* how many wire events a stream has at most

ASSUME StreamAssumption == MaxCalls \in Nat /\ MaxEvents \in Nat

Calls == 1..MaxCalls
None == 0             \* a field the chunk does not have

\* The indexes a provider may give its tool calls in Chat chunks.
ChatIndexes == 0..MaxCalls - 1

\* One item for the text and one per call.
Indexes == 0..MaxCalls

\* "chat": openai, ollama and generic, whose bytes pass through, and mock.
Providers == {"chat", "anthropic", "gemini"}
Clients == {"chat", "responses", "anthropic"}

\* Pairs on one protocol are forwarded without translation (native.py).
Routes == (Providers \X Clients) \ {<<"chat", "chat">>, <<"anthropic", "anthropic">>}

VARIABLES
  route,              \* <<provider, client>>
  crlf,               \* the provider ends its lines with CRLF
  body,               \* what has become of the upstream response
  reads,              \* wire events read so far
  wire,               \* what the provider has sent, as the provider sees it
  decoder,            \* locals of the provider adapter's generators
  inbox,              \* Chat chunks the adapter yields for the last wire event
  watch,              \* locals of capture_stream_usage, and what it logged
  at,                 \* where the client encoder is
  chunk,              \* the chunk it works on
  call,               \* which of the chunk's tool calls it works on
  encoder,            \* its other locals
  seen                \* what the client has seen of the stream

upstream == <<route, crlf, body, reads, wire, decoder, inbox, watch>>
downstream == <<at, chunk, call, encoder, seen>>
vars == <<upstream, downstream>>

Provider == route[1]
Client == route[2]

NoUsage == [prompt |-> 0, completion |-> 0]

-----------------------------------------------------------------------------
(* Chat chunks.  A "chunk" is a chat.completion.chunk object, "error" an    *)
(* object with error and no choices, "garbage" a line the decoder rejects   *)
(* whatever it holds (malformed JSON, not an object, invalid UTF-8, a field *)
(* of the wrong type), "done" the [DONE] marker.                            *)

Chunk == [kind |-> "chunk", created |-> FALSE, choices |-> TRUE, text |-> FALSE,
          calls |-> <<>>, finish |-> "none", usage |-> NoUsage]
ErrorChunk == [Chunk EXCEPT !.kind = "error"]
Garbage == [Chunk EXCEPT !.kind = "garbage"]
Done == [Chunk EXCEPT !.kind = "done"]

\* One entry of delta.tool_calls: id or None, name or not, whose fragment.
CallDelta(index, id, name, frag) ==
  [index |-> index, id |-> id, name |-> name, frag |-> frag]

\* OpenAIChatCompletionChunk.model_validate: created has no default.
Validates(ch) == ch.kind = "chunk" /\ ch.created

-----------------------------------------------------------------------------
(* What a frame, once yielded, makes the client see. *)

Started == [seen EXCEPT !.starts = @ + 1]
Opened(i) == [seen EXCEPT !.items[i].opens = @ + 1]
Fed(i) == [seen EXCEPT !.items[i].deltas = @ + 1]
Closed(i) == [seen EXCEPT !.items[i].closes = @ + 1]

\* A fragment of the arguments, sent to a tool call's item.
FedCall(item, frag) ==
  [Fed(item.out) EXCEPT !.fragments[frag] = @ + 1,
                        !.stray = IF frag = item.call THEN @ ELSE @ + 1]

Terminal(kind, usage, finish) ==
  [seen EXCEPT !.ends = Append(@, kind), !.usage = usage, !.finish = finish]

\* _failed_stream_frame has the usage so far, an Anthropic error event none.
Failed == Terminal("failed", IF Client = "responses" THEN encoder.usage ELSE NoUsage, "none")

-----------------------------------------------------------------------------
(* The client encoders.  Their locals are                                   *)
(*   text    the text item's index, -1 before it is opened                  *)
(*   calls   the tool calls by Chat index, with id and item                 *)
(*   next    the next item's index                                          *)
(*   closed  the items closed so far                                        *)
(* and finish and usage.                                                    *)

\* The encoder runs to the next label; it goes idle to ask for a chunk.
Step(next, locals, view) ==
  /\ body \in {"open", "ended", "closed"}
  /\ at' = next
  /\ IF next \in {"idle", "returned"}
     THEN chunk' = Chunk /\ call' = 1
     ELSE chunk' = chunk /\ call' = IF at = "arguments" THEN call + 1 ELSE call
  /\ encoder' = locals
  /\ seen' = view
  /\ UNCHANGED upstream

Fail == Step("returned", encoder, Failed)

\* The tool call delta in hand.
Delta == chunk.calls[call]

Known(k) == k \in DOMAIN encoder.calls

Assign(f, x, v) == [y \in DOMAIN f \cup {x} |-> IF y = x THEN v ELSE f[y]]

\* An item for a new tool call, at the next output index.
OpenCall ==
  Step("arguments",
       [encoder EXCEPT !.calls = Assign(@, Delta.index, [call |-> Delta.id, out |-> encoder.next]),
                       !.next = @ + 1],
       Opened(encoder.next))

Feed(k) == Step("calls", encoder, FedCall(encoder.calls[k], Delta.frag))

(* openai_sse_to_responses_sse, over the canonical events that              *)
(* iter_openai_chat_canonical_events makes of the chunk: usage_updated,     *)
(* text_delta, for each call tool_call_started and arguments_delta, and     *)
(* message_completed.                                                       *)

ChatFinishToCanonical ==
  [stop |-> "end_turn", length |-> "max_tokens", tool_calls |-> "tool_use",
   content_filter |-> "content_filtered"]

CanonicalToChatFinish ==
  [end_turn |-> "stop", max_tokens |-> "length", tool_use |-> "tool_calls",
   content_filtered |-> "content_filter", unknown |-> "stop"]

UsageUpdated == chunk.usage # NoUsage
ToolCallStarted == Delta.id # None \/ Delta.name
ArgumentsDelta == Delta.frag # None
MessageCompleted == chunk.finish # "none"

ResponsesStart == at = "start" /\ Step("idle", encoder, Started)

ResponsesUsage ==
  /\ at = "usage"
  /\ Step(IF chunk.choices THEN "open_text" ELSE "idle",
          IF UsageUpdated THEN [encoder EXCEPT !.usage = chunk.usage] ELSE encoder, seen)

ResponsesOpenText ==
  /\ at = "open_text"
  /\ \/ /\ chunk.text /\ encoder.text < 0
        /\ Step("text", [encoder EXCEPT !.text = encoder.next, !.next = @ + 1],
                Opened(encoder.next))
     \/ /\ ~chunk.text \/ encoder.text >= 0
        /\ Step("text", encoder, seen)

ResponsesText ==
  at = "text" /\ Step("calls", encoder, IF chunk.text THEN Fed(encoder.text) ELSE seen)

\* A call is opened by its id and name; later its id may not change.
ResponsesCallStarted ==
  /\ at = "calls"
  /\ call <= Len(chunk.calls)
  /\ \/ /\ ToolCallStarted /\ ~Known(Delta.index)
        /\ IF Delta.id # None /\ Delta.name THEN OpenCall ELSE Fail
     \/ /\ ToolCallStarted /\ Known(Delta.index)
        /\ IF Delta.id \in {None, encoder.calls[Delta.index].call}
           THEN Step("arguments", encoder, seen)
           ELSE Fail
     \/ ~ToolCallStarted /\ Step("arguments", encoder, seen)

\* Mutant: fragments are taken to belong to the call opened last.
ResponsesArgumentsLast ==
  LET last == {k \in DOMAIN encoder.calls : encoder.calls[k].out = encoder.next - 1}
  IN  /\ at = "arguments"
      /\ \/ ArgumentsDelta /\ \E k \in last : Feed(k)
         \/ ArgumentsDelta /\ last = {} /\ Fail
         \/ ~ArgumentsDelta /\ Step("calls", encoder, seen)

ResponsesArguments ==
  /\ at = "arguments"
  /\ \/ ArgumentsDelta /\ Known(Delta.index) /\ Feed(Delta.index)
     \/ ArgumentsDelta /\ ~Known(Delta.index) /\ Fail
     \/ ~ArgumentsDelta /\ Step("calls", encoder, seen)

ResponsesCallsDone == at = "calls" /\ call > Len(chunk.calls) /\ Step("finish", encoder, seen)

ResponsesFinish ==
  /\ at = "finish"
  /\ Step("idle",
          IF MessageCompleted
          THEN [encoder EXCEPT !.finish = CanonicalToChatFinish[ChatFinishToCanonical[chunk.finish]]]
          ELSE encoder,
          seen)

(* openai_sse_to_anthropic_sse: the text block 0 is opened with the message. *)

AnthropicStart ==
  /\ at = "start"
  /\ \/ encoder.text < 0 /\ Step("open_text", encoder, Started)
     \/ encoder.text >= 0 /\ Step("usage", encoder, seen)

AnthropicOpenText == at = "open_text" /\ Step("usage", [encoder EXCEPT !.text = 0], Opened(0))

\* Mutant: the usage of a chunk without choices is not looked at.
AnthropicUsageOfChoices ==
  /\ at = "usage"
  /\ Step(IF chunk.choices THEN "finish" ELSE "idle",
          IF chunk.choices /\ chunk.usage # NoUsage
          THEN [encoder EXCEPT !.usage = chunk.usage] ELSE encoder, seen)

\* output_tokens: the completion tokens of the last usage.
AnthropicUsage ==
  /\ at = "usage"
  /\ Step(IF chunk.choices THEN "finish" ELSE "idle",
          IF chunk.usage # NoUsage THEN [encoder EXCEPT !.usage = chunk.usage] ELSE encoder, seen)

\* Nothing but usage may follow a finish reason.
AnthropicFinish ==
  /\ at = "finish"
  /\ \/ encoder.finish # "none" /\ Fail
     \/ encoder.finish = "none" /\ Step("text", [encoder EXCEPT !.finish = chunk.finish], seen)

AnthropicText == at = "text" /\ Step("calls", encoder, IF chunk.text THEN Fed(0) ELSE seen)

AnthropicCall ==
  /\ at = "calls"
  /\ call <= Len(chunk.calls)
  /\ \/ ~Known(Delta.index) /\ IF Delta.id # None /\ Delta.name THEN OpenCall ELSE Fail
     \/ Known(Delta.index) /\ Step("arguments", encoder, seen)

AnthropicArguments ==
  /\ at = "arguments"
  /\ \/ Delta.frag # None /\ Feed(Delta.index)
     \/ Delta.frag = None /\ Step("calls", encoder, seen)

AnthropicCallsDone == at = "calls" /\ call > Len(chunk.calls) /\ Step("idle", encoder, seen)

(* The upstream is exhausted: close everything that is open and complete,   *)
(* or incomplete_upstream_stream.                                           *)

OpenCalls == {k \in DOMAIN encoder.calls : encoder.calls[k].out \notin encoder.closed}

\* Mutant: only the call opened last is closed.
ResponsesToCloseLast ==
  {i \in {encoder.next - 1} : i >= 0 /\ i \notin encoder.closed}

\* The text first, then the calls in the order of their Chat index.
ResponsesToClose ==
  IF encoder.text >= 0 /\ encoder.text \notin encoder.closed
  THEN {encoder.text}
  ELSE {encoder.calls[k].out : k \in {l \in OpenCalls : \A m \in OpenCalls : l <= m}}

\* open_block_indices, in the order the blocks were opened.
AnthropicToClose ==
  LET open == {i \in 0 .. encoder.next - 1 : encoder.text >= 0 /\ i \notin encoder.closed}
  IN  {i \in open : \A j \in open : i <= j}

ToClose == IF Client = "responses" THEN ResponsesToClose ELSE AnthropicToClose

\* Mutant: a stream that just stops is taken for a finished one.
FinishedLenient == TRUE

Finished == encoder.finish # "none"

CloseItem ==
  /\ at = "closing"
  /\ Finished
  /\ \E i \in ToClose : Step("closing", [encoder EXCEPT !.closed = @ \cup {i}], Closed(i))

Complete ==
  /\ at = "closing"
  /\ Finished
  /\ ToClose = {}
  /\ Step("returned", encoder, Terminal("completed", encoder.usage, encoder.finish))

\* Mutant: nothing is said about a stream that just stops.
IncompleteSilent == at = "closing" /\ ~Finished /\ Step("returned", encoder, seen)

Incomplete == at = "closing" /\ ~Finished /\ Fail

ResponsesStep ==
  \/ ResponsesStart
  \/ ResponsesUsage
  \/ ResponsesOpenText
  \/ ResponsesText
  \/ ResponsesCallStarted
  \/ ResponsesArguments
  \/ ResponsesCallsDone
  \/ ResponsesFinish

AnthropicEncoderStep ==
  \/ AnthropicStart
  \/ AnthropicOpenText
  \/ AnthropicUsage
  \/ AnthropicFinish
  \/ AnthropicText
  \/ AnthropicCall
  \/ AnthropicArguments
  \/ AnthropicCallsDone

Translate ==
  \/ Client = "responses" /\ ResponsesStep
  \/ Client = "anthropic" /\ AnthropicEncoderStep
  \/ CloseItem
  \/ Complete
  \/ Incomplete

-----------------------------------------------------------------------------
(* Opening the stream. *)

Init ==
  /\ route \in Routes
  /\ crlf \in BOOLEAN
  /\ Provider # "chat" => ~crlf
  /\ body = "opening"
  /\ reads = 0
  /\ wire = [owner |-> <<>>, started |-> 0, fragments |-> [c \in Calls |-> 0],
             finish |-> "none", reused |-> FALSE, usage |-> NoUsage]
  /\ decoder = [blocks |-> <<>>, counter |-> 0, usage |-> NoUsage, finish |-> "stop"]
  /\ inbox = <<>>
  /\ watch = [seen |-> NoUsage, held |-> NoUsage, logged |-> FALSE]
  /\ at = IF Client = "responses" THEN "start" ELSE "idle"
  /\ chunk = Chunk
  /\ call = 1
  /\ encoder = [text |-> -1, calls |-> <<>>, next |-> IF Client = "anthropic" THEN 1 ELSE 0,
                finish |-> "none", usage |-> NoUsage, closed |-> {}]
  /\ seen = [starts |-> 0, ends |-> <<>>, done |-> FALSE, usage |-> NoUsage, finish |-> "none",
             items |-> [i \in Indexes |-> [opens |-> 0, deltas |-> 0, closes |-> 0]],
             fragments |-> [c \in Calls |-> 0], stray |-> 0]

\* A timeout, a connection error, a status other than 200 or a body that is
\* not an event stream is answered as a plain HTTP error: no stream opens.
OpenRefused ==
  /\ body = "opening"
  /\ body' = "refused"
  /\ UNCHANGED <<route, crlf, reads, wire, decoder, inbox, watch, downstream>>

OpenStream ==
  /\ body = "opening"
  /\ body' = "open"
  /\ UNCHANGED <<route, crlf, reads, wire, decoder, inbox, watch, downstream>>

-----------------------------------------------------------------------------
(* The provider adapters. *)

\* The adapter is asked for its next chunk and reads the next wire event.
Reading == body = "open" /\ inbox = <<>> /\ at = "idle"

\* It yields these chunks for it, and goes on reading or returns.
Adapter(chunks, next) ==
  /\ Reading
  /\ inbox' = chunks
  /\ body' = next
  /\ UNCHANGED <<route, crlf, watch, downstream>>

Reads == reads < MaxEvents /\ reads' = reads + 1

\* httpx raises in the middle of the body.
Cut ==
  /\ Adapter(<<ErrorChunk>>, "ended")
  /\ UNCHANGED <<reads, wire, decoder>>

FinalUsage == [prompt |-> 2, completion |-> reads + 1]

\* The provider closes its stream.
End ==
  /\ Provider # "gemini"
  /\ Adapter(<<>>, "ended")
  /\ UNCHANGED <<reads, wire, decoder>>

NewCall == wire.started + 1

\* The provider starts n calls as its tool calls (or content blocks) k, k + 1...
Starts(k, n, fragments) ==
  LET new == k .. k + n - 1
  IN  [wire EXCEPT
        !.owner = [i \in DOMAIN wire.owner \cup new |->
                    IF i \in new THEN NewCall + (i - k) ELSE wire.owner[i]],
        !.started = @ + n,
        !.fragments = [c \in Calls |-> IF c \in NewCall .. wire.started + n THEN @[c] + fragments
                                                                        ELSE @[c]],
        !.reused = @ \/ new \cap DOMAIN wire.owner # {}]

(* anthropic: iter_anthropic_messages_canonical_events, then                *)
(* iter_openai_chat_sse_from_canonical.                                     *)

AnthropicStopToChat ==
  [end_turn |-> "stop", max_tokens |-> "length", tool_use |-> "tool_calls",
   stop_sequence |-> "stop", pause_turn |-> "stop"]

AnthropicReads ==
  /\ Provider = "anthropic"
  /\ wire.finish = "none"
  /\ Reads

MessageStart(tokens) ==
  /\ AnthropicReads
  /\ reads = 0
  /\ Adapter(<<>>, "open")
  /\ decoder' = [decoder EXCEPT !.usage.prompt = tokens]
  /\ wire' = [wire EXCEPT !.usage.prompt = tokens]

ToolUseStart(block) ==
  /\ AnthropicReads
  /\ block \notin DOMAIN wire.owner
  /\ NewCall \in Calls
  /\ Adapter(<<[Chunk EXCEPT !.calls = <<CallDelta(decoder.counter, NewCall, TRUE, None)>>]>>,
             "open")
  /\ decoder' = [decoder EXCEPT !.blocks = Assign(decoder.blocks, block, decoder.counter),
                                !.counter = @ + 1]
  /\ wire' = Starts(block, 1, 0)

TextDelta ==
  /\ AnthropicReads
  /\ Adapter(<<[Chunk EXCEPT !.text = TRUE]>>, "open")
  /\ UNCHANGED <<wire, decoder>>

\* Arguments of a block that is no tool_use block are dropped.
InputJsonDelta(block) ==
  /\ AnthropicReads
  /\ LET known == block \in DOMAIN decoder.blocks
         c == wire.owner[block]
     IN  /\ Adapter(IF known
                    THEN <<[Chunk EXCEPT !.calls =
                             <<CallDelta(decoder.blocks[block], None, FALSE, c)>>]>>
                    ELSE <<>>,
                    "open")
         /\ wire' = IF known THEN [wire EXCEPT !.fragments[c] = @ + 1] ELSE wire
  /\ UNCHANGED decoder

MessageDelta(reason) ==
  /\ AnthropicReads
  /\ LET usage == [decoder.usage EXCEPT !.completion = FinalUsage.completion]
     IN  /\ Adapter(<<[Chunk EXCEPT !.finish = AnthropicStopToChat[reason], !.usage = usage],
                      Done>>, "open")
         /\ decoder' = [decoder EXCEPT !.usage = usage]
         /\ wire' = [wire EXCEPT !.finish = AnthropicStopToChat[reason], !.usage = usage]

\* An error event, malformed JSON or an event that is no object.
AnthropicStreamFails ==
  /\ AnthropicReads
  /\ Adapter(<<ErrorChunk>>, "ended")
  /\ UNCHANGED <<wire, decoder>>

(* gemini and gemini-vertex: iter_openai_chat_sse_from_gemini_lines.        *)

GeminiFinishToChat == [STOP |-> "stop", MAX_TOKENS |-> "length", SAFETY |-> "content_filter"]

\* The content parts of one candidate: text, or a complete function call.
Parts == {<<>>, <<"text">>, <<"call">>, <<"text", "call">>, <<"call", "text">>, <<"call", "call">>}

CallParts(parts) == SetToSortSeq({k \in DOMAIN parts : parts[k] = "call"}, <)

\* _candidate_stream_delta: the index of a tool call is its part's index.
CandidateDelta(parts) ==
  LET calls == CallParts(parts)
  IN  [Chunk EXCEPT !.text = \E k \in DOMAIN parts : parts[k] = "text",
                    !.calls = [k \in DOMAIN calls |->
                      CallDelta(calls[k] - 1, wire.started + k, TRUE, wire.started + k)]]

GeminiCandidate(parts, finish) ==
  LET started == wire.started + Len(CallParts(parts))
  IN  /\ Provider = "gemini"
      /\ Reads
      /\ started <= MaxCalls
      /\ Adapter(<<CandidateDelta(parts)>>, "open")
      /\ decoder' = [decoder EXCEPT
           !.usage = FinalUsage,
           !.finish = IF started > wire.started THEN "tool_calls"
                      ELSE IF finish = "none" THEN @
                      ELSE GeminiFinishToChat[finish]]
      /\ wire' = [wire EXCEPT
           !.started = started,
           !.fragments = [c \in Calls |-> IF c <= started THEN 1 ELSE 0],
           !.finish = IF finish = "none" THEN @ ELSE GeminiFinishToChat[finish],
           !.usage = FinalUsage]

\* Malformed JSON, no object, or no candidate and no block reason: skipped.
GeminiSkips ==
  /\ Provider = "gemini"
  /\ Reads
  /\ Adapter(<<>>, "open")
  /\ UNCHANGED <<wire, decoder>>

\* A blocked prompt, an unknown finishReason, a malformed candidate.
GeminiStreamFails ==
  /\ Provider = "gemini"
  /\ Reads
  /\ Adapter(<<ErrorChunk>>, "ended")
  /\ UNCHANGED <<wire, decoder>>

GeminiEnd ==
  /\ Provider = "gemini"
  /\ Adapter(<<[Chunk EXCEPT !.finish = decoder.finish, !.usage = decoder.usage], Done>>, "ended")
  /\ UNCHANGED <<reads, wire, decoder>>

(* chat: the bytes of an OpenAI-compatible provider pass through.           *)

ChatSends(ch, sees) ==
  /\ Provider = "chat"
  /\ Reads
  /\ Adapter(<<ch>>, "open")
  /\ wire' = sees
  /\ UNCHANGED decoder

OpenAIChunk == [Chunk EXCEPT !.created = TRUE]

ChatText == ChatSends([OpenAIChunk EXCEPT !.text = TRUE], wire)

\* One chunk starts one call or several, each with a first fragment or without;
\* a careless provider reuses the index of another call.
ChatCallStart(k, n, fragment) ==
  /\ wire.started + n <= MaxCalls
  /\ ChatSends([OpenAIChunk EXCEPT !.calls =
                 [j \in 1..n |-> CallDelta(k + j - 1, wire.started + j, TRUE,
                                            IF fragment THEN wire.started + j ELSE None)]],
               Starts(k, n, IF fragment THEN 1 ELSE 0))

\* Another leaves the id, the name or both out of a call's first chunk.
ChatCallAnonymous(k, id, name) ==
  /\ ~(id /\ name)
  /\ NewCall \in Calls
  /\ k \notin DOMAIN wire.owner
  /\ ChatSends([OpenAIChunk EXCEPT !.calls =
                 <<CallDelta(k, IF id THEN NewCall ELSE None, name, NewCall)>>],
               [wire EXCEPT !.fragments[NewCall] = @ + 1])

ChatFragment(k) ==
  /\ k \in DOMAIN wire.owner
  /\ ChatSends([OpenAIChunk EXCEPT !.calls = <<CallDelta(k, None, FALSE, wire.owner[k])>>],
               [wire EXCEPT !.fragments[wire.owner[k]] = @ + 1])

\* The finish reason, sometimes with the usage and a last piece of text.
ChatFinish(finish, usage, text) ==
  ChatSends([OpenAIChunk EXCEPT !.finish = finish, !.text = text, !.usage = usage],
            [wire EXCEPT !.finish = finish, !.usage = IF usage = NoUsage THEN @ ELSE usage])

ChatUsage ==
  ChatSends([OpenAIChunk EXCEPT !.choices = FALSE, !.usage = FinalUsage],
            [wire EXCEPT !.usage = FinalUsage])

ChatDone == wire.finish # "none" /\ ChatSends(Done, wire)

ChatError == \E ch \in {ErrorChunk, Garbage} : ChatSends(ch, wire)

-----------------------------------------------------------------------------
(* The usage watcher and the encoder. *)

\* capture_stream_usage looks at a chunk only when it is asked for the next,
\* and finds events by "\n\n" alone.
Absorbed == IF watch.held = NoUsage THEN watch.seen ELSE watch.held

\* A Chat client gets the chunks as they are.
ObserveChunk(ch) ==
  [seen EXCEPT !.finish = IF ch.finish = "none" THEN @ ELSE ch.finish,
               !.done = @ \/ ch.kind = "done"]

\* The encoder gets the chunk it asked for.
Receive(ch) ==
  \/ /\ Client = "chat"
     /\ seen' = ObserveChunk(ch)
     /\ UNCHANGED <<at, chunk, call>>
  \/ /\ Client # "chat" /\ ch.kind = "done"
     /\ UNCHANGED <<at, chunk, call, seen>>
  \/ /\ Client # "chat" /\ ch.kind # "done" /\ ~Validates(ch)
     /\ at' = "returned"
     /\ seen' = Failed
     /\ UNCHANGED <<chunk, call>>
  \/ /\ Client # "chat" /\ Validates(ch)
     /\ at' = IF Client = "responses" THEN "usage" ELSE "start"
     /\ chunk' = ch
     /\ UNCHANGED <<call, seen>>

Pull ==
  /\ at = "idle"
  /\ inbox # <<>>
  /\ body \in {"open", "ended"}
  /\ Receive(Head(inbox))
  /\ watch' = [watch EXCEPT !.seen = Absorbed,
                            !.held = IF crlf THEN NoUsage ELSE Head(inbox).usage]
  /\ inbox' = Tail(inbox)
  /\ UNCHANGED <<route, crlf, body, reads, wire, decoder, encoder>>

\* The body is exhausted: on_complete, then the encoder's last frames.
EndOfBody ==
  /\ at = "idle"
  /\ inbox = <<>>
  /\ body = "ended"
  /\ body' = "closed"
  /\ watch' = [seen |-> Absorbed, held |-> NoUsage, logged |-> TRUE]
  /\ at' = IF Client = "chat" THEN "returned" ELSE "closing"
  /\ UNCHANGED <<route, crlf, reads, wire, decoder, inbox, chunk, call, encoder, seen>>

\* The client goes away, at any point of an open stream.
Disconnect ==
  /\ body \in {"open", "ended", "closed"}
  /\ body' = "gone"
  /\ at' = "returned"
  /\ chunk' = Chunk
  /\ call' = 1
  /\ inbox' = <<>>
  /\ UNCHANGED <<route, crlf, reads, wire, decoder, watch, encoder, seen>>

\* The watcher's finally clause, when the encoder returned early or the
\* client went away: the last chunk has not been looked at.
Finalize ==
  /\ ~watch.logged
  /\ body = "gone" \/ at = "returned"
  /\ watch' = [watch EXCEPT !.logged = TRUE]
  /\ body' = IF body = "gone" THEN "gone" ELSE "closed"
  /\ inbox' = <<>>
  /\ UNCHANGED <<route, crlf, reads, wire, decoder, downstream>>

AnthropicStep ==
  \/ \E tokens \in {0, 2} : MessageStart(tokens)
  \/ \E block \in Calls : ToolUseStart(block)
  \/ TextDelta
  \/ \E block \in Calls : InputJsonDelta(block)
  \/ \E reason \in DOMAIN AnthropicStopToChat : MessageDelta(reason)
  \/ AnthropicStreamFails

GeminiStep ==
  \/ \E parts \in Parts, finish \in {"none", "STOP", "MAX_TOKENS"} :
       GeminiCandidate(parts, finish)
  \/ GeminiSkips
  \/ GeminiStreamFails
  \/ GeminiEnd

ChatStep ==
  \/ ChatText
  \/ \E k \in ChatIndexes, n \in Calls, fragment \in BOOLEAN :
       k + n <= MaxCalls /\ ChatCallStart(k, n, fragment)
  \/ \E k \in ChatIndexes, id, name \in BOOLEAN : ChatCallAnonymous(k, id, name)
  \/ \E k \in ChatIndexes : ChatFragment(k)
  \/ \E finish \in {"stop", "length"}, usage \in {NoUsage, FinalUsage}, text \in BOOLEAN :
       ChatFinish(finish, usage, text)
  \/ ChatUsage
  \/ ChatDone
  \/ ChatError

Provide == AnthropicStep \/ GeminiStep \/ ChatStep \/ Cut \/ End

Next ==
  \/ OpenRefused
  \/ OpenStream
  \/ Provide
  \/ Pull
  \/ Translate
  \/ EndOfBody
  \/ Disconnect
  \/ Finalize

\* The upstream answers or its read timeout fires; generators are resumed as
\* long as the client reads, and closed by the event loop when dropped.
Fairness ==
  /\ WF_vars(OpenRefused \/ OpenStream)
  /\ WF_vars(Provide)
  /\ WF_vars(Pull)
  /\ WF_vars(Translate)
  /\ WF_vars(EndOfBody)
  /\ WF_vars(Finalize)

Spec == Init /\ [][Next]_vars /\ Fairness

-----------------------------------------------------------------------------
(* Properties. *)

Ended(kind) == seen.ends # <<>> /\ Last(seen.ends) = kind

\* openai_sse_to_responses_sse and openai_sse_to_anthropic_sse implement the
\* lifecycle: whatever the provider sends, and wherever it breaks off, items
\* are opened once and in order, fed while open, and closed before a stream
\* that succeeds ends; nothing follows the terminal frame.
Lifecycle == INSTANCE StreamLifecycle WITH
  starts <- seen.starts, items <- seen.items, ends <- seen.ends

FollowsLifecycle == Lifecycle!Spec

\* A stream is reported as complete only when the provider gave a finish
\* reason, and one cut by the token limit is reported as cut: a truncated
\* answer must not look finished.  (The Gemini adapter fills in "stop" at the
\* end of the body and lets a tool call hide the limit; it is excepted.)
SuccessNeedsFinish ==
  (Ended("completed") \/ seen.done) /\ Provider # "gemini" =>
    seen.finish = wire.finish /\ wire.finish # "none"

\* Interleaved tool calls stay apart: a fragment reaches the item of the call
\* it belongs to, and a completed stream has lost none.  (A provider that
\* reuses a call's index is caught by the Responses encoder only.)
CallsKeptApart ==
  ~(wire.reused /\ Client = "anthropic") =>
    /\ seen.stray = 0
    /\ Ended("completed") => seen.fragments = wire.fragments

\* The tokens the provider billed last are what the client is told and what
\* the usage log gets, even in a usage-only chunk after the finish reason.
UsageAgrees ==
  Ended("completed") =>
    /\ Client = "responses" => seen.usage = wire.usage
    /\ seen.usage.completion = wire.usage.completion
    /\ ~crlf => watch.logged /\ watch.seen = wire.usage

\* A client of a translated stream that stays is told how it ended.
StreamEnds == Client # "chat" => <>(body \in {"refused", "gone"} \/ seen.ends # <<>>)
=============================================================================
