---------------------------- MODULE StreamProofs ----------------------------
(***************************************************************************)
(* Proofs about StreamTranslation: for streams of any length, with any     *)
(* number of tool calls, the client of a translated stream sees a          *)
(* lifecycle that StreamLifecycle allows, fragments reach their own call,  *)
(* and a stream that is reported complete has the provider's finish reason *)
(* and its last usage.                                                     *)
(*                                                                         *)
(* A route falls into one of three groups, and each has its invariant:     *)
(*   Forwarded    the client speaks Chat and gets the adapter's chunks     *)
(*   Refused      the adapter's chunks lack what the encoder insists on    *)
(*   Encoded      the chunks of an OpenAI-compatible provider              *)
(***************************************************************************)
EXTENDS StreamTranslation, SequenceTheorems, WellFoundedInduction, TLAPS

-----------------------------------------------------------------------------
(* Forwarded and refused streams. *)

NoItems == [i \in Indexes |-> [opens |-> 0, deltas |-> 0, closes |-> 0]]
NoFragments == [c \in Calls |-> 0]

Shown == {"starts", "ends", "done", "usage", "finish", "items", "fragments", "stray"}

\* No item was shown to the client.
Bare ==
  /\ DOMAIN seen = Shown
  /\ seen.items = NoItems
  /\ seen.fragments = NoFragments
  /\ seen.stray = 0

\* An adapter yields at most two chunks for a wire event.
ShortInbox == inbox = <<>> \/ inbox = <<inbox[1]>> \/ inbox = <<inbox[1], inbox[2]>>

\* [DONE] comes after the finish reason and is yielded right behind it.
FinishOrder ==
  \/ inbox = <<>>
  \/ inbox = <<inbox[1]>> /\ inbox[1].kind # "done" /\ inbox[1].finish = "none"
  \/ /\ inbox = <<inbox[1], Done>> /\ inbox[1].kind # "done"
     /\ inbox[1].finish = wire.finish /\ wire.finish # "none" /\ ~seen.done
  \/ inbox = <<Done>> /\ seen.finish = wire.finish /\ wire.finish # "none"

Forwarded ==
  /\ at \in {"idle", "returned"}
  /\ Bare
  /\ seen.starts = 0 /\ seen.ends = <<>> /\ seen.done \in BOOLEAN
  /\ Provider = "anthropic" =>
       /\ FinishOrder
       /\ "finish" \in DOMAIN wire
       /\ seen.done => seen.finish = wire.finish /\ wire.finish # "none"

Fresh == [text |-> -1, calls |-> <<>>, next |-> IF Client = "anthropic" THEN 1 ELSE 0,
          finish |-> "none", usage |-> NoUsage, closed |-> {}]

Refused ==
  /\ at \in {"start", "idle", "closing", "returned"}
  /\ at = "start" => Client = "responses"
  /\ encoder = Fresh
  /\ ShortInbox
  /\ \A j \in DOMAIN inbox : ~inbox[j].created
  /\ Bare
  /\ seen.done = FALSE
  /\ seen.ends \in {<<>>, <<"failed">>}
  /\ at # "returned" => /\ seen.ends = <<>>
                        /\ seen.starts = IF Client = "responses" /\ at # "start" THEN 1 ELSE 0

-----------------------------------------------------------------------------
(* Encoded streams: the types. *)

Usages == [prompt : Nat, completion : Nat]
Finishes == {"none", "stop", "length"}
Items == [opens : Nat, deltas : Nat, closes : Nat]
CallItems == [call : Calls, out : Indexes]
Deltas == [index : ChatIndexes, id : {None} \cup Calls, name : BOOLEAN, frag : {None} \cup Calls]
Partial(S, T) == UNION {[D -> T] : D \in SUBSET S}

Labels == {"idle", "start", "usage", "open_text", "finish", "text", "calls", "arguments",
           "closing", "returned"}

IsWire(w) ==
  /\ DOMAIN w = {"owner", "started", "fragments", "finish", "reused", "usage"}
  /\ w.owner \in Partial(ChatIndexes, Calls)
  /\ w.started \in 0 .. MaxCalls
  /\ w.fragments \in [Calls -> Nat]
  /\ w.finish \in Finishes
  /\ w.reused \in BOOLEAN
  /\ w.usage \in Usages

IsWatch(w) ==
  /\ DOMAIN w = {"seen", "held", "logged"}
  /\ w.seen \in Usages
  /\ w.held \in Usages
  /\ w.logged \in BOOLEAN

IsEncoder(e) ==
  /\ DOMAIN e = {"text", "calls", "next", "finish", "usage", "closed"}
  /\ e.text \in {-1} \cup Indexes
  /\ e.calls \in Partial(ChatIndexes, CallItems)
  /\ e.next \in 0 .. MaxCalls + 1
  /\ e.finish \in Finishes
  /\ e.usage \in Usages
  /\ e.closed \in SUBSET Indexes

IsView(v) ==
  /\ DOMAIN v = Shown
  /\ v.starts \in Nat
  /\ v.ends \in {<<>>, <<"completed">>, <<"failed">>}
  /\ v.done = FALSE
  /\ v.usage \in Usages
  /\ v.finish \in Finishes
  /\ v.items \in [Indexes -> Items]
  /\ v.fragments \in [Calls -> Nat]
  /\ v.stray \in Nat

Types ==
  /\ Client \in {"responses", "anthropic"}
  /\ crlf \in BOOLEAN
  /\ reads \in Nat
  /\ IsWire(wire)
  /\ IsWatch(watch)
  /\ at \in Labels
  /\ call \in Nat \ {0}
  /\ IsEncoder(encoder)
  /\ IsView(seen)

(* Encoded streams: the chunk in hand and the wire. *)

\* A tool call delta names calls by what the provider means by its index.
DeltaFits(d) ==
  /\ d \in Deltas
  /\ d.index \in DOMAIN wire.owner => /\ d.id \in {None, wire.owner[d.index]}
                                      /\ d.frag \in {None, wire.owner[d.index]}
  /\ d.index \notin DOMAIN wire.owner => d.id = None \/ ~d.name

\* A chunk says what the provider said last.
Fits(ch) ==
  /\ ch.choices \in BOOLEAN
  /\ ch.text \in BOOLEAN
  /\ ch.usage \in {NoUsage, wire.usage}
  /\ ch.finish \in {"none", wire.finish}
  /\ ~ch.choices => ch.finish = "none" /\ ch.calls = <<>>
  /\ ch.kind = "done" => ch.usage = NoUsage /\ ch.finish = "none" /\ ch.calls = <<>>
  /\ ch.calls \in Seq(Deltas)
  /\ \A j \in 1 .. Len(ch.calls) : DeltaFits(ch.calls[j])
  /\ \A i, j \in 1 .. Len(ch.calls) :
       i # j => /\ ch.calls[i].index # ch.calls[j].index
                /\ ch.calls[i].frag # None => ch.calls[i].frag # ch.calls[j].frag

\* The encoder has no chunk.
Resting == {"idle", "closing", "returned"} \cup IF Client = "responses" THEN {"start"} ELSE {}

Flow ==
  /\ inbox # <<>> => inbox = <<inbox[1]>> /\ at = "idle" /\ Fits(inbox[1])
  /\ Fits(chunk)
  /\ at \in Resting => chunk = Chunk /\ call = 1
  /\ at = "arguments" => call <= Len(chunk.calls)
  /\ at = "finish" /\ Client = "responses" => call > Len(chunk.calls)
  /\ body = "gone" => at = "returned"

\* The chunk that is on its way to the client.
Hand == IF inbox = <<>> THEN chunk ELSE inbox[1]

(* Encoded streams: usage and finish reason. *)

BeforeUsage == {"idle", "usage"} \cup IF Client = "anthropic" THEN {"start", "open_text"} ELSE {}

Succeeded == seen.ends = <<"completed">>

UsageInv ==
  /\ at # "returned" /\ (Hand.usage = NoUsage \/ at \notin BeforeUsage) => encoder.usage = wire.usage
  /\ ~crlf /\ at \notin {"closing", "returned"} /\ (inbox = <<>> \/ Hand.usage = NoUsage)
       => Absorbed = wire.usage
  /\ at = "closing" => watch.logged /\ (~crlf => watch.seen = wire.usage)
  /\ Succeeded => /\ at = "returned" /\ seen.usage = wire.usage
                  /\ watch.logged /\ (~crlf => watch.seen = wire.usage)

FinishInv ==
  /\ at # "returned"
       /\ (Hand.finish = "none" \/ (Client = "anthropic" /\ at \in {"text", "calls", "arguments"}))
       => encoder.finish = wire.finish
  /\ Succeeded => at = "returned" /\ seen.finish = wire.finish /\ wire.finish # "none"

(* Encoded streams: the tool calls. *)

\* The first of the chunk's calls that the encoder has not opened.
Ahead == IF at = "arguments" THEN call + 1 ELSE call

InFlight(c) == \E j \in call .. Len(Hand.calls) : Hand.calls[j].frag = c
Restarts(k) == \E j \in Ahead .. Len(Hand.calls) : Hand.calls[j].index = k /\ Hand.calls[j].id # None

FragmentsInv ==
  /\ at # "returned" =>
       \A c \in Calls : wire.fragments[c] = seen.fragments[c] + IF InFlight(c) THEN 1 ELSE 0
  /\ Succeeded => at = "returned" /\ seen.fragments = wire.fragments

OwnersInv ==
  /\ at # "returned" =>
       \A k \in DOMAIN encoder.calls :
         /\ k \in DOMAIN wire.owner
         /\ \/ encoder.calls[k].call = wire.owner[k]
            \/ wire.reused /\ (Client = "anthropic" \/ Restarts(k))
  /\ seen.stray = 0 \/ (wire.reused /\ Client = "anthropic")

(* Encoded streams: the items. *)

\* Tool calls opened so far, and the items opened so far.
CallsOpened == encoder.next - IF Client = "anthropic" \/ encoder.text >= 0 THEN 1 ELSE 0
Outs == IF Client = "anthropic" /\ encoder.text < 0 THEN {} ELSE 0 .. encoder.next - 1

Announced == IF Client = "responses" THEN at # "start" ELSE encoder.text >= 0 \/ at = "open_text"

\* A chunk still starts no more calls than there are numbers left for them.
CountInv ==
  at # "returned" =>
    /\ CallsOpened \in 0 .. wire.started
    /\ \A j \in Ahead .. Len(Hand.calls) :
         Hand.calls[j].id # None /\ Hand.calls[j].name =>
           CallsOpened + (j - Ahead) < Hand.calls[j].id /\ Hand.calls[j].id <= wire.started

ItemsInv ==
  at # "returned" =>
    /\ \A k \in DOMAIN encoder.calls : encoder.calls[k].out \in Outs
    /\ encoder.text >= 0 => encoder.text \in Outs
    /\ \A i \in Outs : i = encoder.text \/ \E k \in DOMAIN encoder.calls : encoder.calls[k].out = i
    /\ encoder.closed \in SUBSET Outs
    /\ at # "closing" => encoder.closed = {}

\* Where the encoder is tells what it has opened.
LabelsInv ==
  /\ Client = "responses" /\ at = "text" /\ chunk.text => encoder.text >= 0
  /\ Client = "anthropic" =>
       /\ encoder.text \in {-1, 0}
       /\ at \in {"usage", "finish", "text", "calls", "arguments"} => encoder.text = 0
       /\ at = "open_text" => encoder.text = -1
       /\ encoder.text = -1 => encoder.finish = "none" /\ encoder.next = 1 /\ encoder.calls = <<>>
       /\ at = "arguments" => chunk.calls[call].index \in DOMAIN encoder.calls

ItemsShown ==
  \A i \in Indexes :
    /\ seen.items[i].opens = IF i \in Outs THEN 1 ELSE 0
    /\ seen.items[i].closes = IF i \in encoder.closed THEN 1 ELSE 0
    /\ i \notin Outs => seen.items[i].deltas = 0

ShownInv ==
  at # "returned" =>
    /\ seen.ends = <<>>
    /\ seen.starts = IF Announced THEN 1 ELSE 0
    /\ ItemsShown

Encoded ==
  /\ Types /\ Flow /\ UsageInv /\ FinishInv /\ FragmentsInv /\ OwnersInv /\ CountInv
  /\ ItemsInv /\ LabelsInv /\ ShownInv

Inv ==
  /\ route \in Routes
  /\ Client = "chat" => Forwarded
  /\ Client # "chat" /\ Provider # "chat" => Refused
  /\ Provider = "chat" => Encoded

\* The client sees a frame that the lifecycle allows, or none.
LifecycleStep == [Lifecycle!Next]_(Lifecycle!lifecycleVars)

-----------------------------------------------------------------------------
(* Chunks. *)

\* What the chunks the adapters build their own from hold.
LEMMA EmptyChunks ==
  /\ \A ch \in {Chunk, ErrorChunk, Garbage, Done, OpenAIChunk} :
       /\ DOMAIN ch = DOMAIN Chunk
       /\ ch.choices = TRUE /\ ch.text = FALSE /\ ch.calls = <<>>
       /\ ch.finish = "none" /\ ch.usage = NoUsage
  /\ \A ch \in {Chunk, ErrorChunk, Garbage, Done} : ch.created = FALSE
  /\ ErrorChunk.kind = "error" /\ Garbage.kind = "garbage" /\ Done.kind = "done"
  /\ Chunk.kind = "chunk" /\ OpenAIChunk.kind = "chunk"
BY DEF Chunk, ErrorChunk, Garbage, Done, OpenAIChunk

\* What a tool call delta holds.
LEMMA DeltaFields ==
  ASSUME NEW d \in Deltas
  PROVE  /\ d.index \in ChatIndexes /\ d.index \in Int
         /\ d.id \in {None} \cup Calls /\ d.id \in Int
         /\ d.frag \in {None} \cup Calls /\ d.frag \in Int
         /\ d.name \in BOOLEAN
<1>1. /\ d.index \in ChatIndexes /\ d.id \in {None} \cup Calls
      /\ d.frag \in {None} \cup Calls /\ d.name \in BOOLEAN
  BY DEF Deltas
<1> QED
  BY <1>1 DEF ChatIndexes, Calls, None

\* An empty chunk fits whatever the provider has sent.
LEMMA EmptyFits ==
  ASSUME NEW ch \in {Chunk, ErrorChunk, Garbage, Done}
  PROVE  Fits(ch) /\ Fits(ch)'
<1>1. /\ ch.choices = TRUE /\ ch.text = FALSE /\ ch.calls = <<>>
      /\ ch.finish = "none" /\ ch.usage = NoUsage
  BY EmptyChunks
<1>2. ch.choices \in BOOLEAN /\ ch.text \in BOOLEAN
  BY <1>1, Zenon
<1>3. ch.calls \in Seq(Deltas) /\ Len(ch.calls) = 0
  BY <1>1
<1> QED
  BY <1>1, <1>2, <1>3 DEF Fits

-----------------------------------------------------------------------------
(* Partial functions. *)

\* The empty sequence is the partial function that is nowhere defined.
LEMMA EmptyPartial ==
  ASSUME NEW S, NEW T
  PROVE  <<>> \in Partial(S, T)
<1>1. <<>> \in [{} -> T]
  OBVIOUS
<1>2. {} \in SUBSET S
  OBVIOUS
<1> QED
  BY <1>1, <1>2, Zenon DEF Partial

\* Assign keeps the other values and adds one.
LEMMA AssignPartial ==
  ASSUME NEW f \in Partial(ChatIndexes, CallItems), NEW x \in ChatIndexes, NEW v \in CallItems
  PROVE  /\ Assign(f, x, v) \in Partial(ChatIndexes, CallItems)
         /\ DOMAIN Assign(f, x, v) = DOMAIN f \cup {x}
         /\ Assign(f, x, v)[x] = v
         /\ \A y \in DOMAIN f : y # x => Assign(f, x, v)[y] = f[y]
<1>1. PICK D \in SUBSET ChatIndexes : f \in [D -> CallItems]
  BY DEF Partial
<1>2. Assign(f, x, v) \in [D \cup {x} -> CallItems] /\ D \cup {x} \in SUBSET ChatIndexes
  BY <1>1 DEF Assign
<1>3. Assign(f, x, v) \in Partial(ChatIndexes, CallItems)
  BY <1>2 DEF Partial
<1> QED
  BY <1>1, <1>3 DEF Assign

\* The values of a partial function are where they should be.
LEMMA PartialIn ==
  ASSUME NEW S, NEW T, NEW f \in Partial(S, T)
  PROVE  DOMAIN f \subseteq S /\ \A x \in DOMAIN f : f[x] \in T
BY DEF Partial

-----------------------------------------------------------------------------
(* The initial states. *)

\* The invariant holds when the stream is about to be opened.
LEMMA InitInv == Init => Inv
<1> SUFFICES ASSUME Init PROVE Inv
  OBVIOUS
<1> USE DEF Init
<1>1. Client = "chat" => Forwarded
  BY DEF Forwarded, Bare, Shown, NoItems, NoFragments, FinishOrder
<1>2. Client # "chat" /\ Provider # "chat" => Refused
  BY DEF Refused, Bare, Shown, NoItems, NoFragments, ShortInbox, Fresh
<1>3. ASSUME Provider = "chat" PROVE Encoded
  <2>1. Client \in {"responses", "anthropic"}
    BY <1>3 DEF Routes, Providers, Clients, Provider, Client
  <2>2. NoUsage \in Usages
    BY DEF NoUsage, Usages
  <2>3. IsWire(wire)
    BY <2>2, EmptyPartial, StreamAssumption DEF IsWire, Finishes
  <2>4. IsWatch(watch)
    BY <2>2 DEF IsWatch
  <2>5. IsEncoder(encoder)
    BY <2>2, EmptyPartial, StreamAssumption DEF IsEncoder, Finishes
  <2>6. IsView(seen)
    BY <2>2 DEF IsView, Shown, Finishes, Items
  <2>7. Types
    BY <2>1, <2>3, <2>4, <2>5, <2>6 DEF Types, Labels
  <2>8. Flow
    BY EmptyFits DEF Flow
  <2>9. Chunk.usage = NoUsage /\ Chunk.finish = "none" /\ Chunk.calls = <<>>
    BY EmptyChunks
  <2>10. UsageInv /\ FinishInv
    BY <2>9 DEF UsageInv, FinishInv, Succeeded, Hand, Absorbed
  <2>11. FragmentsInv /\ OwnersInv
    BY <2>9 DEF FragmentsInv, OwnersInv, Succeeded, Hand, InFlight
  <2>12. CountInv /\ ItemsInv
    BY <2>1, <2>9 DEF CountInv, ItemsInv, CallsOpened, Hand, Outs, Ahead
  <2>13. LabelsInv
    BY <2>1 DEF LabelsInv
  <2>14. ShownInv
    BY <2>1 DEF ShownInv, ItemsShown, Announced, Outs
  <2> QED
    BY <2>7, <2>8, <2>10, <2>11, <2>12, <2>13, <2>14 DEF Encoded
<1> QED
  BY <1>1, <1>2, <1>3 DEF Inv

-----------------------------------------------------------------------------
(* Forwarded streams. *)

\* An adapter changes neither the encoder nor what the client has seen.
LEMMA ProvideKeeps ==
  ASSUME Provide
  PROVE  UNCHANGED <<route, at, encoder, seen>>
BY DEF Provide, AnthropicStep, GeminiStep, ChatStep, MessageStart, ToolUseStart, TextDelta,
     InputJsonDelta, MessageDelta, AnthropicStreamFails, GeminiCandidate,
     GeminiSkips, GeminiStreamFails, GeminiEnd, ChatText, ChatCallStart, ChatCallAnonymous,
     ChatFragment, ChatFinish, ChatUsage, ChatDone, ChatError, ChatSends, Cut, End, Adapter,
     downstream

\* A step of the adapter for another provider is none of this one's.
LEMMA ForwardedProvide ==
  ASSUME Inv, Client = "chat", Provide
  PROVE  Forwarded'
<1>1. Forwarded /\ Provider # "chat" /\ Provider \in Providers
  BY DEF Inv, Routes, Client, Provider, Providers
<1>2. /\ UNCHANGED <<route, at, seen>>
      /\ Provider = "anthropic" => AnthropicStep \/ Cut \/ End
  BY <1>1, ProvideKeeps DEF Provide, GeminiStep, ChatStep, GeminiCandidate, GeminiSkips,
       GeminiStreamFails, GeminiEnd, ChatText, ChatCallStart, ChatCallAnonymous, ChatFragment,
       ChatFinish, ChatUsage, ChatDone, ChatError, ChatSends
<1>3. ASSUME Provider = "anthropic" PROVE
        /\ FinishOrder'
        /\ "finish" \in DOMAIN wire'
        /\ wire.finish' = wire.finish \/ wire.finish = "none"
  <2>1. "finish" \in DOMAIN wire
    BY <1>1, <1>3 DEF Forwarded
  <2> USE <1>2 DEF FinishOrder
  <2>2. CASE \E tokens \in {0, 2} : MessageStart(tokens)
    BY <2>1, <2>2 DEF MessageStart, Adapter
  <2>3. CASE \E block \in Calls : ToolUseStart(block)
    <3>1. PICK block \in Calls : ToolUseStart(block)
      BY <2>3
    <3>2. wire'.finish = wire.finish /\ DOMAIN wire' = DOMAIN wire
      BY <2>1, <3>1 DEF ToolUseStart, Starts
    <3>3. PICK calls : inbox' = <<[Chunk EXCEPT !.calls = calls]>>
      BY <3>1 DEF ToolUseStart, Adapter
    <3>4. inbox'[1].kind = "chunk" /\ inbox'[1].finish = "none"
      BY <3>3 DEF Chunk
    <3> QED
      BY <2>1, <3>2, <3>3, <3>4
  <2>4. CASE TextDelta
    BY <2>1, <2>4 DEF TextDelta, Adapter, Chunk
  <2>5. CASE \E block \in Calls : InputJsonDelta(block)
    <3>1. PICK block \in Calls : InputJsonDelta(block)
      BY <2>5
    <3>2. wire'.finish = wire.finish /\ DOMAIN wire' = DOMAIN wire
      BY <2>1, <3>1 DEF InputJsonDelta
    <3>3. CASE inbox' = <<>>
      BY <2>1, <3>2, <3>3
    <3>4. CASE inbox' # <<>>
      <4>1. PICK calls : inbox' = <<[Chunk EXCEPT !.calls = calls]>>
        BY <3>1, <3>4 DEF InputJsonDelta, Adapter
      <4>2. inbox'[1].kind = "chunk" /\ inbox'[1].finish = "none"
        BY <4>1 DEF Chunk
      <4> QED
        BY <2>1, <3>2, <4>1, <4>2
    <3> QED
      BY <3>3, <3>4
  <2>6. CASE \E reason \in DOMAIN AnthropicStopToChat : MessageDelta(reason)
    <3>1. PICK reason \in DOMAIN AnthropicStopToChat : MessageDelta(reason)
      BY <2>6
    <3>2. /\ wire.finish = "none"
          /\ wire'.finish = AnthropicStopToChat[reason]
          /\ DOMAIN wire' = DOMAIN wire
      BY <2>1, <3>1 DEF MessageDelta, AnthropicReads
    <3>3. AnthropicStopToChat[reason] # "none"
      BY DEF AnthropicStopToChat
    <3>4. ~seen.done
      BY <1>1, <1>3, <3>2 DEF Forwarded
    <3>5. PICK usage : inbox' = <<[Chunk EXCEPT !.finish = AnthropicStopToChat[reason],
                                                !.usage = usage], Done>>
      BY <3>1 DEF MessageDelta, Adapter
    <3>6. inbox'[1].kind = "chunk" /\ inbox'[1].finish = wire'.finish
      BY <3>2, <3>5 DEF Chunk
    <3> QED
      BY <2>1, <3>2, <3>3, <3>4, <3>5, <3>6
  <2>7. CASE AnthropicStreamFails \/ Cut
    BY <2>1, <2>7, EmptyChunks DEF AnthropicStreamFails, Cut, Adapter
  <2>8. CASE End
    BY <2>1, <2>8 DEF End, Adapter
  <2> QED
    BY <1>2, <1>3, <2>2, <2>3, <2>4, <2>5, <2>6, <2>7, <2>8 DEF AnthropicStep
<1>4. Provider = "anthropic" =>
        (seen.done => seen.finish = wire.finish /\ wire.finish # "none")'
  BY <1>1, <1>2, <1>3 DEF Forwarded
<1>5. Provider' = Provider
  BY <1>2 DEF Provider
<1> QED
  BY <1>1, <1>2, <1>3, <1>4, <1>5 DEF Forwarded, Bare

\* A Chat client gets the chunks in the order the adapter yields them.
LEMMA ForwardedPull ==
  ASSUME Inv, Client = "chat", Pull
  PROVE  Forwarded'
<1>1. Forwarded
  BY DEF Inv
<1>2. /\ inbox # <<>> /\ inbox' = Tail(inbox)
      /\ UNCHANGED <<at, route, wire>>
      /\ seen' = ObserveChunk(Head(inbox))
  BY DEF Pull, Receive
<1>3. /\ DOMAIN seen' = Shown
      /\ seen'.items = seen.items /\ seen'.fragments = seen.fragments /\ seen'.stray = seen.stray
      /\ seen'.starts = seen.starts /\ seen'.ends = seen.ends
      /\ seen'.finish = IF Head(inbox).finish = "none" THEN seen.finish ELSE Head(inbox).finish
  BY <1>1, <1>2 DEF Forwarded, Bare, Shown, ObserveChunk
<1>4. /\ seen'.done \in BOOLEAN
      /\ seen'.done <=> seen.done \/ Head(inbox).kind = "done"
  <2>1. seen'.done = (seen.done \/ Head(inbox).kind = "done")
    BY <1>1, <1>2 DEF Forwarded, Bare, Shown, ObserveChunk
  <2> QED
    BY <1>1, <2>1, Zenon DEF Forwarded
<1>5. Done.kind = "done" /\ Done.finish = "none"
  BY EmptyChunks
<1>6. Provider = "anthropic" => FinishOrder' /\ (seen'.done => seen'.finish = wire.finish /\ wire.finish # "none")
  <2> SUFFICES ASSUME Provider = "anthropic"
               PROVE  FinishOrder' /\ (seen'.done => seen'.finish = wire.finish /\ wire.finish # "none")
    OBVIOUS
  <2>1. FinishOrder /\ (seen.done => seen.finish = wire.finish /\ wire.finish # "none")
    BY <1>1 DEF Forwarded
  <2>2. CASE inbox = <<inbox[1]>> /\ inbox[1].kind # "done" /\ inbox[1].finish = "none"
    <3>1. inbox' = <<>> /\ Head(inbox) = inbox[1]
      BY <1>2, <2>2
    <3> QED
      BY <1>3, <1>4, <2>1, <2>2, <3>1 DEF FinishOrder
  <2>3. CASE /\ inbox = <<inbox[1], Done>> /\ inbox[1].kind # "done"
             /\ inbox[1].finish = wire.finish /\ wire.finish # "none" /\ ~seen.done
    <3>1. PICK ch : inbox = <<ch, Done>>
      BY <2>3
    <3>2. inbox' = <<Done>> /\ Head(inbox) = inbox[1]
      BY <1>2, <3>1
    <3> QED
      BY <1>2, <1>3, <1>4, <2>3, <3>2 DEF FinishOrder
  <2>4. CASE inbox = <<Done>> /\ seen.finish = wire.finish /\ wire.finish # "none"
    <3>1. inbox' = <<>> /\ Head(inbox) = Done
      BY <1>2, <2>4
    <3> QED
      BY <1>3, <1>4, <1>5, <2>4, <3>1 DEF FinishOrder
  <2> QED
    BY <1>2, <2>1, <2>2, <2>3, <2>4 DEF FinishOrder
<1>7. Provider' = Provider
  BY <1>2 DEF Provider
<1> QED
  BY <1>1, <1>2, <1>3, <1>4, <1>6, <1>7 DEF Forwarded, Bare

\* The other steps of a forwarded stream leave what the client saw alone.
LEMMA ForwardedNext ==
  ASSUME Inv, Client = "chat", [Next]_vars
  PROVE  Forwarded'
<1>1. Forwarded
  BY DEF Inv
<1>2. ~Translate
  BY <1>1 DEF Forwarded, Translate, CloseItem, Complete, Incomplete
<1>3. CASE OpenRefused \/ OpenStream \/ EndOfBody \/ Disconnect \/ Finalize \/ UNCHANGED vars
  <2>1. /\ UNCHANGED <<route, seen, wire>>
        /\ at' \in {"idle", "returned"}
        /\ inbox' \in {inbox, <<>>}
    BY <1>1, <1>3 DEF Forwarded, OpenRefused, OpenStream, EndOfBody, Disconnect, Finalize, vars,
         upstream, downstream
  <2>2. Provider' = Provider
    BY <2>1 DEF Provider
  <2> QED
    BY <1>1, <2>1, <2>2 DEF Forwarded, Bare, FinishOrder
<1> QED
  BY <1>2, <1>3, ForwardedPull, ForwardedProvide DEF Next

-----------------------------------------------------------------------------
(* Refused streams. *)

\* The other adapters' chunks have no created field.
LEMMA RefusedProvide ==
  ASSUME Inv, Client # "chat", Provider # "chat", Provide
  PROVE  /\ ShortInbox'
         /\ \A j \in DOMAIN inbox' : ~inbox'[j].created
         /\ UNCHANGED <<route, at, encoder, seen>>
<1>1. UNCHANGED <<route, at, encoder, seen>>
  BY ProvideKeeps
<1>2. \A x : [Chunk EXCEPT !.calls = x].created = FALSE
  BY DEF Chunk
<1>3. \A x, y : [Chunk EXCEPT !.finish = x, !.usage = y].created = FALSE
  BY DEF Chunk
<1>4. [Chunk EXCEPT !.text = TRUE].created = FALSE
  BY DEF Chunk
<1>5. ErrorChunk.created = FALSE /\ Done.created = FALSE
  BY EmptyChunks
<1>6. \/ inbox' = <<>>
      \/ \E ch : inbox' = <<ch>> /\ ch.created = FALSE
      \/ \E ch : inbox' = <<ch, Done>> /\ ch.created = FALSE
  <2>1. CASE \/ \E tokens \in {0, 2} : MessageStart(tokens)
             \/ GeminiSkips \/ End
    BY <2>1 DEF MessageStart, GeminiSkips, End, Adapter
  <2>2. CASE TextDelta \/ AnthropicStreamFails \/ GeminiStreamFails \/ Cut
    BY <1>4, <1>5, <2>2 DEF TextDelta, AnthropicStreamFails, GeminiStreamFails, Cut, Adapter
  <2>3. CASE \E block \in Calls : ToolUseStart(block) \/ InputJsonDelta(block)
    BY <1>2, <2>3 DEF ToolUseStart, InputJsonDelta, Adapter
  <2>4. CASE \/ \E reason \in DOMAIN AnthropicStopToChat : MessageDelta(reason)
             \/ GeminiEnd
    <3>1. \E x, y : inbox' = <<[Chunk EXCEPT !.finish = x, !.usage = y], Done>>
      BY <2>4 DEF MessageDelta, GeminiEnd, Adapter
    <3> QED
      BY <1>3, <3>1
  <2>5. CASE \E parts \in Parts, finish \in {"none", "STOP", "MAX_TOKENS"} :
               GeminiCandidate(parts, finish)
    <3>1. PICK parts \in Parts, finish \in {"none", "STOP", "MAX_TOKENS"} :
            GeminiCandidate(parts, finish)
      BY <2>5
    <3>2. inbox' = <<CandidateDelta(parts)>>
      BY <3>1 DEF GeminiCandidate, Adapter
    <3>3. CandidateDelta(parts).created = FALSE
      BY DEF CandidateDelta, Chunk
    <3> QED
      BY <3>2, <3>3
  <2>6. CASE ChatStep
    BY <2>6 DEF ChatStep, ChatText, ChatCallStart, ChatCallAnonymous,
         ChatFragment, ChatFinish, ChatUsage, ChatDone, ChatError, ChatSends
  <2> QED
    BY <2>1, <2>2, <2>3, <2>4, <2>5, <2>6 DEF Provide, AnthropicStep, GeminiStep
<1>7. ShortInbox' /\ \A j \in DOMAIN inbox' : inbox'[j].created = FALSE
  BY <1>5, <1>6 DEF ShortInbox
<1> QED
  BY <1>1, <1>7

\* Such a stream may be announced, and then it fails or is abandoned.
LEMMA RefusedNext ==
  ASSUME Inv, Client # "chat", Provider # "chat", [Next]_vars
  PROVE  Refused' /\ LifecycleStep
<1>1. Refused /\ route \in Routes
  BY DEF Inv
<1>2. Client \in {"responses", "anthropic"}
  BY <1>1 DEF Routes, Providers, Clients, Client, Provider
<1>3. encoder.finish = "none" /\ encoder.usage = NoUsage
  BY <1>1 DEF Refused, Fresh
<1>4. ASSUME UNCHANGED seen, UNCHANGED <<route, encoder>>,
             ShortInbox' /\ \A j \in DOMAIN inbox' : ~inbox'[j].created,
             at' = at \/ at' = "returned" \/ (at = "idle" /\ at' = "closing")
      PROVE  Refused' /\ LifecycleStep
  <2>1. Client' = Client /\ Fresh' = Fresh
    BY <1>4 DEF Client, Fresh
  <2>2. Refused'
    BY <1>1, <1>4, <2>1 DEF Refused, Bare
  <2> QED
    BY <1>4, <2>2 DEF LifecycleStep, Lifecycle!lifecycleVars
<1>5. CASE Provide
  <2>1. /\ ShortInbox' /\ \A j \in DOMAIN inbox' : ~inbox'[j].created
        /\ UNCHANGED <<route, at, encoder, seen>>
    BY <1>5, RefusedProvide
  <2> QED
    BY <1>4, <2>1
<1>6. CASE OpenRefused \/ OpenStream \/ EndOfBody \/ Disconnect \/ Finalize \/ UNCHANGED vars
  <2>1. /\ UNCHANGED <<route, encoder, seen>>
        /\ at' = at \/ at' = "returned" \/ (at = "idle" /\ at' = "closing")
        /\ inbox' \in {inbox, <<>>}
    BY <1>6 DEF OpenRefused, OpenStream, EndOfBody, Disconnect, Finalize, vars,
         upstream, downstream
  <2>2. ShortInbox' /\ \A j \in DOMAIN inbox' : ~inbox'[j].created
    BY <1>1, <2>1 DEF Refused, ShortInbox
  <2> QED
    BY <1>4, <2>1, <2>2
<1>7. ASSUME at # "returned", at' = "returned", seen' = Failed, UNCHANGED <<route, encoder>>,
             ShortInbox' /\ \A j \in DOMAIN inbox' : ~inbox'[j].created
      PROVE  Refused' /\ LifecycleStep
  <2>1. Client' = Client /\ Fresh' = Fresh
    BY <1>7 DEF Client, Fresh
  <2>2. seen.ends = <<>>
    BY <1>1, <1>7 DEF Refused
  <2>3. /\ DOMAIN seen' = DOMAIN seen
        /\ seen'.ends = <<"failed">>
        /\ seen'.starts = seen.starts /\ seen'.done = seen.done
        /\ seen'.items = seen.items /\ seen'.fragments = seen.fragments /\ seen'.stray = seen.stray
    BY <1>1, <1>7, <2>2 DEF Refused, Bare, Shown, Failed, Terminal
  <2>4. Refused'
    BY <1>1, <1>7, <2>1, <2>3 DEF Refused, Bare
  <2>5. Lifecycle!Fail
    BY <2>2, <2>3 DEF Lifecycle!Fail
  <2> QED
    BY <2>4, <2>5 DEF LifecycleStep, Lifecycle!Next
<1>8. CASE Pull
  <2>1. /\ at = "idle" /\ inbox # <<>> /\ inbox' = Tail(inbox) /\ UNCHANGED <<route, encoder>>
        /\ Receive(Head(inbox))
    BY <1>8 DEF Pull
  <2>2. ~Head(inbox).created
    <3>1. \A j \in DOMAIN inbox : ~inbox[j].created
      BY <1>1 DEF Refused
    <3>2. 1 \in DOMAIN inbox /\ Head(inbox) = inbox[1]
      <4>1. (\E x : inbox = <<x>>) \/ (\E x, y : inbox = <<x, y>>)
        BY <1>1, <2>1 DEF Refused, ShortInbox
      <4> QED
        BY <4>1
    <3> QED
      BY <3>1, <3>2
  <2>3. ShortInbox' /\ \A j \in DOMAIN inbox' : ~inbox'[j].created
    <3>1. (\E x : inbox = <<x>>) \/ (\E x, y : inbox = <<x, y>>)
      BY <1>1, <2>1 DEF Refused, ShortInbox
    <3>2. CASE \E x : inbox = <<x>>
      <4>1. inbox' = <<>>
        BY <2>1, <3>2
      <4> QED
        BY <4>1 DEF ShortInbox
    <3>3. CASE \E x, y : inbox = <<x, y>>
      <4>1. PICK x, y : inbox = <<x, y>>
        BY <3>3
      <4>2. inbox' = <<y>> /\ 2 \in DOMAIN inbox /\ inbox[2] = y
        BY <2>1, <4>1
      <4>3. ~y.created
        BY <1>1, <4>2 DEF Refused
      <4> QED
        BY <4>2, <4>3 DEF ShortInbox
    <3> QED
      BY <3>1, <3>2, <3>3
  <2>4. \/ UNCHANGED <<at, seen>>
        \/ at' = "returned" /\ seen' = Failed
    BY <2>1, <2>2 DEF Receive, Validates
  <2> QED
    BY <1>4, <1>7, <2>1, <2>3, <2>4
<1>9. CASE Translate
  <2>1. ResponsesStart \/ Incomplete
    BY <1>1, <1>3, <1>9 DEF Refused, Translate, ResponsesStep, ResponsesUsage, ResponsesOpenText,
         ResponsesText, ResponsesCallStarted, ResponsesArguments, ResponsesCallsDone,
         ResponsesFinish, AnthropicEncoderStep, AnthropicStart, AnthropicOpenText, AnthropicUsage,
         AnthropicFinish, AnthropicText, AnthropicCall, AnthropicArguments, AnthropicCallsDone,
         CloseItem, Complete, Finished
  <2>2. UNCHANGED <<route, encoder, inbox>>
    BY <2>1 DEF ResponsesStart, Incomplete, Fail, Step, upstream
  <2>3. ShortInbox' /\ \A j \in DOMAIN inbox' : ~inbox'[j].created
    BY <1>1, <2>2 DEF Refused, ShortInbox
  <2>4. CASE Incomplete
    BY <1>7, <2>2, <2>3, <2>4 DEF Incomplete, Fail, Step
  <2>5. CASE ResponsesStart
    <3>1. at = "start" /\ at' = "idle" /\ seen' = Started
      BY <2>5 DEF ResponsesStart, Step
    <3>2. Client = "responses" /\ seen.starts = 0 /\ seen.ends = <<>>
      BY <1>1, <3>1 DEF Refused
    <3>3. /\ DOMAIN seen' = DOMAIN seen
          /\ seen'.starts = 1
          /\ seen'.ends = seen.ends /\ seen'.done = seen.done
          /\ seen'.items = seen.items /\ seen'.fragments = seen.fragments /\ seen'.stray = seen.stray
      BY <1>1, <3>1, <3>2 DEF Refused, Bare, Shown, Started
    <3>4. Client' = Client /\ Fresh' = Fresh
      BY <2>2 DEF Client, Fresh
    <3>5. Refused'
      BY <1>1, <2>2, <2>3, <3>1, <3>2, <3>3, <3>4 DEF Refused, Bare
    <3>6. Lifecycle!Start
      BY <3>2, <3>3 DEF Lifecycle!Start
    <3> QED
      BY <3>5, <3>6 DEF LifecycleStep, Lifecycle!Next
  <2> QED
    BY <2>1, <2>4, <2>5
<1> QED
  BY <1>5, <1>6, <1>8, <1>9 DEF Next

-----------------------------------------------------------------------------
(* What the frames do to the client's view. *)

\* Counting a frame at one item leaves the others alone.
LEMMA ItemCounts ==
  ASSUME NEW items \in [Indexes -> Items], NEW i \in Indexes
  PROVE  /\ LET new == [items EXCEPT ![i].opens = @ + 1]
            IN  /\ new \in [Indexes -> Items]
                /\ new[i].opens = items[i].opens + 1
                /\ new[i].deltas = items[i].deltas /\ new[i].closes = items[i].closes
                /\ \A j \in Indexes : j # i => new[j] = items[j]
         /\ LET new == [items EXCEPT ![i].deltas = @ + 1]
            IN  /\ new \in [Indexes -> Items]
                /\ new[i].opens = items[i].opens /\ new[i].closes = items[i].closes
                /\ \A j \in Indexes : j # i => new[j] = items[j]
         /\ LET new == [items EXCEPT ![i].closes = @ + 1]
            IN  /\ new \in [Indexes -> Items]
                /\ new[i].closes = items[i].closes + 1
                /\ new[i].opens = items[i].opens /\ new[i].deltas = items[i].deltas
                /\ \A j \in Indexes : j # i => new[j] = items[j]
<1>1. /\ items[i].opens \in Nat /\ items[i].deltas \in Nat /\ items[i].closes \in Nat
      /\ items[i] = [opens |-> items[i].opens, deltas |-> items[i].deltas, closes |-> items[i].closes]
  BY DEF Items
<1>2. /\ [items[i] EXCEPT !.opens = @ + 1] \in Items
      /\ [items[i] EXCEPT !.deltas = @ + 1] \in Items
      /\ [items[i] EXCEPT !.closes = @ + 1] \in Items
  BY <1>1 DEF Items
<1> QED
  BY <1>1, <1>2

\* Announcing the stream.
LEMMA StartedView ==
  ASSUME IsView(seen)
  PROVE  /\ IsView(Started)
         /\ Started.starts = seen.starts + 1
         /\ Started.ends = seen.ends /\ Started.items = seen.items
         /\ Started.fragments = seen.fragments /\ Started.stray = seen.stray
         /\ Started.usage = seen.usage /\ Started.finish = seen.finish
BY DEF Started, IsView, Shown

\* Opening an item.
LEMMA OpenedView ==
  ASSUME IsView(seen), NEW i \in Indexes
  PROVE  /\ IsView(Opened(i))
         /\ Opened(i).starts = seen.starts /\ Opened(i).ends = seen.ends
         /\ Opened(i).items = [seen.items EXCEPT ![i].opens = @ + 1]
         /\ Opened(i).fragments = seen.fragments /\ Opened(i).stray = seen.stray
         /\ Opened(i).usage = seen.usage /\ Opened(i).finish = seen.finish
<1> DEFINE items == [seen.items EXCEPT ![i].opens = @ + 1]
<1>1. items \in [Indexes -> Items]
  BY ItemCounts DEF IsView
<1>2. Opened(i) = [seen EXCEPT !.items = items]
  BY DEF Opened
<1> HIDE DEF items
<1>3. /\ IsView(Opened(i))
      /\ Opened(i).starts = seen.starts /\ Opened(i).ends = seen.ends
      /\ Opened(i).items = items
      /\ Opened(i).fragments = seen.fragments /\ Opened(i).stray = seen.stray
      /\ Opened(i).usage = seen.usage /\ Opened(i).finish = seen.finish
  BY <1>1, <1>2 DEF IsView, Shown
<1> QED
  BY <1>3 DEF items

\* Feeding an item.
LEMMA FedView ==
  ASSUME IsView(seen), NEW i \in Indexes
  PROVE  /\ IsView(Fed(i))
         /\ Fed(i).starts = seen.starts /\ Fed(i).ends = seen.ends
         /\ Fed(i).items = [seen.items EXCEPT ![i].deltas = @ + 1]
         /\ Fed(i).fragments = seen.fragments /\ Fed(i).stray = seen.stray
         /\ Fed(i).usage = seen.usage /\ Fed(i).finish = seen.finish
<1> DEFINE items == [seen.items EXCEPT ![i].deltas = @ + 1]
<1>1. items \in [Indexes -> Items]
  BY ItemCounts DEF IsView
<1>2. Fed(i) = [seen EXCEPT !.items = items]
  BY DEF Fed
<1> HIDE DEF items
<1>3. /\ IsView(Fed(i))
      /\ Fed(i).starts = seen.starts /\ Fed(i).ends = seen.ends
      /\ Fed(i).items = items
      /\ Fed(i).fragments = seen.fragments /\ Fed(i).stray = seen.stray
      /\ Fed(i).usage = seen.usage /\ Fed(i).finish = seen.finish
  BY <1>1, <1>2 DEF IsView, Shown
<1> QED
  BY <1>3 DEF items

\* Closing an item.
LEMMA ClosedView ==
  ASSUME IsView(seen), NEW i \in Indexes
  PROVE  /\ IsView(Closed(i))
         /\ Closed(i).starts = seen.starts /\ Closed(i).ends = seen.ends
         /\ Closed(i).items = [seen.items EXCEPT ![i].closes = @ + 1]
         /\ Closed(i).fragments = seen.fragments /\ Closed(i).stray = seen.stray
         /\ Closed(i).usage = seen.usage /\ Closed(i).finish = seen.finish
<1> DEFINE items == [seen.items EXCEPT ![i].closes = @ + 1]
<1>1. items \in [Indexes -> Items]
  BY ItemCounts DEF IsView
<1>2. Closed(i) = [seen EXCEPT !.items = items]
  BY DEF Closed
<1> HIDE DEF items
<1>3. /\ IsView(Closed(i))
      /\ Closed(i).starts = seen.starts /\ Closed(i).ends = seen.ends
      /\ Closed(i).items = items
      /\ Closed(i).fragments = seen.fragments /\ Closed(i).stray = seen.stray
      /\ Closed(i).usage = seen.usage /\ Closed(i).finish = seen.finish
  BY <1>1, <1>2 DEF IsView, Shown
<1> QED
  BY <1>3 DEF items

\* Feeding a tool call's item with a fragment.
LEMMA FedCallView ==
  ASSUME IsView(seen), NEW item \in CallItems, NEW c \in Calls
  PROVE  LET v == FedCall(item, c)
         IN  /\ IsView(v)
             /\ v.starts = seen.starts /\ v.ends = seen.ends
             /\ v.items = [seen.items EXCEPT ![item.out].deltas = @ + 1]
             /\ v.fragments = [seen.fragments EXCEPT ![c] = @ + 1]
             /\ v.stray = seen.stray + IF c = item.call THEN 0 ELSE 1
             /\ v.usage = seen.usage /\ v.finish = seen.finish
<1>1. item.out \in Indexes
  BY DEF CallItems
<1>2. IsView(Fed(item.out))
  BY <1>1, FedView
<1> DEFINE fed == Fed(item.out)
           fragments == [seen.fragments EXCEPT ![c] = @ + 1]
           stray == seen.stray + IF c = item.call THEN 0 ELSE 1
<1>3. fed.fragments = seen.fragments /\ fed.stray = seen.stray /\ fed.starts = seen.starts
      /\ fed.ends = seen.ends /\ fed.items = [seen.items EXCEPT ![item.out].deltas = @ + 1]
      /\ fed.usage = seen.usage /\ fed.finish = seen.finish
  BY <1>1, FedView
<1>4. fragments \in [Calls -> Nat] /\ stray \in Nat
  BY DEF IsView
<1>5. FedCall(item, c) = [fed EXCEPT !.fragments = fragments, !.stray = stray]
  <2>1. [fed EXCEPT !.fragments[c] = @ + 1, !.stray = IF c = item.call THEN @ ELSE @ + 1]
          = [fed EXCEPT !.fragments = [fed.fragments EXCEPT ![c] = @ + 1],
                        !.stray = IF c = item.call THEN @ ELSE @ + 1]
    OBVIOUS
  <2>2. (IF c = item.call THEN seen.stray ELSE seen.stray + 1) = stray
    BY DEF IsView
  <2> QED
    BY <1>3, <2>1, <2>2 DEF FedCall
<1> HIDE DEF fed, fragments, stray
<1>6. LET v == FedCall(item, c)
      IN  /\ IsView(v)
          /\ v.starts = fed.starts /\ v.ends = fed.ends /\ v.items = fed.items
          /\ v.fragments = fragments /\ v.stray = stray
          /\ v.usage = fed.usage /\ v.finish = fed.finish
  <2>1. IsView(fed)
    BY <1>2 DEF fed
  <2> QED
    BY <1>4, <1>5, <2>1 DEF IsView, Shown
<1> QED
  BY <1>3, <1>6 DEF fragments, stray

\* Ending the stream.
LEMMA TerminalView ==
  ASSUME IsView(seen), seen.ends = <<>>, NEW kind \in {"completed", "failed"},
         NEW usage \in Usages, NEW finish \in Finishes
  PROVE  LET v == Terminal(kind, usage, finish)
         IN  /\ IsView(v)
             /\ v.starts = seen.starts /\ v.ends = <<kind>> /\ v.items = seen.items
             /\ v.fragments = seen.fragments /\ v.stray = seen.stray
             /\ v.usage = usage /\ v.finish = finish
BY DEF Terminal, IsView, Shown

-----------------------------------------------------------------------------
(* Encoded streams: the encoder's moves. *)

\* From one label to the next; the chunk is dropped when another is asked for.
Moves(next) ==
  /\ at \notin {"idle", "returned"}
  /\ at' = next
  /\ IF next \in {"idle", "returned"}
     THEN chunk' = Chunk /\ call' = 1
     ELSE chunk' = chunk /\ call' = IF at = "arguments" THEN call + 1 ELSE call
  /\ UNCHANGED upstream

\* The chunk in hand during a move.
LEMMA MoveFlow ==
  ASSUME Encoded, NEW next \in Labels, Moves(next),
         next \in Resting => next \in {"idle", "returned"} \/ next = at,
         next = "arguments" => at = "calls" /\ call <= Len(chunk.calls),
         next = "finish" /\ Client = "responses" => at = "calls" /\ call > Len(chunk.calls)
  PROVE  /\ Flow'
         /\ inbox = <<>> /\ inbox' = <<>>
         /\ Hand = chunk /\ Hand' = chunk'
         /\ Client' = Client /\ Client \in {"responses", "anthropic"} /\ wire' = wire /\ crlf' = crlf
         /\ watch' = watch /\ reads' = reads /\ call' \in Nat \ {0}
<1>1. Flow /\ Client \in {"responses", "anthropic"} /\ call \in Nat \ {0}
  BY DEF Encoded, Types
<1>2. inbox = <<>>
  BY <1>1 DEF Flow, Moves
<1>3. UNCHANGED <<route, crlf, reads, wire, inbox, watch>> /\ Client' = Client
  BY DEF Moves, upstream, Client
<1>4. call' \in Nat \ {0}
  BY <1>1 DEF Moves
<1>5. Resting' = Resting
  BY <1>3 DEF Resting
<1>6. Fits(chunk)'
  <2>1. CASE chunk' = chunk
    BY <1>1, <1>3, <2>1 DEF Flow, Fits, DeltaFits
  <2>2. CASE chunk' = Chunk
    <3>1. Fits(Chunk)
      BY EmptyFits
    <3> QED
      BY <1>3, <2>2, <3>1 DEF Fits, DeltaFits
  <2> QED
    BY <2>1, <2>2 DEF Moves
<1>7. at' \in Resting' => chunk' = Chunk /\ call' = 1
  <2>1. CASE next \in {"idle", "returned"}
    BY <2>1 DEF Moves
  <2>2. CASE next = at /\ next \in Resting
    BY <1>1, <2>2 DEF Moves, Flow, Resting
  <2> QED
    BY <1>5, <2>1, <2>2 DEF Moves
<1>8. /\ at' = "arguments" => call' <= Len(chunk'.calls)
      /\ at' = "finish" /\ Client' = "responses" => call' > Len(chunk'.calls)
  BY <1>3 DEF Moves
<1>9. body' # "gone"
  BY <1>1 DEF Flow, Moves, upstream
<1>10. Flow'
  BY <1>2, <1>3, <1>6, <1>7, <1>8, <1>9 DEF Flow
<1> QED
  BY <1>1, <1>2, <1>3, <1>4, <1>10 DEF Hand

\* The encoder moves on without a word.
SilentEdge(next) ==
  \/ Client = "responses" /\ at = "open_text" /\ next = "text" /\ (chunk.text => encoder.text >= 0)
  \/ at = "text" /\ next = "calls"
  \/ /\ at = "calls" /\ next = "arguments" /\ call <= Len(chunk.calls)
     /\ Client = "anthropic" => Known(Delta.index)
     /\ Client = "responses" /\ (Delta.id # None \/ Delta.name) =>
          Known(Delta.index) /\ Delta.id \in {None, encoder.calls[Delta.index].call}
  \/ at = "arguments" /\ next = "calls" /\ Delta.frag = None
  \/ Client = "responses" /\ at = "calls" /\ next = "finish" /\ call > Len(chunk.calls)
  \/ Client = "anthropic" /\ at = "calls" /\ next = "idle" /\ call > Len(chunk.calls)
  \/ Client = "anthropic" /\ at = "start" /\ next = "usage" /\ encoder.text >= 0

\* A silent move keeps the invariant.
LEMMA SilentMove ==
  ASSUME Encoded, NEW next \in Labels, Moves(next), SilentEdge(next), encoder' = encoder, seen' = seen
  PROVE  Encoded'
<1>1. /\ Flow'
      /\ inbox = <<>> /\ inbox' = <<>>
      /\ Hand = chunk /\ Hand' = chunk'
      /\ Client' = Client /\ Client \in {"responses", "anthropic"} /\ wire' = wire /\ crlf' = crlf
      /\ watch' = watch /\ reads' = reads /\ call' \in Nat \ {0}
  <2>1. next \in Resting => next \in {"idle", "returned"} \/ next = at
    BY DEF SilentEdge, Resting
  <2> QED
    BY <2>1, MoveFlow DEF SilentEdge
<1>2. Types'
  BY <1>1 DEF Encoded, Types, Moves
<1>3. at' = next /\ next # "returned" /\ at # "returned" /\ at # "closing" /\ next # "closing"
  BY DEF Moves, SilentEdge
<1>4. Chunk.usage = NoUsage /\ Chunk.finish = "none" /\ Chunk.calls = <<>>
  BY EmptyChunks
<1>5. seen.ends = <<>>
  BY <1>3 DEF Encoded, ShownInv
<1>6. UsageInv'
  BY <1>1, <1>3, <1>4, <1>5
     DEF Encoded, UsageInv, Moves, SilentEdge, BeforeUsage, Absorbed, Succeeded
<1>7. FinishInv'
  BY <1>1, <1>3, <1>4, <1>5 DEF Encoded, FinishInv, Moves, SilentEdge, Succeeded
<1>8. /\ call \in Nat \ {0} /\ chunk.calls \in Seq(Deltas) /\ Len(chunk.calls) \in Nat
      /\ \A j \in 1 .. Len(chunk.calls) : DeltaFits(chunk.calls[j])
  BY DEF Encoded, Types, Flow, Fits
<1>9. \/ chunk' = chunk /\ call' = call /\ at # "arguments" /\ next # "arguments"
      \/ chunk' = chunk /\ call' = call /\ at = "calls" /\ next = "arguments" /\ call <= Len(chunk.calls)
      \/ chunk' = chunk /\ call' = call + 1 /\ at = "arguments" /\ next = "calls" /\ Delta.frag = None
      \/ chunk'.calls = <<>> /\ call > Len(chunk.calls) /\ at = "calls" /\ next = "idle"
  BY <1>4 DEF Moves, SilentEdge
<1>10. FragmentsInv'
  <2>1. ASSUME NEW c \in Calls PROVE InFlight(c)' <=> InFlight(c)
    <3>1. c # None
      BY DEF Calls, None
    <3>2. CASE chunk' = chunk /\ call' = call
      BY <1>1, <3>2 DEF InFlight
    <3>3. CASE chunk' = chunk /\ call' = call + 1 /\ Delta.frag = None
      BY <1>1, <1>8, <3>1, <3>3 DEF InFlight, Delta
    <3>4. CASE chunk'.calls = <<>> /\ call > Len(chunk.calls)
      BY <1>1, <1>8, <3>4 DEF InFlight
    <3> QED
      BY <1>9, <3>2, <3>3, <3>4
  <2> QED
    BY <1>1, <1>3, <1>5, <2>1 DEF Encoded, FragmentsInv, Succeeded
<1>11. OwnersInv'
  <2>1. ASSUME NEW k \in DOMAIN encoder.calls, Client = "responses", Restarts(k),
               encoder.calls[k].call # wire.owner[k]
        PROVE  Restarts(k)'
    <3>1. PICK j \in Ahead .. Len(chunk.calls) : chunk.calls[j].index = k /\ chunk.calls[j].id # None
      BY <1>1, <2>1 DEF Restarts
    <3>2. j \in Nat /\ j >= call /\ j <= Len(chunk.calls)
      BY <1>8, <3>1 DEF Ahead
    <3>3. chunk' = chunk /\ Ahead' \in Nat
      BY <1>3, <1>8, <1>9, <3>2 DEF Ahead
    <3>4. j >= Ahead'
      <4>1. CASE next = "arguments"
        <5>1. j # call
          <6> SUFFICES ASSUME j = call PROVE FALSE
            OBVIOUS
          <6>1. k \in DOMAIN wire.owner
            BY <1>3 DEF Encoded, OwnersInv
          <6>2. DeltaFits(chunk.calls[j])
            BY <1>8, <3>2 DEF Encoded, Types
          <6>3. Delta.id = wire.owner[k]
            BY <3>1, <6>1, <6>2 DEF DeltaFits, Delta
          <6>4. Delta.id = encoder.calls[k].call
            BY <2>1, <3>1, <4>1 DEF SilentEdge, Delta
          <6> QED
            BY <2>1, <6>3, <6>4
        <5> QED
          BY <1>3, <1>8, <1>9, <3>2, <4>1, <5>1 DEF Ahead
      <4>2. CASE next # "arguments"
        BY <1>3, <1>8, <1>9, <3>1, <3>2, <4>2 DEF Ahead
      <4> QED
        BY <4>1, <4>2
    <3> QED
      BY <1>1, <3>1, <3>2, <3>3, <3>4 DEF Restarts
  <2> QED
    BY <1>1, <1>3, <2>1 DEF Encoded, OwnersInv
<1>12. CountInv'
  <2>1. CASE Ahead' = Ahead /\ chunk' = chunk
    BY <1>1, <1>3, <2>1 DEF Encoded, CountInv, CallsOpened
  <2>2. CASE Ahead' = Ahead + 1 /\ chunk' = chunk
    <3>1. Ahead \in Nat \ {0} /\ CallsOpened \in Nat /\ CallsOpened' = CallsOpened
      BY <1>1, <1>3, <1>8 DEF Encoded, CountInv, CallsOpened, Ahead, Types, IsWire
    <3>2. ASSUME NEW j \in Ahead' .. Len(chunk.calls),
                 chunk.calls[j].id # None, chunk.calls[j].name
          PROVE  CallsOpened + (j - Ahead') < chunk.calls[j].id /\ chunk.calls[j].id <= wire.started
      <4>1. j \in Ahead .. Len(chunk.calls)
        BY <1>8, <2>2, <3>1
      <4>2. CallsOpened + (j - Ahead) < chunk.calls[j].id /\ chunk.calls[j].id <= wire.started
        BY <1>1, <1>3, <3>2, <4>1 DEF Encoded, CountInv
      <4>3. chunk.calls[j].id \in Int
        <5>1. j \in 1 .. Len(chunk.calls)
          BY <1>8, <3>1, <4>1
        <5>2. chunk.calls[j] \in Deltas
          BY <1>8, <5>1
        <5> QED
          BY <5>2, DeltaFields
      <4> QED
        BY <2>2, <3>1, <4>1, <4>2, <4>3
    <3> QED
      BY <1>1, <1>3, <2>2, <3>1, <3>2 DEF Encoded, CountInv
  <2>3. CASE chunk'.calls = <<>>
    <3>1. Len(Hand'.calls) = 0
      BY <1>1, <2>3
    <3>2. Ahead' \in Nat /\ Ahead' >= 1
      <4>1. call' \in Nat /\ call' >= 1
        BY <1>1
      <4>2. Ahead' = call' \/ Ahead' = call' + 1
        BY DEF Ahead
      <4> QED
        BY <4>1, <4>2
    <3>3. CallsOpened' = CallsOpened
      BY <1>1 DEF CallsOpened
    <3>4. Ahead' .. Len(Hand'.calls) = {}
      BY <3>1, <3>2
    <3> QED
      BY <1>1, <1>3, <3>4, <3>3 DEF Encoded, CountInv
  <2> QED
    BY <1>9, <1>3, <2>1, <2>2, <2>3 DEF Ahead
<1>13. ItemsInv'
  BY <1>1, <1>3 DEF Encoded, ItemsInv, Outs
<1>14. LabelsInv'
  BY <1>1, <1>3 DEF Encoded, LabelsInv, Moves, SilentEdge, Known, Delta
<1>15. ShownInv'
  BY <1>1, <1>3 DEF Encoded, ShownInv, ItemsShown, Announced, Outs, SilentEdge
<1> QED
  BY <1>1, <1>2, <1>6, <1>7, <1>10, <1>11, <1>12, <1>13, <1>14, <1>15 DEF Encoded

\* What is on its way when the chunk stays, or when nothing of it is left.
LEMMA SameInFlight ==
  ASSUME Encoded, inbox = <<>>, inbox' = <<>>, call' \in Nat \ {0}, at # "arguments", at' # "arguments",
         \/ chunk' = chunk /\ call' = call
         \/ chunk' = Chunk /\ chunk.calls = <<>>
  PROVE  /\ \A c : InFlight(c)' <=> InFlight(c)
         /\ \A k : Restarts(k)' <=> Restarts(k)
         /\ \A j : j \in Ahead' .. Len(Hand'.calls) => /\ chunk' = chunk /\ Ahead' = Ahead
                                                       /\ j \in Ahead .. Len(Hand.calls)
<1>1. Chunk.calls = <<>>
  BY EmptyChunks
<1>2. CASE chunk' = chunk /\ call' = call
  BY <1>2 DEF InFlight, Restarts, Hand, Ahead
<1>3. CASE chunk' = Chunk /\ chunk.calls = <<>>
  <2>1. call \in Nat \ {0} /\ Ahead = call /\ Ahead' = call'
    BY DEF Encoded, Types, Ahead
  <2>2. Len(Hand.calls) = 0 /\ Len(Hand'.calls) = 0
    BY <1>1, <1>3 DEF Hand
  <2>3. /\ call .. Len(Hand.calls) = {} /\ call' .. Len(Hand'.calls) = {}
    BY <2>1, <2>2
  <2> QED
    BY <2>1, <2>3 DEF InFlight, Restarts
<1> QED
  BY <1>2, <1>3

\* The stream is announced.
LEMMA AnnounceMove ==
  ASSUME Encoded, NEW next \in Labels, Moves(next), at = "start",
         \/ Client = "responses" /\ next = "idle"
         \/ Client = "anthropic" /\ next = "open_text" /\ encoder.text < 0,
         encoder' = encoder, seen' = Started
  PROVE  Encoded' /\ LifecycleStep
<1>1. /\ Flow'
      /\ inbox = <<>> /\ inbox' = <<>>
      /\ Hand = chunk /\ Hand' = chunk'
      /\ Client' = Client /\ Client \in {"responses", "anthropic"} /\ wire' = wire /\ crlf' = crlf
      /\ watch' = watch /\ reads' = reads /\ call' \in Nat \ {0}
  BY MoveFlow DEF Resting
<1>2. /\ IsView(seen') /\ seen'.starts = seen.starts + 1 /\ seen'.ends = seen.ends
      /\ seen'.items = seen.items /\ seen'.fragments = seen.fragments /\ seen'.stray = seen.stray
  BY StartedView DEF Encoded, Types
<1>3. at' = next
  BY DEF Moves
<1>4. chunk' = chunk /\ call' = call
  BY DEF Encoded, Flow, Resting, Moves
<1>5. Chunk.usage = NoUsage /\ Chunk.finish = "none" /\ Chunk.calls = <<>>
  BY EmptyChunks
<1>6. Client = "responses" => chunk = Chunk
  BY DEF Encoded, Flow, Resting
<1>7. seen.ends = <<>> /\ seen.starts = 0
  <2>1. encoder.text \in Int
    BY DEF Encoded, Types, IsEncoder, Indexes
  <2>2. ~Announced
    BY <2>1 DEF Announced
  <2> QED
    BY <2>2 DEF Encoded, ShownInv
<1>8. Types'
  BY <1>1, <1>2 DEF Encoded, Types, Moves
<1>9. UsageInv' /\ FinishInv'
  BY <1>1, <1>2, <1>3, <1>4, <1>5, <1>6, <1>7
     DEF Encoded, UsageInv, FinishInv, BeforeUsage, Absorbed, Succeeded
<1>10. /\ \A c : InFlight(c)' <=> InFlight(c)
       /\ \A k : Restarts(k)' <=> Restarts(k)
       /\ \A j : j \in Ahead' .. Len(Hand'.calls) => /\ chunk' = chunk /\ Ahead' = Ahead
                                                     /\ j \in Ahead .. Len(Hand.calls)
  BY <1>1, <1>3, <1>4, SameInFlight
<1>11. FragmentsInv' /\ OwnersInv'
  BY <1>1, <1>2, <1>3, <1>7, <1>10 DEF Encoded, FragmentsInv, OwnersInv, Succeeded
<1>12. CallsOpened' = CallsOpened /\ Outs' = Outs
  BY <1>1 DEF CallsOpened, Outs
<1>13. CountInv' /\ ItemsInv'
  BY <1>1, <1>3, <1>10, <1>12 DEF Encoded, CountInv, ItemsInv
<1>14. LabelsInv'
  BY <1>1, <1>3 DEF Encoded, LabelsInv, Types, IsEncoder
<1>15. ShownInv'
  BY <1>1, <1>2, <1>3, <1>7, <1>12 DEF Encoded, ShownInv, ItemsShown, Announced
<1>16. Lifecycle!Start
  BY <1>2, <1>7 DEF Lifecycle!Start
<1> QED
  BY <1>1, <1>8, <1>9, <1>11, <1>13, <1>14, <1>15, <1>16 DEF Encoded, LifecycleStep, Lifecycle!Next

\* The encoder takes note of a chunk's usage.
LEMMA UsageMove ==
  ASSUME Encoded, NEW next \in Labels, Moves(next), at = "usage",
         \/ ~chunk.choices /\ next = "idle"
         \/ Client = "responses" /\ next = "open_text"
         \/ Client = "anthropic" /\ next = "finish",
         encoder' = IF chunk.usage # NoUsage THEN [encoder EXCEPT !.usage = chunk.usage] ELSE encoder,
         seen' = seen
  PROVE  Encoded'
<1>1. /\ Flow'
      /\ inbox = <<>> /\ inbox' = <<>>
      /\ Hand = chunk /\ Hand' = chunk'
      /\ Client' = Client /\ Client \in {"responses", "anthropic"} /\ wire' = wire /\ crlf' = crlf
      /\ watch' = watch /\ reads' = reads /\ call' \in Nat \ {0}
  BY MoveFlow DEF Resting
<1>2. IsEncoder(encoder) /\ wire.usage \in Usages /\ chunk.usage \in {NoUsage, wire.usage}
  BY DEF Encoded, Types, IsWire, Flow, Fits
<1>3. /\ IsEncoder(encoder') /\ encoder'.usage = wire.usage
      /\ encoder'.text = encoder.text /\ encoder'.calls = encoder.calls
      /\ encoder'.next = encoder.next /\ encoder'.finish = encoder.finish
      /\ encoder'.closed = encoder.closed
  <2>1. chunk.usage = NoUsage => encoder.usage = wire.usage
    BY <1>1 DEF Encoded, UsageInv
  <2> QED
    BY <1>2, <2>1 DEF IsEncoder
<1>4. at' = next
  BY DEF Moves
<1>5. \/ chunk' = chunk /\ call' = call
      \/ chunk' = Chunk /\ chunk.calls = <<>> /\ chunk.finish = "none"
  BY DEF Encoded, Flow, Fits, Moves
<1>6. Chunk.usage = NoUsage /\ Chunk.finish = "none"
  BY EmptyChunks
<1>7. seen.ends = <<>>
  BY DEF Encoded, ShownInv
<1>8. Types'
  BY <1>1, <1>3 DEF Encoded, Types, Moves
<1>9. UsageInv' /\ FinishInv'
  BY <1>1, <1>3, <1>4, <1>5, <1>6, <1>7
     DEF Encoded, UsageInv, FinishInv, Absorbed, Succeeded
<1>10. /\ \A c : InFlight(c)' <=> InFlight(c)
       /\ \A k : Restarts(k)' <=> Restarts(k)
       /\ \A j : j \in Ahead' .. Len(Hand'.calls) => /\ chunk' = chunk /\ Ahead' = Ahead
                                                     /\ j \in Ahead .. Len(Hand.calls)
  BY <1>1, <1>4, <1>5, SameInFlight
<1>11. FragmentsInv' /\ OwnersInv'
  BY <1>1, <1>3, <1>4, <1>7, <1>10 DEF Encoded, FragmentsInv, OwnersInv, Succeeded
<1>12. CallsOpened' = CallsOpened /\ Outs' = Outs
  BY <1>1, <1>3 DEF CallsOpened, Outs
<1>13. CountInv' /\ ItemsInv'
  BY <1>1, <1>3, <1>4, <1>10, <1>12 DEF Encoded, CountInv, ItemsInv
<1>14. LabelsInv'
  BY <1>1, <1>3, <1>4 DEF Encoded, LabelsInv
<1>15. ShownInv'
  BY <1>1, <1>3, <1>4, <1>7, <1>12 DEF Encoded, ShownInv, ItemsShown, Announced
<1> QED
  BY <1>1, <1>8, <1>9, <1>11, <1>13, <1>14, <1>15 DEF Encoded

\* What the client sees of the items while the stream runs.
LEMMA RunningView ==
  ASSUME Encoded, at # "returned"
  PROVE  /\ ItemsShown /\ seen.items \in [Indexes -> Items] /\ seen.ends = <<>>
         /\ Announced => seen.starts = 1
         /\ encoder.closed \in SUBSET Outs
         /\ \A i \in Indexes : seen.items[i] = [opens |-> seen.items[i].opens,
                                                deltas |-> seen.items[i].deltas,
                                                closes |-> seen.items[i].closes]
BY DEF Encoded, ShownInv, Types, IsView, ItemsInv, Items

\* Opening the next item.
LEMMA OpenShown ==
  ASSUME Encoded, at # "returned", Announced, NEW i \in Indexes, i \notin Outs,
         \A j \in Indexes : j < i => j \in Outs, Outs' = Outs \cup {i},
         encoder'.closed = encoder.closed,
         seen'.starts = seen.starts, seen'.ends = seen.ends,
         seen'.items = [seen.items EXCEPT ![i].opens = @ + 1]
  PROVE  ItemsShown' /\ LifecycleStep
<1>1. ItemsShown /\ seen.items \in [Indexes -> Items] /\ i \notin encoder.closed
  BY RunningView
<1>2. /\ seen'.items[i].opens = seen.items[i].opens + 1
      /\ seen'.items[i].deltas = seen.items[i].deltas /\ seen'.items[i].closes = seen.items[i].closes
      /\ \A j \in Indexes : j # i => seen'.items[j] = seen.items[j]
  BY <1>1, ItemCounts
<1>3. ItemsShown'
  BY <1>1, <1>2 DEF ItemsShown
<1>4. seen.items[i].opens = 0 /\ seen.items[i].deltas = 0 /\ seen.items[i].closes = 0
  BY <1>1 DEF ItemsShown
<1>5. Lifecycle!Open(i)
  <2>1. Lifecycle!Running /\ seen.items[i] = Lifecycle!Untouched
    BY <1>4, RunningView DEF Lifecycle!Running, Lifecycle!Untouched
  <2>2. \A j \in Indexes : j < i => seen.items[j].opens = 1
    BY <1>1 DEF ItemsShown
  <2>3. seen'.items = [seen.items EXCEPT ![i].opens = 1]
    BY <1>4
  <2> QED
    BY <2>1, <2>2, <2>3 DEF Lifecycle!Open
<1> QED
  BY <1>3, <1>5 DEF LifecycleStep, Lifecycle!Next

\* Feeding an item that is open.
LEMMA FeedShown ==
  ASSUME Encoded, at # "returned", Announced, NEW i \in Indexes, i \in Outs, i \notin encoder.closed,
         Outs' = Outs, encoder'.closed = encoder.closed,
         seen'.starts = seen.starts, seen'.ends = seen.ends,
         seen'.items = [seen.items EXCEPT ![i].deltas = @ + 1]
  PROVE  ItemsShown' /\ LifecycleStep
<1>1. ItemsShown /\ seen.items \in [Indexes -> Items]
  BY RunningView
<1>2. /\ seen'.items[i].opens = seen.items[i].opens /\ seen'.items[i].closes = seen.items[i].closes
      /\ \A j \in Indexes : j # i => seen'.items[j] = seen.items[j]
  BY <1>1, ItemCounts
<1>3. ItemsShown'
  BY <1>1, <1>2 DEF ItemsShown
<1>4. Lifecycle!Running /\ Lifecycle!Live(i)
  BY <1>1, RunningView DEF Lifecycle!Running, Lifecycle!Live, ItemsShown
<1>5. Lifecycle!Delta(i)
  BY <1>4 DEF Lifecycle!Delta
<1> QED
  BY <1>3, <1>5 DEF LifecycleStep, Lifecycle!Next

\* Closing an item that is open.
LEMMA CloseShown ==
  ASSUME Encoded, at # "returned", Announced, NEW i \in Indexes, i \in Outs, i \notin encoder.closed,
         Outs' = Outs, encoder'.closed = encoder.closed \cup {i},
         seen'.starts = seen.starts, seen'.ends = seen.ends,
         seen'.items = [seen.items EXCEPT ![i].closes = @ + 1]
  PROVE  ItemsShown' /\ LifecycleStep
<1>1. ItemsShown /\ seen.items \in [Indexes -> Items]
  BY RunningView
<1>2. /\ seen'.items[i].closes = seen.items[i].closes + 1
      /\ seen'.items[i].deltas = seen.items[i].deltas /\ seen'.items[i].opens = seen.items[i].opens
      /\ \A j \in Indexes : j # i => seen'.items[j] = seen.items[j]
  BY <1>1, ItemCounts
<1>3. ItemsShown'
  BY <1>1, <1>2 DEF ItemsShown
<1>4. Lifecycle!Running /\ Lifecycle!Live(i) /\ seen.items[i].closes = 0
  BY <1>1, RunningView DEF Lifecycle!Running, Lifecycle!Live, ItemsShown
<1>5. Lifecycle!Close(i)
  BY <1>4 DEF Lifecycle!Close
<1> QED
  BY <1>3, <1>5 DEF LifecycleStep, Lifecycle!Next

\* What is open when the encoder opens the text item.
LEMMA TextOpening ==
  ASSUME Encoded, at = "open_text", encoder.text < 0
  PROVE  /\ encoder.text = -1
         /\ Client = "responses" => /\ encoder.next \in Indexes /\ encoder.next + 1 \in 0 .. MaxCalls + 1
                                    /\ Outs = 0 .. encoder.next - 1 /\ CallsOpened = encoder.next
         /\ Client = "anthropic" => encoder.next = 1 /\ Outs = {} /\ 0 \in Indexes /\ CallsOpened = 0
<1>1. /\ encoder.text \in {-1} \cup Indexes /\ encoder.next \in 0 .. MaxCalls + 1
      /\ wire.started \in 0 .. MaxCalls /\ MaxCalls \in Nat
  BY StreamAssumption DEF Encoded, Types, IsEncoder, IsWire
<1>2. encoder.text = -1
  BY <1>1 DEF Indexes
<1>3. CASE Client = "responses"
  <2>1. CallsOpened = encoder.next /\ Outs = 0 .. encoder.next - 1
    BY <1>1, <1>2, <1>3 DEF CallsOpened, Outs
  <2>2. CallsOpened \in 0 .. wire.started
    BY DEF Encoded, CountInv
  <2> QED
    BY <1>1, <1>2, <1>3, <2>1, <2>2 DEF Indexes
<1>4. CASE Client = "anthropic"
  <2>1. encoder.next = 1
    BY <1>2, <1>4 DEF Encoded, LabelsInv
  <2> QED
    BY <1>1, <1>2, <1>4, <2>1 DEF Outs, CallsOpened, Indexes
<1> QED
  BY <1>2, <1>3, <1>4

\* The encoder opens the text item.
LEMMA OpenTextMove ==
  ASSUME Encoded, NEW next \in Labels, Moves(next), at = "open_text", encoder.text < 0,
         \/ /\ Client = "responses" /\ next = "text"
            /\ encoder' = [encoder EXCEPT !.text = encoder.next, !.next = @ + 1]
            /\ seen' = Opened(encoder.next)
         \/ /\ Client = "anthropic" /\ next = "usage"
            /\ encoder' = [encoder EXCEPT !.text = 0]
            /\ seen' = Opened(0)
  PROVE  Encoded' /\ LifecycleStep
<1>1. /\ Flow'
      /\ inbox = <<>> /\ inbox' = <<>>
      /\ Hand = chunk /\ Hand' = chunk'
      /\ Client' = Client /\ Client \in {"responses", "anthropic"} /\ wire' = wire /\ crlf' = crlf
      /\ watch' = watch /\ reads' = reads /\ call' \in Nat \ {0}
  BY MoveFlow DEF Resting
<1> DEFINE i == IF Client = "responses" THEN encoder.next ELSE 0
<1>2. /\ encoder.text = -1
      /\ Client = "responses" => /\ encoder.next \in Indexes /\ encoder.next + 1 \in 0 .. MaxCalls + 1
                                 /\ Outs = 0 .. encoder.next - 1 /\ CallsOpened = encoder.next
      /\ Client = "anthropic" => encoder.next = 1 /\ Outs = {} /\ 0 \in Indexes /\ CallsOpened = 0
  BY TextOpening
<1>3. i \in Indexes /\ i \in Nat
  BY <1>1, <1>2 DEF Indexes
<1>4. /\ IsEncoder(encoder') /\ encoder'.text = i /\ encoder'.calls = encoder.calls
      /\ encoder'.finish = encoder.finish /\ encoder'.usage = encoder.usage
      /\ encoder'.closed = encoder.closed
      /\ encoder'.next = IF Client = "responses" THEN encoder.next + 1 ELSE encoder.next
  BY <1>1, <1>2 DEF Encoded, Types, IsEncoder
<1>5. seen' = Opened(i)
  BY <1>1
<1> HIDE DEF i
<1>6. /\ IsView(seen') /\ seen'.starts = seen.starts /\ seen'.ends = seen.ends
      /\ seen'.items = [seen.items EXCEPT ![i].opens = @ + 1]
      /\ seen'.fragments = seen.fragments /\ seen'.stray = seen.stray
  BY <1>3, <1>5, OpenedView DEF Encoded, Types
<1>7. at' = next /\ chunk' = chunk /\ call' = call
  BY DEF Moves
<1>8. seen.ends = <<>> /\ encoder.closed = {}
  BY DEF Encoded, ShownInv, ItemsInv
<1>9. Types'
  BY <1>1, <1>4, <1>6 DEF Encoded, Types, Moves
<1>10. UsageInv' /\ FinishInv'
  BY <1>1, <1>4, <1>6, <1>7, <1>8
     DEF Encoded, UsageInv, FinishInv, Absorbed, Succeeded, BeforeUsage
<1>11. /\ \A c : InFlight(c)' <=> InFlight(c)
       /\ \A k : Restarts(k)' <=> Restarts(k)
       /\ \A j : j \in Ahead' .. Len(Hand'.calls) => /\ chunk' = chunk /\ Ahead' = Ahead
                                                     /\ j \in Ahead .. Len(Hand.calls)
  BY <1>1, <1>7, SameInFlight
<1>12. FragmentsInv' /\ OwnersInv'
  BY <1>1, <1>4, <1>6, <1>7, <1>8, <1>11 DEF Encoded, FragmentsInv, OwnersInv, Succeeded
<1>13. /\ CallsOpened' = CallsOpened
       /\ i \notin Outs /\ Outs' = Outs \cup {i}
  <2>1. CASE Client = "responses"
    <3>1. i = encoder.next /\ encoder'.next = encoder.next + 1 /\ encoder.next \in Nat
      BY <1>2, <1>4, <2>1 DEF i, Indexes
    <3>2. CallsOpened' = encoder.next /\ Outs' = 0 .. encoder.next
      BY <1>1, <1>3, <1>4, <2>1, <3>1 DEF CallsOpened, Outs
    <3> QED
      BY <1>2, <2>1, <3>1, <3>2
  <2>2. CASE Client = "anthropic"
    <3>1. i = 0 /\ encoder'.next = 1
      BY <1>2, <1>4, <2>2 DEF i
    <3>2. CallsOpened' = 0 /\ Outs' = 0 .. 0
      BY <1>1, <1>4, <2>2, <3>1 DEF CallsOpened, Outs
    <3> QED
      BY <1>2, <2>2, <3>1, <3>2
  <2> QED
    BY <1>1, <2>1, <2>2
<1>14. CountInv'
  BY <1>1, <1>7, <1>11, <1>13 DEF Encoded, CountInv
<1>15. ItemsInv'
  <2>1. ItemsInv /\ at # "returned"
    BY DEF Encoded
  <2>2. \A j \in Outs : j # encoder.text
    BY <1>2 DEF Outs, Encoded, Types, IsEncoder
  <2>3. \A j \in Outs' : j = encoder'.text \/ \E k \in DOMAIN encoder'.calls : encoder'.calls[k].out = j
    BY <1>4, <1>13, <2>1, <2>2 DEF ItemsInv
  <2> QED
    BY <1>4, <1>8, <1>13, <2>1, <2>3 DEF ItemsInv
<1>16. LabelsInv'
  <2>1. CASE Client = "responses"
    BY <1>1, <1>3, <1>4, <2>1 DEF LabelsInv
  <2>2. CASE Client = "anthropic"
    <3>1. encoder'.text = 0 /\ at' = "usage"
      BY <1>1, <1>4, <1>7, <2>2 DEF i
    <3> QED
      BY <1>1, <2>2, <3>1 DEF LabelsInv
  <2> QED
    BY <1>1, <2>1, <2>2
<1>17. ShownInv' /\ LifecycleStep
  <2>1. Announced /\ Announced'
    BY <1>1, <1>3, <1>4, <1>7 DEF Announced
  <2>2. \A j \in Indexes : j < i => j \in Outs
    BY <1>1, <1>2, <1>3 DEF Indexes, i
  <2>3. ItemsShown' /\ LifecycleStep
    BY <1>3, <1>4, <1>6, <1>13, <2>1, <2>2, OpenShown
  <2> QED
    BY <1>6, <2>1, <2>3 DEF Encoded, ShownInv
<1> QED
  BY <1>1, <1>9, <1>10, <1>12, <1>14, <1>15, <1>16, <1>17 DEF Encoded

\* A piece of text goes to the text item.
LEMMA FeedTextMove ==
  ASSUME Encoded, NEW next \in Labels, Moves(next), at = "text", next = "calls", chunk.text,
         encoder' = encoder,
         seen' = Fed(IF Client = "responses" THEN encoder.text ELSE 0)
  PROVE  Encoded' /\ LifecycleStep
<1>1. /\ Flow'
      /\ inbox = <<>> /\ inbox' = <<>>
      /\ Hand = chunk /\ Hand' = chunk'
      /\ Client' = Client /\ Client \in {"responses", "anthropic"} /\ wire' = wire /\ crlf' = crlf
      /\ watch' = watch /\ reads' = reads /\ call' \in Nat \ {0}
  BY MoveFlow DEF Resting
<1>2. encoder.text \in Outs /\ encoder.text \in Indexes /\ seen' = Fed(encoder.text)
  <2>1. encoder.text >= 0 /\ seen' = Fed(encoder.text)
    BY <1>1 DEF Encoded, LabelsInv
  <2>2. encoder.text \in {-1} \cup Indexes
    BY DEF Encoded, Types, IsEncoder
  <2> QED
    BY <2>1, <2>2 DEF Encoded, ItemsInv
<1>3. /\ IsView(seen') /\ seen'.starts = seen.starts /\ seen'.ends = seen.ends
      /\ seen'.items = [seen.items EXCEPT ![encoder.text].deltas = @ + 1]
      /\ seen'.fragments = seen.fragments /\ seen'.stray = seen.stray
  BY <1>2, FedView DEF Encoded, Types
<1>4. at' = next /\ chunk' = chunk /\ call' = call
  BY DEF Moves
<1>5. seen.ends = <<>>
  BY DEF Encoded, ShownInv
<1>6. Types'
  BY <1>1, <1>3 DEF Encoded, Types, Moves
<1>7. UsageInv' /\ FinishInv'
  BY <1>1, <1>3, <1>4, <1>5
     DEF Encoded, UsageInv, FinishInv, Absorbed, Succeeded, BeforeUsage
<1>8. /\ \A c : InFlight(c)' <=> InFlight(c)
      /\ \A k : Restarts(k)' <=> Restarts(k)
      /\ \A j : j \in Ahead' .. Len(Hand'.calls) => /\ chunk' = chunk /\ Ahead' = Ahead
                                                    /\ j \in Ahead .. Len(Hand.calls)
  BY <1>1, <1>4, SameInFlight
<1>9. FragmentsInv' /\ OwnersInv'
  BY <1>1, <1>3, <1>4, <1>5, <1>8 DEF Encoded, FragmentsInv, OwnersInv, Succeeded
<1>10. CallsOpened' = CallsOpened /\ Outs' = Outs
  BY <1>1 DEF CallsOpened, Outs
<1>11. CountInv' /\ ItemsInv'
  BY <1>1, <1>4, <1>8, <1>10 DEF Encoded, CountInv, ItemsInv
<1>12. LabelsInv'
  BY <1>1, <1>4 DEF Encoded, LabelsInv
<1>13. ShownInv' /\ LifecycleStep
  <2>1. Announced /\ Announced'
    BY <1>1, <1>2, <1>4 DEF Announced, Indexes
  <2>2. encoder.text \notin encoder.closed
    BY DEF Encoded, ItemsInv
  <2>3. ItemsShown' /\ LifecycleStep
    BY <1>2, <1>3, <1>10, <2>1, <2>2, FeedShown
  <2> QED
    BY <1>3, <2>1, <2>3 DEF Encoded, ShownInv
<1> QED
  BY <1>1, <1>6, <1>7, <1>9, <1>11, <1>12, <1>13 DEF Encoded

\* The encoder takes note of a chunk's finish reason.
LEMMA FinishMove ==
  ASSUME Encoded, NEW next \in Labels, Moves(next), at = "finish",
         \/ /\ Client = "responses" /\ next = "idle"
            /\ encoder' = IF chunk.finish # "none"
                          THEN [encoder EXCEPT !.finish =
                                 CanonicalToChatFinish[ChatFinishToCanonical[chunk.finish]]]
                          ELSE encoder
         \/ /\ Client = "anthropic" /\ next = "text" /\ encoder.finish = "none"
            /\ encoder' = [encoder EXCEPT !.finish = chunk.finish],
         seen' = seen
  PROVE  Encoded'
<1>1. /\ Flow'
      /\ inbox = <<>> /\ inbox' = <<>>
      /\ Hand = chunk /\ Hand' = chunk'
      /\ Client' = Client /\ Client \in {"responses", "anthropic"} /\ wire' = wire /\ crlf' = crlf
      /\ watch' = watch /\ reads' = reads /\ call' \in Nat \ {0}
  BY MoveFlow DEF Resting
<1>2. /\ IsEncoder(encoder) /\ wire.finish \in Finishes /\ chunk.finish \in {"none", wire.finish}
      /\ chunk.finish = "none" => encoder.finish = wire.finish
  BY <1>1 DEF Encoded, Types, IsWire, Flow, Fits, FinishInv
<1>3. \A f \in {"stop", "length"} : CanonicalToChatFinish[ChatFinishToCanonical[f]] = f
  BY DEF CanonicalToChatFinish, ChatFinishToCanonical
<1>4. encoder'.finish = wire.finish
  <2>1. DOMAIN encoder = {"text", "calls", "next", "finish", "usage", "closed"}
    BY <1>2 DEF IsEncoder
  <2>2. CASE chunk.finish = "none"
    BY <1>2, <2>1, <2>2
  <2>3. CASE chunk.finish # "none"
    <3>1. chunk.finish \in {"stop", "length"} /\ chunk.finish = wire.finish
      BY <1>2, <2>3 DEF Finishes
    <3>2. CanonicalToChatFinish[ChatFinishToCanonical[chunk.finish]] = wire.finish
      BY <1>3, <3>1
    <3> QED
      BY <2>1, <2>3, <3>1, <3>2
  <2> QED
    BY <2>2, <2>3
<1>5. /\ DOMAIN encoder' = DOMAIN encoder
      /\ encoder'.text = encoder.text /\ encoder'.calls = encoder.calls
      /\ encoder'.next = encoder.next /\ encoder'.usage = encoder.usage
      /\ encoder'.closed = encoder.closed
  BY <1>2 DEF IsEncoder
<1>6. IsEncoder(encoder')
  BY <1>2, <1>4, <1>5 DEF IsEncoder
<1>7. at' = next
  BY DEF Moves
<1>8. Chunk.usage = NoUsage /\ Chunk.finish = "none" /\ Chunk.calls = <<>>
  BY EmptyChunks
<1>9. seen.ends = <<>>
  BY DEF Encoded, ShownInv
<1>10. Types'
  BY <1>1, <1>6 DEF Encoded, Types, Moves
<1>11. UsageInv'
  BY <1>1, <1>5, <1>7, <1>9 DEF Encoded, UsageInv, Absorbed, Succeeded, BeforeUsage
<1>12. FinishInv'
  BY <1>1, <1>4, <1>7, <1>9 DEF FinishInv, Succeeded
<1>13. /\ \A c : InFlight(c)' <=> InFlight(c)
       /\ \A k : Restarts(k)' <=> Restarts(k)
       /\ \A j : j \in Ahead' .. Len(Hand'.calls) => /\ chunk' = chunk /\ Ahead' = Ahead
                                                     /\ j \in Ahead .. Len(Hand.calls)
  <2>1. CASE Client = "anthropic"
    BY <1>1, <1>7, <2>1, SameInFlight DEF Moves
  <2>2. CASE Client = "responses"
    <3>1. /\ call \in Nat \ {0} /\ call > Len(chunk.calls) /\ Len(chunk.calls) \in Nat
          /\ chunk' = Chunk /\ call' = 1
      BY <2>2 DEF Encoded, Types, Flow, Fits, Moves
    <3>2. Ahead = call /\ Ahead' = call' /\ Len(Hand'.calls) = 0
      BY <1>1, <1>7, <1>8, <2>2, <3>1 DEF Ahead
    <3>3. call .. Len(Hand.calls) = {} /\ call' .. Len(Hand'.calls) = {}
      BY <1>1, <3>1, <3>2
    <3> QED
      BY <3>2, <3>3 DEF InFlight, Restarts
  <2> QED
    BY <1>1, <2>1, <2>2
<1>14. FragmentsInv' /\ OwnersInv'
  BY <1>1, <1>5, <1>7, <1>9, <1>13 DEF Encoded, FragmentsInv, OwnersInv, Succeeded
<1>15. CallsOpened' = CallsOpened /\ Outs' = Outs
  BY <1>1, <1>5 DEF CallsOpened, Outs
<1>16. CountInv' /\ ItemsInv'
  BY <1>1, <1>5, <1>7, <1>13, <1>15 DEF Encoded, CountInv, ItemsInv
<1>17. LabelsInv'
  BY <1>1, <1>5, <1>7 DEF Encoded, LabelsInv
<1>18. ShownInv'
  BY <1>1, <1>5, <1>7, <1>9, <1>15 DEF Encoded, ShownInv, ItemsShown, Announced
<1> QED
  BY <1>1, <1>10, <1>11, <1>12, <1>14, <1>16, <1>17, <1>18 DEF Encoded

\* The tool call delta in hand names a call of the provider's.
LEMMA DeltaInHand ==
  ASSUME Encoded, call <= Len(chunk.calls)
  PROVE  /\ call \in Nat \ {0} /\ Len(chunk.calls) \in Nat /\ call \in 1 .. Len(chunk.calls)
         /\ Delta \in Deltas /\ DeltaFits(Delta)
         /\ Delta.index \in ChatIndexes
         /\ Delta.id # None => Delta.id \in Calls
         /\ Delta.frag # None => Delta.frag \in Calls
<1>1. call \in Nat \ {0} /\ Fits(chunk)
  BY DEF Encoded, Types, Flow
<1>2. Len(chunk.calls) \in Nat /\ call \in 1 .. Len(chunk.calls)
  BY <1>1 DEF Fits
<1>3. DeltaFits(Delta)
  BY <1>1, <1>2 DEF Fits, Delta
<1>4. Delta \in Deltas
  BY <1>3 DEF DeltaFits
<1> QED
  BY <1>1, <1>2, <1>3, <1>4, DeltaFields

\* The encoder opens an item for a tool call.
LEMMA OpenCallMove ==
  ASSUME Encoded, NEW next \in Labels, Moves(next), at = "calls", next = "arguments",
         call <= Len(chunk.calls), ~Known(Delta.index), Delta.id # None, Delta.name,
         encoder' = [encoder EXCEPT !.calls = Assign(@, Delta.index, [call |-> Delta.id, out |-> encoder.next]),
                                    !.next = @ + 1],
         seen' = Opened(encoder.next)
  PROVE  Encoded' /\ LifecycleStep
<1>1. /\ Flow'
      /\ inbox = <<>> /\ inbox' = <<>>
      /\ Hand = chunk /\ Hand' = chunk'
      /\ Client' = Client /\ Client \in {"responses", "anthropic"} /\ wire' = wire /\ crlf' = crlf
      /\ watch' = watch /\ reads' = reads /\ call' \in Nat \ {0}
  BY MoveFlow DEF Resting
<1>2. at' = next /\ chunk' = chunk /\ call' = call /\ Ahead = call /\ Ahead' = call + 1
  BY DEF Moves, Ahead
<1>3. /\ call \in Nat \ {0} /\ Len(chunk.calls) \in Nat /\ call \in 1 .. Len(chunk.calls)
      /\ DeltaFits(Delta)
      /\ Delta.index \in ChatIndexes /\ Delta.id \in Calls
  BY DeltaInHand
<1>4. Delta.index \in DOMAIN wire.owner /\ Delta.id = wire.owner[Delta.index]
  BY <1>3 DEF DeltaFits
<1>5. IsEncoder(encoder)
  BY DEF Encoded, Types
<1>6. CallsOpened \in Nat /\ CallsOpened < Delta.id /\ Delta.id <= wire.started
      /\ wire.started \in 0 .. MaxCalls /\ Delta.id \in Int
  <2>1. /\ wire.started \in 0 .. MaxCalls
        /\ CallsOpened \in 0 .. wire.started
    BY DEF Encoded, Types, IsWire, CountInv
  <2>2. call \in Ahead .. Len(Hand.calls)
    BY <1>1, <1>2, <1>3
  <2>3. CallsOpened + (call - call) < Delta.id /\ Delta.id <= wire.started
    BY <1>1, <1>2, <2>2 DEF Encoded, CountInv, Delta
  <2> QED
    BY <1>3, <2>1, <2>3 DEF Calls
<1>7. encoder.next \in Indexes /\ encoder.next + 1 \in 0 .. MaxCalls + 1 /\ encoder.next \in Nat
  <2>1. encoder.next = CallsOpened \/ encoder.next = CallsOpened + 1
    BY <1>5 DEF CallsOpened, IsEncoder
  <2> QED
    BY <1>6, <2>1, StreamAssumption DEF Indexes
<1> DEFINE item == [call |-> Delta.id, out |-> encoder.next]
           calls == Assign(encoder.calls, Delta.index, item)
<1>8. item \in CallItems /\ item.call = Delta.id /\ item.out = encoder.next
  BY <1>3, <1>7 DEF CallItems
<1>9. encoder' = [encoder EXCEPT !.calls = calls, !.next = encoder.next + 1]
  OBVIOUS
<1> HIDE DEF item
<1>10. /\ calls \in Partial(ChatIndexes, CallItems)
       /\ DOMAIN calls = DOMAIN encoder.calls \cup {Delta.index}
       /\ calls[Delta.index] = item
       /\ \A k \in DOMAIN encoder.calls : k # Delta.index => calls[k] = encoder.calls[k]
  <2>1. /\ encoder.calls \in Partial(ChatIndexes, CallItems)
        /\ Delta.index \in ChatIndexes /\ item \in CallItems
    BY <1>3, <1>5, <1>8 DEF IsEncoder
  <2> QED
    BY <2>1, AssignPartial
<1> HIDE DEF calls
<1>11. /\ IsEncoder(encoder') /\ encoder'.text = encoder.text /\ encoder'.calls = calls
       /\ encoder'.finish = encoder.finish /\ encoder'.usage = encoder.usage
       /\ encoder'.closed = encoder.closed /\ encoder'.next = encoder.next + 1
  BY <1>5, <1>7, <1>9, <1>10 DEF IsEncoder
<1>12. /\ IsView(seen') /\ seen'.starts = seen.starts /\ seen'.ends = seen.ends
       /\ seen'.items = [seen.items EXCEPT ![encoder.next].opens = @ + 1]
       /\ seen'.fragments = seen.fragments /\ seen'.stray = seen.stray
  BY <1>7, OpenedView DEF Encoded, Types
<1>13. seen.ends = <<>> /\ encoder.closed = {}
  BY DEF Encoded, ShownInv, ItemsInv
<1>14. Types'
  BY <1>1, <1>11, <1>12 DEF Encoded, Types, Moves
<1>15. UsageInv' /\ FinishInv'
  BY <1>1, <1>2, <1>11, <1>12, <1>13
     DEF Encoded, UsageInv, FinishInv, Absorbed, Succeeded, BeforeUsage
<1>16. FragmentsInv'
  <2>1. \A c : InFlight(c)' <=> InFlight(c)
    BY <1>1, <1>2 DEF InFlight
  <2> QED
    BY <1>1, <1>2, <1>12, <1>13, <2>1 DEF Encoded, FragmentsInv, Succeeded
<1>17. OwnersInv'
  <2>1. OwnersInv /\ at # "returned"
    BY DEF Encoded
  <2>2. ASSUME NEW k \in DOMAIN encoder.calls, Restarts(k) PROVE Restarts(k)'
    <3>1. PICK j \in call .. Len(chunk.calls) : chunk.calls[j].index = k /\ chunk.calls[j].id # None
      BY <1>1, <1>2, <2>2 DEF Restarts
    <3>2. j # call
      BY <2>2, <3>1 DEF Known, Delta
    <3>3. j \in call + 1 .. Len(chunk.calls)
      BY <1>3, <3>1, <3>2
    <3> QED
      BY <1>1, <1>2, <3>1, <3>3 DEF Restarts
  <2>3. ASSUME NEW k \in DOMAIN calls
        PROVE  /\ k \in DOMAIN wire.owner
               /\ \/ calls[k].call = wire.owner[k]
                  \/ wire.reused /\ (Client = "anthropic" \/ Restarts(k)')
    <3>1. CASE k = Delta.index
      BY <1>4, <1>8, <1>10, <3>1
    <3>2. CASE k # Delta.index
      <4>1. k \in DOMAIN encoder.calls /\ calls[k] = encoder.calls[k]
        BY <1>10, <3>2
      <4> QED
        BY <2>1, <2>2, <4>1 DEF OwnersInv
    <3> QED
      BY <3>1, <3>2
  <2> QED
    BY <1>1, <1>11, <1>12, <2>1, <2>3 DEF OwnersInv
<1>18. /\ CallsOpened' = CallsOpened + 1 /\ Outs = 0 .. encoder.next - 1
       /\ encoder.next \notin Outs /\ Outs' = Outs \cup {encoder.next}
  <2>1. Client = "anthropic" => encoder.text = 0
    BY DEF Encoded, LabelsInv
  <2>2. CallsOpened' = CallsOpened + 1
    BY <1>1, <1>7, <1>11 DEF CallsOpened
  <2>3. Outs = 0 .. encoder.next - 1 /\ Outs' = 0 .. encoder.next
    BY <1>1, <1>7, <1>11, <2>1 DEF Outs
  <2> QED
    BY <1>7, <2>2, <2>3
<1>19. CountInv'
  <2>1. ASSUME NEW j \in call + 1 .. Len(chunk.calls), chunk.calls[j].id # None, chunk.calls[j].name
        PROVE  CallsOpened + 1 + (j - (call + 1)) < chunk.calls[j].id /\ chunk.calls[j].id <= wire.started
    <3>1. j \in call .. Len(chunk.calls) /\ j \in 1 .. Len(chunk.calls)
      BY <1>3
    <3>2. CallsOpened + (j - call) < chunk.calls[j].id /\ chunk.calls[j].id <= wire.started
      BY <1>1, <1>2, <2>1, <3>1 DEF Encoded, CountInv
    <3>3. CallsOpened + 1 + (j - (call + 1)) = CallsOpened + (j - call)
      BY <1>3, <1>6, <3>1
    <3> QED
      BY <3>2, <3>3
  <2>2. CallsOpened + 1 \in 0 .. wire.started
    BY <1>6
  <2> QED
    BY <1>1, <1>2, <1>18, <2>1, <2>2 DEF CountInv
<1>20. ItemsInv'
  <2>1. ItemsInv /\ at # "returned"
    BY DEF Encoded
  <2>2. \A k \in DOMAIN calls : calls[k].out \in Outs'
    BY <1>8, <1>10, <1>18, <2>1 DEF ItemsInv
  <2>3. \A j \in Outs' : j = encoder.text \/ \E k \in DOMAIN calls : calls[k].out = j
    BY <1>8, <1>10, <1>18, <2>1
       DEF ItemsInv, Known
  <2> QED
    BY <1>11, <1>13, <1>18, <2>1, <2>2, <2>3 DEF ItemsInv
<1>21. LabelsInv'
  <2>1. chunk'.calls[call'].index \in DOMAIN encoder'.calls
    BY <1>2, <1>10, <1>11 DEF Delta
  <2> QED
    BY <1>1, <1>2, <1>11, <2>1 DEF Encoded, LabelsInv
<1>22. ShownInv' /\ LifecycleStep
  <2>1. Announced /\ Announced'
    BY <1>1, <1>2, <1>11 DEF Announced, Encoded, LabelsInv
  <2>2. \A j \in Indexes : j < encoder.next => j \in Outs
    BY <1>7, <1>18 DEF Indexes
  <2>3. ItemsShown' /\ LifecycleStep
    BY <1>7, <1>11, <1>12, <1>18, <2>1, <2>2, OpenShown
  <2> QED
    BY <1>12, <2>1, <2>3 DEF Encoded, ShownInv
<1> QED
  BY <1>1, <1>14, <1>15, <1>16, <1>17, <1>19, <1>20, <1>21, <1>22 DEF Encoded

\* A fragment goes to the item of the tool call whose index it has.
LEMMA FeedMove ==
  ASSUME Encoded, NEW next \in Labels, Moves(next), at = "arguments", next = "calls",
         Delta.frag # None, Known(Delta.index),
         encoder' = encoder, seen' = FedCall(encoder.calls[Delta.index], Delta.frag)
  PROVE  Encoded' /\ LifecycleStep
<1>1. /\ Flow'
      /\ inbox = <<>> /\ inbox' = <<>>
      /\ Hand = chunk /\ Hand' = chunk'
      /\ Client' = Client /\ Client \in {"responses", "anthropic"} /\ wire' = wire /\ crlf' = crlf
      /\ watch' = watch /\ reads' = reads /\ call' \in Nat \ {0}
  BY MoveFlow DEF Resting
<1>2. at' = next /\ chunk' = chunk /\ call' = call + 1 /\ Ahead = call + 1 /\ Ahead' = call + 1
  BY DEF Moves, Ahead
<1>3. /\ call \in Nat \ {0} /\ Len(chunk.calls) \in Nat /\ call \in 1 .. Len(chunk.calls)
      /\ DeltaFits(Delta) /\ Delta.frag \in Calls
  <2>1. call <= Len(chunk.calls)
    BY DEF Encoded, Flow
  <2> QED
    BY <2>1, DeltaInHand
<1>4. PICK item \in CallItems, frag \in Calls :
        /\ item = encoder.calls[Delta.index] /\ frag = Delta.frag /\ frag # None
        /\ item.out \in Indexes /\ item.out \in Outs
  <2>1. encoder.calls \in Partial(ChatIndexes, CallItems) /\ Delta.index \in DOMAIN encoder.calls
    BY DEF Encoded, Types, IsEncoder, Known
  <2>2. encoder.calls[Delta.index] \in CallItems
    BY <2>1, PartialIn
  <2>3. encoder.calls[Delta.index].out \in Indexes /\ encoder.calls[Delta.index].out \in Outs
    BY <2>1, <2>2 DEF CallItems, Encoded, ItemsInv
  <2> QED
    BY <1>3, <2>2, <2>3
<1>5. /\ IsView(seen') /\ seen'.starts = seen.starts /\ seen'.ends = seen.ends
      /\ seen'.items = [seen.items EXCEPT ![item.out].deltas = @ + 1]
      /\ seen'.fragments = [seen.fragments EXCEPT ![frag] = @ + 1]
      /\ seen'.stray = seen.stray + IF frag = item.call THEN 0 ELSE 1
  <2>1. seen' = FedCall(item, frag)
    BY <1>4
  <2>2. IsView(seen)
    BY DEF Encoded, Types
  <2> QED
    BY <2>1, <2>2, FedCallView
<1>6. seen.ends = <<>>
  BY DEF Encoded, ShownInv
<1>7. Types'
  BY <1>1, <1>5 DEF Encoded, Types, Moves
<1>8. UsageInv' /\ FinishInv'
  BY <1>1, <1>2, <1>5, <1>6
     DEF Encoded, UsageInv, FinishInv, Absorbed, Succeeded, BeforeUsage
<1>9. FragmentsInv'
  <2>1. /\ \A c \in Calls : wire.fragments[c] = seen.fragments[c] + IF InFlight(c) THEN 1 ELSE 0
        /\ wire.fragments \in [Calls -> Nat] /\ seen.fragments \in [Calls -> Nat]
    BY DEF Encoded, FragmentsInv, Types, IsWire, IsView
  <2>2. \A i, j \in 1 .. Len(chunk.calls) : i # j /\ chunk.calls[i].frag # None =>
          chunk.calls[i].frag # chunk.calls[j].frag
    BY DEF Encoded, Flow, Fits
  <2>3. \A c \in Calls : c # frag => (InFlight(c)' <=> InFlight(c))
    <3>1. \A j : j \in call .. Len(chunk.calls) => j = call \/ j \in call + 1 .. Len(chunk.calls)
      BY <1>3
    <3>2. \A j : j \in call + 1 .. Len(chunk.calls) => j \in call .. Len(chunk.calls)
      BY <1>3
    <3> QED
      BY <1>1, <1>2, <1>4, <3>1, <3>2 DEF InFlight, Delta
  <2>4. InFlight(frag)
    BY <1>1, <1>3, <1>4 DEF InFlight, Delta
  <2>5. ~InFlight(frag)'
    <3> SUFFICES ASSUME NEW j \in call + 1 .. Len(chunk.calls), chunk.calls[j].frag = frag
                 PROVE  FALSE
      BY <1>1, <1>2 DEF InFlight
    <3>1. j \in 1 .. Len(chunk.calls) /\ call # j
      BY <1>3
    <3> QED
      BY <1>3, <1>4, <2>2, <3>1 DEF Delta
  <2>6. ASSUME NEW c \in Calls
        PROVE  wire.fragments[c] = seen'.fragments[c] + IF InFlight(c)' THEN 1 ELSE 0
    <3>1. CASE c = frag
      <4>1. seen'.fragments[c] = seen.fragments[c] + 1
        BY <1>5, <2>1, <3>1
      <4> QED
        BY <2>1, <2>4, <2>5, <3>1, <4>1
    <3>2. CASE c # frag
      <4>1. seen'.fragments[c] = seen.fragments[c]
        BY <1>5, <2>1, <3>2
      <4> QED
        BY <2>1, <2>3, <3>2, <4>1
    <3> QED
      BY <3>1, <3>2
  <2> QED
    BY <1>1, <1>5, <1>6, <2>6 DEF FragmentsInv, Succeeded
<1>10. OwnersInv'
  <2>1. OwnersInv /\ at # "returned" /\ Delta.index \in DOMAIN encoder.calls
    BY DEF Encoded, Known
  <2>2. \A k : Restarts(k)' <=> Restarts(k)
    BY <1>1, <1>2 DEF Restarts
  <2>3. ~Restarts(Delta.index)
    <3> SUFFICES ASSUME NEW j \in call + 1 .. Len(chunk.calls), chunk.calls[j].index = Delta.index
                 PROVE  FALSE
      BY <1>1, <1>2 DEF Restarts
    <3>1. j \in 1 .. Len(chunk.calls) /\ call # j
      BY <1>3
    <3> QED
      BY <1>3, <3>1 DEF Delta, Encoded, Flow, Fits
  <2>4. frag = item.call \/ (wire.reused /\ Client = "anthropic")
    BY <1>3, <1>4, <2>1, <2>3 DEF OwnersInv, DeltaFits
  <2>5. seen'.stray = 0 \/ (wire.reused /\ Client = "anthropic")
    BY <1>5, <2>1, <2>4 DEF OwnersInv
  <2> QED
    BY <1>1, <2>1, <2>2, <2>5 DEF OwnersInv
<1>11. CallsOpened' = CallsOpened /\ Outs' = Outs
  BY <1>1 DEF CallsOpened, Outs
<1>12. CountInv' /\ ItemsInv'
  BY <1>1, <1>2, <1>11 DEF Encoded, CountInv, ItemsInv
<1>13. LabelsInv'
  BY <1>1, <1>2 DEF Encoded, LabelsInv
<1>14. ShownInv' /\ LifecycleStep
  <2>1. Announced /\ Announced'
    BY <1>1, <1>2 DEF Announced, Encoded, LabelsInv
  <2>2. item.out \notin encoder.closed
    BY DEF Encoded, ItemsInv
  <2>3. ItemsShown' /\ LifecycleStep
    BY <1>4, <1>5, <1>11, <2>1, <2>2, FeedShown
  <2> QED
    BY <1>5, <2>1, <2>3 DEF Encoded, ShownInv
<1> QED
  BY <1>1, <1>7, <1>8, <1>9, <1>10, <1>12, <1>13, <1>14 DEF Encoded

\* Once the encoder has returned, only what it told the client matters.
LEMMA ReturnedInv ==
  ASSUME Encoded, UNCHANGED <<route, crlf, wire, encoder>>, at' = "returned", Types', Flow',
         seen'.stray = seen.stray,
         seen'.ends = <<"completed">> =>
           /\ seen'.usage = wire.usage /\ watch'.logged /\ (~crlf => watch'.seen = wire.usage)
           /\ seen'.finish = wire.finish /\ wire.finish # "none"
           /\ seen'.fragments = wire.fragments
  PROVE  Encoded'
<1>1. Client' = Client
  BY DEF Client
<1>2. UsageInv' /\ FinishInv' /\ FragmentsInv'
  BY DEF UsageInv, FinishInv, FragmentsInv, Succeeded
<1>3. OwnersInv' /\ CountInv' /\ ItemsInv' /\ ShownInv'
  BY <1>1 DEF Encoded, OwnersInv, CountInv, ItemsInv, ShownInv
<1>4. LabelsInv'
  BY <1>1 DEF Encoded, LabelsInv
<1> QED
  BY <1>2, <1>3, <1>4 DEF Encoded

\* What the client sees of a stream that fails.
LEMMA FailedView ==
  ASSUME Encoded, at # "returned", seen' = Failed
  PROVE  /\ IsView(seen') /\ seen'.ends = <<"failed">> /\ seen'.stray = seen.stray
         /\ LifecycleStep
<1>1. IsView(seen) /\ seen.ends = <<>> /\ encoder.usage \in Usages
  BY DEF Encoded, Types, ShownInv, IsEncoder
<1>2. NoUsage \in Usages /\ "none" \in Finishes
  BY DEF NoUsage, Usages, Finishes
<1>3. PICK usage \in Usages : seen' = Terminal("failed", usage, "none")
  BY <1>1, <1>2 DEF Failed
<1>4. /\ IsView(seen') /\ seen'.starts = seen.starts /\ seen'.ends = <<"failed">>
      /\ seen'.items = seen.items /\ seen'.stray = seen.stray
  BY <1>1, <1>2, <1>3, TerminalView
<1>5. Lifecycle!Fail
  BY <1>1, <1>4 DEF Lifecycle!Fail
<1> QED
  BY <1>4, <1>5 DEF LifecycleStep, Lifecycle!Next

\* The encoder gives the stream up.
LEMMA FailMove ==
  ASSUME Encoded, Moves("returned"), encoder' = encoder, seen' = Failed
  PROVE  Encoded' /\ LifecycleStep
<1>1. at # "returned" /\ at' = "returned" /\ UNCHANGED <<route, crlf, wire>>
  BY DEF Moves, upstream
<1>2. /\ IsView(seen') /\ seen'.ends = <<"failed">> /\ seen'.stray = seen.stray
      /\ LifecycleStep
  BY <1>1, FailedView
<1>3. /\ Flow' /\ Client' = Client /\ watch' = watch /\ reads' = reads /\ call' \in Nat \ {0}
  BY MoveFlow DEF Labels
<1>4. Types'
  BY <1>1, <1>2, <1>3 DEF Encoded, Types, Labels
<1> QED
  BY <1>1, <1>2, <1>3, <1>4, ReturnedInv

\* A set of natural numbers that is not empty has a least element.
LEMMA LeastOf ==
  ASSUME NEW S \in SUBSET Nat, S # {}
  PROVE  \E m \in S : \A n \in S : m <= n
<1> DEFINE R == OpToRel(<, Nat)
<1>1. IsWellFoundedOn(R, Nat)
  BY NatLessThanWellFounded
<1>2. \A n \in Nat, m \in Nat : n < m => <<n, m>> \in R
  BY DEF OpToRel
<1> HIDE DEF R
<1>3. PICK m \in S : \A n \in S : ~(<<n, m>> \in R)
  BY <1>1, WFMin
<1>4. \A n \in S : m \in Nat /\ n \in Nat /\ ~(n < m)
  BY <1>2, <1>3
<1> QED
  BY <1>4

\* When the encoder finds nothing left to close, every item is closed.
LEMMA AllClosed ==
  ASSUME Encoded, at # "returned", ToClose = {}
  PROVE  Outs \in SUBSET encoder.closed
<1>1. /\ IsEncoder(encoder) /\ ItemsInv /\ Client \in {"responses", "anthropic"}
      /\ encoder.next \in Int /\ encoder.text \in Int
  BY StreamAssumption DEF Encoded, Types, IsEncoder, Indexes
<1>2. Outs \in SUBSET Nat
  BY <1>1 DEF Outs
<1>3. CASE Client = "responses"
  <2>1. ResponsesToClose = {}
    BY <1>3 DEF ToClose
  <2>2. ~(encoder.text >= 0 /\ encoder.text \notin encoder.closed)
    BY <2>1 DEF ResponsesToClose
  <2>3. OpenCalls \in SUBSET Nat
    <3>1. DOMAIN encoder.calls \subseteq ChatIndexes
      BY <1>1, PartialIn DEF IsEncoder
    <3> QED
      BY <3>1 DEF OpenCalls, ChatIndexes
  <2>4. {l \in OpenCalls : \A m \in OpenCalls : l <= m} = {}
    BY <2>1, <2>2 DEF ResponsesToClose
  <2>5. OpenCalls = {}
    BY <2>3, <2>4, LeastOf
  <2> QED
    BY <1>1, <1>2, <2>2, <2>5 DEF OpenCalls, ItemsInv
<1>4. CASE Client = "anthropic"
  <2> DEFINE open == {i \in 0 .. encoder.next - 1 : encoder.text >= 0 /\ i \notin encoder.closed}
  <2>1. {i \in open : \A j \in open : i <= j} = {}
    BY <1>4 DEF ToClose, AnthropicToClose
  <2>2. open \in SUBSET Nat
    BY <1>1
  <2>3. open = {}
    <3> HIDE DEF open
    <3> QED
      BY <2>1, <2>2, LeastOf
  <2>4. \A i \in Outs : i \in 0 .. encoder.next - 1 /\ encoder.text >= 0
    BY <1>1, <1>4 DEF Outs
  <2> QED
    BY <2>3, <2>4
<1> QED
  BY <1>1, <1>3, <1>4

\* Everything is closed and the stream is complete.
LEMMA CompleteMove ==
  ASSUME Encoded, Moves("returned"), at = "closing", Finished, ToClose = {}, encoder' = encoder,
         seen' = Terminal("completed", encoder.usage, encoder.finish)
  PROVE  Encoded' /\ LifecycleStep
<1>1. at' = "returned" /\ UNCHANGED <<route, crlf, wire>>
  BY DEF Moves, upstream
<1>2. /\ Flow' /\ Client' = Client /\ watch' = watch /\ reads' = reads /\ call' \in Nat \ {0}
      /\ Hand = chunk
  BY MoveFlow DEF Labels
<1>3. Hand.usage = NoUsage /\ Hand.finish = "none" /\ Hand.calls = <<>> /\ call = 1
  BY <1>2, EmptyChunks DEF Encoded, Flow, Resting
<1>4. /\ IsView(seen) /\ seen.ends = <<>> /\ encoder.usage \in Usages /\ encoder.finish \in Finishes
  BY DEF Encoded, Types, ShownInv, IsEncoder
<1>5. /\ IsView(seen') /\ seen'.starts = seen.starts /\ seen'.items = seen.items
      /\ seen'.ends = <<"completed">> /\ seen'.fragments = seen.fragments /\ seen'.stray = seen.stray
      /\ seen'.usage = encoder.usage /\ seen'.finish = encoder.finish
  BY <1>4, TerminalView
<1>6. Types'
  BY <1>1, <1>2, <1>5 DEF Encoded, Types, Labels
<1>7. /\ encoder.usage = wire.usage /\ watch.logged /\ (~crlf => watch.seen = wire.usage)
      /\ encoder.finish = wire.finish /\ wire.finish # "none"
  BY <1>3 DEF Encoded, UsageInv, FinishInv, Finished
<1>8. seen.fragments = wire.fragments
  <2>1. \A c \in Calls : ~InFlight(c)
    BY <1>3 DEF InFlight
  <2>2. \A c \in Calls : wire.fragments[c] = seen.fragments[c] + 0
    BY <2>1 DEF Encoded, FragmentsInv
  <2>3. wire.fragments \in [Calls -> Nat] /\ seen.fragments \in [Calls -> Nat]
    BY DEF Encoded, Types, IsWire, IsView
  <2> QED
    BY <2>2, <2>3
<1>9. Encoded'
  BY <1>1, <1>2, <1>5, <1>6, <1>7, <1>8, ReturnedInv
<1>10. Lifecycle!Complete
  <2>1. Announced
    BY DEF Announced, Encoded, Types, LabelsInv, Finished
  <2>2. \A i \in Indexes : ~Lifecycle!Live(i)
    BY AllClosed, RunningView DEF Lifecycle!Live, ItemsShown
  <2> QED
    BY <1>4, <1>5, <2>1, <2>2, RunningView DEF Lifecycle!Complete, Lifecycle!Running
<1> QED
  BY <1>9, <1>10 DEF LifecycleStep, Lifecycle!Next

\* What the encoder closes was opened and not closed.
LEMMA ToCloseOpen ==
  ASSUME Encoded, at # "returned", NEW i \in ToClose
  PROVE  i \in Outs /\ i \in Indexes /\ i \notin encoder.closed
<1>1. /\ IsEncoder(encoder) /\ ItemsInv /\ Client \in {"responses", "anthropic"}
  BY DEF Encoded, Types
<1>2. Outs \in SUBSET Indexes
  <2>1. encoder.next \in 0 .. MaxCalls + 1 /\ MaxCalls \in Nat
    BY <1>1, StreamAssumption DEF IsEncoder
  <2> QED
    BY <2>1 DEF Outs, Indexes
<1>3. i \in Outs /\ i \notin encoder.closed
  <2>1. CASE Client = "responses"
    BY <1>1, <2>1 DEF ToClose, ResponsesToClose, OpenCalls, ItemsInv
  <2>2. CASE Client = "anthropic"
    <3>1. encoder.text \in Int
      BY <1>1 DEF IsEncoder, Indexes
    <3>2. i \in 0 .. encoder.next - 1 /\ encoder.text >= 0 /\ i \notin encoder.closed
      BY <2>2 DEF ToClose, AnthropicToClose
    <3> QED
      BY <3>1, <3>2 DEF Outs
  <2> QED
    BY <1>1, <2>1, <2>2
<1> QED
  BY <1>2, <1>3

\* The encoder closes an item.
LEMMA CloseMove ==
  ASSUME Encoded, Moves("closing"), at = "closing", NEW i \in ToClose,
         encoder' = [encoder EXCEPT !.closed = @ \cup {i}], seen' = Closed(i)
  PROVE  Encoded' /\ LifecycleStep
<1>1. /\ Flow'
      /\ inbox = <<>> /\ inbox' = <<>>
      /\ Hand = chunk /\ Hand' = chunk'
      /\ Client' = Client /\ Client \in {"responses", "anthropic"} /\ wire' = wire /\ crlf' = crlf
      /\ watch' = watch /\ reads' = reads /\ call' \in Nat \ {0}
  BY MoveFlow DEF Labels
<1>2. at' = at /\ chunk' = chunk /\ call' = call
  BY DEF Moves
<1>3. i \in Outs /\ i \in Indexes /\ i \notin encoder.closed
  BY ToCloseOpen
<1>4. /\ IsView(seen') /\ seen'.starts = seen.starts /\ seen'.ends = seen.ends
      /\ seen'.items = [seen.items EXCEPT ![i].closes = @ + 1]
      /\ seen'.fragments = seen.fragments /\ seen'.stray = seen.stray
  BY <1>3, ClosedView DEF Encoded, Types
<1>5. /\ IsEncoder(encoder') /\ encoder'.text = encoder.text /\ encoder'.calls = encoder.calls
      /\ encoder'.finish = encoder.finish /\ encoder'.usage = encoder.usage
      /\ encoder'.next = encoder.next /\ encoder'.closed = encoder.closed \cup {i}
  BY <1>3 DEF Encoded, Types, IsEncoder
<1>6. seen.ends = <<>>
  BY DEF Encoded, ShownInv
<1>7. Types'
  BY <1>1, <1>2, <1>4, <1>5 DEF Encoded, Types
<1>8. UsageInv' /\ FinishInv'
  BY <1>1, <1>2, <1>4, <1>5, <1>6
     DEF Encoded, UsageInv, FinishInv, Absorbed, Succeeded, BeforeUsage
<1>9. /\ \A c : InFlight(c)' <=> InFlight(c)
      /\ \A k : Restarts(k)' <=> Restarts(k)
      /\ Ahead' = Ahead
  BY <1>1, <1>2 DEF InFlight, Restarts, Ahead
<1>10. FragmentsInv' /\ OwnersInv'
  BY <1>1, <1>2, <1>4, <1>5, <1>6, <1>9 DEF Encoded, FragmentsInv, OwnersInv, Succeeded
<1>11. CallsOpened' = CallsOpened /\ Outs' = Outs
  BY <1>1, <1>5 DEF CallsOpened, Outs
<1>12. CountInv' /\ ItemsInv'
  BY <1>1, <1>2, <1>3, <1>5, <1>9, <1>11 DEF Encoded, CountInv, ItemsInv
<1>13. LabelsInv'
  BY <1>1, <1>2, <1>5 DEF Encoded, LabelsInv
<1>14. ShownInv' /\ LifecycleStep
  <2>1. Announced /\ Announced'
    <3>1. encoder.text \in Int
      BY DEF Encoded, Types, IsEncoder, Indexes
    <3> QED
      BY <1>1, <1>2, <1>3, <1>5, <3>1 DEF Announced, Outs
  <2>2. ItemsShown' /\ LifecycleStep
    BY <1>3, <1>4, <1>5, <1>11, <2>1, CloseShown
  <2> QED
    BY <1>4, <2>1, <2>2 DEF Encoded, ShownInv
<1> QED
  BY <1>1, <1>7, <1>8, <1>10, <1>12, <1>13, <1>14 DEF Encoded

-----------------------------------------------------------------------------
(* Encoded streams: the encoders' steps. *)

\* A step of an encoder is a move.
LEMMA StepMoves ==
  ASSUME NEW next, NEW locals, NEW view, at \notin {"idle", "returned"}, Step(next, locals, view)
  PROVE  Moves(next) /\ encoder' = locals /\ seen' = view
BY DEF Step, Moves

\* A silent move shows nothing.
LEMMA SilentStep ==
  ASSUME seen' = seen
  PROVE  LifecycleStep
BY DEF LifecycleStep, Lifecycle!lifecycleVars

\* openai_sse_to_responses_sse keeps the invariant and the lifecycle.
LEMMA ResponsesSteps ==
  ASSUME Encoded, Client = "responses", ResponsesStep
  PROVE  Encoded' /\ LifecycleStep
<1> USE DEF Labels
<1>1. CASE ResponsesStart
  <2>1. at = "start" /\ Step("idle", encoder, Started)
    BY <1>1 DEF ResponsesStart
  <2>2. Moves("idle") /\ encoder' = encoder /\ seen' = Started
    BY <2>1, StepMoves
  <2> QED
    BY <2>1, <2>2, AnnounceMove
<1>2. CASE ResponsesUsage
  <2> DEFINE next == IF chunk.choices THEN "open_text" ELSE "idle"
             locals == IF chunk.usage # NoUsage THEN [encoder EXCEPT !.usage = chunk.usage] ELSE encoder
  <2>1. at = "usage" /\ Step(next, locals, seen)
    BY <1>2 DEF ResponsesUsage, UsageUpdated
  <2>2. Moves(next) /\ encoder' = locals /\ seen' = seen
    BY <2>1, StepMoves
  <2> QED
    BY <2>1, <2>2, UsageMove, SilentStep
<1>3. CASE ResponsesOpenText
  <2>1. encoder.text \in Int /\ at = "open_text"
    BY <1>3 DEF Encoded, Types, IsEncoder, Indexes, ResponsesOpenText
  <2>2. CASE /\ chunk.text /\ encoder.text < 0
             /\ Step("text", [encoder EXCEPT !.text = encoder.next, !.next = @ + 1],
                     Opened(encoder.next))
    <3>1. /\ Moves("text") /\ seen' = Opened(encoder.next)
          /\ encoder' = [encoder EXCEPT !.text = encoder.next, !.next = @ + 1]
      BY <2>1, <2>2, StepMoves
    <3> QED
      BY <2>1, <2>2, <3>1, OpenTextMove
  <2>3. CASE /\ ~chunk.text \/ encoder.text >= 0
             /\ Step("text", encoder, seen)
    <3>1. Moves("text") /\ encoder' = encoder /\ seen' = seen
      BY <2>1, <2>3, StepMoves
    <3>2. SilentEdge("text")
      BY <2>1, <2>3 DEF SilentEdge
    <3> QED
      BY <3>1, <3>2, SilentMove, SilentStep
  <2> QED
    BY <1>3, <2>2, <2>3 DEF ResponsesOpenText
<1>4. CASE ResponsesText
  <2>1. at = "text" /\ Step("calls", encoder, IF chunk.text THEN Fed(encoder.text) ELSE seen)
    BY <1>4 DEF ResponsesText
  <2>2. /\ Moves("calls") /\ encoder' = encoder
        /\ seen' = IF chunk.text THEN Fed(encoder.text) ELSE seen
    BY <2>1, StepMoves
  <2>3. CASE chunk.text
    BY <2>1, <2>2, <2>3, FeedTextMove
  <2>4. CASE ~chunk.text
    BY <2>1, <2>2, <2>4, SilentMove, SilentStep DEF SilentEdge
  <2> QED
    BY <2>3, <2>4
<1>5. CASE ResponsesCallStarted
  <2>1. at = "calls" /\ call <= Len(chunk.calls)
    BY <1>5 DEF ResponsesCallStarted
  <2>2. CASE ~Known(Delta.index) /\ Delta.id # None /\ Delta.name /\ OpenCall
    <3>1. /\ Moves("arguments") /\ seen' = Opened(encoder.next)
          /\ encoder' = [encoder EXCEPT
               !.calls = Assign(@, Delta.index, [call |-> Delta.id, out |-> encoder.next]),
               !.next = @ + 1]
      BY <2>1, <2>2, StepMoves DEF OpenCall
    <3> QED
      BY <2>1, <2>2, <3>1, OpenCallMove
  <2>3. CASE Fail
    <3>1. Moves("returned") /\ encoder' = encoder /\ seen' = Failed
      BY <2>1, <2>3, StepMoves DEF Fail
    <3> QED
      BY <3>1, FailMove
  <2>4. CASE /\ Step("arguments", encoder, seen)
             /\ \/ Known(Delta.index) /\ Delta.id \in {None, encoder.calls[Delta.index].call}
                \/ ~ToolCallStarted
    <3>1. Moves("arguments") /\ encoder' = encoder /\ seen' = seen
      BY <2>1, <2>4, StepMoves
    <3>2. SilentEdge("arguments")
      BY <2>1, <2>4 DEF SilentEdge, ToolCallStarted
    <3> QED
      BY <3>1, <3>2, SilentMove, SilentStep
  <2> QED
    BY <1>5, <2>2, <2>3, <2>4 DEF ResponsesCallStarted
<1>6. CASE ResponsesArguments
  <2>1. at = "arguments"
    BY <1>6 DEF ResponsesArguments
  <2>2. CASE ArgumentsDelta /\ Known(Delta.index) /\ Feed(Delta.index)
    <3>1. /\ Moves("calls") /\ encoder' = encoder
          /\ seen' = FedCall(encoder.calls[Delta.index], Delta.frag)
      BY <2>1, <2>2, StepMoves DEF Feed
    <3> QED
      BY <2>1, <2>2, <3>1, FeedMove DEF ArgumentsDelta
  <2>3. CASE Fail
    <3>1. Moves("returned") /\ encoder' = encoder /\ seen' = Failed
      BY <2>1, <2>3, StepMoves DEF Fail
    <3> QED
      BY <3>1, FailMove
  <2>4. CASE ~ArgumentsDelta /\ Step("calls", encoder, seen)
    <3>1. Moves("calls") /\ encoder' = encoder /\ seen' = seen
      BY <2>1, <2>4, StepMoves
    <3>2. SilentEdge("calls")
      BY <2>1, <2>4 DEF SilentEdge, ArgumentsDelta
    <3> QED
      BY <3>1, <3>2, SilentMove, SilentStep
  <2> QED
    BY <1>6, <2>2, <2>3, <2>4 DEF ResponsesArguments
<1>7. CASE ResponsesCallsDone
  <2>1. at = "calls" /\ call > Len(chunk.calls) /\ Step("finish", encoder, seen)
    BY <1>7 DEF ResponsesCallsDone
  <2>2. Moves("finish") /\ encoder' = encoder /\ seen' = seen
    BY <2>1, StepMoves
  <2> QED
    BY <2>1, <2>2, SilentMove, SilentStep DEF SilentEdge
<1>8. CASE ResponsesFinish
  <2> DEFINE locals == IF chunk.finish # "none"
                       THEN [encoder EXCEPT !.finish =
                              CanonicalToChatFinish[ChatFinishToCanonical[chunk.finish]]]
                       ELSE encoder
  <2>1. at = "finish" /\ Step("idle", locals, seen)
    BY <1>8 DEF ResponsesFinish, MessageCompleted
  <2>2. Moves("idle") /\ encoder' = locals /\ seen' = seen
    BY <2>1, StepMoves
  <2> QED
    BY <2>1, <2>2, FinishMove, SilentStep
<1> QED
  BY <1>1, <1>2, <1>3, <1>4, <1>5, <1>6, <1>7, <1>8 DEF ResponsesStep

\* So does openai_sse_to_anthropic_sse.
LEMMA AnthropicSteps ==
  ASSUME Encoded, Client = "anthropic", AnthropicEncoderStep
  PROVE  Encoded' /\ LifecycleStep
<1> USE DEF Labels
<1>1. CASE AnthropicStart
  <2>1. at = "start"
    BY <1>1 DEF AnthropicStart
  <2>2. CASE encoder.text < 0 /\ Step("open_text", encoder, Started)
    <3>1. Moves("open_text") /\ encoder' = encoder /\ seen' = Started
      BY <2>1, <2>2, StepMoves
    <3> QED
      BY <2>1, <2>2, <3>1, AnnounceMove
  <2>3. CASE encoder.text >= 0 /\ Step("usage", encoder, seen)
    <3>1. Moves("usage") /\ encoder' = encoder /\ seen' = seen
      BY <2>1, <2>3, StepMoves
    <3> QED
      BY <2>1, <2>3, <3>1, SilentMove, SilentStep DEF SilentEdge
  <2> QED
    BY <1>1, <2>2, <2>3 DEF AnthropicStart
<1>2. CASE AnthropicOpenText
  <2>1. at = "open_text" /\ Step("usage", [encoder EXCEPT !.text = 0], Opened(0))
    BY <1>2 DEF AnthropicOpenText
  <2>2. Moves("usage") /\ encoder' = [encoder EXCEPT !.text = 0] /\ seen' = Opened(0)
    BY <2>1, StepMoves
  <2>3. encoder.text < 0
    BY <2>1 DEF Encoded, LabelsInv
  <2> QED
    BY <2>1, <2>2, <2>3, OpenTextMove
<1>3. CASE AnthropicUsage
  <2> DEFINE next == IF chunk.choices THEN "finish" ELSE "idle"
             locals == IF chunk.usage # NoUsage THEN [encoder EXCEPT !.usage = chunk.usage] ELSE encoder
  <2>1. at = "usage" /\ Step(next, locals, seen)
    BY <1>3 DEF AnthropicUsage
  <2>2. Moves(next) /\ encoder' = locals /\ seen' = seen
    BY <2>1, StepMoves
  <2> QED
    BY <2>1, <2>2, UsageMove, SilentStep
<1>4. CASE AnthropicFinish
  <2>1. at = "finish"
    BY <1>4 DEF AnthropicFinish
  <2>2. CASE Fail
    <3>1. Moves("returned") /\ encoder' = encoder /\ seen' = Failed
      BY <2>1, <2>2, StepMoves DEF Fail
    <3> QED
      BY <3>1, FailMove
  <2>3. CASE encoder.finish = "none" /\ Step("text", [encoder EXCEPT !.finish = chunk.finish], seen)
    <3>1. Moves("text") /\ encoder' = [encoder EXCEPT !.finish = chunk.finish] /\ seen' = seen
      BY <2>1, <2>3, StepMoves
    <3> QED
      BY <2>1, <2>3, <3>1, FinishMove, SilentStep
  <2> QED
    BY <1>4, <2>2, <2>3 DEF AnthropicFinish
<1>5. CASE AnthropicText
  <2>1. at = "text" /\ Step("calls", encoder, IF chunk.text THEN Fed(0) ELSE seen)
    BY <1>5 DEF AnthropicText
  <2>2. Moves("calls") /\ encoder' = encoder /\ seen' = IF chunk.text THEN Fed(0) ELSE seen
    BY <2>1, StepMoves
  <2>3. CASE chunk.text
    BY <2>1, <2>2, <2>3, FeedTextMove
  <2>4. CASE ~chunk.text
    BY <2>1, <2>2, <2>4, SilentMove, SilentStep DEF SilentEdge
  <2> QED
    BY <2>3, <2>4
<1>6. CASE AnthropicCall
  <2>1. at = "calls" /\ call <= Len(chunk.calls)
    BY <1>6 DEF AnthropicCall
  <2>2. CASE ~Known(Delta.index) /\ Delta.id # None /\ Delta.name /\ OpenCall
    <3>1. /\ Moves("arguments") /\ seen' = Opened(encoder.next)
          /\ encoder' = [encoder EXCEPT
               !.calls = Assign(@, Delta.index, [call |-> Delta.id, out |-> encoder.next]),
               !.next = @ + 1]
      BY <2>1, <2>2, StepMoves DEF OpenCall
    <3> QED
      BY <2>1, <2>2, <3>1, OpenCallMove
  <2>3. CASE Fail
    <3>1. Moves("returned") /\ encoder' = encoder /\ seen' = Failed
      BY <2>1, <2>3, StepMoves DEF Fail
    <3> QED
      BY <3>1, FailMove
  <2>4. CASE Known(Delta.index) /\ Step("arguments", encoder, seen)
    <3>1. Moves("arguments") /\ encoder' = encoder /\ seen' = seen
      BY <2>1, <2>4, StepMoves
    <3> QED
      BY <2>1, <2>4, <3>1, SilentMove, SilentStep DEF SilentEdge
  <2> QED
    BY <1>6, <2>2, <2>3, <2>4 DEF AnthropicCall
<1>7. CASE AnthropicArguments
  <2>1. at = "arguments"
    BY <1>7 DEF AnthropicArguments
  <2>2. CASE Delta.frag # None /\ Feed(Delta.index)
    <3>1. /\ Moves("calls") /\ encoder' = encoder
          /\ seen' = FedCall(encoder.calls[Delta.index], Delta.frag)
      BY <2>1, <2>2, StepMoves DEF Feed
    <3>2. Known(Delta.index)
      BY <2>1 DEF Encoded, LabelsInv, Known, Delta
    <3> QED
      BY <2>1, <2>2, <3>1, <3>2, FeedMove
  <2>3. CASE Delta.frag = None /\ Step("calls", encoder, seen)
    <3>1. Moves("calls") /\ encoder' = encoder /\ seen' = seen
      BY <2>1, <2>3, StepMoves
    <3> QED
      BY <2>1, <2>3, <3>1, SilentMove, SilentStep DEF SilentEdge
  <2> QED
    BY <1>7, <2>2, <2>3 DEF AnthropicArguments
<1>8. CASE AnthropicCallsDone
  <2>1. at = "calls" /\ call > Len(chunk.calls) /\ Step("idle", encoder, seen)
    BY <1>8 DEF AnthropicCallsDone
  <2>2. Moves("idle") /\ encoder' = encoder /\ seen' = seen
    BY <2>1, StepMoves
  <2> QED
    BY <2>1, <2>2, SilentMove, SilentStep DEF SilentEdge
<1> QED
  BY <1>1, <1>2, <1>3, <1>4, <1>5, <1>6, <1>7, <1>8 DEF AnthropicEncoderStep

\* And so do their last frames.
LEMMA EncodedTranslate ==
  ASSUME Encoded, Translate
  PROVE  Encoded' /\ LifecycleStep
<1>1. CASE CloseItem
  <2>1. PICK i \in ToClose : Step("closing", [encoder EXCEPT !.closed = @ \cup {i}], Closed(i))
    BY <1>1 DEF CloseItem
  <2>2. at = "closing"
    BY <1>1 DEF CloseItem
  <2>3. /\ Moves("closing") /\ seen' = Closed(i)
        /\ encoder' = [encoder EXCEPT !.closed = @ \cup {i}]
    BY <2>1, <2>2, StepMoves
  <2> QED
    BY <2>2, <2>3, CloseMove
<1>2. CASE Complete
  <2>1. /\ at = "closing" /\ Finished /\ ToClose = {}
        /\ Step("returned", encoder, Terminal("completed", encoder.usage, encoder.finish))
    BY <1>2 DEF Complete
  <2>2. /\ Moves("returned") /\ encoder' = encoder
        /\ seen' = Terminal("completed", encoder.usage, encoder.finish)
    BY <2>1, StepMoves
  <2> QED
    BY <2>1, <2>2, CompleteMove
<1>3. CASE Incomplete
  <2>1. at = "closing" /\ Step("returned", encoder, Failed)
    BY <1>3 DEF Incomplete, Fail
  <2>2. Moves("returned") /\ encoder' = encoder /\ seen' = Failed
    BY <2>1, StepMoves
  <2> QED
    BY <2>2, FailMove
<1> QED
  BY <1>1, <1>2, <1>3, ResponsesSteps, AnthropicSteps DEF Translate

-----------------------------------------------------------------------------
(* Encoded streams: the other steps. *)

\* An encoder that waits for a chunk has nothing of the last one left.
LEMMA Waiting ==
  ASSUME Encoded, at = "idle", inbox = <<>>
  PROVE  /\ chunk = Chunk /\ call = 1 /\ seen.ends = <<>>
         /\ encoder.usage = wire.usage /\ (~crlf => Absorbed = wire.usage)
         /\ encoder.finish = wire.finish
         /\ \A c \in Calls : wire.fragments[c] = seen.fragments[c] + 0
         /\ \A k \in DOMAIN encoder.calls :
              /\ k \in DOMAIN wire.owner
              /\ encoder.calls[k].call = wire.owner[k] \/ (wire.reused /\ Client = "anthropic")
<1>1. chunk = Chunk /\ call = 1 /\ Hand = Chunk /\ Ahead = 1
  BY DEF Encoded, Flow, Resting, Hand, Ahead
<1>2. Hand.usage = NoUsage /\ Hand.finish = "none" /\ Len(Hand.calls) = 0
  BY <1>1, EmptyChunks
<1>3. (\A c : ~InFlight(c)) /\ (\A k : ~Restarts(k))
  BY <1>1, <1>2 DEF InFlight, Restarts
<1> QED
  BY <1>1, <1>2, <1>3 DEF Encoded, UsageInv, FinishInv, FragmentsInv, OwnersInv, ShownInv

\* The adapter yields a chunk, or nothing, to an encoder that waits.
Arrives(ch) ==
  /\ at = "idle" /\ inbox = <<>> /\ body' # "gone"
  /\ UNCHANGED <<route, crlf, watch, downstream>> /\ reads' \in Nat
  /\ inbox' = <<ch>> \/ (inbox' = <<>> /\ ch = Chunk)

\* What the provider has sent once it has sent a chunk.
WireGrows(ch) ==
  /\ IsWire(wire')
  /\ ch.usage = NoUsage => wire'.usage = wire.usage
  /\ ch.finish = "none" => wire'.finish = wire.finish
  /\ \A c \in Calls : wire'.fragments[c] =
       wire.fragments[c] + IF \E j \in 1 .. Len(ch.calls) : ch.calls[j].frag = c THEN 1 ELSE 0
  /\ wire.started <= wire'.started
  /\ \A j \in 1 .. Len(ch.calls) : ch.calls[j].id # None /\ ch.calls[j].name =>
       wire.started + (j - 1) < ch.calls[j].id /\ ch.calls[j].id <= wire'.started
  /\ wire.reused => wire'.reused
  /\ \A k \in DOMAIN wire.owner :
       /\ k \in DOMAIN wire'.owner
       /\ \/ wire'.owner[k] = wire.owner[k]
          \/ /\ wire'.reused
             /\ \E j \in 1 .. Len(ch.calls) : ch.calls[j].index = k /\ ch.calls[j].id # None

\* The chunk is kept for the encoder.
LEMMA ProvideInv ==
  ASSUME Encoded, NEW ch, Arrives(ch), Fits(ch)', WireGrows(ch)
  PROVE  Encoded' /\ LifecycleStep
<1> USE DEF Arrives, WireGrows
<1>1. /\ UNCHANGED <<at, chunk, call, encoder, seen>> /\ Client' = Client
      /\ chunk = Chunk /\ call = 1 /\ seen.ends = <<>>
      /\ encoder.usage = wire.usage /\ (~crlf => Absorbed = wire.usage) /\ Absorbed' = Absorbed
      /\ encoder.finish = wire.finish
      /\ \A c \in Calls : wire.fragments[c] = seen.fragments[c] + 0
      /\ \A k \in DOMAIN encoder.calls :
           /\ k \in DOMAIN wire.owner
           /\ encoder.calls[k].call = wire.owner[k] \/ (wire.reused /\ Client = "anthropic")
  BY Waiting DEF downstream, Client, Absorbed
<1>2. Hand' = ch /\ Ahead' = 1
  BY <1>1 DEF Hand, Ahead
<1>3. Types'
  BY <1>1 DEF Encoded, Types
<1>4. Flow'
  <2>1. Fits(chunk)'
    <3>1. Fits(Chunk)'
      BY EmptyFits
    <3> QED
      BY <1>1, <3>1 DEF Fits, DeltaFits
  <2>2. inbox' # <<>> => inbox' = <<inbox'[1]>> /\ Fits(inbox[1])'
    <3>1. ASSUME inbox' = <<ch>> PROVE inbox' = <<inbox'[1]>> /\ Fits(inbox[1])'
      <4>1. inbox'[1] = ch
        BY <3>1
      <4> QED
        BY <3>1, <4>1 DEF Fits, DeltaFits
    <3> QED
      BY <3>1
  <2> QED
    BY <1>1, <2>1, <2>2 DEF Encoded, Flow
<1>5. UsageInv' /\ FinishInv'
  <2>1. inbox' = <<>> => ch.usage = NoUsage
    BY EmptyChunks
  <2>2. /\ Hand'.usage = NoUsage => encoder'.usage = wire'.usage
        /\ ~crlf' /\ (inbox' = <<>> \/ Hand'.usage = NoUsage) => Absorbed' = wire'.usage
        /\ Hand'.finish = "none" => encoder'.finish = wire'.finish
    BY <1>1, <1>2, <2>1
  <2> QED
    BY <1>1, <2>2 DEF UsageInv, FinishInv, Succeeded, BeforeUsage
<1>6. FragmentsInv'
  <2>1. \A c : InFlight(c)' <=> \E j \in 1 .. Len(ch.calls) : ch.calls[j].frag = c
    BY <1>1, <1>2 DEF InFlight
  <2>2. seen.fragments \in [Calls -> Nat]
    BY DEF Encoded, Types, IsView
  <2> QED
    BY <1>1, <2>1, <2>2 DEF FragmentsInv, Succeeded
<1>7. OwnersInv'
  <2>1. \A k : Restarts(k)' <=>
          \E j \in 1 .. Len(ch.calls) : ch.calls[j].index = k /\ ch.calls[j].id # None
    BY <1>2 DEF Restarts
  <2> QED
    BY <1>1, <2>1 DEF Encoded, OwnersInv
<1>8. CallsOpened' = CallsOpened /\ Outs' = Outs
  BY <1>1 DEF CallsOpened, Outs
<1>9. CountInv'
  <2>1. /\ CallsOpened \in 0 .. wire.started /\ wire.started \in Nat /\ wire'.started \in Nat
    BY DEF Encoded, CountInv, Types, IsWire
  <2>2. CallsOpened \in 0 .. wire'.started
    BY <2>1
  <2>3. ASSUME NEW j \in 1 .. Len(ch.calls), ch.calls[j].id # None, ch.calls[j].name
        PROVE  CallsOpened + (j - 1) < ch.calls[j].id /\ ch.calls[j].id <= wire'.started
    <3>1. ch.calls[j].id \in Int
      <4>1. ch.calls[j] \in Deltas
        BY DEF Fits
      <4> QED
        BY <4>1, DeltaFields
    <3> QED
      BY <2>1, <2>3, <3>1
  <2> QED
    BY <1>1, <1>2, <1>8, <2>2, <2>3 DEF CountInv
<1>10. ItemsInv' /\ LabelsInv' /\ ShownInv'
  BY <1>1, <1>8 DEF Encoded, ItemsInv, LabelsInv, ShownInv, ItemsShown, Announced
<1> QED
  BY <1>1, <1>3, <1>4, <1>5, <1>6, <1>7, <1>9, <1>10, SilentStep DEF Encoded

\* The watcher hands on a chunk: the encoder takes it, drops it or fails.
LEMMA EncodedPull ==
  ASSUME Encoded, Pull
  PROVE  Encoded' /\ LifecycleStep
<1>1. /\ at = "idle" /\ inbox # <<>> /\ body \in {"open", "ended"} /\ Receive(Head(inbox))
      /\ inbox' = Tail(inbox)
      /\ watch' = [watch EXCEPT !.seen = Absorbed,
                                !.held = IF crlf THEN NoUsage ELSE Head(inbox).usage]
      /\ UNCHANGED <<route, crlf, body, reads, wire, encoder>>
  BY DEF Pull
<1>2. PICK ch : inbox = <<ch>> /\ Fits(ch)
  BY <1>1 DEF Encoded, Flow
<1>3. /\ Head(inbox) = ch /\ inbox' = <<>> /\ Hand = ch /\ Hand' = chunk'
      /\ chunk = Chunk /\ call = 1 /\ Client' = Client /\ Client \in {"responses", "anthropic"}
  BY <1>1, <1>2 DEF Hand, Client, Encoded, Types, Flow, Resting
<1>4. /\ IsWatch(watch') /\ (~crlf => Absorbed' = wire.usage)
  <2>1. /\ IsWatch(watch) /\ wire.usage \in Usages /\ ch.usage \in {NoUsage, wire.usage}
        /\ ~crlf /\ ch.usage = NoUsage => Absorbed = wire.usage
    BY <1>1, <1>2, <1>3 DEF Encoded, Types, IsWire, Fits, UsageInv
  <2>2. Absorbed \in Usages /\ NoUsage \in Usages
    BY <2>1 DEF Absorbed, IsWatch, Usages, NoUsage
  <2>3. /\ DOMAIN watch' = DOMAIN watch /\ watch'.logged = watch.logged
        /\ watch'.seen = Absorbed /\ watch'.held = IF crlf THEN NoUsage ELSE ch.usage
    BY <1>1, <1>3, <2>1 DEF IsWatch
  <2> QED
    BY <2>1, <2>2, <2>3 DEF IsWatch, Absorbed
<1>5. seen.ends = <<>>
  BY <1>1 DEF Encoded, ShownInv
<1>6. ASSUME chunk' \in {ch, Chunk}, UNCHANGED <<call, seen>>,
             chunk'.usage = ch.usage, chunk'.finish = ch.finish, chunk'.calls = ch.calls,
             \/ at' = "idle" /\ chunk' = Chunk
             \/ at' = IF Client = "responses" THEN "usage" ELSE "start"
      PROVE  Encoded' /\ LifecycleStep
  <2>1. Types'
    BY <1>1, <1>3, <1>4, <1>6 DEF Encoded, Types, Labels
  <2>2. Flow'
    <3>1. Fits(chunk)'
      <4>1. CASE chunk' = ch
        BY <1>1, <1>2, <4>1 DEF Fits, DeltaFits
      <4>2. CASE chunk' = Chunk
        <5>1. Fits(Chunk)'
          BY EmptyFits
        <5> QED
          BY <4>2, <5>1 DEF Fits, DeltaFits
      <4> QED
        BY <1>6, <4>1, <4>2
    <3>2. at' # "arguments" /\ at' # "finish" /\ at' # "returned"
      BY <1>6
    <3> QED
      BY <1>1, <1>3, <1>6, <3>1, <3>2 DEF Flow, Resting
  <2>3. UsageInv' /\ FinishInv'
    BY <1>1, <1>3, <1>4, <1>5, <1>6 DEF Encoded, UsageInv, FinishInv, Succeeded, BeforeUsage
  <2>4. /\ \A c : InFlight(c)' <=> InFlight(c)
        /\ \A k : Restarts(k)' <=> Restarts(k)
        /\ Ahead' = Ahead
    BY <1>1, <1>3, <1>6 DEF InFlight, Restarts, Ahead
  <2>5. FragmentsInv' /\ OwnersInv'
    BY <1>1, <1>3, <1>5, <1>6, <2>4 DEF Encoded, FragmentsInv, OwnersInv, Succeeded
  <2>6. CallsOpened' = CallsOpened /\ Outs' = Outs /\ Announced' = Announced
    BY <1>1, <1>3, <1>6 DEF CallsOpened, Outs, Announced
  <2>7. CountInv' /\ ItemsInv' /\ LabelsInv' /\ ShownInv'
    BY <1>1, <1>3, <1>6, <2>4, <2>6
       DEF Encoded, CountInv, ItemsInv, LabelsInv, ShownInv, ItemsShown
  <2> QED
    BY <1>6, <2>1, <2>2, <2>3, <2>5, <2>7, SilentStep DEF Encoded
<1>7. ASSUME at' = "returned", seen' = Failed, UNCHANGED <<chunk, call>>
      PROVE  Encoded' /\ LifecycleStep
  <2>1. /\ IsView(seen') /\ seen'.ends = <<"failed">> /\ seen'.stray = seen.stray /\ LifecycleStep
    BY <1>1, <1>7, FailedView
  <2>2. Types'
    BY <1>1, <1>3, <1>4, <1>7, <2>1 DEF Encoded, Types, Labels
  <2>3. Flow'
    <3>1. Fits(Chunk)'
      BY <1>1, EmptyFits DEF Fits, DeltaFits
    <3> QED
      BY <1>1, <1>3, <1>7, <3>1 DEF Flow
  <2> QED
    BY <1>1, <1>7, <2>1, <2>2, <2>3, ReturnedInv
<1>8. Chunk.usage = NoUsage /\ Chunk.finish = "none" /\ Chunk.calls = <<>>
  BY EmptyChunks
<1>9. CASE ch.kind = "done" /\ UNCHANGED <<at, chunk, call, seen>>
  BY <1>1, <1>2, <1>3, <1>6, <1>8, <1>9 DEF Fits
<1>10. CASE /\ at' = IF Client = "responses" THEN "usage" ELSE "start"
            /\ chunk' = ch /\ UNCHANGED <<call, seen>>
  BY <1>6, <1>10
<1> QED
  BY <1>1, <1>3, <1>7, <1>9, <1>10 DEF Receive

\* The body is exhausted and the usage is logged.
LEMMA EncodedEndOfBody ==
  ASSUME Encoded, EndOfBody
  PROVE  Encoded' /\ LifecycleStep
<1>1. /\ at = "idle" /\ inbox = <<>> /\ body' = "closed" /\ at' = "closing"
      /\ watch' = [seen |-> Absorbed, held |-> NoUsage, logged |-> TRUE]
      /\ UNCHANGED <<route, crlf, reads, wire, inbox, chunk, call, encoder, seen>>
      /\ Client' = Client /\ Client \in {"responses", "anthropic"}
  BY DEF EndOfBody, Client, Encoded, Types
<1>2. /\ chunk = Chunk /\ call = 1 /\ seen.ends = <<>>
      /\ encoder.usage = wire.usage /\ (~crlf => Absorbed = wire.usage)
      /\ encoder.finish = wire.finish
  BY <1>1, Waiting
<1>3. Types'
  <2>1. IsWatch(watch')
    BY <1>1 DEF Encoded, Types, IsWatch, Absorbed, Usages, NoUsage
  <2> QED
    BY <1>1, <2>1 DEF Encoded, Types, Labels
<1>4. Flow'
  BY <1>1, <1>2 DEF Encoded, Flow, Fits, DeltaFits
<1>5. UsageInv' /\ FinishInv'
  BY <1>1, <1>2 DEF UsageInv, FinishInv, Succeeded
<1>6. /\ \A c : InFlight(c)' <=> InFlight(c)
      /\ \A k : Restarts(k)' <=> Restarts(k)
      /\ Ahead' = Ahead /\ Hand' = Hand
  BY <1>1 DEF InFlight, Restarts, Ahead, Hand
<1>7. FragmentsInv' /\ OwnersInv'
  BY <1>1, <1>2, <1>6 DEF Encoded, FragmentsInv, OwnersInv, Succeeded
<1>8. CallsOpened' = CallsOpened /\ Outs' = Outs /\ Announced' = Announced
  BY <1>1 DEF CallsOpened, Outs, Announced
<1>9. CountInv' /\ ItemsInv' /\ LabelsInv' /\ ShownInv'
  BY <1>1, <1>6, <1>8 DEF Encoded, CountInv, ItemsInv, LabelsInv, ShownInv, ItemsShown
<1> QED
  BY <1>1, <1>3, <1>4, <1>5, <1>7, <1>9, SilentStep DEF Encoded

\* The client goes away, or the watcher logs what it has.
LEMMA EncodedAbandoned ==
  ASSUME Encoded, Disconnect \/ Finalize
  PROVE  Encoded' /\ LifecycleStep
<1>1. /\ UNCHANGED <<route, crlf, reads, wire, encoder, seen>> /\ inbox' = <<>>
      /\ at' = "returned" /\ Client' = Client
      /\ watch' = watch \/ (~watch.logged /\ watch' = [watch EXCEPT !.logged = TRUE])
      /\ chunk' \in {chunk, Chunk} /\ call' \in {call, 1}
      /\ chunk' = Chunk /\ call' = 1
  BY DEF Encoded, Flow, Resting, Disconnect, Finalize, downstream, Client
<1>2. IsWatch(watch') /\ watch'.seen = watch.seen /\ (watch.logged => watch' = watch)
  <2>1. IsWatch(watch)
    BY DEF Encoded, Types
  <2> QED
    BY <1>1, <2>1 DEF IsWatch
<1>3. Types'
  BY <1>1, <1>2 DEF Encoded, Types, Labels
<1>4. Flow'
  <2>1. Fits(Chunk)'
    BY <1>1, EmptyFits DEF Fits, DeltaFits
  <2> QED
    BY <1>1, <2>1 DEF Flow
<1>5. seen.ends = <<"completed">> =>
        /\ seen.usage = wire.usage /\ watch'.logged /\ (~crlf => watch'.seen = wire.usage)
        /\ seen.finish = wire.finish /\ wire.finish # "none" /\ seen.fragments = wire.fragments
  BY <1>2 DEF Encoded, UsageInv, FinishInv, FragmentsInv, Succeeded
<1> QED
  BY <1>1, <1>3, <1>4, <1>5, ReturnedInv, SilentStep

\* Opening the stream, and steps that change nothing.
LEMMA EncodedOpened ==
  ASSUME Encoded, OpenRefused \/ OpenStream \/ UNCHANGED vars
  PROVE  Encoded' /\ LifecycleStep
<1>1. /\ UNCHANGED <<route, crlf, reads, wire, inbox, watch, at, chunk, call, encoder, seen>>
      /\ body' = body \/ body' # "gone"
  BY DEF OpenRefused, OpenStream, vars, upstream, downstream
<1>2. Client' = Client /\ Hand' = Hand /\ Absorbed' = Absorbed /\ Ahead' = Ahead
  BY <1>1 DEF Client, Hand, Absorbed, Ahead
<1>3. Types'
  BY <1>1, <1>2 DEF Encoded, Types
<1>4. Flow'
  <2>1. Flow
    BY DEF Encoded
  <2>2. \A ch : Fits(ch) => Fits(ch)'
    BY <1>1 DEF Fits, DeltaFits
  <2>3. Fits(chunk)' /\ (inbox # <<>> => Fits(inbox[1])')
    <3>1. PICK ch, first : ch = chunk /\ first = inbox[1]
      OBVIOUS
    <3>2. Fits(ch)' /\ (inbox # <<>> => Fits(first)')
      BY <2>1, <2>2, <3>1 DEF Flow
    <3>3. chunk' = ch /\ inbox'[1] = first
      BY <1>1, <3>1
    <3> QED
      BY <3>2, <3>3
  <2> QED
    BY <1>1, <1>2, <2>1, <2>3 DEF Flow, Resting
<1>5. UsageInv' /\ FinishInv' /\ FragmentsInv' /\ OwnersInv'
  BY <1>1, <1>2 DEF Encoded, UsageInv, FinishInv, FragmentsInv, OwnersInv, Succeeded, BeforeUsage,
       InFlight, Restarts
<1>6. CountInv' /\ ItemsInv' /\ LabelsInv' /\ ShownInv'
  BY <1>1, <1>2 DEF Encoded, CountInv, ItemsInv, LabelsInv, ShownInv, ItemsShown, CallsOpened, Outs,
       Announced
<1> QED
  BY <1>1, <1>3, <1>4, <1>5, <1>6, SilentStep DEF Encoded

-----------------------------------------------------------------------------
(* Encoded streams: the provider's steps. *)

\* A chunk without tool calls.
LEMMA PlainChunkInv ==
  ASSUME Encoded, NEW ch, Arrives(ch), IsWire(wire'),
         ch.calls = <<>>, ch.choices \in BOOLEAN, ch.text \in BOOLEAN,
         ch.usage \in {NoUsage, wire'.usage}, ch.finish \in {"none", wire'.finish},
         ~ch.choices \/ ch.kind = "done" => ch.finish = "none",
         ch.kind = "done" => ch.usage = NoUsage,
         ch.usage = NoUsage => wire'.usage = wire.usage,
         ch.finish = "none" => wire'.finish = wire.finish,
         wire'.owner = wire.owner, wire'.started = wire.started,
         wire'.fragments = wire.fragments, wire'.reused = wire.reused
  PROVE  Encoded' /\ LifecycleStep
<1>1. Len(ch.calls) = 0 /\ ch.calls \in Seq(Deltas) /\ 1 .. Len(ch.calls) = {}
  OBVIOUS
<1>2. Fits(ch)'
  BY <1>1 DEF Fits
<1>3. wire.fragments \in [Calls -> Nat] /\ wire.started \in Nat
  BY DEF Encoded, Types, IsWire
<1>4. \A c \in Calls : wire'.fragments[c] =
        wire.fragments[c] + IF \E j \in 1 .. Len(ch.calls) : ch.calls[j].frag = c THEN 1 ELSE 0
  BY <1>1, <1>3
<1>5. WireGrows(ch)
  BY <1>1, <1>3, <1>4 DEF WireGrows
<1> QED
  BY <1>2, <1>5, ProvideInv

\* A chunk with tool calls.
LEMMA CallsChunkInv ==
  ASSUME Encoded, NEW ch, Arrives(ch), WireGrows(ch),
         NEW calls \in Seq(Deltas), ch = [OpenAIChunk EXCEPT !.calls = calls],
         \A j \in 1 .. Len(calls) : DeltaFits(calls[j])',
         \A i, j \in 1 .. Len(calls) : i # j =>
           /\ calls[i].index # calls[j].index
           /\ calls[i].frag # None => calls[i].frag # calls[j].frag
  PROVE  Encoded' /\ LifecycleStep
<1>1. /\ ch.calls = calls /\ ch.kind = "chunk" /\ ch.choices = TRUE /\ ch.text = FALSE
      /\ ch.finish = "none" /\ ch.usage = NoUsage
  BY DEF OpenAIChunk, Chunk
<1>2. ch.choices \in BOOLEAN /\ ch.text \in BOOLEAN
  BY <1>1, Zenon
<1>3. \A j \in 1 .. Len(ch.calls) : DeltaFits(ch.calls[j])'
  BY <1>1 DEF DeltaFits
<1>4. \A i, j \in 1 .. Len(ch.calls) : i # j =>
        /\ ch.calls[i].index # ch.calls[j].index
        /\ ch.calls[i].frag # None => ch.calls[i].frag # ch.calls[j].frag
  BY <1>1
<1>5. ch.calls \in Seq(Deltas)
  BY <1>1
<1>6. /\ ch.usage \in {NoUsage, wire'.usage} /\ ch.finish \in {"none", wire'.finish}
      /\ (~ch.choices => ch.finish = "none" /\ ch.calls = <<>>) /\ ch.kind # "done"
  BY <1>1
<1>7. Fits(ch)'
  BY <1>2, <1>3, <1>4, <1>5, <1>6, Zenon DEF Fits
<1> QED
  BY <1>7, ProvideInv

\* What every chunk of an OpenAI-compatible provider leaves alone.
LEMMA ChatSendsKeeps ==
  ASSUME Encoded, NEW ch, NEW sees, ChatSends(ch, sees)
  PROVE  Arrives(ch) /\ wire' = sees /\ IsWire(wire) /\ reads \in Nat
BY DEF Arrives, ChatSends, Adapter, Reading, Reads, Encoded, Types

\* Text, the finish reason, the usage, the end marker or an error.
LEMMA PlainSteps ==
  ASSUME Encoded,
         \/ ChatText
         \/ \E finish \in {"stop", "length"}, usage \in {NoUsage, FinalUsage}, text \in BOOLEAN :
              ChatFinish(finish, usage, text)
         \/ ChatUsage \/ ChatDone \/ ChatError
  PROVE  Encoded' /\ LifecycleStep
<1>1. CASE ChatText
  <2>1. ChatSends([OpenAIChunk EXCEPT !.text = TRUE], wire)
    BY <1>1 DEF ChatText
  <2>2. PICK ch : ch = [OpenAIChunk EXCEPT !.text = TRUE]
    OBVIOUS
  <2>3. /\ ch.calls = <<>> /\ ch.choices = TRUE /\ ch.text = TRUE /\ ch.usage = NoUsage
        /\ ch.finish = "none" /\ ch.kind = "chunk"
    BY <2>2 DEF OpenAIChunk, Chunk
  <2>4. ch.choices \in BOOLEAN /\ ch.text \in BOOLEAN
    BY <2>3, Zenon
  <2>5. /\ Arrives(ch) /\ wire' = wire /\ IsWire(wire)
    BY <2>1, <2>2, ChatSendsKeeps
  <2> QED
    BY <2>3, <2>4, <2>5, PlainChunkInv
<1>2. CASE \E finish \in {"stop", "length"}, usage \in {NoUsage, FinalUsage}, text \in BOOLEAN :
             ChatFinish(finish, usage, text)
  <2>1. PICK finish \in {"stop", "length"}, usage \in {NoUsage, FinalUsage}, text \in BOOLEAN :
          ChatSends([OpenAIChunk EXCEPT !.finish = finish, !.text = text, !.usage = usage],
                    [wire EXCEPT !.finish = finish, !.usage = IF usage = NoUsage THEN @ ELSE usage])
    BY <1>2 DEF ChatFinish
  <2>2. PICK ch : ch = [OpenAIChunk EXCEPT !.finish = finish, !.text = text, !.usage = usage]
    OBVIOUS
  <2>3. /\ ch.calls = <<>> /\ ch.choices = TRUE /\ ch.text = text /\ ch.usage = usage
        /\ ch.finish = finish /\ ch.kind = "chunk"
    BY <2>2 DEF OpenAIChunk, Chunk
  <2>4. ch.choices \in BOOLEAN /\ ch.text \in BOOLEAN
    BY <2>3, Zenon
  <2>5. /\ Arrives(ch) /\ reads \in Nat /\ IsWire(wire)
        /\ wire' = [wire EXCEPT !.finish = finish, !.usage = IF usage = NoUsage THEN @ ELSE usage]
    BY <2>1, <2>2, ChatSendsKeeps
  <2>6. usage \in Usages
    BY <2>5 DEF FinalUsage, NoUsage, Usages
  <2>7. /\ IsWire(wire') /\ wire'.finish = finish
        /\ wire'.usage = IF usage = NoUsage THEN wire.usage ELSE usage
        /\ wire'.owner = wire.owner /\ wire'.started = wire.started
        /\ wire'.fragments = wire.fragments /\ wire'.reused = wire.reused
    BY <2>5, <2>6 DEF IsWire, Finishes
  <2>8. ch.finish # "none" /\ ch.usage \in {NoUsage, wire'.usage} /\ ch.finish = wire'.finish
    BY <2>3, <2>7
  <2> QED
    BY <2>3, <2>4, <2>5, <2>7, <2>8, PlainChunkInv
<1>3. CASE ChatUsage
  <2>1. ChatSends([OpenAIChunk EXCEPT !.choices = FALSE, !.usage = FinalUsage],
                  [wire EXCEPT !.usage = FinalUsage])
    BY <1>3 DEF ChatUsage
  <2>2. PICK ch, usage : /\ ch = [OpenAIChunk EXCEPT !.choices = FALSE, !.usage = usage]
                         /\ usage = FinalUsage
    OBVIOUS
  <2>3. /\ ch.calls = <<>> /\ ch.choices = FALSE /\ ch.text = FALSE /\ ch.usage = usage
        /\ ch.finish = "none" /\ ch.kind = "chunk"
    BY <2>2 DEF OpenAIChunk, Chunk
  <2>4. ch.choices \in BOOLEAN /\ ch.text \in BOOLEAN
    BY <2>3, Zenon
  <2>5. /\ Arrives(ch) /\ reads \in Nat /\ IsWire(wire)
        /\ wire' = [wire EXCEPT !.usage = usage]
    BY <2>1, <2>2, ChatSendsKeeps
  <2>6. usage \in Usages /\ usage # NoUsage
    BY <2>2, <2>5 DEF FinalUsage, NoUsage, Usages
  <2>7. /\ IsWire(wire') /\ wire'.finish = wire.finish /\ wire'.usage = usage
        /\ wire'.owner = wire.owner /\ wire'.started = wire.started
        /\ wire'.fragments = wire.fragments /\ wire'.reused = wire.reused
    BY <2>5, <2>6 DEF IsWire
  <2> QED
    BY <2>3, <2>4, <2>5, <2>6, <2>7, PlainChunkInv
<1>4. CASE ChatDone \/ ChatError
  <2>1. PICK ch \in {Done, ErrorChunk, Garbage} : ChatSends(ch, wire)
    BY <1>4 DEF ChatDone, ChatError
  <2>2. /\ ch.calls = <<>> /\ ch.choices = TRUE /\ ch.text = FALSE /\ ch.usage = NoUsage
        /\ ch.finish = "none"
    BY EmptyChunks
  <2>3. ch.choices \in BOOLEAN /\ ch.text \in BOOLEAN
    BY <2>2, Zenon
  <2>4. /\ Arrives(ch) /\ wire' = wire /\ IsWire(wire)
    BY <2>1, ChatSendsKeeps
  <2> QED
    BY <2>2, <2>3, <2>4, PlainChunkInv
<1> QED
  BY <1>1, <1>2, <1>3, <1>4

\* The body breaks off or ends.
LEMMA BodySteps ==
  ASSUME Encoded, Cut \/ End
  PROVE  Encoded' /\ LifecycleStep
<1>1. PICK ch \in {Chunk, ErrorChunk} : inbox' = <<ch>> \/ (inbox' = <<>> /\ ch = Chunk)
  BY DEF Cut, End, Adapter
<1>2. /\ ch.calls = <<>> /\ ch.choices = TRUE /\ ch.text = FALSE /\ ch.usage = NoUsage
      /\ ch.finish = "none"
  BY EmptyChunks
<1>3. ch.choices \in BOOLEAN /\ ch.text \in BOOLEAN
  BY <1>2, Zenon
<1>4. Arrives(ch) /\ wire' = wire /\ IsWire(wire)
  BY <1>1 DEF Arrives, Cut, End, Adapter, Reading, Encoded, Types
<1> QED
  BY <1>1, <1>2, <1>3, <1>4, PlainChunkInv

\* A chunk with one fragment that starts no call.
LEMMA FragmentChunkInv ==
  ASSUME Encoded, NEW ch, Arrives(ch), NEW d, DeltaFits(d), ch = [OpenAIChunk EXCEPT !.calls = <<d>>],
         NEW c \in Calls, d.frag = c, d.id = None \/ ~d.name,
         wire' = [wire EXCEPT !.fragments[c] = @ + 1]
  PROVE  Encoded' /\ LifecycleStep
<1>1. IsWire(wire)
  BY DEF Encoded, Types
<1>2. /\ wire'.fragments = [wire.fragments EXCEPT ![c] = @ + 1] /\ DOMAIN wire' = DOMAIN wire
      /\ wire'.owner = wire.owner /\ wire'.started = wire.started /\ wire'.finish = wire.finish
      /\ wire'.reused = wire.reused /\ wire'.usage = wire.usage
  BY <1>1 DEF IsWire
<1>3. IsWire(wire') /\ wire.started \in Nat
  BY <1>1, <1>2 DEF IsWire
<1>4. PICK calls \in Seq(Deltas) : calls = <<d>> /\ Len(calls) = 1 /\ calls[1] = d
  <2>1. d \in Deltas
    BY DEF DeltaFits
  <2>2. <<d>> \in Seq(Deltas) /\ Len(<<d>>) = 1 /\ <<d>>[1] = d
    BY <2>1
  <2> QED
    BY <2>2, Zenon
<1>5. ch = [OpenAIChunk EXCEPT !.calls = calls] /\ ch.calls = calls
  BY <1>4 DEF OpenAIChunk, Chunk
<1>6. \A j : j \in 1 .. Len(calls) <=> j = 1
  BY <1>4
<1>7. DeltaFits(calls[1])'
  BY <1>2, <1>4 DEF DeltaFits
<1>8. WireGrows(ch)
  <2>1. ASSUME NEW e \in Calls
        PROVE  wire'.fragments[e] =
                 wire.fragments[e] + IF \E j \in 1 .. Len(calls) : calls[j].frag = e THEN 1 ELSE 0
    <3>1. (\E j \in 1 .. Len(calls) : calls[j].frag = e) <=> e = c
      BY <1>4, <1>6
    <3>2. wire.fragments \in [Calls -> Nat]
      BY <1>1 DEF IsWire
    <3> QED
      BY <1>2, <3>1, <3>2
  <2>2. ~(calls[1].id # None /\ calls[1].name)
    BY <1>4
  <2>3. \A j \in 1 .. Len(ch.calls) : ~(ch.calls[j].id # None /\ ch.calls[j].name)
    BY <1>5, <1>6, <2>2
  <2>4. \A e \in Calls : wire'.fragments[e] =
          wire.fragments[e] + IF \E j \in 1 .. Len(ch.calls) : ch.calls[j].frag = e THEN 1 ELSE 0
    BY <1>5, <2>1
  <2> QED
    BY <1>2, <1>3, <2>3, <2>4 DEF WireGrows
<1>9. \A j \in 1 .. Len(calls) : DeltaFits(calls[j])'
  BY <1>6, <1>7 DEF DeltaFits
<1>10. \A i, j \in 1 .. Len(calls) : i = j
  BY <1>6
<1> QED
  BY <1>5, <1>8, <1>9, <1>10, CallsChunkInv

\* A fragment of a call that was started, or of one that never was.
LEMMA FragmentSteps ==
  ASSUME Encoded, NEW k \in ChatIndexes,
         ChatFragment(k) \/ \E id, name \in BOOLEAN : ChatCallAnonymous(k, id, name)
  PROVE  Encoded' /\ LifecycleStep
<1>1. IsWire(wire)
  BY DEF Encoded, Types
<1>2. CASE ChatFragment(k)
  <2>1. /\ k \in DOMAIN wire.owner
        /\ ChatSends([OpenAIChunk EXCEPT !.calls = <<CallDelta(k, None, FALSE, wire.owner[k])>>],
                     [wire EXCEPT !.fragments[wire.owner[k]] = @ + 1])
    BY <1>2 DEF ChatFragment
  <2>2. PICK c \in Calls : c = wire.owner[k]
    BY <1>1, <2>1, PartialIn DEF IsWire
  <2>3. PICK d, ch : d = CallDelta(k, None, FALSE, c) /\ ch = [OpenAIChunk EXCEPT !.calls = <<d>>]
    OBVIOUS
  <2>4. d \in Deltas /\ d.index = k /\ d.id = None /\ d.frag = c
    BY <2>3 DEF CallDelta, Deltas
  <2>5. DeltaFits(d)
    BY <2>1, <2>2, <2>4 DEF DeltaFits
  <2>6. Arrives(ch) /\ wire' = [wire EXCEPT !.fragments[c] = @ + 1]
    BY <2>1, <2>2, <2>3, ChatSendsKeeps
  <2> QED
    BY <2>3, <2>4, <2>5, <2>6, FragmentChunkInv
<1>3. CASE \E id, name \in BOOLEAN : ChatCallAnonymous(k, id, name)
  <2>1. PICK id \in BOOLEAN, name \in BOOLEAN : ChatCallAnonymous(k, id, name)
    BY <1>3
  <2>2. /\ ~(id /\ name) /\ NewCall \in Calls /\ k \notin DOMAIN wire.owner
        /\ ChatSends([OpenAIChunk EXCEPT !.calls =
                       <<CallDelta(k, IF id THEN NewCall ELSE None, name, NewCall)>>],
                     [wire EXCEPT !.fragments[NewCall] = @ + 1])
    BY <2>1 DEF ChatCallAnonymous
  <2>3. PICK c \in Calls : c = NewCall
    BY <2>2
  <2>4. PICK d, ch : /\ d = CallDelta(k, IF id THEN c ELSE None, name, c)
                     /\ ch = [OpenAIChunk EXCEPT !.calls = <<d>>]
    OBVIOUS
  <2>5. /\ d.index = k /\ d.frag = c /\ d.id = IF id THEN c ELSE None
        /\ d = [index |-> k, id |-> d.id, name |-> name, frag |-> c] /\ d.name = name
    BY <2>4 DEF CallDelta
  <2>6. d \in Deltas
    BY <2>5 DEF Deltas
  <2>7. d.id = None \/ ~d.name
    BY <2>2, <2>5
  <2>8. DeltaFits(d)
    BY <2>2, <2>5, <2>6, <2>7 DEF DeltaFits
  <2>9. Arrives(ch) /\ wire' = [wire EXCEPT !.fragments[c] = @ + 1]
    BY <2>2, <2>3, <2>4, ChatSendsKeeps
  <2> QED
    BY <2>4, <2>5, <2>7, <2>8, <2>9, FragmentChunkInv
<1> QED
  BY <1>2, <1>3

\* A chunk that starts one call or several.
LEMMA StartSteps ==
  ASSUME Encoded, NEW k \in ChatIndexes, NEW n \in Calls, NEW fragment \in BOOLEAN,
         k + n <= MaxCalls, ChatCallStart(k, n, fragment)
  PROVE  Encoded' /\ LifecycleStep
<1>1. /\ IsWire(wire) /\ MaxCalls \in Nat
      /\ k \in Nat /\ n \in Nat \ {0} /\ wire.started \in Nat /\ wire.started + n <= MaxCalls
  BY StreamAssumption DEF Encoded, Types, IsWire, ChatCallStart, ChatIndexes, Calls
<1>2. PICK s \in Nat : s = wire.started
  BY <1>1
<1> DEFINE frag(j) == IF fragment THEN s + j ELSE None
           delta(j) == CallDelta(k + j - 1, s + j, TRUE, frag(j))
           new == k .. k + n - 1
           started == s + 1 .. s + n
<1>3. PICK calls, ch : calls = [j \in 1 .. n |-> delta(j)] /\ ch = [OpenAIChunk EXCEPT !.calls = calls]
  OBVIOUS
<1>4. /\ Arrives(ch) /\ wire' = Starts(k, n, IF fragment THEN 1 ELSE 0)
  <2>1. ChatSends(ch, Starts(k, n, IF fragment THEN 1 ELSE 0))
    BY <1>2, <1>3 DEF ChatCallStart
  <2> QED
    BY <2>1, ChatSendsKeeps
<1>5. ASSUME NEW j \in 1 .. n
      PROVE  /\ k + j - 1 \in ChatIndexes /\ k + j - 1 \in new /\ s + j \in Calls /\ s + j \in started
             /\ s + j # None
  BY <1>1, <1>2 DEF ChatIndexes, Calls, None
<1>6. ASSUME NEW j \in 1 .. n
      PROVE  /\ delta(j) \in Deltas
             /\ delta(j).index = k + j - 1 /\ delta(j).id = s + j /\ delta(j).frag = frag(j)
  <2>1. frag(j) \in {None} \cup Calls
    BY <1>5
  <2> HIDE DEF frag
  <2> QED
    BY <1>5, <2>1 DEF CallDelta, Deltas
<1>7. /\ DOMAIN wire' = DOMAIN wire
      /\ wire'.owner = [i \in DOMAIN wire.owner \cup new |->
                          IF i \in new THEN s + 1 + (i - k) ELSE wire.owner[i]]
      /\ wire'.started = s + n
      /\ wire'.fragments = [c \in Calls |-> IF c \in started
                              THEN wire.fragments[c] + IF fragment THEN 1 ELSE 0 ELSE wire.fragments[c]]
      /\ wire'.reused = (wire.reused \/ new \cap DOMAIN wire.owner # {})
      /\ wire'.finish = wire.finish /\ wire'.usage = wire.usage
  BY <1>1, <1>2, <1>4 DEF Starts, NewCall, IsWire
<1> HIDE DEF delta
<1>8. calls \in Seq(Deltas) /\ Len(calls) = n /\ \A j \in 1 .. n : calls[j] = delta(j)
  <2>1. calls \in [1 .. n -> Deltas] /\ \A j \in 1 .. n : calls[j] = delta(j)
    BY <1>3, <1>6
  <2>2. calls \in Seq(Deltas)
    BY <1>1, <2>1, SeqDef
  <2>3. Len(calls) \in Nat /\ 1 .. Len(calls) = 1 .. n
    BY <2>1, <2>2, LenProperties
  <2>4. Len(calls) = n
    BY <1>1, <2>3
  <2> QED
    BY <2>1, <2>2, <2>4
<1>9. IsWire(wire')
  <2>1. wire'.owner \in Partial(ChatIndexes, Calls)
    <3>1. DOMAIN wire.owner \subseteq ChatIndexes /\ \A i \in DOMAIN wire.owner : wire.owner[i] \in Calls
      BY <1>1, PartialIn DEF IsWire
    <3>2. \A i \in new : i \in ChatIndexes /\ s + 1 + (i - k) \in Calls
      BY <1>1, <1>2 DEF ChatIndexes, Calls
    <3>3. wire'.owner \in [DOMAIN wire.owner \cup new -> Calls]
      BY <1>7, <3>1, <3>2
    <3>4. DOMAIN wire.owner \cup new \in SUBSET ChatIndexes
      BY <3>1, <3>2
    <3> QED
      BY <3>3, <3>4 DEF Partial
  <2>2. wire'.fragments \in [Calls -> Nat]
    BY <1>1, <1>7 DEF IsWire
  <2>3. wire'.reused \in BOOLEAN
    BY <1>7
  <2>4. wire'.started \in 0 .. MaxCalls
    BY <1>1, <1>2, <1>7
  <2> QED
    BY <1>1, <1>7, <2>1, <2>2, <2>3, <2>4 DEF IsWire
<1>10. \A j \in 1 .. n : k + j - 1 \in DOMAIN wire'.owner /\ wire'.owner[k + j - 1] = s + j
  <2> TAKE j \in 1 .. n
  <2>1. s + 1 + ((k + j - 1) - k) = s + j
    BY <1>1, <1>2
  <2> QED
    BY <1>5, <1>7, <2>1
<1>11. ch.calls = calls
  BY <1>3 DEF OpenAIChunk, Chunk
<1>12. WireGrows(ch)
  <2>1. ASSUME NEW c \in Calls
        PROVE  wire'.fragments[c] =
                 wire.fragments[c] + IF \E j \in 1 .. Len(ch.calls) : ch.calls[j].frag = c THEN 1 ELSE 0
    <3>1. (\E j \in 1 .. Len(ch.calls) : ch.calls[j].frag = c) <=> \E j \in 1 .. n : frag(j) = c
      <4>1. Len(ch.calls) = n /\ \A j \in 1 .. n : ch.calls[j].frag = frag(j)
        BY <1>6, <1>8, <1>11
      <4> HIDE DEF frag
      <4> QED
        BY <4>1
    <3>2. (\E j \in 1 .. n : frag(j) = c) <=> fragment /\ c \in started
      <4>1. ASSUME fragment, c \in started PROVE \E j \in 1 .. n : frag(j) = c
        <5>1. c - s \in 1 .. n /\ s + (c - s) = c
          BY <1>1, <1>2, <4>1
        <5> QED
          BY <4>1, <5>1
      <4>2. ASSUME NEW j \in 1 .. n, frag(j) = c PROVE fragment /\ c \in started
        <5>1. c # None
          BY DEF Calls, None
        <5> QED
          BY <1>5, <4>2, <5>1
      <4> QED
        BY <4>1, <4>2
    <3>3. wire.fragments[c] \in Nat
      BY <1>1 DEF IsWire
    <3> QED
      BY <1>7, <3>1, <3>2, <3>3
  <2>2. \A j \in 1 .. Len(ch.calls) :
          wire.started + (j - 1) < ch.calls[j].id /\ ch.calls[j].id <= wire'.started
    <3> SUFFICES ASSUME NEW j \in 1 .. n
                 PROVE  s + (j - 1) < s + j /\ s + j <= s + n
      BY <1>2, <1>6, <1>7, <1>8, <1>11
    <3> QED
      BY <1>1, <1>2
  <2>3. ASSUME NEW i \in DOMAIN wire.owner
        PROVE  /\ i \in DOMAIN wire'.owner
               /\ \/ wire'.owner[i] = wire.owner[i]
                  \/ /\ wire'.reused
                     /\ \E j \in 1 .. Len(ch.calls) : ch.calls[j].index = i /\ ch.calls[j].id # None
    <3>1. CASE i \in new
      <4>1. i - k + 1 \in 1 .. n /\ k + (i - k + 1) - 1 = i
        BY <1>1, <3>1
      <4>2. calls[i - k + 1].index = i /\ calls[i - k + 1].id # None
        BY <1>5, <1>6, <1>8, <4>1
      <4>3. wire'.reused
        BY <1>7, <3>1
      <4> QED
        BY <1>7, <1>8, <1>11, <4>1, <4>2, <4>3
    <3>2. CASE i \notin new
      BY <1>7, <3>2
    <3> QED
      BY <3>1, <3>2
  <2>4. wire.reused => wire'.reused
    BY <1>7
  <2>5. wire.started <= wire'.started
    BY <1>1, <1>2, <1>7
  <2> QED
    BY <1>7, <1>9, <2>1, <2>2, <2>3, <2>4, <2>5 DEF WireGrows
<1>13. \A j \in 1 .. Len(calls) : DeltaFits(calls[j])'
  <2> SUFFICES ASSUME NEW j \in 1 .. n PROVE DeltaFits(calls[j])'
    BY <1>8
  <2>1. /\ calls[j] \in Deltas /\ calls[j].index = k + j - 1 /\ calls[j].id = s + j
        /\ calls[j].frag \in {None, s + j}
    BY <1>6, <1>8
  <2> QED
    BY <1>10, <2>1 DEF DeltaFits
<1>14. \A i, j \in 1 .. Len(calls) : i # j =>
         /\ calls[i].index # calls[j].index
         /\ calls[i].frag # None => calls[i].frag # calls[j].frag
  <2> SUFFICES ASSUME NEW i \in 1 .. n, NEW j \in 1 .. n, i # j
               PROVE  /\ k + i - 1 # k + j - 1
                      /\ frag(i) # None => frag(i) # frag(j)
    BY <1>6, <1>8
  <2>1. k + i - 1 # k + j - 1 /\ s + i # s + j
    BY <1>1, <1>2
  <2> QED
    BY <2>1
<1> QED
  BY <1>3, <1>4, <1>8, <1>12, <1>13, <1>14, CallsChunkInv

\* Whatever an OpenAI-compatible provider sends.
LEMMA EncodedProvide ==
  ASSUME Encoded, Provider = "chat", Provide
  PROVE  Encoded' /\ LifecycleStep
<1>1. ChatStep \/ Cut \/ End
  BY DEF Provide, AnthropicStep, GeminiStep, MessageStart, ToolUseStart, TextDelta,
       InputJsonDelta, MessageDelta, AnthropicStreamFails, AnthropicReads, GeminiCandidate,
       GeminiSkips, GeminiStreamFails, GeminiEnd
<1>2. CASE \E k \in ChatIndexes, n \in Calls, fragment \in BOOLEAN :
             k + n <= MaxCalls /\ ChatCallStart(k, n, fragment)
  BY <1>2, StartSteps
<1>3. CASE \E k \in ChatIndexes : \/ \E id, name \in BOOLEAN : ChatCallAnonymous(k, id, name)
                                  \/ ChatFragment(k)
  BY <1>3, FragmentSteps
<1> QED
  BY <1>1, <1>2, <1>3, PlainSteps, BodySteps DEF ChatStep

-----------------------------------------------------------------------------
(* Every route. *)

\* No step changes the route.
LEMMA RouteKept ==
  ASSUME [Next]_vars
  PROVE  route' = route
<1>1. CASE Provide
  BY <1>1, ProvideKeeps
<1>2. CASE Translate
  BY <1>2 DEF Translate, ResponsesStep, AnthropicEncoderStep, ResponsesStart, ResponsesUsage,
       ResponsesOpenText, ResponsesText, ResponsesCallStarted, ResponsesArguments,
       ResponsesCallsDone, ResponsesFinish, AnthropicStart, AnthropicOpenText, AnthropicUsage,
       AnthropicFinish, AnthropicText, AnthropicCall, AnthropicArguments, AnthropicCallsDone,
       CloseItem, Complete, Incomplete, OpenCall, Feed, Fail, Step, upstream
<1>3. CASE OpenRefused \/ OpenStream \/ Pull \/ EndOfBody \/ Disconnect \/ Finalize \/ UNCHANGED vars
  BY <1>3 DEF OpenRefused, OpenStream, Pull, EndOfBody, Disconnect, Finalize, vars, upstream
<1> QED
  BY <1>1, <1>2, <1>3 DEF Next

\* A step of an encoded stream.
LEMMA EncodedNext ==
  ASSUME Encoded, Provider = "chat", [Next]_vars
  PROVE  Encoded' /\ LifecycleStep
BY EncodedOpened, EncodedProvide, EncodedPull, EncodedTranslate, EncodedEndOfBody, EncodedAbandoned
   DEF Next

\* Every step keeps the invariant and is a step of the lifecycle or none.
LEMMA NextInv ==
  ASSUME Inv, [Next]_vars
  PROVE  Inv' /\ LifecycleStep
<1>1. route' = route /\ Client' = Client /\ Provider' = Provider
  BY RouteKept DEF Client, Provider
<1>2. ASSUME Client = "chat" PROVE Forwarded' /\ LifecycleStep
  <2>1. Forwarded /\ Forwarded'
    BY <1>2, ForwardedNext DEF Inv
  <2>2. UNCHANGED <<seen.starts, seen.items, seen.ends>>
    BY <2>1 DEF Forwarded, Bare, NoItems
  <2> QED
    BY <2>1, <2>2 DEF LifecycleStep, Lifecycle!lifecycleVars
<1>3. ASSUME Client # "chat", Provider # "chat" PROVE Refused' /\ LifecycleStep
  BY <1>3, RefusedNext
<1>4. ASSUME Provider = "chat" PROVE Encoded' /\ LifecycleStep
  BY <1>4, EncodedNext DEF Inv
<1> QED
  BY <1>1, <1>2, <1>3, <1>4 DEF Inv

\* The strengthened invariant holds in every reachable state, whatever the
\* provider sends, on every route.
THEOREM StreamInv == Spec => []Inv
<1>1. Init => Inv
  BY InitInv
<1>2. Inv /\ [Next]_vars => Inv'
  BY NextInv
<1> QED
  BY <1>1, <1>2, PTL DEF Spec

\* A stream ends at most once, so its last terminal frame is its only one.
LEMMA EndedOnce ==
  ASSUME Inv
  PROVE  /\ Ended("completed") <=> seen.ends = <<"completed">>
         /\ Ended("completed") => Provider = "chat" /\ Encoded
<1>1. seen.ends \in {<<>>, <<"completed">>, <<"failed">>}
  BY DEF Inv, Forwarded, Refused, Encoded, Types, IsView
<1>2. Ended("completed") <=> seen.ends = <<"completed">>
  BY <1>1 DEF Ended, Last
<1>3. Provider # "chat" => seen.ends # <<"completed">>
  BY DEF Inv, Forwarded, Refused
<1> QED
  BY <1>2, <1>3 DEF Inv

\* A truncated answer never looks finished: a stream is reported as complete
\* only with the finish reason the provider gave.
THEOREM StreamSuccess == Spec => []SuccessNeedsFinish
<1>1. Inv => SuccessNeedsFinish
  <2> SUFFICES ASSUME Inv, Ended("completed") \/ seen.done, Provider # "gemini"
               PROVE  seen.finish = wire.finish /\ wire.finish # "none"
    BY DEF SuccessNeedsFinish
  <2>1. CASE Ended("completed")
    BY <2>1, EndedOnce DEF Encoded, FinishInv, Succeeded
  <2>2. CASE seen.done
    <3>1. Client = "chat"
      BY <2>2 DEF Inv, Refused, Encoded, Types, IsView
    <3>2. Provider = "anthropic"
      BY <3>1 DEF Inv, Routes, Providers, Provider, Client
    <3> QED
      BY <2>2, <3>1, <3>2 DEF Inv, Forwarded
  <2> QED
    BY <2>1, <2>2
<1> QED
  BY <1>1, StreamInv, PTL

\* Interleaved tool calls stay apart, for any number of calls and fragments.
THEOREM StreamCalls == Spec => []CallsKeptApart
<1>1. Inv => CallsKeptApart
  <2> SUFFICES ASSUME Inv, ~(wire.reused /\ Client = "anthropic")
               PROVE  seen.stray = 0 /\ (Ended("completed") => seen.fragments = wire.fragments)
    BY DEF CallsKeptApart
  <2>1. seen.stray = 0
    BY DEF Inv, Forwarded, Refused, Bare, Encoded, OwnersInv
  <2>2. Ended("completed") => seen.fragments = wire.fragments
    BY EndedOnce DEF Encoded, FragmentsInv, Succeeded
  <2> QED
    BY <2>1, <2>2
<1> QED
  BY <1>1, StreamInv, PTL

\* The client and the usage log are told the tokens the provider billed last.
THEOREM StreamUsage == Spec => []UsageAgrees
<1>1. Inv => UsageAgrees
  BY EndedOnce DEF UsageAgrees, Encoded, UsageInv, Succeeded
<1> QED
  BY <1>1, StreamInv, PTL

\* The encoders implement the lifecycle, for streams of any length with any
\* number of tool calls.
THEOREM StreamRefines == Spec => FollowsLifecycle
<1>1. Init => Lifecycle!Init
  BY DEF Init, Lifecycle!Init, Lifecycle!Untouched
<1>2. Inv /\ [Next]_vars => [Lifecycle!Next]_(Lifecycle!lifecycleVars)
  BY NextInv DEF LifecycleStep
<1> QED
  BY <1>1, <1>2, StreamInv, PTL DEF Spec, FollowsLifecycle, Lifecycle!Spec
=============================================================================
