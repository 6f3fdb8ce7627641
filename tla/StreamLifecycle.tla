-------------------------- MODULE StreamLifecycle --------------------------
(***************************************************************************)
(* What a client of /v1/responses or /v1/messages may rely on while it     *)
(* reads an event stream, whichever provider is behind it: the stream is   *)
(* announced once, items (output items, content blocks) are opened with    *)
(* consecutive indexes, deltas arrive only for an open item, and the       *)
(* stream ends at most once -- successfully only when it has closed every  *)
(* item it opened.  After the end nothing comes.                           *)
(***************************************************************************)
EXTENDS Naturals, Sequences

CONSTANT Indexes      \* the item indexes, 0..k

VARIABLES
  starts,             \* announcements seen so far
  items,              \* per index, how often it was opened, fed and closed
  ends                \* the terminal frames seen so far

lifecycleVars == <<starts, items, ends>>

Untouched == [opens |-> 0, deltas |-> 0, closes |-> 0]

Init ==
  /\ starts = 0
  /\ items = [i \in Indexes |-> Untouched]
  /\ ends = <<>>

Running == starts = 1 /\ ends = <<>>
Live(i) == items[i].opens = 1 /\ items[i].closes = 0

Start ==
  /\ starts = 0
  /\ ends = <<>>
  /\ starts' = 1
  /\ UNCHANGED <<items, ends>>

Open(i) ==
  /\ Running
  /\ items[i] = Untouched
  /\ \A j \in Indexes : j < i => items[j].opens = 1
  /\ items' = [items EXCEPT ![i].opens = 1]
  /\ UNCHANGED <<starts, ends>>

Delta(i) ==
  /\ Running
  /\ Live(i)
  /\ items' = [items EXCEPT ![i].deltas = @ + 1]
  /\ UNCHANGED <<starts, ends>>

Close(i) ==
  /\ Running
  /\ Live(i)
  /\ items' = [items EXCEPT ![i].closes = 1]
  /\ UNCHANGED <<starts, ends>>

Complete ==
  /\ Running
  /\ \A i \in Indexes : ~Live(i)
  /\ ends' = <<"completed">>
  /\ UNCHANGED <<starts, items>>

\* A stream may fail before it was announced.
Fail ==
  /\ ends = <<>>
  /\ ends' = <<"failed">>
  /\ UNCHANGED <<starts, items>>

Next ==
  \/ Start
  \/ \E i \in Indexes : Open(i) \/ Delta(i) \/ Close(i)
  \/ Complete
  \/ Fail

Spec == Init /\ [][Next]_lifecycleVars
=============================================================================
