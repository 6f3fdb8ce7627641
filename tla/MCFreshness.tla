---------------------------- MODULE MCFreshness ----------------------------
(* The instance of Freshness for TLC. *)
EXTENDS Freshness, FiniteSets, TLC

\* Requests are interchangeable: no action or invariant names a particular one.
RequestSymmetry == Permutations(Requests)

\* The caches and the sentinel meet in Inspect alone, where a request is past
\* both caches and shares nothing with the other requests: several requests at a
\* time are explored before the sentinel has written, one at a time beside it.
SentinelOrOneRequest ==
  \/ probe = Stopped /\ status = {}
  \/ Cardinality({r \in Requests : request[r] # Idle}) <= 1
=============================================================================
