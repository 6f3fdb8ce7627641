--------------------------- MODULE CircuitBreaker ---------------------------
(***************************************************************************)
(* The MCP Reverse Proxy's in-process breaker around its OPA Sidecar       *)
(* (mcpproxy/app/circuit_breaker.py).  The module gives the breaker's      *)
(* fields and one operator per method; McpProxy composes them with the     *)
(* calls that use them.  Every method is synchronous, so each is a single  *)
(* step of the event loop.                                                 *)
(*                                                                         *)
(* Time is discrete.  The code keeps _opened_at and only ever compares     *)
(* time.monotonic() - _opened_at with COOLDOWN_SECONDS, so the model keeps *)
(* the difference, openFor, which stops growing at Cooldown.               *)
(***************************************************************************)
EXTENDS Integers

CONSTANTS
  FailureThreshold,   \* FAILURE_THRESHOLD
  Cooldown            \* COOLDOWN_SECONDS, in clock ticks

ASSUME BreakerAssumption ==
  /\ FailureThreshold \in Nat \ {0}
  /\ Cooldown \in Nat \ {0}

VARIABLES
  cbState,            \* _state
  failureCount,       \* _failure_count
  openFor             \* now - _opened_at, or NotOpened when _opened_at is None

breakerVars == <<cbState, failureCount, openFor>>

CircuitState == {"CLOSED", "OPEN", "HALF_OPEN"}

NotOpened == -1

BreakerTypeOK ==
  /\ cbState \in CircuitState
  /\ failureCount \in Nat
  /\ openFor \in 0..Cooldown \cup {NotOpened}

BreakerInit ==
  /\ cbState = "CLOSED"
  /\ failureCount = 0
  /\ openFor = NotOpened

-----------------------------------------------------------------------------
IsClosed == cbState = "CLOSED"

Trip ==
  /\ cbState' = "OPEN"
  /\ openFor' = 0

\* Mutant: the failure count survives a success.
RecordSuccessKeepsCount ==
  /\ cbState' = "CLOSED"
  /\ openFor' = NotOpened
  /\ UNCHANGED failureCount

\* Mutant: a success resets the counters and leaves the state.
RecordSuccessKeepsState ==
  /\ failureCount' = 0
  /\ openFor' = NotOpened
  /\ UNCHANGED cbState

\* An answer of the sidecar, allow or deny, closes the breaker from any state.
RecordSuccess ==
  /\ cbState' = "CLOSED"
  /\ failureCount' = 0
  /\ openFor' = NotOpened

\* The count is compared with >= whatever the state: a failure that arrives
\* late, when the breaker is already open, trips it again.
RecordFailure ==
  /\ failureCount' = failureCount + 1
  /\ IF failureCount + 1 >= FailureThreshold
       THEN Trip
       ELSE UNCHANGED <<cbState, openFor>>

ProbeDue ==
  /\ cbState = "OPEN"
  /\ openFor >= Cooldown

\* Mutant: the state is not looked at, only the cooldown.
TryStartProbeAgain ==
  /\ openFor >= Cooldown
  /\ cbState' = "HALF_OPEN"
  /\ UNCHANGED <<failureCount, openFor>>

\* try_start_probe returning True; it returns False exactly when ~ProbeDue.
TryStartProbe ==
  /\ ProbeDue
  /\ cbState' = "HALF_OPEN"
  /\ UNCHANGED <<failureCount, openFor>>

\* Mutant: a failed probe does not trip the breaker again.
RecordProbeFailureIgnored == UNCHANGED breakerVars

RecordProbeFailure ==
  /\ Trip
  /\ UNCHANGED failureCount

\* One tick of time.monotonic().
BreakerTick ==
  /\ openFor' = IF openFor \in 0..(Cooldown - 1) THEN openFor + 1 ELSE openFor
  /\ UNCHANGED <<cbState, failureCount>>
=============================================================================
