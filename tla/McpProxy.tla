------------------------------ MODULE McpProxy ------------------------------
(***************************************************************************)
(* The MCP Reverse Proxy (mcpproxy/app): the POST /v1/mcp/call handler,    *)
(* its circuit breaker and its three remote parties -- the OPA Sidecar,    *)
(* the downstream MCP server and Governance (PII scan, audit events).      *)
(*                                                                         *)
(* Calls are slots of the event loop, each running one request at a time.  *)
(* The code between two awaits is one action; pc names the await a call is *)
(* suspended in:                                                           *)
(*    "sidecar"      opa_client.check_tool_call                            *)
(*    "downstream"   client.stream + buffer_tool_response                  *)
(*    "scan"         governance_client.scan_for_pii                        *)
(*    "deny_audit", "block_audit", "allow_audit"   _send_audit_event       *)
(* Posting an audit event is best effort: whether Governance stores it     *)
(* changes nothing in the proxy, so only the attempt is state.             *)
(***************************************************************************)
EXTENDS CircuitBreaker

CONSTANTS
  Calls,              \* slots for concurrent requests
  Tools,              \* "server:name" keys of the requests' tools
  BreakglassTools,    \* settings.breakglass_tool_allowlist
  OpaTimeout,         \* the longest a sidecar check lasts, in clock ticks
  ProbeGetsObject     \* whether the answer to a probe is always a JSON object

\* httpx applies OPA_CHECK_TIMEOUT_SECONDS (2s) to the pool, the connect, the
\* write and each read separately; the sidecar's answer is one small body, so a
\* check lasts at most four times that, well below the 30s cooldown.
\*
\* "error": transport error, timeout, non-2xx, undecodable body or no "result"
\* key.  "nonobject": a 2xx body that is JSON but neither object nor list, on
\* which `"result" not in data` raises TypeError, not OpaCheckError.
Answers == {"allow", "deny", "error", "nonobject"}

ASSUME McpAssumption ==
  /\ BreakglassTools \subseteq Tools
  /\ OpaTimeout \in Nat \ {0}
  /\ OpaTimeout < Cooldown
  /\ ProbeGetsObject \in BOOLEAN

VARIABLES
  sidecarUp,          \* environment: the OPA Sidecar answers
  pc,                 \* the await each call is in
  age,                \* ticks since a call asked the sidecar
  tool,               \* the requested tool
  isProbe,            \* is_probe
  usedBreakglass,     \* used_breakglass
  verdict,            \* what the sidecar answered to this very call
  executed,           \* the downstream server ran the tool
  content,            \* what the buffered tool response holds
  event,              \* event_type of the audit event posted
  reply               \* HTTP status returned to the Gateway Proxy, 0 if none

callVars == <<pc, age, tool, isProbe, usedBreakglass, verdict, executed,
              content, event, reply>>
vars == <<breakerVars, sidecarUp, callVars>>

AuditPhases == {"deny_audit", "block_audit", "allow_audit"}
Phases == {"idle", "sidecar", "downstream", "scan", "done"} \cup AuditPhases
EventTypes == {"policy_denied", "breakglass_denied", "dlp_blocked",
               "mcp_tool_call", "breakglass_tool_call"}

TypeOK ==
  /\ BreakerTypeOK
  /\ sidecarUp \in BOOLEAN
  /\ pc \in [Calls -> Phases]
  /\ age \in [Calls -> 0..OpaTimeout]
  /\ tool \in [Calls -> Tools]
  /\ isProbe \in [Calls -> BOOLEAN]
  /\ usedBreakglass \in [Calls -> BOOLEAN]
  /\ verdict \in [Calls -> {"none"} \cup Answers]
  /\ executed \in [Calls -> BOOLEAN]
  /\ content \in [Calls -> {"none", "clean", "pii"}]
  /\ event \in [Calls -> {"none"} \cup EventTypes]
  /\ reply \in [Calls -> {0, 200, 403, 500, 502}]

\* lifespan: a replica starts with a closed breaker and no request.
Init ==
  /\ BreakerInit
  /\ sidecarUp \in BOOLEAN
  /\ pc = [c \in Calls |-> "idle"]
  /\ age = [c \in Calls |-> 0]
  /\ tool \in [Calls -> Tools]
  /\ isProbe = [c \in Calls |-> FALSE]
  /\ usedBreakglass = [c \in Calls |-> FALSE]
  /\ verdict = [c \in Calls |-> "none"]
  /\ executed = [c \in Calls |-> FALSE]
  /\ content = [c \in Calls |-> "none"]
  /\ event = [c \in Calls |-> "none"]
  /\ reply = [c \in Calls |-> 0]

-----------------------------------------------------------------------------
(* Receiving a call, up to its first await. *)

\* Mutant: every tool is on the break-glass list.
BreakglassAllowedAny(t) == t \in Tools

\* _breakglass_allowed
BreakglassAllowed(t) == t \in BreakglassTools

\* A request enters slot c for tool t and runs up to its first await.
Begin(c, t, phase, probe, breakglass, status) ==
  /\ pc[c] \in {"idle", "done"}
  /\ pc' = [pc EXCEPT ![c] = phase]
  /\ age' = [age EXCEPT ![c] = 0]
  /\ tool' = [tool EXCEPT ![c] = t]
  /\ isProbe' = [isProbe EXCEPT ![c] = probe]
  /\ usedBreakglass' = [usedBreakglass EXCEPT ![c] = breakglass]
  /\ verdict' = [verdict EXCEPT ![c] = "none"]
  /\ executed' = [executed EXCEPT ![c] = FALSE]
  /\ content' = [content EXCEPT ![c] = "none"]
  /\ event' = [event EXCEPT ![c] = "none"]
  /\ reply' = [reply EXCEPT ![c] = status]
  /\ UNCHANGED sidecarUp

\* The phase a decided call goes to: the deny audit or the downstream call.
AfterDecision(allowed) == IF allowed THEN "downstream" ELSE "deny_audit"

CallClosed(c, t) ==
  /\ IsClosed
  /\ Begin(c, t, "sidecar", FALSE, FALSE, 0)
  /\ UNCHANGED breakerVars

CallProbe(c, t) ==
  /\ ~IsClosed
  /\ TryStartProbe
  /\ Begin(c, t, "sidecar", TRUE, FALSE, 0)

CallBreakglass(c, t) ==
  /\ ~IsClosed
  /\ ~ProbeDue
  /\ Begin(c, t, AfterDecision(BreakglassAllowed(t)), FALSE, TRUE, 0)
  /\ UNCHANGED breakerVars

\* A missing or wrong X-Internal-Token is refused before anything else.
CallBadToken(c, t) ==
  /\ Begin(c, t, "done", FALSE, FALSE, 403)
  /\ UNCHANGED breakerVars

Receive(c, t) ==
  CallClosed(c, t) \/ CallProbe(c, t) \/ CallBreakglass(c, t)

-----------------------------------------------------------------------------
(* The sidecar's answer, up to the next await. *)

Decide(c, answer, phase, breakglass) ==
  /\ pc' = [pc EXCEPT ![c] = phase]
  /\ age' = [age EXCEPT ![c] = 0]
  /\ verdict' = [verdict EXCEPT ![c] = answer]
  /\ usedBreakglass' = [usedBreakglass EXCEPT ![c] = breakglass]
  /\ UNCHANGED <<sidecarUp, tool, isProbe, executed, content, event, reply>>

SidecarAnswers(c, answer) ==
  /\ pc[c] = "sidecar"
  /\ answer \in {"allow", "deny"}
  /\ sidecarUp
  /\ RecordSuccess
  /\ Decide(c, answer, AfterDecision(answer = "allow"), FALSE)

\* OpaCheckError on the probe: back to break-glass, for this call too.
ProbeFails(c) ==
  /\ pc[c] = "sidecar"
  /\ isProbe[c]
  /\ ~sidecarUp
  /\ RecordProbeFailure
  /\ Decide(c, "error", AfterDecision(BreakglassAllowed(tool[c])), TRUE)

\* OpaCheckError on any other check: counted, and the call is denied.
CheckFails(c) ==
  /\ pc[c] = "sidecar"
  /\ ~isProbe[c]
  /\ ~sidecarUp
  /\ RecordFailure
  /\ Decide(c, "error", AfterDecision(FALSE), FALSE)

\* TypeError out of check_tool_call: nothing catches it, the breaker is told
\* nothing and the framework answers 500.
SidecarNonObject(c) ==
  /\ pc[c] = "sidecar"
  /\ sidecarUp
  /\ isProbe[c] => ~ ProbeGetsObject
  /\ pc' = [pc EXCEPT ![c] = "done"]
  /\ age' = [age EXCEPT ![c] = 0]
  /\ verdict' = [verdict EXCEPT ![c] = "nonobject"]
  /\ reply' = [reply EXCEPT ![c] = 500]
  /\ UNCHANGED <<breakerVars, sidecarUp, tool, isProbe, usedBreakglass, executed,
                 content, event>>

Sidecar(c) ==
  \/ \E answer \in {"allow", "deny"} : SidecarAnswers(c, answer)
  \/ ProbeFails(c)
  \/ CheckFails(c)
  \/ SidecarNonObject(c)

-----------------------------------------------------------------------------
(* The downstream call, the PII scan of its response, the audit event. *)

\* buffer_tool_response returned: a text to scan, with or without findings.
DownstreamReturns(c, found) ==
  /\ pc[c] = "downstream"
  /\ pc' = [pc EXCEPT ![c] = "scan"]
  /\ executed' = [executed EXCEPT ![c] = TRUE]
  /\ content' = [content EXCEPT ![c] = found]
  /\ UNCHANGED <<breakerVars, sidecarUp, age, tool, isProbe, usedBreakglass, verdict,
                 event, reply>>

\* Size cap, wall-clock cap, or bytes that are not UTF-8.
DownstreamBreach(c) ==
  /\ pc[c] = "downstream"
  /\ pc' = [pc EXCEPT ![c] = "block_audit"]
  /\ executed' = [executed EXCEPT ![c] = TRUE]
  /\ UNCHANGED <<breakerVars, sidecarUp, age, tool, isProbe, usedBreakglass, verdict,
                 content, event, reply>>

\* Any other httpx error (refused, reset, protocol) escapes the handler; the
\* tool may or may not have run.
DownstreamError(c, ran) ==
  /\ pc[c] = "downstream"
  /\ pc' = [pc EXCEPT ![c] = "done"]
  /\ executed' = [executed EXCEPT ![c] = ran]
  /\ reply' = [reply EXCEPT ![c] = 500]
  /\ UNCHANGED <<breakerVars, sidecarUp, age, tool, isProbe, usedBreakglass, verdict,
                 content, event>>

ScanReturns(c) ==
  /\ pc[c] = "scan"
  /\ pc' = [pc EXCEPT ![c] = IF content[c] = "pii" THEN "block_audit" ELSE "allow_audit"]
  /\ UNCHANGED <<breakerVars, sidecarUp, age, tool, isProbe, usedBreakglass, verdict,
                 executed, content, event, reply>>

\* Mutant: a failed scan lets the response through.
ScanFailsOpen(c) ==
  /\ pc[c] = "scan"
  /\ pc' = [pc EXCEPT ![c] = "allow_audit"]
  /\ UNCHANGED <<breakerVars, sidecarUp, age, tool, isProbe, usedBreakglass, verdict,
                 executed, content, event, reply>>

\* DlpScanError: transport error, timeout, non-2xx.
ScanFails(c) ==
  /\ pc[c] = "scan"
  /\ pc' = [pc EXCEPT ![c] = "block_audit"]
  /\ UNCHANGED <<breakerVars, sidecarUp, age, tool, isProbe, usedBreakglass, verdict,
                 executed, content, event, reply>>

\* A 2xx whose body is not JSON: resp.json() is outside the try of
\* scan_for_pii, so the exception is no DlpScanError and escapes the handler.
ScanUndecodable(c) ==
  /\ pc[c] = "scan"
  /\ pc' = [pc EXCEPT ![c] = "done"]
  /\ reply' = [reply EXCEPT ![c] = 500]
  /\ UNCHANGED <<breakerVars, sidecarUp, age, tool, isProbe, usedBreakglass, verdict,
                 executed, content, event>>

\* Mutant: break-glass calls are reported like any other.
EventOfNoBreakglass(phase, breakglass) ==
  IF phase = "block_audit" THEN "dlp_blocked"
  ELSE IF phase = "deny_audit" THEN "policy_denied" ELSE "mcp_tool_call"

EventOf(phase, breakglass) ==
  IF phase = "block_audit" THEN "dlp_blocked"
  ELSE IF phase = "deny_audit"
       THEN IF breakglass THEN "breakglass_denied" ELSE "policy_denied"
       ELSE IF breakglass THEN "breakglass_tool_call" ELSE "mcp_tool_call"

\* Mutant: a status the gateway proxy does not know.
StatusOfUnauthorized == [deny_audit |-> 401, block_audit |-> 502, allow_audit |-> 200]

StatusOf == [deny_audit |-> 403, block_audit |-> 502, allow_audit |-> 200]

\* Mutant: the event is posted and nothing is returned.
SendAuditEventOnly(c) ==
  /\ pc[c] \in AuditPhases
  /\ event' = [event EXCEPT ![c] = EventOf(pc[c], usedBreakglass[c])]
  /\ UNCHANGED <<breakerVars, sidecarUp, pc, age, tool, isProbe, usedBreakglass, verdict,
                 executed, content, reply>>

SendAuditEvent(c) ==
  /\ pc[c] \in AuditPhases
  /\ event' = [event EXCEPT ![c] = EventOf(pc[c], usedBreakglass[c])]
  /\ reply' = [reply EXCEPT ![c] = StatusOf[pc[c]]]
  /\ pc' = [pc EXCEPT ![c] = "done"]
  /\ UNCHANGED <<breakerVars, sidecarUp, age, tool, isProbe, usedBreakglass, verdict,
                 executed, content>>

Downstream(c) ==
  \/ \E found \in {"clean", "pii"} : DownstreamReturns(c, found)
  \/ DownstreamBreach(c)
  \/ \E ran \in BOOLEAN : DownstreamError(c, ran)

Scan(c) == ScanReturns(c) \/ ScanFails(c) \/ ScanUndecodable(c)

-----------------------------------------------------------------------------
(* The environment. *)

\* A tick of the clock.  httpx gives up on a check by OpaTimeout, so no check
\* outlives it.
Tick ==
  /\ \A c \in Calls : pc[c] = "sidecar" => age[c] < OpaTimeout
  /\ age' = [c \in Calls |-> IF pc[c] = "sidecar" THEN age[c] + 1 ELSE age[c]]
  /\ BreakerTick
  /\ UNCHANGED <<sidecarUp, pc, tool, isProbe, usedBreakglass, verdict, executed,
                 content, event, reply>>

SidecarToggles ==
  /\ sidecarUp' = ~sidecarUp
  /\ UNCHANGED <<breakerVars, callVars>>

\* The replica dies and starts again: the breaker and every call are lost.
Restart ==
  /\ cbState' = "CLOSED" /\ failureCount' = 0 /\ openFor' = NotOpened
  /\ pc' = [c \in Calls |-> "idle"]
  /\ age' = [c \in Calls |-> 0]
  /\ isProbe' = [c \in Calls |-> FALSE]
  /\ usedBreakglass' = [c \in Calls |-> FALSE]
  /\ verdict' = [c \in Calls |-> "none"]
  /\ executed' = [c \in Calls |-> FALSE]
  /\ content' = [c \in Calls |-> "none"]
  /\ event' = [c \in Calls |-> "none"]
  /\ reply' = [c \in Calls |-> 0]
  /\ UNCHANGED <<sidecarUp, tool>>

Next ==
  \/ \E c \in Calls, t \in Tools : Receive(c, t) \/ CallBadToken(c, t)
  \/ \E c \in Calls : Sidecar(c) \/ Downstream(c) \/ Scan(c) \/ SendAuditEvent(c)
  \/ Tick
  \/ SidecarToggles
  \/ Restart

\* Every await has a timeout, so every suspended call is resumed; time passes.
Fairness ==
  /\ WF_vars(Tick)
  /\ \A c \in Calls : WF_vars(Sidecar(c) \/ Downstream(c) \/ Scan(c) \/ SendAuditEvent(c))

Spec == Init /\ [][Next]_vars
FairSpec == Spec /\ Fairness

-----------------------------------------------------------------------------
(* Properties. *)

InSidecar(c) == pc[c] = "sidecar"

\* "exactly one probe per cooldown" (circuit_breaker.py, try_start_probe): at
\* most one call is the half-open probe, the breaker is half-open exactly while
\* that probe is unanswered, and no check sent before the breaker opened is
\* still unanswered by then, so only the probe's own answer can leave half-open.
ProbeExclusive ==
  /\ cbState = "HALF_OPEN" <=> \E c \in Calls : InSidecar(c) /\ isProbe[c]
  /\ \A c, d \in Calls :
       InSidecar(c) /\ isProbe[c] /\ InSidecar(d) => c = d

\* Break-glass is only ever in force after FAILURE_THRESHOLD failures with no
\* answer of the sidecar in between: the breaker is closed exactly while fewer
\* have been counted, through late answers, probes and re-trips.
ClosedBelowThreshold ==
  /\ cbState = "CLOSED" <=> failureCount < FailureThreshold
  /\ cbState = "OPEN" => openFor # NotOpened   \* the assert in try_start_probe

\* A tool runs only if the sidecar allowed this very call, or the sidecar gave
\* no verdict on it and the tool is on the break-glass list: a deny is never
\* overridden, whatever the breaker did in the meantime.
RunsOnlyIfAuthorised ==
  \A c \in Calls :
    executed[c] => \/ verdict[c] = "allow"
                   \/ /\ verdict[c] \in {"none", "error"}
                      /\ tool[c] \in BreakglassTools

\* The tool's response reaches the caller only complete, scanned and clean, and
\* the caller is told "denied by policy" only of a tool that did not run.
RepliesMatchRun ==
  \A c \in Calls :
    /\ reply[c] = 200 => executed[c] /\ content[c] = "clean"
    /\ reply[c] = 403 => ~executed[c]

\* What Governance is told agrees with what happened: an allow event exactly
\* for a 200, a denied event only for a 403, and a break-glass event exactly
\* when the sidecar's own verdict did not decide the call.
AuditAgreesWithReply ==
  \A c \in Calls :
    /\ event[c] \in {"mcp_tool_call", "breakglass_tool_call"} <=> reply[c] = 200
    /\ event[c] \in {"policy_denied", "breakglass_denied"} => reply[c] = 403
    /\ event[c] \in {"breakglass_denied", "breakglass_tool_call"} =>
         verdict[c] = "none" \/ (verdict[c] = "error" /\ isProbe[c])
    /\ event[c] = "mcp_tool_call" => verdict[c] = "allow"

\* Every accepted call is answered (or lost with its replica).
EveryCallAnswered ==
  \A c \in Calls : pc[c] = "sidecar" ~> pc[c] \in {"done", "idle"}

\* "success closes the breaker, failure reopens it" (mcpproxy/app/main.py): a
\* probe always resolves the half-open state.
HalfOpenResolves == cbState = "HALF_OPEN" ~> cbState # "HALF_OPEN"

\* "No manual reset is required for OPA recovery itself"
\* (docs/auth-architecture.md): once the sidecar stays up and calls keep
\* coming, the breaker closes for good.
SidecarRecovery ==
  (<>[]sidecarUp /\ []<><<\E c \in Calls, t \in Tools : Receive(c, t)>>_vars)
     => <>[](cbState = "CLOSED")
=============================================================================
