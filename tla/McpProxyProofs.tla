--------------------------- MODULE McpProxyProofs ---------------------------
(***************************************************************************)
(* Proofs about McpProxy: its type invariant, that the half-open probe is  *)
(* exclusive, that the breaker is closed exactly below the failure         *)
(* threshold, and that what runs, what is answered and what is audited     *)
(* agree -- for any number of concurrent calls and any threshold, cooldown *)
(* and sidecar timeout that satisfy the assumptions.                       *)
(***************************************************************************)
EXTENDS McpProxy, TLAPS

\* Type correctness of every reachable state of the proxy and its breaker.
THEOREM TypeCorrect == Spec => []TypeOK
<1>1. Init => TypeOK
  BY BreakerAssumption, McpAssumption
  DEF Init, BreakerInit, TypeOK, BreakerTypeOK, CircuitState, NotOpened, Phases
<1>2. TypeOK /\ [Next]_vars => TypeOK'
  <2> SUFFICES ASSUME TypeOK, [Next]_vars PROVE TypeOK'
    OBVIOUS
  <2> USE BreakerAssumption, McpAssumption
      DEF TypeOK, BreakerTypeOK, CircuitState, NotOpened, Phases, AuditPhases,
          EventTypes, Answers
  <2>1. ASSUME NEW c \in Calls, NEW t \in Tools, CallClosed(c, t) PROVE TypeOK'
    BY <2>1 DEF CallClosed, Begin, breakerVars
  <2>2. ASSUME NEW c \in Calls, NEW t \in Tools, CallProbe(c, t) PROVE TypeOK'
    BY <2>2 DEF CallProbe, TryStartProbe, Begin
  <2>3. ASSUME NEW c \in Calls, NEW t \in Tools, CallBreakglass(c, t) PROVE TypeOK'
    BY <2>3 DEF CallBreakglass, Begin, AfterDecision, breakerVars
  <2>4. ASSUME NEW c \in Calls, NEW t \in Tools, CallBadToken(c, t) PROVE TypeOK'
    BY <2>4 DEF CallBadToken, Begin, breakerVars
  <2>5. ASSUME NEW c \in Calls, NEW a \in {"allow", "deny"}, SidecarAnswers(c, a)
        PROVE TypeOK'
    BY <2>5 DEF SidecarAnswers, RecordSuccess, Decide, AfterDecision
  <2>6. ASSUME NEW c \in Calls, ProbeFails(c) PROVE TypeOK'
    BY <2>6 DEF ProbeFails, RecordProbeFailure, Trip, Decide, AfterDecision
  <2>7. ASSUME NEW c \in Calls, CheckFails(c) PROVE TypeOK'
    BY <2>7 DEF CheckFails, RecordFailure, Trip, Decide, AfterDecision
  <2>8. ASSUME NEW c \in Calls, SidecarNonObject(c) PROVE TypeOK'
    BY <2>8 DEF SidecarNonObject, breakerVars
  <2>9. ASSUME NEW c \in Calls, Downstream(c) PROVE TypeOK'
    <3>1. ASSUME NEW found \in {"clean", "pii"}, DownstreamReturns(c, found) PROVE TypeOK'
      BY <3>1 DEF DownstreamReturns, breakerVars
    <3>2. ASSUME DownstreamBreach(c) PROVE TypeOK'
      BY <3>2 DEF DownstreamBreach, breakerVars
    <3>3. ASSUME NEW ran \in BOOLEAN, DownstreamError(c, ran) PROVE TypeOK'
      <4>1. executed' \in [Calls -> BOOLEAN]
        BY <3>3, Zenon DEF DownstreamError
      <4> QED
        BY <3>3, <4>1 DEF DownstreamError, breakerVars
    <3> QED
      BY <2>9, <3>1, <3>2, <3>3 DEF Downstream
  <2>10. ASSUME NEW c \in Calls, Scan(c) PROVE TypeOK'
    BY <2>10 DEF Scan, ScanReturns, ScanFails, ScanUndecodable, breakerVars
  <2>11. ASSUME NEW c \in Calls, SendAuditEvent(c) PROVE TypeOK'
    BY <2>11 DEF SendAuditEvent, EventOf, StatusOf, breakerVars
  <2>12. ASSUME Tick PROVE TypeOK'
    BY <2>12 DEF Tick, BreakerTick
  <2>13. ASSUME SidecarToggles PROVE TypeOK'
    BY <2>13 DEF SidecarToggles, breakerVars, callVars
  <2>14. ASSUME Restart PROVE TypeOK'
    BY <2>14 DEF Restart
  <2>15. ASSUME UNCHANGED vars PROVE TypeOK'
    BY <2>15 DEF vars, breakerVars, callVars
  <2> QED
    BY <2>1, <2>2, <2>3, <2>4, <2>5, <2>6, <2>7, <2>8, <2>9, <2>10, <2>11, <2>12, <2>13,
       <2>14, <2>15 DEF Next, Receive, Sidecar
<1> QED
  BY <1>1, <1>2, PTL DEF Spec

-----------------------------------------------------------------------------
(* The breaker. *)

\* A check sent before the breaker opened is at least as old as the opening.
\* As a check lives for at most OpaTimeout < Cooldown, none is left when the
\* next probe is due: this is what makes the probe exclusive.
LateChecksOld ==
  \A c \in Calls : InSidecar(c) /\ ~isProbe[c] /\ cbState = "OPEN" => openFor <= age[c]

ProbeOnlyHalfOpen ==
  /\ \A c \in Calls : InSidecar(c) /\ isProbe[c] => cbState = "HALF_OPEN"
  /\ \A c, d \in Calls : InSidecar(c) /\ isProbe[c] /\ InSidecar(d) => c = d
  /\ cbState = "HALF_OPEN" => \A c \in Calls : InSidecar(c) => isProbe[c]

\* A half-open breaker has its probe in flight, unless the probe's answer can
\* leave the handler by an exception the handler does not know.
HalfOpenHasProbe ==
  ProbeGetsObject /\ cbState = "HALF_OPEN" =>
    \E c \in Calls : InSidecar(c) /\ isProbe[c]

BreakerInv ==
  /\ LateChecksOld
  /\ ProbeOnlyHalfOpen
  /\ HalfOpenHasProbe
  /\ ClosedBelowThreshold

\* A replica starts with a closed breaker and no check in flight (lifespan).
LEMMA BreakerInitial == Init => BreakerInv
  BY BreakerAssumption
  DEF Init, BreakerInit, BreakerInv, LateChecksOld, ProbeOnlyHalfOpen, HalfOpenHasProbe,
      ClosedBelowThreshold, InSidecar

\* A step that leaves the breaker, and every call's place in or out of the
\* sidecar check, as they are preserves BreakerInv.
LEMMA BreakerFrame ==
  ASSUME BreakerInv, UNCHANGED breakerVars,
         \A c \in Calls : InSidecar(c)' => InSidecar(c) /\ isProbe[c]' = isProbe[c] /\ age[c]' = age[c],
         \A c \in Calls : InSidecar(c) /\ isProbe[c] => InSidecar(c)' /\ isProbe[c]' = isProbe[c]
  PROVE  BreakerInv'
  BY DEF BreakerInv, LateChecksOld, ProbeOnlyHalfOpen, HalfOpenHasProbe,
         ClosedBelowThreshold, breakerVars, InSidecar

\* Every step of the proxy, its clock and its sidecar keeps BreakerInv.
LEMMA BreakerStep == TypeOK /\ BreakerInv /\ [Next]_vars => BreakerInv'
<1> SUFFICES ASSUME TypeOK, BreakerInv, [Next]_vars PROVE BreakerInv'
  OBVIOUS
<1> USE BreakerAssumption, McpAssumption DEF InSidecar
<1>1. ASSUME NEW c \in Calls, NEW t \in Tools, CallClosed(c, t) PROVE BreakerInv'
  BY <1>1 DEF CallClosed, IsClosed, Begin, breakerVars, TypeOK, BreakerTypeOK, BreakerInv,
     LateChecksOld, ProbeOnlyHalfOpen, HalfOpenHasProbe, ClosedBelowThreshold
<1>2. ASSUME NEW c \in Calls, NEW t \in Tools, CallProbe(c, t) PROVE BreakerInv'
  <2>1. \A d \in Calls : ~InSidecar(d)
    BY <1>2 DEF CallProbe, TryStartProbe, ProbeDue, TypeOK, BreakerTypeOK, BreakerInv,
       LateChecksOld, ProbeOnlyHalfOpen
  <2> QED
    BY <1>2, <2>1 DEF CallProbe, TryStartProbe, ProbeDue, Begin, TypeOK, BreakerTypeOK,
       BreakerInv, LateChecksOld, ProbeOnlyHalfOpen, HalfOpenHasProbe, ClosedBelowThreshold
<1>3. ASSUME NEW c \in Calls, NEW t \in Tools, CallBreakglass(c, t) PROVE BreakerInv'
  <2>1. \A d \in Calls : d # c => pc[d]' = pc[d] /\ isProbe[d]' = isProbe[d] /\ age[d]' = age[d]
    BY <1>3 DEF CallBreakglass, Begin, TypeOK
  <2>2. ~InSidecar(c) /\ ~InSidecar(c)'
    BY <1>3 DEF CallBreakglass, Begin, AfterDecision, TypeOK
  <2> QED
    BY <1>3, <2>1, <2>2, BreakerFrame DEF CallBreakglass
<1>4. ASSUME NEW c \in Calls, NEW t \in Tools, CallBadToken(c, t) PROVE BreakerInv'
  <2>1. \A d \in Calls : d # c => pc[d]' = pc[d] /\ isProbe[d]' = isProbe[d] /\ age[d]' = age[d]
    BY <1>4 DEF CallBadToken, Begin, TypeOK
  <2>2. ~InSidecar(c) /\ ~InSidecar(c)'
    BY <1>4 DEF CallBadToken, Begin, TypeOK
  <2> QED
    BY <1>4, <2>1, <2>2, BreakerFrame DEF CallBadToken
<1>5. ASSUME NEW c \in Calls, NEW a \in {"allow", "deny"}, SidecarAnswers(c, a)
      PROVE BreakerInv'
  BY <1>5 DEF SidecarAnswers, RecordSuccess, NotOpened, Decide, AfterDecision, TypeOK,
     BreakerTypeOK, BreakerInv, LateChecksOld, ProbeOnlyHalfOpen, HalfOpenHasProbe,
     ClosedBelowThreshold
<1>6. ASSUME NEW c \in Calls, ProbeFails(c) PROVE BreakerInv'
  BY <1>6 DEF ProbeFails, RecordProbeFailure, Trip, NotOpened, Decide, AfterDecision, TypeOK,
     BreakerTypeOK, BreakerInv, LateChecksOld, ProbeOnlyHalfOpen, HalfOpenHasProbe,
     ClosedBelowThreshold
<1>7. ASSUME NEW c \in Calls, CheckFails(c) PROVE BreakerInv'
  BY <1>7 DEF CheckFails, RecordFailure, Trip, NotOpened, Decide, AfterDecision, TypeOK,
     BreakerTypeOK, CircuitState, BreakerInv, LateChecksOld, ProbeOnlyHalfOpen,
     HalfOpenHasProbe, ClosedBelowThreshold
<1>8. ASSUME NEW c \in Calls, SidecarNonObject(c) PROVE BreakerInv'
  BY <1>8 DEF SidecarNonObject, breakerVars, TypeOK, BreakerInv, LateChecksOld,
     ProbeOnlyHalfOpen, HalfOpenHasProbe, ClosedBelowThreshold
<1>9. ASSUME NEW c \in Calls, Downstream(c) \/ Scan(c) \/ SendAuditEvent(c) PROVE BreakerInv'
  BY <1>9, BreakerFrame
  DEF Downstream, DownstreamReturns, DownstreamBreach, DownstreamError, Scan, ScanReturns,
      ScanFails, ScanUndecodable, SendAuditEvent, AuditPhases, breakerVars, TypeOK
<1>10. ASSUME Tick PROVE BreakerInv'
  BY <1>10 DEF Tick, BreakerTick, NotOpened, TypeOK, BreakerTypeOK, BreakerInv,
     LateChecksOld, ProbeOnlyHalfOpen, HalfOpenHasProbe, ClosedBelowThreshold
<1>11. ASSUME SidecarToggles \/ UNCHANGED vars PROVE BreakerInv'
  BY <1>11, BreakerFrame DEF SidecarToggles, vars, callVars, breakerVars
<1>12. ASSUME Restart PROVE BreakerInv'
  BY <1>12 DEF Restart, BreakerInv, LateChecksOld, ProbeOnlyHalfOpen, HalfOpenHasProbe,
     ClosedBelowThreshold
<1> QED
  BY <1>1, <1>2, <1>3, <1>4, <1>5, <1>6, <1>7, <1>8, <1>9, <1>10, <1>11, <1>12
  DEF Next, Receive, Sidecar

\* The inductive invariant of the breaker holds throughout: late checks are
\* older than the opening, and the half-open state belongs to its probe.
THEOREM BreakerInvariant == Spec => []BreakerInv
  BY TypeCorrect, BreakerInitial, BreakerStep, PTL DEF Spec

\* The breaker is closed exactly while fewer than FAILURE_THRESHOLD failures
\* have been counted since the sidecar last answered (record_failure,
\* record_success, record_probe_failure), for every interleaving of calls.
THEOREM ClosedBelowThresholdHolds == Spec => []ClosedBelowThreshold
<1>1. BreakerInv => ClosedBelowThreshold
  BY DEF BreakerInv
<1> QED
  BY <1>1, BreakerInvariant, PTL

\* try_start_probe's "exactly one probe", for any number of concurrent calls,
\* when every failure of a probe is an OpaCheckError.
THEOREM ProbeExclusiveHolds ==
  ASSUME ProbeGetsObject
  PROVE  Spec => []ProbeExclusive
<1>1. BreakerInv => ProbeExclusive
  BY DEF BreakerInv, ProbeOnlyHalfOpen, HalfOpenHasProbe, ProbeExclusive
<1> QED
  BY <1>1, BreakerInvariant, PTL

-----------------------------------------------------------------------------
(* Calls: what runs, what is answered, what is audited. *)

\* The sidecar allowed this call, or break-glass did in the sidecar's absence.
BySidecar(c) == verdict[c] = "allow" /\ ~usedBreakglass[c]
NoVerdict(c) == verdict[c] = "none" \/ (verdict[c] = "error" /\ isProbe[c])
ByBreakglass(c) == usedBreakglass[c] /\ NoVerdict(c) /\ tool[c] \in BreakglassTools
Authorised(c) == BySidecar(c) \/ ByBreakglass(c)

\* What is known of a call in each phase: a call that is not done has neither
\* reply nor event, a call past its decision is authorised, a call about to be
\* answered 200 holds a clean response.
PhaseInv(c) ==
  /\ pc[c] # "done" => reply[c] = 0 /\ event[c] = "none"
  /\ pc[c] \in {"idle", "sidecar", "deny_audit", "downstream"} => ~executed[c]
  /\ pc[c] = "sidecar" => verdict[c] = "none" /\ ~usedBreakglass[c]
  /\ pc[c] = "deny_audit" /\ usedBreakglass[c] => NoVerdict(c)
  /\ pc[c] \in {"downstream", "scan", "allow_audit", "block_audit"} => Authorised(c)
  /\ pc[c] = "scan" => executed[c] /\ content[c] \in {"clean", "pii"}
  /\ pc[c] = "allow_audit" => executed[c] /\ content[c] = "clean"

AnsweredInv(c) ==
  /\ executed[c] => Authorised(c)
  /\ reply[c] = 200 => executed[c] /\ content[c] = "clean"
  /\ reply[c] = 403 => ~executed[c]
  /\ event[c] \in {"mcp_tool_call", "breakglass_tool_call"} <=> reply[c] = 200
  /\ event[c] \in {"policy_denied", "breakglass_denied"} => reply[c] = 403
  /\ event[c] \in {"breakglass_denied", "breakglass_tool_call"} => NoVerdict(c)
  /\ event[c] = "mcp_tool_call" => verdict[c] = "allow"

CallInv == \A c \in Calls : PhaseInv(c) /\ AnsweredInv(c)

\* A call that a step leaves alone keeps its invariant.
LEMMA CallFrame ==
  ASSUME NEW d \in Calls, PhaseInv(d), AnsweredInv(d),
         pc[d]' = pc[d], tool[d]' = tool[d], isProbe[d]' = isProbe[d],
         usedBreakglass[d]' = usedBreakglass[d], verdict[d]' = verdict[d],
         executed[d]' = executed[d], content[d]' = content[d], event[d]' = event[d],
         reply[d]' = reply[d]
  PROVE  (PhaseInv(d) /\ AnsweredInv(d))'
  BY DEF PhaseInv, AnsweredInv, Authorised, BySidecar, ByBreakglass, NoVerdict

\* Every step of the proxy keeps CallInv.
LEMMA CallStep == TypeOK /\ CallInv /\ [Next]_vars => CallInv'
<1> SUFFICES ASSUME TypeOK, CallInv, [Next]_vars, NEW d \in Calls
             PROVE  (PhaseInv(d) /\ AnsweredInv(d))'
  BY DEF CallInv
<1>0. PhaseInv(d) /\ AnsweredInv(d)
  BY DEF CallInv
<1>1. ASSUME NEW c \in Calls, NEW t \in Tools, Receive(c, t) \/ CallBadToken(c, t), c # d
      PROVE  (PhaseInv(d) /\ AnsweredInv(d))'
  BY <1>0, <1>1, CallFrame
  DEF Receive, CallClosed, CallProbe, CallBreakglass, CallBadToken, Begin, TypeOK
<1>2. ASSUME NEW c \in Calls, Sidecar(c), c # d
      PROVE  (PhaseInv(d) /\ AnsweredInv(d))'
  <2>1. /\ UNCHANGED <<tool, isProbe, executed, content, event>>
        /\ pc[d]' = pc[d] /\ usedBreakglass[d]' = usedBreakglass[d]
        /\ verdict[d]' = verdict[d] /\ reply[d]' = reply[d]
    BY <1>2 DEF Sidecar, SidecarAnswers, ProbeFails, CheckFails, SidecarNonObject, Decide,
       AfterDecision, BreakglassAllowed, TypeOK
  <2> QED
    BY <1>0, <2>1, CallFrame
<1>3. ASSUME NEW c \in Calls, Downstream(c) \/ Scan(c) \/ SendAuditEvent(c), c # d
      PROVE  (PhaseInv(d) /\ AnsweredInv(d))'
  BY <1>0, <1>3, CallFrame
  DEF Downstream, DownstreamReturns, DownstreamBreach, DownstreamError, Scan, ScanReturns,
      ScanFails, ScanUndecodable, SendAuditEvent, TypeOK
<1>4. ASSUME Tick \/ SidecarToggles \/ UNCHANGED vars PROVE (PhaseInv(d) /\ AnsweredInv(d))'
  BY <1>0, <1>4, CallFrame DEF Tick, SidecarToggles, vars, callVars
<1> USE DEF PhaseInv, AnsweredInv, Authorised, BySidecar, ByBreakglass, NoVerdict
<1>5. ASSUME Restart PROVE (PhaseInv(d) /\ AnsweredInv(d))'
  BY <1>5 DEF Restart
<1>6. ASSUME NEW t \in Tools, CallClosed(d, t) \/ CallProbe(d, t) \/ CallBadToken(d, t)
      PROVE  (PhaseInv(d) /\ AnsweredInv(d))'
  BY <1>6 DEF CallClosed, CallProbe, CallBadToken, Begin, TypeOK
<1>7. ASSUME NEW t \in Tools, CallBreakglass(d, t) PROVE (PhaseInv(d) /\ AnsweredInv(d))'
  BY <1>7 DEF CallBreakglass, Begin, AfterDecision, BreakglassAllowed, TypeOK
<1>8. ASSUME NEW a \in {"allow", "deny"}, SidecarAnswers(d, a)
      PROVE  (PhaseInv(d) /\ AnsweredInv(d))'
  BY <1>0, <1>8 DEF SidecarAnswers, Decide, AfterDecision, TypeOK
<1>9. ASSUME ProbeFails(d) PROVE (PhaseInv(d) /\ AnsweredInv(d))'
  BY <1>0, <1>9 DEF ProbeFails, Decide, AfterDecision, BreakglassAllowed, TypeOK
<1>10. ASSUME CheckFails(d) PROVE (PhaseInv(d) /\ AnsweredInv(d))'
  BY <1>0, <1>10 DEF CheckFails, Decide, AfterDecision, TypeOK
<1>11. ASSUME SidecarNonObject(d) PROVE (PhaseInv(d) /\ AnsweredInv(d))'
  BY <1>0, <1>11 DEF SidecarNonObject, TypeOK
<1>12. ASSUME NEW found \in {"clean", "pii"}, DownstreamReturns(d, found)
       PROVE  (PhaseInv(d) /\ AnsweredInv(d))'
  BY <1>0, <1>12 DEF DownstreamReturns, TypeOK
<1>13. ASSUME DownstreamBreach(d) PROVE (PhaseInv(d) /\ AnsweredInv(d))'
  BY <1>0, <1>13 DEF DownstreamBreach, TypeOK
<1>14. ASSUME NEW ran \in BOOLEAN, DownstreamError(d, ran)
       PROVE  (PhaseInv(d) /\ AnsweredInv(d))'
  BY <1>0, <1>14 DEF DownstreamError, TypeOK
<1>15. ASSUME Scan(d) PROVE (PhaseInv(d) /\ AnsweredInv(d))'
  BY <1>0, <1>15 DEF Scan, ScanReturns, ScanFails, ScanUndecodable, TypeOK
<1>16. ASSUME SendAuditEvent(d) PROVE (PhaseInv(d) /\ AnsweredInv(d))'
  BY <1>0, <1>16 DEF SendAuditEvent, AuditPhases, EventOf, StatusOf, TypeOK
<1> QED
  BY <1>1, <1>2, <1>3, <1>4, <1>5, <1>6, <1>7, <1>8, <1>9, <1>10, <1>11, <1>12, <1>13,
     <1>14, <1>15, <1>16
  DEF Next, Receive, Sidecar, Downstream

\* The inductive invariant of the calls holds throughout: each phase of the
\* handler is reached only with the authority, the response and the event it
\* needs.
THEOREM CallInvariant == Spec => []CallInv
<1>1. Init => CallInv
  BY DEF Init, CallInv, PhaseInv, AnsweredInv
<1> QED
  BY <1>1, TypeCorrect, CallStep, PTL DEF Spec

\* No tool runs without the sidecar's allow for this very call or, when the
\* sidecar gave no verdict, a place on the break-glass list
\* (mcpproxy/app/main.py, call).
THEOREM RunsOnlyIfAuthorisedHolds == Spec => []RunsOnlyIfAuthorised
<1>1. CallInv => RunsOnlyIfAuthorised
  BY DEF CallInv, AnsweredInv, Authorised, BySidecar, ByBreakglass, NoVerdict,
         RunsOnlyIfAuthorised
<1> QED
  BY <1>1, CallInvariant, PTL

\* A 200 carries a clean, scanned response of a tool that ran; a 403 means that
\* the tool did not run (mcpproxy/app/main.py, call).
THEOREM RepliesMatchRunHolds == Spec => []RepliesMatchRun
<1>1. CallInv => RepliesMatchRun
  BY DEF CallInv, AnsweredInv, RepliesMatchRun
<1> QED
  BY <1>1, CallInvariant, PTL

\* The audit event posted for a call agrees with its reply and with who decided
\* it (mcpproxy/app/main.py, call and _send_audit_event).
THEOREM AuditAgreesWithReplyHolds == Spec => []AuditAgreesWithReply
<1>1. CallInv => AuditAgreesWithReply
  BY DEF CallInv, AnsweredInv, NoVerdict, AuditAgreesWithReply
<1> QED
  BY <1>1, CallInvariant, PTL
=============================================================================
