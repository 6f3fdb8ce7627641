---------------------------- MODULE GatewayProofs ----------------------------
(***************************************************************************)
(* Proofs about GatewayPipeline composed with Governance: its type         *)
(* invariant, that a provider only ever receives what the inspection in    *)
(* hand allowed (GovernedDispatch), and that the usage log tells what      *)
(* happened (UsageLogFaithful) -- for any set of requests, any number of   *)
(* attempts and any set of faults.                                         *)
(***************************************************************************)
EXTENDS GatewayPipeline, TLAPS

-----------------------------------------------------------------------------
(* Type correctness. *)

\* How many attempts a request can have made at each await, and that there is an
\* outcome to log.
AwaitInv ==
  \A r \in Requests :
    /\ at[r] \in {"idle", "gate", "limit"} => attempt[r] = 0
    /\ at[r] = "backoff" => attempt[r] < MaxAttempts
    /\ at[r] \in {"inspect", "dispatch", "stream"} => attempt[r] > 0
    /\ at[r] = "log" => status[r] \in Statuses

TypeInv == TypeOK /\ AwaitInv

\* The part of the type invariant that the ways of leaving an await touch.
ControlOK ==
  /\ at \in [Requests -> Phases]
  /\ status \in [Requests -> Statuses \cup {"none"}]
  /\ reply \in [Requests -> Replies]

\* The members of the enumerations, so that they need not be expanded.
LEMMA Members ==
  /\ "gate" \in Phases /\ "limit" \in Phases /\ "inspect" \in Phases
  /\ "backoff" \in Phases /\ "dispatch" \in Phases /\ "stream" \in Phases
  /\ "log" \in Phases /\ "done" \in Phases /\ "lost" \in Phases
  /\ "refused" \in Replies /\ "blocked" \in Replies /\ "unavailable" \in Replies
  /\ "internal_error" \in Replies /\ "streaming" \in Replies /\ "streamed" \in Replies
  /\ "response" \in Replies /\ "provider_error" \in Replies
  /\ "allowed" \in Statuses /\ "blocked" \in Statuses /\ "errored" \in Statuses
BY DEF Phases, Replies, Statuses

\* A step of the proxy that leaves the service alone leaves it well typed.
LEMMA GovFrame ==
  ASSUME GovTypeOK, UNCHANGED textVars, UNCHANGED govVars PROVE GovTypeOK'
BY DEF GovTypeOK, textVars, govVars

\* Leaving the pipeline with an outcome to log.
LEMMA SettleControl ==
  ASSUME TypeInv, NEW r \in Requests, NEW outcome \in Statuses, NEW answer \in Replies,
         Settle(r, outcome, answer), attempt' = attempt
  PROVE  ControlOK' /\ AwaitInv'
<1>1. ControlOK'
  BY Members DEF TypeInv, ControlOK, TypeOK, Settle
<1>2. AwaitInv'
  BY DEF TypeInv, TypeOK, AwaitInv, Settle
<1> QED
  BY <1>1, <1>2

\* Leaving the pipeline with an exception nothing logs.
LEMMA EscapeControl ==
  ASSUME TypeInv, NEW r \in Requests, NEW answer \in Replies,
         Escape(r, answer), attempt' = attempt
  PROVE  ControlOK' /\ AwaitInv'
<1>1. ControlOK'
  BY Members DEF TypeInv, ControlOK, TypeOK, Escape
<1>2. AwaitInv'
  BY DEF TypeInv, TypeOK, AwaitInv, Escape
<1> QED
  BY <1>1, <1>2

\* Going on to the next await.
LEMMA GotoControl ==
  ASSUME TypeInv, NEW r \in Requests, NEW phase \in Phases \ {"idle", "log"},
         Goto(r, phase), attempt' = attempt,
         phase \in {"gate", "limit"} => attempt[r] = 0,
         phase = "backoff" => attempt[r] < MaxAttempts,
         phase \in {"inspect", "dispatch", "stream"} => attempt[r] > 0
  PROVE  ControlOK' /\ AwaitInv'
<1>1. ControlOK'
  BY DEF TypeInv, ControlOK, TypeOK, Goto
<1>2. AwaitInv'
  BY DEF TypeInv, TypeOK, AwaitInv, Goto
<1> QED
  BY <1>1, <1>2

\* A step of the governance service keeps the service's variables well typed.
LEMMA GovStepType ==
  ASSUME GovTypeOK, NEW i \in Inspections, GovStep(i) PROVE GovTypeOK'
<1> USE DEF GovTypeOK, textVars, Stages
<1>1. CASE Admit(i)
  BY <1>1 DEF Admit
<1>2. ASSUME NEW how \in {"refused", "unavailable"}, TurnAway(i, how) PROVE GovTypeOK'
  BY <1>2 DEF TurnAway
<1>3. ASSUME NEW result \in {"ok", "error"}, PiiStage(i, result) PROVE GovTypeOK'
  BY <1>3 DEF PiiStage
<1>4. ASSUME NEW result \in {"ok", "error"}, HarmReturns(i, result) PROVE GovTypeOK'
  BY <1>4 DEF HarmReturns
<1>5. ASSUME NEW result \in {"allow", "deny", "error"}, OpaReturns(i, result)
      PROVE GovTypeOK'
  BY <1>5 DEF OpaReturns
<1>6. CASE Conclude(i)
  <2>1. Verdict(i) \in {"allow", "block"}
    BY DEF Verdict
  <2> QED
    BY <1>6, <2>1 DEF Conclude
<1>7. ASSUME NEW result \in {"written", "lost"}, WriteAudit(i, result) PROVE GovTypeOK'
  BY <1>7 DEF WriteAudit
<1> QED
  BY <1>1, <1>2, <1>3, <1>4, <1>5, <1>6, <1>7 DEF GovStep

\* Type correctness of both services, with the facts about awaits it needs.
LEMMA TypeInvariant == Spec => []TypeInv
<1>1. Init => TypeInv
  BY GovernanceAssumption
  DEF Init, GovInit, TypeInv, TypeOK, GovTypeOK, AwaitInv, Phases, Statuses, Replies,
      Stages, Attempts
<1>2. TypeInv /\ [Next]_vars => TypeInv'
  <2> SUFFICES ASSUME TypeInv, [Next]_vars PROVE TypeInv'
    OBVIOUS
  <2> USE GovernanceAssumption
  <2>1. ASSUME NEW r \in Requests, Arrive(r) \/ ArriveUnclaimed(r) PROVE TypeInv'
    <3>1. attempt[r] = 0
      BY <2>1 DEF Arrive, ArriveUnclaimed, TypeInv, AwaitInv
    <3>2. ControlOK' /\ AwaitInv'
      BY <2>1, <3>1, Members, GotoControl, EscapeControl DEF Arrive, ArriveUnclaimed
    <3> QED
      BY <2>1, <3>2, GovFrame DEF Arrive, ArriveUnclaimed, TypeInv, TypeOK, ControlOK
  <2>2. ASSUME NEW r \in Requests, Gate(r) \/ RateLimit(r) PROVE TypeInv'
    <3>1. attempt[r] = 0
      BY <2>2 DEF Gate, RateLimit, TypeInv, AwaitInv
    <3>2. ControlOK' /\ AwaitInv'
      BY <2>2, <3>1, Members, GotoControl, SettleControl, EscapeControl DEF Gate, RateLimit
    <3> QED
      BY <2>2, <3>2, GovFrame DEF Gate, RateLimit, TypeInv, TypeOK, ControlOK
  <2>3. ASSUME NEW r \in Requests, PostInspect(r) PROVE TypeInv'
    <3> USE <2>3 DEF TypeInv, PostInspect, Goto
    <3>1. attempt[r] \in 0..MaxAttempts /\ attempt[r] < MaxAttempts
      BY DEF TypeOK, AwaitInv
    <3>2. attempt' \in [Requests -> 0..MaxAttempts]
      BY <3>1 DEF TypeOK
    <3>3. GovTypeOK'
      BY DEF TypeOK, GovTypeOK, textVars, Stages
    <3>4. AwaitInv'
      BY <3>1 DEF TypeOK, AwaitInv
    <3> QED
      BY <3>2, <3>3, <3>4, Members DEF TypeOK
  <2>4. ASSUME NEW r \in Requests, Inspect(r) PROVE TypeInv'
    <3> USE DEF Inspect, InspectTimesOut, InspectUnavailable, InspectRefused,
                InspectGarbled, InspectBlocks, InspectAllows
    <3>1. attempt[r] > 0 /\ attempt[r] \in 0..MaxAttempts
      BY <2>4 DEF TypeInv, TypeOK, AwaitInv
    <3>2. ControlOK' /\ AwaitInv'
      BY <2>4, <3>1, Members, GotoControl, SettleControl, EscapeControl DEF Retry
    <3> QED
      BY <2>4, <3>2, GovFrame DEF TypeInv, TypeOK, ControlOK, Retry
  <2>5. ASSUME NEW r \in Requests, Dispatch(r) PROVE TypeInv'
    <3>1. CASE DispatchSends(r)
      BY <3>1, GovFrame DEF DispatchSends, Text, TypeInv, TypeOK, AwaitInv
    <3>2. CASE ProviderStreams(r)
      <4> USE <3>2 DEF ProviderStreams, TypeInv
      <4>1. AwaitInv'
        BY DEF TypeOK, AwaitInv
      <4> QED
        BY <4>1, GovFrame, Members DEF TypeOK
    <3>3. CASE ~DispatchSends(r) /\ ~ProviderStreams(r)
      <4> USE <2>5, <3>3 DEF Dispatch, DispatchRefused, DispatchLocalError, ProviderAnswers,
                             ProviderFails, StreamEnds, StreamAbandoned
      <4>1. ControlOK' /\ AwaitInv'
        BY Members, SettleControl, EscapeControl
      <4> QED
        BY <4>1, GovFrame DEF TypeInv, TypeOK, ControlOK
    <3> QED
      BY <3>1, <3>2, <3>3
  <2>6. ASSUME NEW r \in Requests, LogOutcome(r) PROVE TypeInv'
    <3> USE <2>6 DEF LogOutcome, TypeInv
    <3>1. status[r] \in Statuses
      BY DEF AwaitInv
    <3>2. usageLog' \in [Requests -> Seq(Statuses)]
      <4>1. usageLog \in [Requests -> Seq(Statuses)]
        BY DEF TypeOK
      <4>2. Append(usageLog[r], status[r]) \in Seq(Statuses)
        BY <3>1, <4>1
      <4> QED
        BY <4>1, <4>2
    <3>3. reply' \in [Requests -> Replies]
      BY Members DEF TypeOK
    <3>4. AwaitInv'
      BY DEF TypeOK, AwaitInv
    <3> QED
      BY <3>2, <3>3, <3>4, GovFrame, Members DEF TypeOK
  <2>7. ASSUME NEW i \in Inspections, GovStep(i), UNCHANGED proxyVars PROVE TypeInv'
    BY <2>7, GovStepType DEF proxyVars, TypeInv, TypeOK, AwaitInv
  <2>8. ASSUME GovRestart, UNCHANGED proxyVars PROVE TypeInv'
    <3>1. GovTypeOK'
      BY <2>8 DEF GovRestart, TypeInv, TypeOK, GovTypeOK, textVars, Stages
    <3> QED
      BY <2>8, <3>1 DEF proxyVars, TypeInv, TypeOK, AwaitInv
  <2>9. ASSUME ProxyRestart PROVE TypeInv'
    BY <2>9, GovFrame, Members DEF ProxyRestart, TypeInv, TypeOK, AwaitInv
  <2>10. CASE UNCHANGED vars
    BY <2>10, GovFrame DEF vars, proxyVars, TypeInv, TypeOK, AwaitInv
  <2> QED
    BY <2>1, <2>2, <2>3, <2>4, <2>5, <2>6, <2>7, <2>8, <2>9, <2>10 DEF Next, ProxyStep
<1> QED
  BY <1>1, <1>2, PTL DEF Spec

\* Type correctness of every reachable state of the proxy and of governance.
THEOREM TypeCorrect == Spec => []TypeOK
<1>1. TypeInv => TypeOK
  BY DEF TypeInv
<1> QED
  BY <1>1, TypeInvariant, PTL

-----------------------------------------------------------------------------
(* What an answered inspection says. *)

\* A failed PII scan has already blocked, and an answer that allows rests on a
\* PII scan that worked, OPA's allow, and a harm scan that passed or failed open.
InspectionOK(i) ==
  /\ stage[i] \in {"checks", "answered"} => piiScan[i] # "none"
  /\ stage[i] = "checks" /\ piiScan[i] = "error" => decision[i] = "block"
  /\ stage[i] = "answered" /\ decision[i] = "allow" =>
       /\ piiScan[i] = "ok"
       /\ opaCheck[i] = "allow"
       /\ harmful[i[1]] => harmScan[i] = "error"

InspectionInv == \A i \in Inspections : InspectionOK(i)

\* An inspection whose own variables do not change stays as it is.
LEMMA InspectionFrame ==
  ASSUME NEW i \in Inspections, InspectionOK(i), harmful' = harmful,
         stage'[i] = stage[i], piiScan'[i] = piiScan[i], harmScan'[i] = harmScan[i],
         opaCheck'[i] = opaCheck[i], decision'[i] = decision[i]
  PROVE  InspectionOK(i)'
BY DEF InspectionOK

\* Every step of either service keeps InspectionInv.
LEMMA InspectionStep ==
  ASSUME TypeInv, InspectionInv, [Next]_vars PROVE InspectionInv'
<1> SUFFICES ASSUME NEW j \in Inspections PROVE InspectionOK(j)'
  BY DEF InspectionInv
<1>1. InspectionOK(j)
  BY DEF InspectionInv
<1>2. GovTypeOK
  BY DEF TypeInv, TypeOK
<1>3. ASSUME UNCHANGED textVars, UNCHANGED govVars PROVE InspectionOK(j)'
  BY <1>1, <1>3, InspectionFrame DEF textVars, govVars
<1>4. ASSUME NEW r \in Requests, PostInspect(r) PROVE InspectionOK(j)'
  BY <1>1, <1>2, <1>4 DEF PostInspect, InspectionOK, GovTypeOK, textVars
<1>5. ASSUME NEW r \in Requests, Arrive(r) \/ ArriveUnclaimed(r) \/ Gate(r) \/ RateLimit(r)
      PROVE InspectionOK(j)'
  BY <1>3, <1>5 DEF Arrive, ArriveUnclaimed, Gate, RateLimit
<1>6. ASSUME NEW r \in Requests, Inspect(r) PROVE InspectionOK(j)'
  BY <1>3, <1>6 DEF Inspect, InspectTimesOut, InspectUnavailable, InspectRefused,
                    InspectGarbled, InspectBlocks, InspectAllows, Retry
<1>7. ASSUME NEW r \in Requests, Dispatch(r) \/ LogOutcome(r) PROVE InspectionOK(j)'
  BY <1>3, <1>7 DEF Dispatch, DispatchRefused, DispatchLocalError, DispatchSends,
                    ProviderAnswers, ProviderStreams, ProviderFails, StreamEnds,
                    StreamAbandoned, LogOutcome
<1>8. ASSUME NEW i \in Inspections, GovStep(i) PROVE InspectionOK(j)'
  <2> USE <1>1, <1>2 DEF InspectionOK, GovTypeOK, textVars
  <2>1. CASE Admit(i)
    BY <2>1 DEF Admit
  <2>2. ASSUME NEW how \in {"refused", "unavailable"}, TurnAway(i, how)
        PROVE InspectionOK(j)'
    BY <2>2 DEF TurnAway
  <2>3. ASSUME NEW result \in {"ok", "error"}, PiiStage(i, result) PROVE InspectionOK(j)'
    BY <2>3 DEF PiiStage
  <2>4. ASSUME NEW result \in {"ok", "error"}, HarmReturns(i, result)
        PROVE InspectionOK(j)'
    BY <2>4 DEF HarmReturns
  <2>5. ASSUME NEW result \in {"allow", "deny", "error"}, OpaReturns(i, result)
        PROVE InspectionOK(j)'
    BY <2>5 DEF OpaReturns
  <2>6. CASE Conclude(i)
    BY <2>6 DEF Conclude, Verdict
  <2>7. ASSUME NEW result \in {"written", "lost"}, WriteAudit(i, result)
        PROVE InspectionOK(j)'
    BY <2>7 DEF WriteAudit
  <2> QED
    BY <1>8, <2>1, <2>2, <2>3, <2>4, <2>5, <2>6, <2>7 DEF GovStep
<1>9. ASSUME GovRestart PROVE InspectionOK(j)'
  BY <1>1, <1>2, <1>9 DEF GovRestart, InspectionOK, GovTypeOK, textVars
<1>10. ASSUME ProxyRestart PROVE InspectionOK(j)'
  BY <1>3, <1>10 DEF ProxyRestart
<1>11. CASE UNCHANGED vars
  BY <1>3, <1>11 DEF vars
<1> QED
  BY <1>4, <1>5, <1>6, <1>7, <1>8, <1>9, <1>10, <1>11 DEF Next, ProxyStep

-----------------------------------------------------------------------------
(* What a request did and what is said about it. *)

\* The inspection in hand was answered with decision d.
Ruling(r, d) ==
  /\ attempt[r] > 0
  /\ stage[Current(r)] = "answered"
  /\ decision[Current(r)] = d

RequestOK(r) ==
  /\ at[r] \in {"idle", "gate", "limit", "backoff", "inspect"} => sent[r] = "none"
  /\ at[r] \in {"dispatch", "stream"} => Ruling(r, "allow")
  /\ at[r] \notin {"log", "done", "lost"} => status[r] = "none" /\ reply[r] # "blocked"
  /\ at[r] \notin {"done", "lost"} => usageLog[r] = <<>>
  /\ sent[r] # "none" => Ruling(r, "allow") /\ (hasPii[r] => sent[r] = "redacted")
  /\ status[r] \in {"blocked", "errored"} => sent[r] = "none"
  /\ status[r] = "blocked" \/ reply[r] = "blocked" => Ruling(r, "block")
  /\ usageLog[r] = <<>> \/ usageLog[r] = <<status[r]>>

RequestInv == \A r \in Requests : RequestOK(r)

\* A request whose own variables do not change stays as it is, provided its
\* answered inspection does.
LEMMA RequestFrame ==
  ASSUME NEW r \in Requests, RequestOK(r), hasPii' = hasPii,
         at'[r] = at[r], attempt'[r] = attempt[r], sent'[r] = sent[r],
         status'[r] = status[r], usageLog'[r] = usageLog[r], reply'[r] = reply[r],
         attempt[r] > 0 /\ stage[Current(r)] = "answered" =>
           /\ stage'[Current(r)] = "answered"
           /\ decision'[Current(r)] = decision[Current(r)]
  PROVE  RequestOK(r)'
BY DEF RequestOK, Ruling, Current

\* No step of the service changes an inspection it has answered.
LEMMA AnsweredStable ==
  ASSUME GovTypeOK, NEW j \in Inspections, stage[j] = "answered",
         (\E i \in Inspections : GovStep(i)) \/ GovRestart
  PROVE  /\ stage'[j] = "answered"
         /\ decision'[j] = decision[j]
         /\ hasPii' = hasPii
<1> USE DEF GovTypeOK, textVars
<1>1. ASSUME NEW i \in Inspections, GovStep(i)
      PROVE stage'[j] = "answered" /\ decision'[j] = decision[j] /\ hasPii' = hasPii
  BY <1>1 DEF GovStep, Admit, TurnAway, PiiStage, HarmReturns, OpaReturns, Conclude, WriteAudit
<1>2. CASE GovRestart
  BY <1>2 DEF GovRestart
<1> QED
  BY <1>1, <1>2

\* Every step of either service keeps RequestInv.
LEMMA RequestStep ==
  ASSUME TypeInv, InspectionInv, RequestInv, [Next]_vars PROVE RequestInv'
<1> SUFFICES ASSUME NEW q \in Requests PROVE RequestOK(q)'
  BY DEF RequestInv
<1>1. RequestOK(q)
  BY DEF RequestInv
<1>2. /\ at \in [Requests -> Phases] /\ sent \in [Requests -> {"none", "raw", "redacted"}]
      /\ attempt \in [Requests -> 0..MaxAttempts]
      /\ status \in [Requests -> Statuses \cup {"none"}]
      /\ usageLog \in [Requests -> Seq(Statuses)] /\ reply \in [Requests -> Replies]
  BY DEF TypeInv, TypeOK
<1>3. attempt[q] > 0 => Current(q) \in Inspections
  BY <1>2, GovernanceAssumption DEF Current, Inspections, Attempts
<1>4. ASSUME UNCHANGED textVars, UNCHANGED govVars, NEW r \in Requests, q # r,
             \A p \in Requests \ {r} :
               /\ at'[p] = at[p] /\ attempt'[p] = attempt[p] /\ sent'[p] = sent[p]
               /\ status'[p] = status[p] /\ usageLog'[p] = usageLog[p]
               /\ reply'[p] = reply[p]
      PROVE RequestOK(q)'
  BY <1>1, <1>4, RequestFrame DEF textVars, govVars
<1>5. ASSUME NEW r \in Requests, Arrive(r) \/ ArriveUnclaimed(r) PROVE RequestOK(q)'
  <2>1. CASE q # r
    BY <1>2, <1>4, <1>5, <2>1 DEF Arrive, ArriveUnclaimed, Goto, Escape
  <2>2. CASE q = r
    BY <1>1, <1>2, <1>5, <2>2
    DEF Arrive, ArriveUnclaimed, Goto, Escape, RequestOK, Ruling, Current, textVars, govVars
  <2> QED
    BY <2>1, <2>2
<1>6. ASSUME NEW r \in Requests, Gate(r) \/ RateLimit(r) PROVE RequestOK(q)'
  <2>1. CASE q # r
    BY <1>2, <1>4, <1>6, <2>1 DEF Gate, RateLimit, Goto, Escape, Settle
  <2>2. CASE q = r
    BY <1>1, <1>2, <1>6, <2>2
    DEF Gate, RateLimit, Goto, Escape, Settle, RequestOK, Ruling, Current, textVars, govVars
  <2> QED
    BY <2>1, <2>2
<1>7. ASSUME NEW r \in Requests, PostInspect(r) PROVE RequestOK(q)'
  <2>1. CASE q # r
    <3>1. attempt[q] > 0 => stage'[Current(q)] = stage[Current(q)]
      BY <1>2, <1>3, <1>7, <2>1 DEF PostInspect, Current, TypeInv, TypeOK, GovTypeOK
    <3> QED
      BY <1>1, <1>2, <1>7, <2>1, <3>1, RequestFrame DEF PostInspect, Goto, textVars
  <2>2. CASE q = r
    BY <1>1, <1>2, <1>7, <2>2 DEF PostInspect, Goto, RequestOK, Ruling, textVars
  <2> QED
    BY <2>1, <2>2
<1>8. ASSUME NEW r \in Requests, Inspect(r) PROVE RequestOK(q)'
  <2> USE DEF Inspect, InspectTimesOut, InspectUnavailable, InspectRefused,
              InspectGarbled, InspectBlocks, InspectAllows, Retry
  <2>1. CASE q # r
    BY <1>2, <1>4, <1>8, <2>1 DEF Goto, Escape, Settle
  <2>2. CASE q = r
    <3>1. /\ at[r] = "inspect"
          /\ UNCHANGED textVars /\ UNCHANGED govVars
          /\ UNCHANGED attempt /\ UNCHANGED sent /\ UNCHANGED usageLog
      BY <1>8
    <3>2. decision[Current(r)] \in {"allow", "block"} /\ attempt[r] > 0
      BY <1>2, <1>3, <2>2, <3>1 DEF TypeInv, TypeOK, GovTypeOK, AwaitInv
    <3>3. status[r] = "none" /\ reply[r] # "blocked" /\ sent'[r] = "none" /\ usageLog'[r] = <<>>
      BY <1>1, <2>2, <3>1 DEF RequestOK
    <3>4. CASE InspectTimesOut(r) \/ InspectUnavailable(r) \/ InspectRefused(r) \/ InspectGarbled(r)
      <4>1. /\ at'[r] \in {"backoff", "log", "done"}
            /\ at'[r] = "backoff" => status'[r] = "none"
            /\ status'[r] \in {"none", "errored"}
            /\ reply'[r] # "blocked"
        BY <1>2, <3>3, <3>4 DEF Goto, Settle, Escape
      <4> QED
        BY <2>2, <3>3, <4>1 DEF RequestOK
    <3>5. CASE InspectBlocks(r)
      <4>1. at'[r] = "log" /\ status'[r] = "blocked"
        BY <1>2, <3>5 DEF Settle
      <4>2. Ruling(r, "block")'
        BY <3>1, <3>2, <3>5 DEF Ruling, Current, govVars
      <4> QED
        BY <2>2, <3>3, <4>1, <4>2 DEF RequestOK
    <3>6. CASE InspectAllows(r)
      <4>1. at'[r] = "dispatch" /\ status'[r] = "none" /\ reply'[r] # "blocked"
        BY <1>2, <3>3, <3>6 DEF Goto
      <4>2. Ruling(r, "allow")'
        BY <3>1, <3>2, <3>6 DEF Ruling, Current, govVars
      <4> QED
        BY <2>2, <3>3, <4>1, <4>2 DEF RequestOK
    <3> QED
      BY <1>8, <3>4, <3>5, <3>6
  <2> QED
    BY <2>1, <2>2
<1>9. ASSUME NEW r \in Requests, Dispatch(r) PROVE RequestOK(q)'
  <2> USE DEF Dispatch, DispatchRefused, DispatchLocalError, DispatchSends,
              ProviderAnswers, ProviderStreams, ProviderFails, StreamEnds, StreamAbandoned
  <2>1. CASE q # r
    BY <1>2, <1>4, <1>9, <2>1 DEF Escape, Settle
  <2>2. CASE q = r /\ DispatchSends(r)
    <3>1. Ruling(r, "allow")
      BY <1>1, <2>2 DEF RequestOK
    <3>2. piiScan[Current(r)] = "ok"
      BY <1>3, <2>2, <3>1 DEF InspectionInv, InspectionOK, Ruling
    <3>3. hasPii[r] => Text(r) = "redacted"
      BY <3>2 DEF Text, Findings, Current
    <3> QED
      BY <1>1, <1>2, <2>2, <3>1, <3>3 DEF RequestOK, Ruling, Current, textVars, govVars
  <2>3. CASE q = r /\ ~DispatchSends(r)
    <3>1. /\ at[r] \in {"dispatch", "stream"}
          /\ UNCHANGED textVars /\ UNCHANGED govVars
          /\ UNCHANGED attempt /\ UNCHANGED sent /\ UNCHANGED usageLog
      BY <1>9, <2>3
    <3>2. Ruling(r, "allow") /\ status[r] = "none" /\ usageLog[r] = <<>>
      BY <1>1, <2>3, <3>1 DEF RequestOK
    <3>3. Ruling(r, "allow")' /\ usageLog'[r] = <<>> /\ sent'[r] = sent[r] /\ hasPii' = hasPii
      BY <3>1, <3>2 DEF Ruling, Current, textVars, govVars
    <3>4. CASE ProviderStreams(r)
      <4>1. at'[r] = "stream" /\ status'[r] = "none" /\ reply'[r] = "streaming"
        BY <1>2, <3>2, <3>4
      <4> QED
        BY <1>1, <2>3, <3>3, <4>1 DEF RequestOK
    <3>5. CASE DispatchRefused(r)
      <4>1. at'[r] = "log" /\ status'[r] = "errored" /\ reply'[r] = "refused" /\ sent[r] = "none"
        BY <1>2, <3>5 DEF Settle
      <4> QED
        BY <1>1, <2>3, <3>3, <4>1 DEF RequestOK
    <3>6. CASE \/ DispatchLocalError(r) \/ ProviderAnswers(r) \/ ProviderFails(r)
               \/ StreamEnds(r) \/ StreamAbandoned(r)
      <4>1. /\ at'[r] \in {"log", "done"}
            /\ status'[r] \in {"none", "allowed"}
            /\ reply'[r] # "blocked"
        BY <1>2, <3>2, <3>6 DEF Settle, Escape
      <4> QED
        BY <1>1, <2>3, <3>3, <4>1 DEF RequestOK
    <3> QED
      BY <1>9, <2>3, <3>4, <3>5, <3>6
  <2> QED
    BY <2>1, <2>2, <2>3
<1>10. ASSUME NEW r \in Requests, LogOutcome(r) PROVE RequestOK(q)'
  <2>1. CASE q # r
    BY <1>2, <1>4, <1>10, <2>1 DEF LogOutcome
  <2>2. CASE q = r
    <3>1. usageLog[r] = <<>> /\ Append(usageLog[r], status[r]) = <<status[r]>>
      <4>1. usageLog[r] = <<>>
        BY <1>1, <1>10, <2>2 DEF RequestOK, LogOutcome
      <4>2. \A s : Append(<<>>, s) = <<s>>
        OBVIOUS
      <4> QED
        BY <4>1, <4>2
    <3>2. at'[r] = "done" /\ status'[r] = status[r] /\ sent'[r] = sent[r]
      BY <1>2, <1>10 DEF LogOutcome
    <3>3. usageLog'[r] \in {<<>>, <<status[r]>>}
      <4> DEFINE row == Append(usageLog[r], status[r])
      <4>1. usageLog' = [usageLog EXCEPT ![r] = row] \/ usageLog' = usageLog
        BY <1>10 DEF LogOutcome
      <4>2. row = <<status[r]>> /\ usageLog[r] = <<>>
        BY <3>1
      <4> HIDE DEF row
      <4>3. usageLog'[r] = row \/ usageLog'[r] = usageLog[r]
        BY <1>2, <4>1
      <4> QED
        BY <4>2, <4>3
    <3>4. reply'[r] = "blocked" => reply[r] = "blocked"
      BY <1>2, <1>10 DEF LogOutcome
    <3>5. Ruling(r, "allow")' = Ruling(r, "allow") /\ Ruling(r, "block")' = Ruling(r, "block")
      BY <1>10 DEF LogOutcome, Ruling, Current, govVars
    <3>6. hasPii' = hasPii
      BY <1>10 DEF LogOutcome, textVars
    <3> QED
      BY <1>1, <2>2, <3>2, <3>3, <3>4, <3>5, <3>6 DEF RequestOK
  <2> QED
    BY <2>1, <2>2
<1>11. ASSUME (\E i \in Inspections : GovStep(i)) \/ GovRestart, UNCHANGED proxyVars
       PROVE RequestOK(q)'
  <2>1. hasPii' = hasPii
    BY <1>11 DEF GovStep, Admit, TurnAway, PiiStage, HarmReturns, OpaReturns, Conclude,
                 WriteAudit, GovRestart, textVars
  <2>2. attempt[q] > 0 /\ stage[Current(q)] = "answered" =>
          /\ stage'[Current(q)] = "answered"
          /\ decision'[Current(q)] = decision[Current(q)]
    BY <1>3, <1>11, AnsweredStable DEF TypeInv, TypeOK
  <2> QED
    BY <1>1, <1>11, <2>1, <2>2, RequestFrame DEF proxyVars
<1>12. ASSUME ProxyRestart PROVE RequestOK(q)'
  BY <1>1, <1>2, <1>12 DEF ProxyRestart, RequestOK, Ruling, Current, textVars, govVars
<1>13. CASE UNCHANGED vars
  BY <1>1, <1>13, RequestFrame DEF vars, proxyVars, textVars, govVars
<1> QED
  BY <1>5, <1>6, <1>7, <1>8, <1>9, <1>10, <1>11, <1>12, <1>13 DEF Next, ProxyStep

GatewayInv == TypeInv /\ InspectionInv /\ RequestInv

\* The inductive invariant of the composed system.
LEMMA GatewayInvariant == Spec => []GatewayInv
<1>1. Init => InspectionInv /\ RequestInv
  BY DEF Init, GovInit, InspectionInv, InspectionOK, RequestInv, RequestOK
<1>2. TypeInv /\ InspectionInv /\ RequestInv /\ [Next]_vars => InspectionInv' /\ RequestInv'
  BY InspectionStep, RequestStep
<1> QED
  BY <1>1, <1>2, TypeInvariant, PTL DEF Spec, GatewayInv

\* A provider only ever receives what the inspection the proxy acted on allowed,
\* through retries, late answers and restarts of either service.
THEOREM GovernedDispatchHolds == Spec => []GovernedDispatch
<1>1. GatewayInv => GovernedDispatch
  <2> SUFFICES ASSUME GatewayInv, NEW r \in Requests, sent[r] # "none"
      PROVE /\ Current(r) \in Inspections
            /\ stage[Current(r)] = "answered"
            /\ piiScan[Current(r)] = "ok"
            /\ opaCheck[Current(r)] = "allow"
            /\ hasPii[r] => sent[r] = "redacted"
            /\ harmful[r] => harmScan[Current(r)] = "error"
    BY DEF GovernedDispatch
  <2>1. Ruling(r, "allow") /\ (hasPii[r] => sent[r] = "redacted")
    BY DEF GatewayInv, RequestInv, RequestOK
  <2>2. Current(r) \in Inspections /\ Current(r)[1] = r
    BY <2>1, GovernanceAssumption
    DEF Ruling, Current, Inspections, Attempts, GatewayInv, TypeInv, TypeOK
  <2> QED
    BY <2>1, <2>2 DEF GatewayInv, InspectionInv, InspectionOK, Ruling
<1> QED
  BY <1>1, GatewayInvariant, PTL

\* The usage log holds at most one row per request, never a "blocked" or
\* "errored" one for a request that reached a provider, and "blocked" only for
\* what governance blocked.
THEOREM UsageLogFaithfulHolds == Spec => []UsageLogFaithful
<1>1. GatewayInv => UsageLogFaithful
  <2> SUFFICES ASSUME GatewayInv, NEW r \in Requests
      PROVE /\ Len(usageLog[r]) <= 1
            /\ usageLog[r] \in {<<"blocked">>, <<"errored">>} => sent[r] = "none"
            /\ usageLog[r] = <<"blocked">> => Ruling(r, "block")
    BY DEF UsageLogFaithful, Ruling
  <2>1. RequestOK(r)
    BY DEF GatewayInv, RequestInv
  <2>2. CASE usageLog[r] = <<>>
    BY <2>2
  <2>3. CASE usageLog[r] = <<status[r]>>
    <3>1. Len(usageLog[r]) = 1 /\ usageLog[r][1] = status[r]
      BY <2>3
    <3>2. \A s : usageLog[r] = <<s>> => status[r] = s
      BY <3>1
    <3> QED
      BY <2>1, <3>1, <3>2 DEF RequestOK
  <2> QED
    BY <2>1, <2>2, <2>3 DEF RequestOK
<1> QED
  BY <1>1, GatewayInvariant, PTL
=============================================================================
