-------------------------- MODULE GatewayPipeline --------------------------
(***************************************************************************)
(* _run_gateway_pipeline of the gateway proxy (proxy/app/main.py) with its *)
(* governance client (governance_client.py), the provider dispatch         *)
(* (provider_dispatch.py), the stream watcher (stream_usage.py) and the    *)
(* usage log, composed with the Governance service it calls.               *)
(*                                                                         *)
(* at[r] is the await a request is suspended in:                           *)
(*    "gate"      tenant lookup, allowed model, routing                    *)
(*    "limit"     the rate limiter's Redis script                          *)
(*    "inspect"   one POST /inspect;  "backoff" the wait before the next   *)
(*    "dispatch"  the provider adapter;  "stream" its open stream          *)
(*    "log"       _log_outcome                                             *)
(* Awaits that fail with anything but an HTTPException leave the function  *)
(* past both except clauses, so no usage row is written for them.          *)
(***************************************************************************)
EXTENDS Governance

CONSTANT Faults       \* what the environment may do wrong

\* "tenant_db", "redis": the call raises.  "body": a 2xx of /inspect without
\* the expected JSON.  "adapter": the provider adapter raises.  "usage_db":
\* the usage_log insert fails.  "crash": the proxy restarts.
AllFaults == {"tenant_db", "redis", "body", "adapter", "usage_db", "crash"}

ASSUME FaultsAssumption == Faults \subseteq AllFaults

VARIABLES
  at,                 \* the await a request is in
  attempt,            \* /inspect calls made so far
  sent,               \* what the provider was sent
  upstream,           \* what came of the provider call
  status,             \* the outcome handed to _log_outcome
  usageLog,           \* statuses of the request's usage_log rows
  reply               \* what the client got

proxyVars == <<at, attempt, sent, upstream, status, usageLog, reply>>
vars == <<textVars, govVars, proxyVars>>

Phases == {"idle", "gate", "limit", "inspect", "backoff", "dispatch", "stream", "log",
           "done", "lost"}
Statuses == {"allowed", "blocked", "errored"}
Replies == {"none", "refused", "blocked", "unavailable", "internal_error",
            "streaming", "streamed", "response", "provider_error"}

TypeOK ==
  /\ GovTypeOK
  /\ at \in [Requests -> Phases]
  /\ attempt \in [Requests -> 0..MaxAttempts]
  /\ sent \in [Requests -> {"none", "raw", "redacted"}]
  /\ upstream \in [Requests -> {"none", "ok", "failed"}]
  /\ status \in [Requests -> Statuses \cup {"none"}]
  /\ usageLog \in [Requests -> Seq(Statuses)]
  /\ reply \in [Requests -> Replies]

Init ==
  /\ GovInit
  /\ at = [r \in Requests |-> "idle"]
  /\ attempt = [r \in Requests |-> 0]
  /\ sent = [r \in Requests |-> "none"]
  /\ upstream = [r \in Requests |-> "none"]
  /\ status = [r \in Requests |-> "none"]
  /\ usageLog = [r \in Requests |-> <<>>]
  /\ reply = [r \in Requests |-> "none"]

Current(r) == <<r, attempt[r]>>

-----------------------------------------------------------------------------
(* How the function is left. *)

\* An HTTPException, or a response: the outcome is logged, then answered.
Settle(r, outcome, answer) ==
  /\ status' = [status EXCEPT ![r] = outcome]
  /\ reply' = [reply EXCEPT ![r] = answer]
  /\ at' = [at EXCEPT ![r] = "log"]

\* Any other exception, and the 401 raised before the try: no usage row.
Escape(r, answer) ==
  /\ reply' = [reply EXCEPT ![r] = answer]
  /\ at' = [at EXCEPT ![r] = "done"]
  /\ UNCHANGED status

Goto(r, phase) ==
  /\ at' = [at EXCEPT ![r] = phase]
  /\ UNCHANGED <<status, reply>>

-----------------------------------------------------------------------------
(* Up to the inspection. *)

Arrive(r) ==
  /\ at[r] = "idle"
  /\ Goto(r, "gate")
  /\ UNCHANGED <<textVars, govVars, attempt, sent, upstream, usageLog>>

\* _enforce_act_claim refuses an agent without an act claim.
ArriveUnclaimed(r) ==
  /\ at[r] = "idle"
  /\ Escape(r, "refused")
  /\ UNCHANGED <<textVars, govVars, attempt, sent, upstream, usageLog>>

\* The tenant row is read, the model allowed and routed; or 403 / 400.
Gate(r) ==
  /\ at[r] = "gate"
  /\ \/ Goto(r, "limit")
     \/ Settle(r, "errored", "refused")
     \/ "tenant_db" \in Faults /\ Escape(r, "internal_error")
  /\ UNCHANGED <<textVars, govVars, attempt, sent, upstream, usageLog>>

\* The request is inside its rate limit, over it (429), or Redis fails.
RateLimit(r) ==
  /\ at[r] = "limit"
  /\ \/ Goto(r, "backoff")
     \/ Settle(r, "errored", "refused")
     \/ "redis" \in Faults /\ Escape(r, "internal_error")
  /\ UNCHANGED <<textVars, govVars, attempt, sent, upstream, usageLog>>

-----------------------------------------------------------------------------
(* The governance client. *)

\* Mutant: the attempts are not counted.
PostInspectUncounted(r) ==
  /\ at[r] = "backoff"
  /\ Goto(r, "inspect")
  /\ attempt' = [attempt EXCEPT ![r] = 1]
  /\ stage' = [stage EXCEPT ![<<r, 1>>] = "sent"]
  /\ UNCHANGED <<textVars, piiScan, harmScan, opaCheck, decision, audit,
                 sent, upstream, usageLog>>

\* One attempt.  The first follows the rate limit without waiting.
PostInspect(r) ==
  /\ at[r] = "backoff"
  /\ Goto(r, "inspect")
  /\ attempt' = [attempt EXCEPT ![r] = @ + 1]
  /\ stage' = [stage EXCEPT ![<<r, attempt[r] + 1>>] = "sent"]
  /\ UNCHANGED <<textVars, piiScan, harmScan, opaCheck, decision, audit,
                 sent, upstream, usageLog>>

\* _is_retryable is true: try again, or GovernanceError and 503 at the last.
Retry(r) ==
  /\ IF attempt[r] < MaxAttempts
       THEN Goto(r, "backoff")
       ELSE Settle(r, "errored", "unavailable")
  /\ UNCHANGED <<textVars, govVars, attempt, sent, upstream, usageLog>>

\* RequestError: the 10s timeout or a broken connection.  The inspection may
\* still be running, or even be answered.
InspectTimesOut(r) ==
  /\ at[r] = "inspect"
  /\ Retry(r)

InspectUnavailable(r) ==
  /\ at[r] = "inspect"
  /\ stage[Current(r)] = "unavailable"
  /\ Retry(r)

\* A 4xx is not retried.
InspectRefused(r) ==
  /\ at[r] = "inspect"
  /\ stage[Current(r)] = "refused"
  /\ Settle(r, "errored", "unavailable")
  /\ UNCHANGED <<textVars, govVars, attempt, sent, upstream, usageLog>>

\* resp.json() and data["decision"] are outside the try: no GovernanceError.
InspectGarbled(r) ==
  /\ at[r] = "inspect"
  /\ "body" \in Faults
  /\ Escape(r, "internal_error")
  /\ UNCHANGED <<textVars, govVars, attempt, sent, upstream, usageLog>>

InspectBlocks(r) ==
  /\ at[r] = "inspect"
  /\ stage[Current(r)] = "answered"
  /\ decision[Current(r)] = "block"
  /\ Settle(r, "blocked", "blocked")
  /\ UNCHANGED <<textVars, govVars, attempt, sent, upstream, usageLog>>

InspectAllows(r) ==
  /\ at[r] = "inspect"
  /\ stage[Current(r)] = "answered"
  /\ decision[Current(r)] # "block"
  /\ Goto(r, "dispatch")
  /\ UNCHANGED <<textVars, govVars, attempt, sent, upstream, usageLog>>

-----------------------------------------------------------------------------
(* The provider. *)

\* pii_findings of the response in hand: with findings, with_redacted_text.
Findings(i) == piiScan[i] = "ok" /\ hasPii[i[1]]

Text(r) == IF Findings(Current(r)) THEN "redacted" ELSE "raw"

\* Mutant: a status the usage log does not know.
DispatchRefusedDenied(r) ==
  /\ at[r] = "dispatch"
  /\ sent[r] = "none"
  /\ Settle(r, "denied", "refused")
  /\ UNCHANGED <<textVars, govVars, attempt, sent, upstream, usageLog>>

\* Translation, capability and configuration checks raise HTTPException before
\* anything is sent.
DispatchRefused(r) ==
  /\ at[r] = "dispatch"
  /\ sent[r] = "none"
  /\ Settle(r, "errored", "refused")
  /\ UNCHANGED <<textVars, govVars, attempt, sent, upstream, usageLog>>

\* An adapter that gives up by itself (a body it cannot translate, a base_url it
\* must not call) returns an error Response, logged like any other response.
DispatchLocalError(r) ==
  /\ at[r] = "dispatch"
  /\ sent[r] = "none"
  /\ Settle(r, "allowed", "provider_error")
  /\ UNCHANGED <<textVars, govVars, attempt, sent, upstream, usageLog>>

DispatchSends(r) ==
  /\ at[r] = "dispatch"
  /\ sent[r] = "none"
  /\ sent' = [sent EXCEPT ![r] = Text(r)]
  /\ UNCHANGED <<textVars, govVars, at, attempt, upstream, status, usageLog, reply>>

ProviderAnswers(r) ==
  /\ at[r] = "dispatch"
  /\ sent[r] # "none"
  /\ upstream' = [upstream EXCEPT ![r] = "ok"]
  /\ Settle(r, "allowed", "response")
  /\ UNCHANGED <<textVars, govVars, attempt, sent, usageLog>>

ProviderStreams(r) ==
  /\ at[r] = "dispatch"
  /\ sent[r] # "none"
  /\ upstream' = [upstream EXCEPT ![r] = "ok"]
  /\ at' = [at EXCEPT ![r] = "stream"]
  /\ reply' = [reply EXCEPT ![r] = "streaming"]
  /\ UNCHANGED <<textVars, govVars, attempt, sent, status, usageLog>>

\* Mutant: a provider's error Response is logged as "errored".
ProviderFailsErrored(r) ==
  /\ at[r] = "dispatch"
  /\ sent[r] # "none"
  /\ upstream' = [upstream EXCEPT ![r] = "failed"]
  /\ Settle(r, "errored", "provider_error")
  /\ UNCHANGED <<textVars, govVars, attempt, sent, usageLog>>

\* Timeout, connection error or a status >= 400 becomes an error Response; an
\* undecodable body raises in some adapters.
ProviderFails(r) ==
  /\ at[r] = "dispatch"
  /\ sent[r] # "none"
  /\ upstream' = [upstream EXCEPT ![r] = "failed"]
  /\ \/ Settle(r, "allowed", "provider_error")
     \/ "adapter" \in Faults /\ Escape(r, "internal_error")
  /\ UNCHANGED <<textVars, govVars, attempt, sent, usageLog>>

\* The stream ends, with or without an error frame: capture_stream_usage runs
\* on_complete in its finally clause.
StreamEnds(r) ==
  /\ at[r] = "stream"
  /\ Settle(r, "allowed", "streamed")
  /\ UNCHANGED <<textVars, govVars, attempt, sent, upstream, usageLog>>

\* The client leaves: on_complete runs when the generator is closed, unless it
\* is cancelled again at its first await or was never started.
StreamAbandoned(r) ==
  /\ at[r] = "stream"
  /\ \/ Settle(r, "allowed", "streaming")
     \/ Escape(r, "streaming")
  /\ UNCHANGED <<textVars, govVars, attempt, sent, upstream, usageLog>>

-----------------------------------------------------------------------------
\* _log_outcome: one row, or none when the database fails.  Never raises.  The
\* codec then encodes the response: a body the Responses codec cannot translate
\* turns into a 502 after the row was written.
LogOutcome(r) ==
  /\ at[r] = "log"
  /\ at' = [at EXCEPT ![r] = "done"]
  /\ \/ usageLog' = [usageLog EXCEPT ![r] = Append(@, status[r])]
     \/ "usage_db" \in Faults /\ UNCHANGED usageLog
  /\ \/ UNCHANGED reply
     \/ reply[r] = "response" /\ reply' = [reply EXCEPT ![r] = "provider_error"]
  /\ UNCHANGED <<textVars, govVars, attempt, sent, upstream, status>>

\* The proxy restarts: its requests are gone, their inspections are not.
ProxyRestart ==
  /\ "crash" \in Faults
  /\ at' = [r \in Requests |-> 
            IF at[r] \in {"idle", "done"} THEN at[r] ELSE "lost"]
  /\ UNCHANGED <<textVars, govVars, attempt, sent, upstream, status, usageLog, reply>>

Inspect(r) ==
  \/ InspectTimesOut(r) \/ InspectUnavailable(r) \/ InspectRefused(r)
  \/ InspectGarbled(r) \/ InspectBlocks(r) \/ InspectAllows(r)

Dispatch(r) ==
  \/ DispatchRefused(r) \/ DispatchLocalError(r) \/ DispatchSends(r)
  \/ ProviderAnswers(r) \/ ProviderStreams(r) \/ ProviderFails(r)
  \/ StreamEnds(r) \/ StreamAbandoned(r)

ProxyStep(r) ==
  \/ Gate(r) \/ RateLimit(r) \/ PostInspect(r)
  \/ Inspect(r) \/ Dispatch(r) \/ LogOutcome(r)

Next ==
  \/ \E r \in Requests : Arrive(r) \/ ArriveUnclaimed(r) \/ ProxyStep(r)
  \/ \E i \in Inspections : GovStep(i) /\ UNCHANGED proxyVars
  \/ GovRestart /\ UNCHANGED proxyVars
  \/ ProxyRestart

Spec == Init /\ [][Next]_vars

\* Every await of the proxy ends by itself: the HTTP clients time out, the
\* backoff is at most 4s, and a provider stream ends or times out.
FairSpec == Spec /\ \A r \in Requests : WF_vars(ProxyStep(r))

-----------------------------------------------------------------------------
(* Properties. *)

\* What a provider receives was allowed by the very inspection the proxy acted
\* on, with no fail-open but the documented one: the PII scan worked and its
\* findings were redacted, OPA allowed, and a harmful text got through only if
\* the harm scanner failed.  Retries, late answers, restarts of either service
\* and results of the gather in either order make no difference.
GovernedDispatch ==
  \A r \in Requests :
    sent[r] # "none" =>
      /\ Current(r) \in Inspections
      /\ stage[Current(r)] = "answered"
      /\ piiScan[Current(r)] = "ok"
      /\ opaCheck[Current(r)] = "allow"
      /\ hasPii[r] => sent[r] = "redacted"
      /\ harmful[r] => harmScan[Current(r)] = "error"

\* "blocked/errored requests never reach a provider" (_log_outcome, which
\* charges them a known zero), a row says "blocked" only of a request
\* governance decided to block, and no path logs a request twice.
UsageLogFaithful ==
  \A r \in Requests :
    /\ Len(usageLog[r]) <= 1
    /\ usageLog[r] \in {<<"blocked">>, <<"errored">>} => sent[r] = "none"
    /\ usageLog[r] = <<"blocked">> =>
         /\ stage[Current(r)] = "answered"
         /\ decision[Current(r)] = "block"

\* Every request is answered, or lost with its process.
EveryRequestAnswered ==
  \A r \in Requests : at[r] = "gate" ~> at[r] \in {"done", "lost"}
=============================================================================
