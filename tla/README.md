# Verification of the LLM governance gateway

TLA+ models of the gateway's services, the TLC configurations that check them on
small instances, and TLAPS proofs for every size. Every definition is translated
from the Python under `src/`; `PROJECT.json` maps each one to the lines it stands
for, lists the runs, and lists the hazards the properties are aimed at.

    tlc -workers 2 -config McpProxy.cfg McpProxy              # a run
    tlapm McpProxyProofs.tla                                  # the proofs of a module

## 1. The system

Four services, one Redis, one Postgres:

    client -> Gateway Proxy (proxy/) -> Governance (governance/) -> OPA, Presidio / Google DLP
                    |                        ^         \-> audit_log, user_pseudonym_map
                    |-> LLM providers        |
                    |-> usage_log, Redis     | audit events, PII scan
                    \-> MCP Reverse Proxy (mcpproxy/) -> OPA Sidecar, downstream MCP servers

All services are asyncio programs: the code between two awaits is atomic inside one
process, and everything else interleaves.

| Component | State | Operations | Talks to | What is hard, and what must hold |
|---|---|---|---|---|
| Circuit breaker (`mcpproxy/app/circuit_breaker.py`) | `_state`, `_failure_count`, `_opened_at` | `record_success`, `record_failure`, `try_start_probe`, `record_probe_failure` | the call handler | answers of old checks arrive after the breaker moved on; one probe only; it must recover by itself |
| MCP call handler (`mcpproxy/app/main.py`, `opa_client.py`, `transport.py`, `governance_client.py`) | one coroutine per call | token check, breaker gate, sidecar check, downstream call, DLP scan, audit event | sidecar, downstream server, Governance | failures after the tool ran; deny is never overridden; nothing unscanned gets out; the audit event tells the truth |
| PII scan slots (`governance/app/pii.py`) | three `asyncio.Semaphore`s, their waiter queues | `_acquire_scan_slot` (home, shared, borrow, block) and its release | scans of `/inspect` and `/v1/dlp/pii-scan` | borrowing against waiters, cancellation of woken waiters, tiny pools; permits conserved, no starvation |
| PII detection and redaction (`governance/app/pii.py`) | none (pure), engines | `scan`, `redact`, span merging, Google chunking and backoff | scan slots, Google DLP | overlapping spans, chunk borders; every finding is covered by the redaction |
| Governance inspection (`governance/app/main.py`, `pipeline.py`, `opa.py`, `harm.py`) | `PipelineContext` per inspection | credential gate, PII stage, concurrent harm and OPA checks, decision, background audit | OPA, Postgres | partial failures (PII and OPA fail closed, harm fails open), order of the results, restart before the audit |
| Gateway pipeline (`proxy/app/main.py`, `governance_client.py`, `usage_log.py`) | one coroutine per request, `usage_log` | gate, rate limit, inspect with retries, dispatch, log | Redis, Governance, providers, Postgres | retries overlap the inspections they replace; exactly which exits log; nothing ungoverned is sent |
| Provider dispatch, stream watcher (`provider_dispatch.py`, `stream_usage.py`, `providers/`) | open streams | choose adapter, translate, send, stream, record usage when the stream ends | providers | errors as responses or exceptions; abandoned streams |
| Rate limiter (`proxy/app/rate_limit.py`) | a Redis sorted set per key | one Lua script | Redis | clocks of several replicas, the window's edges |
| MCP route of the proxy (`proxy/app/main.py`, `mcp_call`) | none | forward a call with a 10s timeout | MCP Reverse Proxy | the caller gives up on a call that still runs |
| Authentication, tenant settings (`auth.py`, `main.py`) | key and tenant caches | API key, JWT, act claim, tenant lookup, key creation | Postgres, IdP | stale entries after revocation, caches on top of caches |
| Client codecs, protocol translation (`client_codecs.py`, `*_compat.py`, `protocol_types.py`, `provider_capabilities.py`) | none | read a request, find its governed text, write a redaction back, translate request and answer | the pipeline, the adapters | shapes of content, order of blocks, fields a provider cannot honour; what is forwarded must read as what was sent |
| Stream translation (`stream_events.py`, `openai_chat_stream.py`, `*_compat.py`, `providers/`) | per-stream translation state | adapter, usage watcher, encoder, each a generator | providers, clients | interleaved tool calls, streams that break off; legal event order, usage, an honest end |
| Routing (`routing.py`) | none | choose a provider for a model | the pipeline | an outcome of the pipeline's gate |
| Audit store (`audit.py`, `pseudonym.py`, `retention.py`, `main.py`) | `audit_log` partitions, pseudonyms, erasure log | write, export by keyset, erase a user, rotate partitions | Postgres | a write racing an erasure, pages while rows are written, month boundaries; no row is lost while the database works |
| Google credential sentinel (`google_credential_sentinel.py`) | a status file | probe for ever, write the status | the credential gate | staleness; it must go on after failures |
| Dashboard (`dashboard.py`) | none | visibility-filtered queries | `usage_log` | a tenant sees only its own rows |
| OPA policies and bundle (`policies/`, `entitlements.py`, `opa-sidecar/`) | the polled bundle | decision rules, bundle polling | sidecar | staleness of entitlements |
| Provisioning, bootstrap, demo (`scripts/`, `bootstrap.py`) | none | one-shot tooling | Postgres, IdP | not modelled |

## 2. The modules

| Module | Models | EXTENDS |
|---|---|---|
| `CircuitBreaker` | the breaker's fields and one operator per method | |
| `McpProxy` | `POST /v1/mcp/call`: handler, breaker, sidecar, downstream server, scan, audit event, restarts | `CircuitBreaker` |
| `McpProxyProofs` | the theorems about `McpProxy` | `McpProxy`, `TLAPS` |
| `ScanSlots` | class-aware admission over three semaphores | |
| `MCScanSlots` | symmetry inside a class | `ScanSlots` |
| `ScanSlotsProofs` | the theorems about `ScanSlots` | `ScanSlots`, `TLAPS` |
| `Governance` | `POST /inspect` and its background audit write | |
| `GatewayPipeline` | `_run_gateway_pipeline` composed with `Governance` | `Governance` |
| `GatewayProofs` | the theorems about `GatewayPipeline` | `GatewayPipeline`, `TLAPS` |
| `StreamLifecycle` | abstract: what a client of a translated stream may see | |
| `StreamTranslation` | provider adapters, usage watcher and client encoders of one stream; implements `StreamLifecycle` | |
| `StreamProofs` | the theorems about `StreamTranslation` | `StreamTranslation`, `TLAPS` |
| `Redaction` | operators: merging of findings, redaction, redistribution over text leaves | |
| `PiiScan` | one scan by the Google backend, chunk by chunk | `Redaction` |
| `PiiScanProofs` | the theorems about `PiiScan` and the merging and marking in `Redaction` | `PiiScan`, `TLAPS` |
| `Payloads` | operators: requests of the three protocols, governed text, redaction written back | `Redaction` |
| `RequestTranslation` | operators: what is forwarded to each provider | `Payloads` |
| `ResponseTranslation` | operators: what each client gets of an answer | `Payloads` |
| `Exchange` | one request inspected, forwarded, answered and encoded | the two above |
| `AuditStore` | pseudonyms, audit log, erasures, export, partitions | |
| `AuditStoreProofs` | the theorems about `AuditStore` | `AuditStore`, `TLAPS` |
| `RateLimiter` | the Lua script, several replicas, one Redis | |
| `RateLimiterProofs` | the theorems about `RateLimiter` | `RateLimiter`, `TLAPS` |
| `Freshness` | caches of keys and tenants, `/v1/me`, the credential sentinel | |
| `MCFreshness` | symmetry of the requests, and the part of the states its run explores | `Freshness` |
| `FreshnessProofs` | the theorems about `Freshness` | `Freshness`, `TLAPS` |

Operators marked "Mutant" are plausible bugs of the definition that follows them.
They are used by no specification; `PROJECT.json` pairs each with the property
that catches it.

### CircuitBreaker and McpProxy

`cbState`, `failureCount` and `openFor` are `_state`, `_failure_count` and
`time.monotonic() - _opened_at`; the code compares the latter only with
`COOLDOWN_SECONDS`, so it stops growing there. `Calls` are slots of the event loop;
a slot that is done may take the next request. `pc[c]` is the await the call is
suspended in, and each action runs from one await to the next:

- `CallClosed`, `CallProbe`, `CallBreakglass`, `CallBadToken`: `call` up to its first await.
- `SidecarAnswers`, `ProbeFails`, `CheckFails`, `SidecarNonObject`: what
  `check_tool_call` returns or raises, the breaker update and the branch to the
  downstream call or to the deny audit.
- `DownstreamReturns`, `DownstreamBreach`, `DownstreamError`: `buffer_tool_response`
  with its caps, and the httpx errors nothing catches.
- `ScanReturns`, `ScanFails`, `ScanUndecodable`: `scan_for_pii`.
- `SendAuditEvent`: the event and the reply. Posting is best effort
  (`_send_audit_event` swallows errors), so the attempt is what is recorded.
- `Tick`, `SidecarToggles`, `Restart`: the clock, a sidecar that comes and goes, a
  replica that dies.

A tool response is only "clean" or "pii"; tools are on the break-glass list or not.
A check cannot outlive `OpaTimeout`: httpx bounds each phase of it by 2s, so
`OpaTimeout < Cooldown` (30s) is an assumption the code justifies. `ProbeGetsObject` says
whether a probe is spared the JSON body that is no object, which any other check may get
(`SidecarNonObject`): only a probe leaves something behind when it ends unrecorded.

### ScanSlots

A request is a coroutine that takes one permit after another. `TakeHome`,
`TakeShared`, `Borrow`, `Block` are the four branches of `_acquire_scan_slot` in
their order, `Release` its `finally`. `asyncio.Semaphore` is external and modelled by
its counter, its deque of futures and the step between waking a waiter and running
it: `Resume`, `Cancel` / `Prune` (cancelled before it was woken) and `CancelWoken`.
CPython releases differ in how many waiters `acquire` wakes on its way out; the
model allows each. `FirstPending` says which waiters are woken (the first ones of the
deque that still wait) without counting through the deque. Permits are modelled, threads are not: a cancelled scan returns
its permit while its thread still runs.

### Governance and GatewayPipeline

An inspection `<<r, k>>` is the k-th `/inspect` attempt for request `r`; Governance
does not know that they belong together and finishes what its caller gave up on.
The scanners are oracles: `hasPii` and `harmful` say what they find in the text when
they work; each may fail. What OPA says may differ from attempt to attempt.
`GovStep` has the credential gate and size limits (`Admit`, `TurnAway`), `PiiStage`,
the two results of the `gather` in any order, `Conclude`, and the background
`WriteAudit`; `GovRestart` loses what runs and what is queued.

`at[r]` is the await the proxy's coroutine is in. `Settle` leaves the function by an
`HTTPException` or a response and goes through `_log_outcome`; `Escape` leaves it by
any other exception, past both `except` clauses. `Faults` says which escapes the
environment may cause, so that runs can switch them off. `RateLimit` and `Gate` are
reduced to their outcomes.

For chat requests `governance_text` is the last user message only; "what a provider
receives" in the properties means that text, not the rest of the conversation. Of the
audit row the model has whether it is written, not what it says.

### StreamTranslation and StreamLifecycle

A stream is a chain of generators: the adapter (`inbox`), the watcher
`capture_stream_usage` (`watch`), the client's encoder. The encoder is at a label `at`,
one for each place in its code where it may yield; `chunk` is the Chat chunk in its
hand, `call` the tool call of that chunk it works on, `encoder` its other locals. A step
runs from one label to the next and shows the client the frame it yields. Each
generator runs only when the next asks it, so a provider event is read only when nothing
of the previous one is left: `Reading` and `Pull` need the label "idle", at which the
encoder asks for a chunk. A chunk may hold several calls, which are taken in turn. At the
end open items are closed, the text first and then the calls by Chat index for a
Responses client, in the order they were opened for an Anthropic one. `wire` and
`seen` are what the provider sent and what the client saw: the properties compare
them. Text is present or absent; an arguments fragment is named by the call the
provider meant it for, so one that reaches another call is seen. Pairs that share a
protocol are forwarded bytewise (`native.py`) and left out. `Cut`, `Disconnect`,
`AnthropicStreamFails`, `GeminiStreamFails` and `ChatError` are the faults; a careless
OpenAI-compatible provider may reuse a call's index or leave out a name or id.

`StreamLifecycle` has three variables (the start, the items, the end) and six actions;
`FollowsLifecycle` maps the client's view `seen` onto them.

### Redaction, PiiScan, Payloads, RequestTranslation, ResponseTranslation, Exchange

`PiiScan` runs `run_google` on a text of one- and two-byte characters. What Google
finds is external: it reports every value that is whole in the chunk, may report the
visible part of one that is not, and counts in bytes or characters. The text holds up to
`MaxValues` values of any place, type and score, overlapping or not. Failures and
backoff end in `InspectFails`. In `Redaction` the loop of `_deduplicate_findings` is the
recursive function `KeptAfter`, one round of it is `Keep`; that of
`_redact_with_typed_markers` is `ReplacedAfter`, one round of it `Replace`.

`Payloads` has messages of parts; a text is a short sequence of characters so that a
redaction can be seen in it, everything else (images, calls, results) is a tag with an
id. `redistribute_redacted_text` depends on `difflib`, which is external but modelled by
what it does (longest matching blocks, then opcodes). A request carries the set of
optional fields that are set, not their values. `Forward` is `dispatch_provider`: native
pass-through, or translation to Chat, capability check, and translation for the
provider; an empty set means refused. `Exchange` is the four steps a request goes
through, over every request shape the bounds allow.

### AuditStore

A step is one SQL statement at READ COMMITTED; a statement waits for an open transaction
that holds its row or key. `link` is `user_pseudonym_map` (one row per subject because
the pseudonym is an HMAC of user and tenant), `log` is `audit_log`; `write` and `erasure`
are the transactions. `WriteFault` and `ErasureFault` are a database that fails between
statements; both roll back. So does every erasure that gets that far without one:
`InsertErasureLog` is the statement of `main.py:502`, whose `:erasure_id::uuid` SQLAlchemy
does not bind, so that a name is never overwritten for good. `audit_log` has forced
row-level security and a policy for SELECT alone (migration 001, lines 112-127); the
service is taken to run as a role that bypasses it, as under `docker-compose.yml`. `EnsureWritePartitions` is `/health`, or the nightly
`rotate_partitions.py`; `polled` says that it ran in this month, which `NextMonth` waits
for: an orchestrator polls `/health` all the time. A page of an export is said by its SQL:
`Selected` is the `WHERE`, `Pages` the `ORDER BY` and `LIMIT`.

### RateLimiter

One caller's sorted set and counter. `lead` is how far each replica's clock is ahead,
`admitted` the numbers and real times of the admissions of the last window, `promise` what a denied caller was told. Redis
may restart (`RedisRestart`) and lose set, counter and script: `admitted` starts anew
with it, since the limiter cannot remember what Redis forgot. `check` reads its clock
before it awaits the script; the model has one step for both, so `Skew` bounds the
difference of the clocks and that delay together.

### Freshness

`gone` says when an original (the key, the model on the tenant's list, the Google
credentials) was withdrawn. `request[r].at` is the await a request is in; a read and the
use of what was read are separate steps, with up to `MaxWait` between them. The sentinel
takes `checked_at` before its probe, sleeps `Interval`, and may stop and be restarted.
`Preflight` is what a probe may find: good only if the credentials were good after it
began, and not good whenever the refresh raises anything, credentials or no.

A list of allowed models has at least two entries here. An empty one allows every model
(`proxy/app/main.py:290`), and so does a tenant without a row (`main.py:220`): taking the
last model off the list, or deleting the tenant, withdraws nothing, and `TenantAge` is not
about it.

## 3. The runs

Passing runs:

| Run | Instance | What it shows |
|---|---|---|
| `mcp_proxy` | 2 calls, a listed and an unlisted tool, threshold 2, cooldown 3, fairness, every sidecar answer but a non-object to a probe | `RunsOnlyIfAuthorised`: a tool runs on the sidecar's allow of this very call, or on the break-glass list when there is no verdict. `RepliesMatchRun`: a response gets out only complete, scanned and clean, and a 403 means the tool did not run. `AuditAgreesWithReply`: the event agrees with the reply and with who decided. `ProbeExclusive`: half-open exactly while the one probe is unanswered, and no older check is then in flight. `ClosedBelowThreshold`. `EveryCallAnswered`, `HalfOpenResolves`, `SidecarRecovery`: the breaker closes for good once the sidecar stays up and calls keep coming. |
| `slots` | 2 interactive and 3 bulk requests, 1, 2 or 3 workers | `PermitsConserved`, `NoLostWakeup`, `NoBorrowPastWaiter`, and `QueuedIsServed`: nobody queued is starved. |
| `gateway` | 1 request, 2 attempts, every fault, restarts of both services | `GovernedDispatch`: what a provider receives was allowed by the inspection acted on, and redacted. `UsageLogFaithful`: at most one usage row; blocked and errored rows only for requests that reached no provider. `EveryRequestAnswered`. |
| `stream` | 4 provider events, 2 tool calls, 7 routes, every fault | `FollowsLifecycle`: both encoders implement the abstract lifecycle. `SuccessNeedsFinish`: a truncated stream never looks finished. `CallsKeptApart`: a fragment reaches its own call and none is lost. `UsageAgrees`: billed tokens reach client and log. `StreamEnds`. |
| `pii_scan` | texts of up to 5 characters, chunks of 5 bytes, overlap 2, up to 2 values | `NothingExposed`: a value no longer than the overlap is redacted whole wherever the borders fall. `RedactsExactly`, against a reference definition; merged findings keep the strongest label. `ScanAdvances`: the chunking loop ends. |
| `exchange` | contents of up to 2 parts, 3 client protocols, 5 kinds of provider | `RedactionRoundTrip`: the text of all governed leaves together becomes the redacted text, and what is not text stays as it was (which leaf gets which piece: see `exchange_leaves`). `ReadingKept`: turns, results, images, calls and the system prompt in the same order, fields honoured or refused. `AnswerKept`: text, calls and ids of the answer, and an honest report of a cut one. |
| `audit` | 2 users of a tenant, 2 writes, 2 erasures, pages of 1 row, a month boundary | `RowsPseudonymised`. `WriteLostOnlyByFault`: neither a race on the map nor a month boundary costs a row. `ExportExact`. `TransactionsEnd` (no deadlock between the transactions). |
| `limiter` | 2 replicas, limit 2, window 4, a second of 3, skew 1 | `WindowBound`: at most the limit in any window shortened by the skew. `RetryAfterHonoured`: a caller who waits as told is admitted. |
| `freshness` | 2 requests, or 1 beside the sentinel; ttls 3 and 2, status age 5, an interval of 1, waits of up to 2 | `KeyAge`, `TenantAge`, `CredentialAge`: the age at which a withdrawn key, model or credential stops being used. `VerdictFollowed`: governance goes by the verdict of a recent probe; a good one is not refused as too old, and a bad one, of revoked credentials or of a refresh that failed, does not outlive the next probe. |

Runs in which TLC finds the code to disagree with a sentence of the repository
(quoted under `findings`):

| Run | Violated | How |
|---|---|---|
| `breaker_stuck` | `HalfOpenResolves` | the probe's answer is JSON but no object: `TypeError` is not `OpaCheckError`, the probe is never recorded, no other probe is allowed |
| `exchange_leaves` | `UnaffectedTextKept` | two text parts, a finding in the first: the leaves `p` and `e` with the redacted text `[e]e` come back as `[` and `e]e`, because the diff finds the `e` in the marker |
| `audit_erasure` | `ErasureDestroysLink` | the first erasure of a user: the INSERT into `erasure_log` is never executed (`main.py:502`), the transaction is rolled back, 500, and the link stays |

**Bounds.** Threshold 2 and cooldown 3 with a timeout of 2 keep the orders of the real
5 / 30s / 8s: failures are counted before the breaker trips, a check can be in flight
across the trip, and it is over before the cooldown. Two calls reach a trip with a
check in flight, because a slot serves one request after another. Three workers give
each pool one permit (one and two workers are the special cases of
`_split_pool_sizes`), and three bulk requests are what it takes to fill home, shared
and the borrowed pool while the other class queues. Pools of two and more
permits (8 workers) are out of the run's reach: it would take nine requests. With one
permit per pool a release hands its permit over at once, so the waiter half of
`locked()` never decides alone there; from 8 workers on it does. Two attempts give one retry that
overlaps the inspection it replaces; requests share no state except the services'
restarts, so one suffices for TLC and the proofs cover the rest. Counters need no
cap: `failureCount` exceeds the threshold only by checks that were in flight.

Four events are a call's start, two fragments (or a second call and its fragment) and
the finish reason; two calls interleave. Texts of five characters with chunks of five
bytes give two and more chunks whose borders fall inside two-byte characters, with an
overlap of one wide or two narrow ones. Two parts give every order of text, image and
result. Two erasures of one tenant wait for the name they share, an erasure meets a
write of the same user, and pages of one row leave room for a write between them. In
`RateLimiter` a second is no divisor of the window, so rounding matters, and 11 ticks
are more than two windows; `MaxSeq` only bounds the counter. In `Freshness` time ends at
8: an entry can be stored, outlive its original, be copied into the cache of `/v1/me` and
expire there; `KeyTTL` > `TenantTTL` keeps the order of 60s and 30s, and
`Interval + 2 * MaxWait = MaxAge` is the tightest setting under which `VerdictFollowed`
promises that a good verdict counts. The run explores two requests at a time before the
sentinel has started, and one at a time beside it (the constraint
`SentinelOrOneRequest`): caches and sentinel meet in `Inspect` alone, where a request is
past both caches, and requests do not touch the status. The proofs need no such cut.

**Fairness.** `McpProxy`: time passes and a suspended call is resumed, since every await
carries a timeout; the sidecar is not fair, `SidecarRecovery` assumes it stays up.
`ScanSlots`: a running scan ends and the event loop runs a ready coroutine; arrivals and
cancellations are not fair. `GatewayPipeline`: each proxy coroutine keeps running
(clients time out, the backoff is bounded, streams end or time out); Governance is
not assumed to answer.

`StreamTranslation`: the upstream answers or its read timeout fires, generators are
resumed while the client reads and closed when it is gone; nothing says a client stays.
`AuditStore`: a transaction that is not made to wait goes on.

Deadlock is checked in `mcp_proxy`, `breaker_stuck`, `slots` and `limiter`. In
the others a request, stream, scan or export is served once, or time ends, and a
finished instance really stops.

## 4. The proofs

Every theorem is for all values of the constants under the named assumptions of its
module: `BreakerAssumption`, `McpAssumption`, `GovernanceAssumption`, `FaultsAssumption`,
`SlotsAssumption`, `ChunkAssumption`, `AuditAssumption`, `LimiterAssumption`,
`FreshnessAssumption`, `StreamAssumption`. Beyond types they say:

- `OpaTimeout < Cooldown` (2s per phase and 30s in the code);
- the ttls of the caches are not zero (60s and 30s);
- `ChunkOverlapBytes + 2 < MaxContentBytes` (4,096 and 450,000 bytes): the code itself only
  asks for `overlap < max`, with which the rounding to characters could undo the progress;
- `Skew < Window`: the clocks of two replicas differ by less than the window;
- the two classes of requests of `ScanSlots` are finite and disjoint, and there is at
  least one worker.

Bounds such as `MaxTime`, `MaxLength`, `MaxValues` or `NumWrites` are constants as well,
so that a theorem for every value of them is one for unbounded behaviours.

Each invariant below was checked by TLC before it was proved. In every module the
theorem about the whole inductive invariant (`BreakerInvariant`, `CallInvariant`,
`SlotsCorrect`, `ScanCorrect`, `StoreCorrect`, `LimiterCorrect`, `ClocksCorrect`, `StreamInv`)
comes first and the properties follow from it.

`McpProxyProofs`:

- `TypeCorrect` is inductive by itself.
- `ClosedBelowThresholdHolds` and `ProbeExclusiveHolds` rest on `BreakerInv`. Exclusivity
  alone is not inductive: when a probe starts, no earlier check may still be in
  flight. The invariant therefore relates the age of every pending check to the time
  since the breaker opened -- while the breaker is open, a pending check is at least
  as old as the opening -- and because a check is over by `OpaTimeout < Cooldown`, none
  is left when the cooldown ends. `ProbeExclusive` needs the assumption that a
  failing probe raises `OpaCheckError` (`ProbeGetsObject`), stated in the theorem; `breaker_stuck` shows what happens otherwise.
- `RunsOnlyIfAuthorisedHolds`, `RepliesMatchRunHolds`, `AuditAgreesWithReplyHolds` rest on
  `CallInv`, which says for each await what must be true of a call suspended there.

`GatewayProofs`:

- `TypeCorrect`; then `InspectionInv` (what each stage of an inspection implies about the
  scans and the decision) and `RequestInv` (what each await of the proxy implies about
  the inspection in hand). Their conjunction is inductive: an answered inspection never
  changes again (`AnsweredStable`), whoever restarts, which is what makes the answer the
  proxy acted on stay true. `GovernedDispatchHolds` and `UsageLogFaithfulHolds` follow.

`ScanSlotsProofs`, for any number of requests and workers:

- `SlotsInv` says that the deque of a pool has exactly the requests that wait on it, each
  once (`QueueInv`), that free, held and handed-over permits of each pool add up to its
  size (`Conserved`), and `NoLostWakeup`. None of the three is inductive without the
  others: a release hands a permit to a waiter of the deque, so the sum is kept only if
  whoever is in the deque really waits there. `PermitsCorrect` and `NoLostWakeupCorrect`
  follow; `NoBorrowCorrect` is an action property: a pool somebody is queued on is locked
  for whoever arrives, and a woken waiter waits on its own pool or on the shared one.
- The proofs cover what the run cannot reach: pools of two and more permits, where the
  waiter half of `locked()` decides alone.

`PiiScanProofs`, for texts of any length and any number of values:

- `ByteOffset` is monotone and steps by one or two (`BytesStep`, `BytesMonotone`);
  `CharacterAt` is its inverse on character starts and rounds down elsewhere. From these
  `NextChunkIs`: the next chunk starts after this one did, reaches further, and starts at
  or before every value of at most the overlap that this chunk did not have whole.
  `ScanAdvancesCorrect` is that lemma.
- `NothingExposedCorrect` rests on `ScanInv`: a short value is covered by a finding or
  starts in the chunk that comes next. The steps: a whole value is reported and survives
  the conversion from bytes and the shift (`WholeIsReported`, `FoundIs`); sorting loses
  no finding (`SortedIs`); a round of the merging loop keeps the spans apart and covers
  what was covered (`KeepIs`, `LoopStep`); so does the whole loop (`DeduplicateIs`).
- `SpansApartCorrect`: the spans a scan ends with never overlap.
- `RedactsExactlyCorrect` compares the loop, which replaces the last span first in a text
  whose length changes under it, with `Redaction`, which says character by character what
  the result is. `ReplaceIs`: a span among the first `c` characters, still untouched, is
  replaced without disturbing what follows them. `RedactionRound`: after each round the
  text is the original up to a span and the reference from there on (`Agrees`);
  `RedactionIs` takes this from the end of the text to its start. `Placed`, which is in
  `ScanInv` too, says that each finding lies in the text and has the label of a value;
  sorting, merging and shifting keep it (`PlacedMerges`, `DeduplicateStaysIn`). That the
  label is the strongest follows because a finding covers a value with its score, and no
  two findings cover the same character (`LabelIsStrongest`).
- What `KeptAfter`, `ReplacedAfter` and `FlattenSeq` compute for a sequence of any length
  is an induction over data. The library's induction rules cannot be instantiated here, so
  the proof takes the least counterexample, whose existence is lemma `Least` (from `WFMin`
  and `NatLessThanWellFounded`), and `KeptAfterIs`, `ReplacedAfterIs` and `FlattenIs` show
  in the same way that the recursive functions satisfy their equations.

`AuditStoreProofs`, for any users, tenants, writes, erasures, months and page sizes:

- `LocksInv` says what an open write holds: a key that has no row, or nothing, and then the
  row is there. Together with the types and with `PartitionsInv` (every month so far has
  its partition, the next one too once `/health` answered) it makes `RowsPseudonymised`
  and `WriteLostOnlyByFault` inductive.
- `ExportCorrect` rests on `ExportInv`: what was read is in the table and in order, and
  between two pages each row that was there at the start has been read or is after the
  cursor. A page adds the first rows after the cursor, a last page all of them.

`RateLimiterProofs`, for any replicas, limit, window and skew:

- `WindowBound` is not inductive: the set may forget an entry before the window of the
  admission is over, by at most `Skew`. `AdmittedInv` relates each admission to its entry
  for `Window - Skew` and to the expiry of the keys; `EntriesInv` bounds the set. The bound
  follows by an injection from admissions into entries.
- `RetryAfterCorrect` needs `PromiseInv`: at the promised time fewer than `Limit` of the
  present entries are still in the window. `CeilingCovers` is the rounding of the script.

`FreshnessProofs`, for any requests, ttls, waits and intervals:

- `Types` and `Clocks` (nothing stored lies in the future, nobody waits longer than
  `MaxWait`), then one invariant per original, each of which relates the time an entry was
  stored, or a wait began, to the time its original went: `KeyInv`, `TenantInv` (with the
  cache of `/v1/me` on top of that of the tenant), `CredentialInv`, and `StatusInv` for
  `VerdictCorrect`, which follows the sentinel through sleep and probe: the status in the
  file is never older than what is left until the next one is written.

`StreamProofs`, for any number of provider events and tool calls:

- The routes fall into three groups, each with an invariant of its own: bytes or chunks
  that are forwarded to a Chat client (`Forwarded`), chunks without `created`, on which the
  translating encoders fail (`Refused`), and the streams of OpenAI-compatible providers
  that are really translated (`Encoded`). `Inv` says which holds; `route` never changes.
- `Encoded` is a conjunction. `Flow`: the chunk in hand fits what the provider sent last,
  and there is one only away from the resting labels. `UsageInv` and `FinishInv`: what the
  encoder and the watcher know of usage and finish reason is what the provider sent,
  except for the chunk still in hand. `FragmentsInv`: the fragments sent of each call are
  those seen and those in flight. `OwnersInv`: unless the provider reuses an index, a
  call's item is its own. `CountInv`: items never outrun the output indexes. `ItemsInv` and
  `LabelsInv`: which items are open, fed and closed at each label. `ShownInv`: start and
  end as the lifecycle wants them.
- The properties are not inductive because they compare the two ends of the chain:
  between a provider event and the frame it becomes, `wire` and `seen` differ by what is
  in hand, and the invariant says by exactly how much. `StreamSuccess`, `StreamCalls` and
  `StreamUsage` follow, since nothing is in hand once the stream has ended.
- `StreamRefines` is the step simulation: under `Inv` every step of the chain, faults
  included, is one step of `StreamLifecycle` on the client's view, or none. The helper
  lemmas (`OpenedView`, `FedCallView`, `ClosedView`, ...) say what a frame makes of the view.

Only model-checked:

- liveness, since fairness and `ENABLED` are beyond the prover: `EveryCallAnswered`,
  `HalfOpenResolves`, `SidecarRecovery`, `QueuedIsServed`, `EveryRequestAnswered`, `StreamEnds`,
  `TransactionsEnd`;
- `RedactionRoundTrip`, `ReadingKept`, `AnswerKept`: equalities between recursive operators
  over whole texts and contents, the first of them over the blocks `difflib` finds;
- the violation runs.

## 5. Observations, what is not modelled, and the plan

Observations: where the code does something a reader of its documentation may not
expect. They were met while modelling; the properties above are stated so that they hold
of the code as it is, and say so where they except one of these.

- `circuit_breaker.py:40`: a check sent before the breaker opened and answered after it
  closes the breaker at once, before the 30s the module's docstring promises.
- `mcpproxy/app/main.py:201`: an httpx error of the downstream call after the tool ran
  escapes the handler; no audit event is sent.
- `pii.py:233`: a request that blocked on its home pool stays there when a permit of
  another pool is released, so a lone class does not always use all of N.
- `proxy/app/governance_client.py:54`: a timed-out inspection and its retry write one
  audit row each.
- `proxy/app/main.py:537`: a provider failure is logged "allowed"; `main.py:495`: a Redis
  error is answered with 500 and not logged.
- `stream_events.py:264`, `_gemini_common.py:595`: the Chat chunks made of Anthropic and
  Gemini streams have no `created`, which `protocol_types.py:768` requires: a Responses or
  Anthropic client gets a failed stream from every provider of another protocol but the
  OpenAI-compatible ones. `UsageAgrees` and `CallsKeptApart` therefore say little about
  those routes; `FollowsLifecycle` and `StreamEnds` do hold there.
- `_gemini_common.py:506`: the index of a call is its part's position in one chunk, so
  calls of two chunks share an index; `:593`: a later STOP overrides "tool_calls"; `:548`:
  a Gemini stream cut short ends with "stop".
- `anthropic_compat.py:852`: a reused index merges the arguments of two calls.
- `stream_usage.py:91`: events are found by `\n\n` alone; a provider with CRLF is logged
  with zero tokens.
- `protocol_types.py:22`: the diff may split a marker and move text to a neighbouring leaf
  (run `exchange_leaves`); the whole text is kept, which is what `RedactionRoundTrip` says.
- `_request_to_chat_body` drops a Responses client's `metadata`; custom and legacy
  function calls are lost on the way to Responses and Anthropic clients; a content filter
  is reported as completed / end_turn; a Gemini answer with calls hides that it was cut.
- `_translate_response` of the Anthropic adapter lets a `ValueError` escape (500); Vertex
  timeouts before the first frame escape likewise (`gemini_vertex.py:220`).
- No erasure gets past `governance/app/main.py:502` (run `audit_erasure`). Two more
  constraints lie behind that line, which no behaviour of the code reaches: `UNIQUE
  (real_user_id, tenant_id, rotation_id)` (migration 001, line 25) allows one `'[ERASED]'`
  name per tenant, and after an erasure the insert of `pseudonym.py:30` meets the
  primary key, since its ON CONFLICT names the unique columns only.
- `google_credentials.py:60`: a refresh that fails for any reason, a lost connection too,
  is published as "unavailable": governance refuses requests until the next probe
  succeeds, with good credentials.
- Rows written behind an export's cursor are not in that export; `ExportExact` is about
  the rows that were there when it began. The export does not filter by tenant.
- After a Redis restart every check fails with NOSCRIPT until a replica is restarted.
- `WindowBound` is about `Window - Skew`: with the full window it is violated as soon as
  two clocks differ.

Partly modelled: `advance_partitions` (detach, archive, drop) is left out, since its
archive step is a stub; JWT validation and key creation; routing.

Not modelled: the MCP route of the proxy (no state; its timeout changes nothing in
`McpProxy`), the dashboard (read-only SQL), the OPA policies and their bundle (stateless
rules of an external engine), model list, token count, health and identity endpoints
(read-only), mock providers and settings, one-shot scripts and migrations. Left out for
good: the recognisers of Presidio, Google DLP and the harm scanner (third-party oracles),
values of generation parameters, logging and metrics, HTML rendering.

The plan, in order:

1. `RedactionRoundTrip` for any leaves: the edits `difflib` makes out of matching blocks
   rebuild the redacted text, and each edit goes to a leaf in the order of the text.
2. `AnswerKept` and `ReadingKept` for any content, as far as the recursion of the
   translation operators can be restated as recursive functions.
