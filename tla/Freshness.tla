----------------------------- MODULE Freshness -----------------------------
(***************************************************************************)
(* The copies a request is decided on, and how old they get: the API key   *)
(* (auth.py, 60s) and the tenant's settings (main.py, 30s) that a proxy    *)
(* process caches, the answer of /v1/me that it caches on top (30s), and   *)
(* the status of the Google credentials that the sentinel publishes to     *)
(* governance (google_credential_sentinel.py).                             *)
(*                                                                         *)
(* One of the originals changes, once: an operator deletes the key, the    *)
(* provisioner takes the model off the tenant's list, or Google revokes    *)
(* the credentials.  One key, one tenant and one user; the caches are of   *)
(* one process.                                                            *)
(***************************************************************************)
EXTENDS Naturals

CONSTANTS
  Requests,           \* requests at a time
  KeyTTL,             \* ttl of _api_key_cache
  TenantTTL,          \* ttl of _tenant_cache and of _me_cache
  MaxAge,             \* google_adc_status_max_age_seconds
  Interval,           \* GOOGLE_ADC_PROBE_INTERVAL_SECONDS
  MaxWait,            \* how long the database, bcrypt or a probe takes at most
  MaxTime             \* how long the model runs

ASSUME FreshnessAssumption ==
  /\ KeyTTL \in Nat \ {0} /\ TenantTTL \in Nat \ {0}
  /\ MaxAge \in Nat /\ Interval \in Nat
  /\ MaxWait \in Nat /\ MaxTime \in Nat

VARIABLES
  now,
  gone,               \* original -> when it changed, or never
  cache,              \* cache -> {} or what it holds
  request,            \* request -> where it is and what it has read
  probe,              \* the sentinel; down: it has written nothing since it started
  status              \* {} or the status file

vars == <<now, gone, cache, request, probe, status>>

Originals == {"key", "model", "google"}
Caches == {"key", "tenant", "me"}

Never == MaxTime + 1

\* Whether an original is still as it was.
Good(o) == gone[o] = Never

-----------------------------------------------------------------------------
(* cachetools.TTLCache: an entry ends ttl after it was stored, used or not. *)

TTL(c) == IF c = "key" THEN KeyTTL ELSE TenantTTL

Entry(good) == [good |-> good, stored |-> now]

\* Mutant: as Fresh, but the last moment counts.
FreshInclusive(c, e, t) == t <= e.stored + TTL(c)

Fresh(c, e, t) == t < e.stored + TTL(c)

Cached(c) == {e \in cache[c] : Fresh(c, e, now)}

Hit(c) == Cached(c) # {}

Value(c) == \E e \in Cached(c) : e.good

-----------------------------------------------------------------------------

\* since: when the wait began.  allows: whether the settings read have the model.
Idle == [at |-> "idle", kind |-> "infer", since |-> 0, allows |-> FALSE]

Stopped == [at |-> "stopped", since |-> 0, down |-> TRUE]

Waiting == {"fetch_key", "verify", "verify_cached", "fetch_tenant", "fetched"}

Init ==
  /\ now = 0
  /\ gone = [o \in Originals |-> Never]
  /\ cache = [c \in Caches |-> {}]
  /\ request = [r \in Requests |-> Idle]
  /\ probe = Stopped
  /\ status = {}

Change(o) ==
  /\ \A p \in Originals : Good(p)
  /\ gone' = [gone EXCEPT ![o] = now]
  /\ UNCHANGED <<now, cache, request, probe, status>>

-----------------------------------------------------------------------------
(* A request with an API key: an inference request or GET /v1/me.           *)

At(r, stage) == [request[r] EXCEPT !.at = stage, !.since = IF stage \in Waiting THEN now ELSE 0]

\* _validate_api_key: look the key up.
Arrive(r) ==
  /\ request[r].at = "idle"
  /\ \E kind \in {"infer", "me"} :
       request' = [request EXCEPT ![r] =
         [Idle EXCEPT !.kind = kind, !.since = now,
                      !.at = IF Hit("key") THEN "verify_cached" ELSE "fetch_key"]]
  /\ UNCHANGED <<now, gone, cache, probe, status>>

\* The row of api_keys, or none.
FetchKey(r) ==
  /\ request[r].at = "fetch_key"
  /\ request' = [request EXCEPT ![r] = IF Good("key") THEN At(r, "verify") ELSE Idle]
  /\ UNCHANGED <<now, gone, cache, probe, status>>

\* Mutant: as VerifiedCache, but a hit stores the row again.
VerifiedCacheSliding(r) == [cache EXCEPT !["key"] = {Entry(TRUE)}]

\* bcrypt has agreed: with the row just fetched, which is cached now, or with
\* the row of the cache, which keeps its time.
VerifiedCache(r) ==
  IF request[r].at = "verify" THEN [cache EXCEPT !["key"] = {Entry(TRUE)}] ELSE cache

Verified(r) ==
  /\ request[r].at \in {"verify", "verify_cached"}
  /\ cache' = VerifiedCache(r)
  /\ request' = [request EXCEPT ![r] = At(r, "caller")]
  /\ UNCHANGED <<now, gone, probe, status>>

\* Use of the settings: /v1/me stores and shows them, an inference request goes
\* on to governance if the model is on the list.  An empty list, and a tenant
\* without a row, would allow every model: the model taken off is not the last.
Settings(r, allows, caches) ==
  IF request[r].kind = "me"
    THEN /\ cache' = [caches EXCEPT !["me"] = {Entry(allows)}]
         /\ request' = [request EXCEPT ![r] = [At(r, "shown") EXCEPT !.allows = allows]]
    ELSE /\ cache' = caches
         /\ request' = [request EXCEPT ![r] = IF allows THEN At(r, "inspect") ELSE Idle]

\* _me_cache, then get_tenant_info.
LookUp(r) ==
  /\ request[r].at = "caller"
  /\ IF request[r].kind = "me" /\ Hit("me")
       THEN /\ request' = [request EXCEPT ![r] = [At(r, "shown") EXCEPT !.allows = Value("me")]]
            /\ UNCHANGED cache
     ELSE IF Hit("tenant") THEN Settings(r, Value("tenant"), cache)
     ELSE /\ request' = [request EXCEPT ![r] = At(r, "fetch_tenant")]
          /\ UNCHANGED cache
  /\ UNCHANGED <<now, gone, probe, status>>

\* The row of tenants as the database has it; the process gets it later.
FetchTenant(r) ==
  /\ request[r].at = "fetch_tenant"
  /\ request' = [request EXCEPT ![r] = [At(r, "fetched") EXCEPT !.allows = Good("model")]]
  /\ UNCHANGED <<now, gone, cache, probe, status>>

StoreTenant(r) ==
  /\ request[r].at = "fetched"
  /\ Settings(r, request[r].allows, [cache EXCEPT !["tenant"] = {Entry(request[r].allows)}])
  /\ UNCHANGED <<now, gone, probe, status>>

-----------------------------------------------------------------------------
(* The credentials.                                                         *)

\* Mutant: as CheckedAt, but the time is taken when the probe is over.
CheckedAtEnd == now

\* checked_at is taken before the preflight.
CheckedAt == probe.since

\* run_forever: the first probe begins as the process starts, which Docker does
\* some time after it stopped, the next one after Interval.
StartProbe ==
  /\ \/ probe.at = "stopped"
     \/ probe.at = "sleep" /\ now >= probe.since + Interval
  /\ probe' = [probe EXCEPT !.at = "probe", !.since = now]
  /\ UNCHANGED <<now, gone, cache, request, status>>

\* What preflight may find: it refreshes the credentials at some time since it
\* began, so they are found good only if they were then, and any exception of
\* the refresh, a lost connection too, counts as credentials that are not.
Preflight == {FALSE, gone["google"] >= probe.since}

\* write_status replaces the file with the verdict and the sentinel sleeps.
WriteStatus ==
  /\ probe.at = "probe"
  /\ \E good \in Preflight : status' = {[good |-> good, checked |-> CheckedAt]}
  /\ probe' = [at |-> "sleep", since |-> now, down |-> FALSE]
  /\ UNCHANGED <<now, gone, cache, request>>

\* The sentinel ends, by an error that is not of the preflight or with its
\* container; the file stays.
SentinelStops ==
  /\ probe.at # "stopped"
  /\ probe' = Stopped
  /\ UNCHANGED <<now, gone, cache, request, status>>

\* Mutant: as Ready, but a status as old as MaxAge is too old.
ReadyStrict == \E s \in status : s.good /\ now - s.checked < MaxAge

\* credentials_ready
Ready == \E s \in status : s.good /\ now - s.checked <= MaxAge

\* _require_fresh_google_credentials lets the request pass, or refuses it.
Inspect(r) ==
  /\ request[r].at = "inspect"
  /\ request' = [request EXCEPT ![r] = IF Ready THEN At(r, "inspected") ELSE Idle]
  /\ UNCHANGED <<now, gone, cache, probe, status>>

-----------------------------------------------------------------------------

\* A request is answered, and another may come.
Leave(r) ==
  /\ request[r].at \in {"inspected", "shown"}
  /\ request' = [request EXCEPT ![r] = Idle]
  /\ UNCHANGED <<now, gone, cache, probe, status>>

\* Time passes unless someone has waited for MaxWait, the sentinel is due, or a
\* request is between two steps without a wait.
Tick ==
  /\ now < MaxTime
  /\ \A r \in Requests :
       \/ request[r].at = "idle"
       \/ request[r].at \in Waiting /\ now < request[r].since + MaxWait
  /\ \/ probe.at = "stopped"
     \/ probe.at = "sleep" /\ now < probe.since + Interval
     \/ probe.at = "probe" /\ now < probe.since + MaxWait
  /\ now' = now + 1
  /\ cache' = [c \in Caches |-> {e \in cache[c] : Fresh(c, e, now + 1)}]
  /\ UNCHANGED <<gone, request, probe, status>>

RequestStep(r) ==
  Arrive(r) \/ FetchKey(r) \/ Verified(r) \/ LookUp(r) \/ FetchTenant(r)
    \/ StoreTenant(r) \/ Inspect(r) \/ Leave(r)

Next ==
  \/ \E o \in Originals : Change(o)
  \/ \E r \in Requests : RequestStep(r)
  \/ StartProbe \/ WriteStatus \/ SentinelStops
  \/ Tick

Spec == Init /\ [][Next]_vars

-----------------------------------------------------------------------------
(* Properties.                                                              *)

\* When a request gets past authentication the key was in the table at most
\* KeyTTL and two waits ago (to store it, and to verify it): use does not keep
\* a deleted key alive.
KeyAge ==
  \A r \in Requests : request[r].at = "caller" => now < gone["key"] + KeyTTL + 2 * MaxWait

\* A model that was taken off a list of several is let through for TenantTTL and
\* one wait, also when a slow read overwrites a newer entry of the cache.  /v1/me
\* caches what that cache gave it: it shows the model for twice as long.
TenantAge ==
  \A r \in Requests :
    /\ request[r].at = "inspect" => now < gone["model"] + TenantTTL + MaxWait
    /\ (request[r].at = "shown" /\ request[r].allows) =>
         now < gone["model"] + 2 * TenantTTL + MaxWait - 1

\* Governance takes requests for at most MaxAge after the credentials went,
\* however long the probes take and also when the sentinel has stopped.
CredentialAge ==
  \A r \in Requests : request[r].at = "inspected" => now <= gone["google"] + MaxAge

\* While the sentinel runs, governance goes by the verdict of a probe that began
\* no longer ago than two probes and the sleep between them take: if MaxAge
\* leaves room for that, no good verdict is refused as too old, and a refresh
\* that failed with good credentials closes governance for that long at most.
VerdictFollowed ==
  ~ probe.down =>
    \E s \in status :
      /\ now <= s.checked + Interval + 2 * MaxWait
      /\ Interval + 2 * MaxWait <= MaxAge => (Ready <=> s.good)
=============================================================================
