-------------------------- MODULE FreshnessProofs ---------------------------
(***************************************************************************)
(* Proofs about Freshness: how long after it changed an original -- the    *)
(* API key, the tenant's list of models, the Google credentials -- still   *)
(* decides a request, and that good credentials stay ready while the       *)
(* sentinel runs; for any number of requests, any ttls, intervals and      *)
(* waits.                                                                  *)
(***************************************************************************)
EXTENDS Freshness, TLAPS

Stages == Waiting \cup {"idle", "caller", "inspect", "inspected", "shown"}

Entries == [good : BOOLEAN, stored : Nat]

RequestStates == [at : Stages, kind : {"infer", "me"}, since : Nat, allows : BOOLEAN]

Types ==
  /\ now \in 0 .. MaxTime
  /\ gone \in [Originals -> Nat]
  /\ cache \in [Caches -> SUBSET Entries]
  /\ request \in [Requests -> RequestStates]
  /\ probe \in [at : {"stopped", "sleep", "probe"}, since : Nat, down : BOOLEAN]
  /\ status \in SUBSET [good : BOOLEAN, checked : Nat]

\* What has happened is not in the future, and nobody has waited longer than
\* MaxWait or slept longer than Interval.
Clocks ==
  /\ \A o \in Originals : Good(o) \/ gone[o] <= now
  /\ \A c \in Caches : \A e \in cache[c] : e.stored <= now
  /\ \A r \in Requests :
       request[r].at \in Waiting =>
         request[r].since <= now /\ now <= request[r].since + MaxWait
  /\ probe.since <= now
  /\ probe.at = "sleep" => now <= probe.since + Interval
  /\ probe.at = "probe" => now <= probe.since + MaxWait
  /\ probe.at = "stopped" => probe.down
  /\ \A s \in status : s.checked <= now

\* Where the age of the key comes from: a row that waits for bcrypt was in the
\* table when the wait began, so it was stored at most MaxWait after that, and
\* is found for KeyTTL from there.
KeyInv ==
  /\ \A e \in cache["key"] : e.stored <= gone["key"] + MaxWait
  /\ \A r \in Requests :
       /\ request[r].at = "verify" => request[r].since <= gone["key"]
       /\ request[r].at = "verify_cached" => request[r].since < gone["key"] + MaxWait + KeyTTL
  /\ KeyAge

\* The same for the tenant's settings, and for the copy of them in _me_cache.
TenantInv ==
  /\ \A e \in cache["tenant"] : e.good => e.stored <= gone["model"] + MaxWait
  /\ \A e \in cache["me"] : e.good => e.stored < gone["model"] + MaxWait + TenantTTL
  /\ \A r \in Requests :
       request[r].at = "fetched" /\ request[r].allows => request[r].since <= gone["model"]
  /\ TenantAge

\* A good status was checked while the credentials were.
CredentialInv ==
  /\ \A s \in status : s.good => s.checked <= gone["google"]
  /\ CredentialAge

\* While the sentinel runs there is a status, from the probe that ended before
\* this sleep or before the sleep that ended before this probe.
StatusInv ==
  /\ ~ probe.down =>
       \E s \in status :
         /\ probe.at = "sleep" => probe.since <= s.checked + MaxWait
         /\ probe.at = "probe" => probe.since <= s.checked + MaxWait + Interval
  /\ \A s, q \in status : s = q

-----------------------------------------------------------------------------

\* What At makes of a request.
LEMMA AtIs ==
  ASSUME Types, NEW r \in Requests, NEW stage \in Stages
  PROVE  /\ At(r, stage) \in RequestStates
         /\ At(r, stage).at = stage
         /\ At(r, stage).kind = request[r].kind
         /\ At(r, stage).since = IF stage \in Waiting THEN now ELSE 0
         /\ At(r, stage).allows <=> request[r].allows
<1>1. request[r] \in RequestStates /\ now \in Nat
  BY FreshnessAssumption DEF Types
<1> DEFINE t == IF stage \in Waiting THEN now ELSE 0
<1>2. t \in Nat
  BY <1>1
<1>3. At(r, stage) = [request[r] EXCEPT !.at = stage, !.since = t]
  BY DEF At
<1> HIDE DEF t
<1>4. [request[r] EXCEPT !.at = stage, !.since = t] \in RequestStates
  BY <1>1, <1>2 DEF RequestStates
<1> QED
  BY <1>1, <1>3, <1>4 DEF RequestStates, t

\* Idle is a state of a request.
LEMMA IdleIs == Idle \in RequestStates /\ Idle.at = "idle"
BY DEF Idle, RequestStates, Stages

\* A step of one request: it moves to v, where a wait begins now if one begins,
\* and puts entries into the caches, if any, that are stored now.
Moves(r, v) ==
  /\ v \in RequestStates
  /\ v.at \in Waiting => v.since = now
  /\ request' = [request EXCEPT ![r] = v]
  /\ cache' \in [Caches -> SUBSET Entries]
  /\ \A c \in Caches : \A e \in cache'[c] : e \in cache[c] \/ e.stored = now
  /\ UNCHANGED <<now, gone, probe, status>>

\* Every step of a request is such a move.
LEMMA RequestMoves ==
  ASSUME Types, NEW r \in Requests, RequestStep(r)
  PROVE  \E v \in RequestStates : Moves(r, v)
<1> USE FreshnessAssumption DEF Types, Moves
<1>0. /\ now \in Nat /\ cache \in [Caches -> SUBSET Entries]
      /\ request[r] \in RequestStates
      /\ request[r].at \in Stages /\ request[r].kind \in {"infer", "me"}
      /\ request[r].allows \in BOOLEAN
  BY DEF RequestStates
<1>1. ASSUME NEW stage \in Stages
      PROVE  /\ At(r, stage) \in RequestStates
             /\ At(r, stage).at \in Waiting => At(r, stage).since = now
             /\ \A b \in BOOLEAN :
                  LET v == [At(r, stage) EXCEPT !.allows = b]
                  IN  v \in RequestStates /\ (v.at \in Waiting => v.since = now)
  BY <1>0, AtIs DEF RequestStates
<1>2. \A c \in Caches, b \in BOOLEAN, caches \in [Caches -> SUBSET Entries] :
        /\ [caches EXCEPT ![c] = {Entry(b)}] \in [Caches -> SUBSET Entries]
        /\ Entry(b).stored = now
  BY <1>0 DEF Entry, Entries
<1>3. Idle \in RequestStates /\ Idle.at \notin Waiting
  BY IdleIs DEF Waiting
<1>4. "key" \in Caches /\ "tenant" \in Caches /\ "me" \in Caches
  BY DEF Caches
<1>5. Waiting \subseteq Stages /\ {"caller", "inspect", "inspected", "shown"} \subseteq Stages
  BY DEF Stages
<1>6. {"fetch_key", "verify", "verify_cached", "fetch_tenant", "fetched"} \subseteq Waiting
  BY DEF Waiting
<1>7. ASSUME NEW allows \in BOOLEAN, NEW caches \in [Caches -> SUBSET Entries],
             \A c \in Caches : \A e \in caches[c] : e \in cache[c] \/ e.stored = now,
             Settings(r, allows, caches), UNCHANGED <<now, gone, probe, status>>
      PROVE  \E v \in RequestStates : Moves(r, v)
  <2>1. CASE request[r].kind = "me"
    <3> DEFINE v == [At(r, "shown") EXCEPT !.allows = allows]
    <3>1. v \in RequestStates /\ (v.at \in Waiting => v.since = now)
      BY <1>1, <1>5
    <3>2. cache' = [caches EXCEPT !["me"] = {Entry(allows)}] /\ request' = [request EXCEPT ![r] = v]
      BY <2>1, <1>7 DEF Settings
    <3>3. cache' \in [Caches -> SUBSET Entries]
      BY <3>2, <1>2, <1>4
    <3>4. \A c \in Caches : \A e \in cache'[c] : e \in cache[c] \/ e.stored = now
      BY <3>2, <1>7, <1>2, <1>4
    <3> HIDE DEF v
    <3> QED
      BY <3>1, <3>2, <3>3, <3>4, <1>7
  <2>2. CASE request[r].kind # "me"
    <3> DEFINE v == IF allows THEN At(r, "inspect") ELSE Idle
    <3>1. v \in RequestStates /\ (v.at \in Waiting => v.since = now)
      BY <1>1, <1>3, <1>5
    <3>2. cache' = caches /\ request' = [request EXCEPT ![r] = v]
      BY <2>2, <1>7 DEF Settings
    <3> HIDE DEF v
    <3> QED
      BY <3>1, <3>2, <1>7
  <2> QED
    BY <2>1, <2>2
<1>8. ASSUME NEW v \in RequestStates, v.at \in Waiting => v.since = now,
             request' = [request EXCEPT ![r] = v], UNCHANGED <<now, gone, cache, probe, status>>
      PROVE  \E w \in RequestStates : Moves(r, w)
  BY <1>8, <1>0
<1>9. ASSUME Arrive(r) PROVE \E v \in RequestStates : Moves(r, v)
  <2>1. PICK kind \in {"infer", "me"} :
          request' = [request EXCEPT ![r] =
            [Idle EXCEPT !.kind = kind, !.since = now,
                         !.at = IF Hit("key") THEN "verify_cached" ELSE "fetch_key"]]
    BY <1>9 DEF Arrive
  <2> DEFINE v == [Idle EXCEPT !.kind = kind, !.since = now,
                               !.at = IF Hit("key") THEN "verify_cached" ELSE "fetch_key"]
  <2>2. v \in RequestStates /\ v.since = now
    BY <1>0, <1>5, <1>6 DEF Idle, RequestStates
  <2> HIDE DEF v
  <2> QED
    BY <2>1, <2>2, <1>8, <1>9 DEF Arrive, v
<1>10. ASSUME FetchKey(r) PROVE \E v \in RequestStates : Moves(r, v)
  BY <1>10, <1>1, <1>3, <1>5, <1>6, <1>8 DEF FetchKey
<1>11. ASSUME Verified(r) PROVE \E v \in RequestStates : Moves(r, v)
  <2>1. cache' \in [Caches -> SUBSET Entries]
    BY <1>0, <1>2, <1>4, <1>11 DEF Verified, VerifiedCache
  <2>2. \A c \in Caches : \A e \in cache'[c] : e \in cache[c] \/ e.stored = now
    BY <1>0, <1>2, <1>4, <1>11 DEF Verified, VerifiedCache
  <2> QED
    BY <1>1, <1>5, <1>11, <2>1, <2>2 DEF Verified
<1>12. ASSUME LookUp(r) PROVE \E v \in RequestStates : Moves(r, v)
  <2>1. CASE request[r].kind = "me" /\ Hit("me")
    <3>1. Value("me") \in BOOLEAN
      BY DEF Value
    <3> QED
      BY <2>1, <3>1, <1>1, <1>5, <1>8, <1>12 DEF LookUp
  <2>2. CASE ~ (request[r].kind = "me" /\ Hit("me")) /\ Hit("tenant")
    <3>1. Value("tenant") \in BOOLEAN
      BY DEF Value
    <3> QED
      BY <2>2, <3>1, <1>0, <1>7, <1>12 DEF LookUp
  <2>3. CASE ~ (request[r].kind = "me" /\ Hit("me")) /\ ~ Hit("tenant")
    BY <2>3, <1>1, <1>5, <1>6, <1>8, <1>12 DEF LookUp
  <2> QED
    BY <2>1, <2>2, <2>3
<1>13. ASSUME FetchTenant(r) PROVE \E v \in RequestStates : Moves(r, v)
  <2>1. Good("model") \in BOOLEAN
    BY DEF Good
  <2> QED
    BY <2>1, <1>1, <1>5, <1>6, <1>8, <1>13 DEF FetchTenant
<1>14. ASSUME StoreTenant(r) PROVE \E v \in RequestStates : Moves(r, v)
  <2> DEFINE caches == [cache EXCEPT !["tenant"] = {Entry(request[r].allows)}]
  <2>1. /\ caches \in [Caches -> SUBSET Entries]
        /\ \A c \in Caches : \A e \in caches[c] : e \in cache[c] \/ e.stored = now
    BY <1>0, <1>2, <1>4
  <2> HIDE DEF caches
  <2> QED
    BY <1>0, <1>7, <1>14, <2>1 DEF StoreTenant, caches
<1>15. ASSUME Inspect(r) PROVE \E v \in RequestStates : Moves(r, v)
  BY <1>1, <1>3, <1>5, <1>8, <1>15 DEF Inspect
<1>16. ASSUME Leave(r) PROVE \E v \in RequestStates : Moves(r, v)
  BY <1>3, <1>8, <1>16 DEF Leave
<1> QED
  BY <1>9, <1>10, <1>11, <1>12, <1>13, <1>14, <1>15, <1>16 DEF RequestStep

\* Type correctness, and the order of the times that are compared.
THEOREM ClocksCorrect == Spec => [](Types /\ Clocks)
<1> USE FreshnessAssumption
    DEF Types, Clocks, Originals, Caches, Good, Never
<1>1. Init => Types /\ Clocks
  BY DEF Init, Idle, Stopped, RequestStates, Stages, Entries, Waiting
<1>2. Types /\ Clocks /\ [Next]_vars => (Types /\ Clocks)'
  <2> SUFFICES ASSUME Types, Clocks, [Next]_vars PROVE (Types /\ Clocks)'
    OBVIOUS
  <2>1. ASSUME NEW o \in Originals, Change(o) PROVE (Types /\ Clocks)'
    BY <2>1 DEF Change
  <2>2. ASSUME NEW r \in Requests, RequestStep(r) PROVE (Types /\ Clocks)'
    <3>1. PICK v \in RequestStates : Moves(r, v)
      BY <2>2, RequestMoves
    <3>2. now \in Nat
      OBVIOUS
    <3> QED
      BY <3>1, <3>2 DEF Moves
  <2>10. ASSUME StartProbe PROVE (Types /\ Clocks)'
    <3>1. probe' \in [at : {"stopped", "sleep", "probe"}, since : Nat, down : BOOLEAN]
      <4>1. now \in Nat
        OBVIOUS
      <4> QED
        BY <2>10, <4>1, Zenon DEF StartProbe
    <3>2. probe'.at = "probe" /\ probe'.since = now
      BY <2>10 DEF StartProbe
    <3> QED
      BY <2>10, <3>1, <3>2 DEF StartProbe
  <2>11. ASSUME WriteStatus PROVE (Types /\ Clocks)'
    <3>1. PICK good \in BOOLEAN : status' = {[good |-> good, checked |-> probe.since]}
      <4>1. (gone["google"] >= probe.since) \in BOOLEAN
        OBVIOUS
      <4> QED
        BY <2>11, <4>1, Zenon DEF WriteStatus, Preflight, CheckedAt
    <3>2. probe' = [at |-> "sleep", since |-> now, down |-> FALSE]
      BY <2>11 DEF WriteStatus
    <3>3. UNCHANGED <<now, gone, cache, request>>
      BY <2>11 DEF WriteStatus
    <3>4. now \in Nat /\ probe.since \in Nat /\ probe.since <= now
      OBVIOUS
    <3>5. status' \in SUBSET [good : BOOLEAN, checked : Nat]
      BY <3>1, <3>4
    <3>6. probe' \in [at : {"stopped", "sleep", "probe"}, since : Nat, down : BOOLEAN]
      BY <3>2, <3>4
    <3>7. probe'.at = "sleep" /\ probe'.since = now
      BY <3>2
    <3>8. \A s \in status' : s.checked <= now
      BY <3>1, <3>4
    <3> QED
      BY <3>3, <3>4, <3>5, <3>6, <3>7, <3>8
  <2>12. ASSUME SentinelStops PROVE (Types /\ Clocks)'
    BY <2>12 DEF SentinelStops, Stopped
  <2>13. ASSUME Tick PROVE (Types /\ Clocks)'
    <3>1. now' \in 0 .. MaxTime /\ now' = now + 1
      BY <2>13 DEF Tick
    <3>2. /\ cache' \in [Caches -> SUBSET Entries]
          /\ \A c \in Caches : cache'[c] \subseteq cache[c]
      BY <2>13 DEF Tick
    <3>3. ASSUME NEW r \in Requests, request[r].at \in Waiting
          PROVE  now < request[r].since + MaxWait
      BY <2>13, <3>3 DEF Tick, Waiting
    <3>4. /\ probe.at = "sleep" => now < probe.since + Interval
          /\ probe.at = "probe" => now < probe.since + MaxWait
      BY <2>13 DEF Tick
    <3>5. \A r \in Requests : request[r].since \in Nat
      BY DEF RequestStates
    <3>6. \A c \in Caches : \A e \in cache[c] : e.stored \in Nat
      BY DEF Entries
    <3>7. UNCHANGED <<gone, request, probe, status>>
      BY <2>13 DEF Tick
    <3>8. Types'
      BY <3>1, <3>2, <3>7
    <3>9. Clocks'
      BY <3>1, <3>2, <3>3, <3>4, <3>5, <3>6, <3>7
    <3> QED
      BY <3>8, <3>9
  <2>14. ASSUME UNCHANGED vars PROVE (Types /\ Clocks)'
    BY <2>14 DEF vars
  <2> QED
    BY <2>1, <2>2, <2>10, <2>11, <2>12, <2>13, <2>14 DEF Next
<1> QED
  BY <1>1, <1>2, PTL DEF Spec

-----------------------------------------------------------------------------
(* The age of the key. *)

\* Where the settings take a request, and what they leave in the caches.
LEMMA SettingsMove ==
  ASSUME Types, NEW r \in Requests, NEW allows \in BOOLEAN, NEW caches, Settings(r, allows, caches)
  PROVE  \E v \in RequestStates :
           /\ request' = [request EXCEPT ![r] = v]
           /\ v.at \in {"idle", "inspect", "shown"}
           /\ v.at = "inspect" \/ (v.at = "shown" /\ v.allows) => allows
           /\ cache' = caches \/ cache' = [caches EXCEPT !["me"] = {Entry(allows)}]
<1>1. "shown" \in Stages /\ "inspect" \in Stages /\ request[r] \in RequestStates
  BY DEF Stages, Types
<1>2. CASE request[r].kind = "me"
  <2> DEFINE v == [At(r, "shown") EXCEPT !.allows = allows]
  <2>1. v \in RequestStates /\ v.at = "shown" /\ (v.allows <=> allows)
    BY <1>1, AtIs DEF RequestStates
  <2>2. cache' = [caches EXCEPT !["me"] = {Entry(allows)}] /\ request' = [request EXCEPT ![r] = v]
    BY <1>2 DEF Settings
  <2> HIDE DEF v
  <2> QED
    BY <2>1, <2>2
<1>3. CASE request[r].kind # "me" /\ allows
  BY <1>1, <1>3, AtIs DEF Settings
<1>4. CASE request[r].kind # "me" /\ ~ allows
  BY <1>4, IdleIs DEF Settings
<1> QED
  BY <1>2, <1>3, <1>4

\* A step of a request outside authentication: the key and the requests that
\* authenticate are left alone.
LEMMA BeyondAuthentication ==
  ASSUME Types, NEW r \in Requests,
         LookUp(r) \/ FetchTenant(r) \/ StoreTenant(r) \/ Inspect(r) \/ Leave(r)
  PROVE  /\ cache'["key"] = cache["key"]
         /\ \E v \in RequestStates :
              /\ request' = [request EXCEPT ![r] = v]
              /\ v.at \notin {"verify", "verify_cached", "caller"}
              /\ v.at = "inspected" => Ready
         /\ UNCHANGED <<now, gone, status>>
<1>1. /\ cache \in [Caches -> SUBSET Entries] /\ "key" \in Caches
      /\ request[r].allows \in BOOLEAN
  BY DEF Types, Caches, RequestStates
<1>2. {"fetch_tenant", "fetched", "inspected", "shown"} \subseteq Stages
  BY DEF Stages, Waiting
<1>3. ASSUME NEW allows \in BOOLEAN, NEW caches \in [Caches -> SUBSET Entries],
             Settings(r, allows, caches)
      PROVE  /\ cache'["key"] = caches["key"]
             /\ \E v \in RequestStates :
                  /\ request' = [request EXCEPT ![r] = v]
                  /\ v.at \notin {"verify", "verify_cached", "caller", "inspected"}
  <2>1. PICK v \in RequestStates :
           /\ request' = [request EXCEPT ![r] = v]
           /\ v.at \in {"idle", "inspect", "shown"}
           /\ cache' = caches \/ cache' = [caches EXCEPT !["me"] = {Entry(allows)}]
    BY <1>3, SettingsMove
  <2>2. [caches EXCEPT !["me"] = {Entry(allows)}]["key"] = caches["key"]
    BY <1>1
  <2> QED
    BY <2>1, <2>2
<1>4. CASE LookUp(r)
  <2>1. Value("me") \in BOOLEAN /\ Value("tenant") \in BOOLEAN
    BY DEF Value
  <2>2. CASE request[r].kind = "me" /\ Hit("me")
    <3> DEFINE v == [At(r, "shown") EXCEPT !.allows = Value("me")]
    <3>1. v \in RequestStates /\ v.at = "shown"
      BY <1>2, <2>1, AtIs DEF RequestStates
    <3>2. request' = [request EXCEPT ![r] = v] /\ UNCHANGED <<now, gone, cache, status>>
      BY <1>4, <2>2 DEF LookUp
    <3> HIDE DEF v
    <3> QED
      BY <3>1, <3>2
  <2>3. CASE ~ (request[r].kind = "me" /\ Hit("me")) /\ Hit("tenant")
    BY <1>1, <1>3, <1>4, <2>1, <2>3 DEF LookUp
  <2>4. CASE ~ (request[r].kind = "me" /\ Hit("me")) /\ ~ Hit("tenant")
    BY <1>2, <1>4, <2>4, AtIs DEF LookUp
  <2> QED
    BY <2>2, <2>3, <2>4
<1>5. CASE FetchTenant(r)
  <2>1. Good("model") \in BOOLEAN
    BY DEF Good
  <2> DEFINE v == [At(r, "fetched") EXCEPT !.allows = Good("model")]
  <2>2. v \in RequestStates /\ v.at = "fetched"
    BY <1>2, <2>1, AtIs DEF RequestStates
  <2>3. request' = [request EXCEPT ![r] = v] /\ UNCHANGED <<now, gone, cache, status>>
    BY <1>5 DEF FetchTenant
  <2> HIDE DEF v
  <2> QED
    BY <2>2, <2>3
<1>6. CASE StoreTenant(r)
  <2> DEFINE caches == [cache EXCEPT !["tenant"] = {Entry(request[r].allows)}]
  <2>1. Entry(request[r].allows) \in Entries
    BY <1>1, FreshnessAssumption DEF Entry, Entries, Types
  <2>2. caches \in [Caches -> SUBSET Entries] /\ caches["key"] = cache["key"]
    BY <1>1, <2>1
  <2> HIDE DEF caches
  <2> QED
    BY <1>1, <1>3, <1>6, <2>2 DEF StoreTenant, caches
<1>7. CASE Inspect(r)
  BY <1>2, <1>7, AtIs, IdleIs DEF Inspect
<1>8. CASE Leave(r)
  BY <1>8, IdleIs DEF Leave
<1> QED
  BY <1>4, <1>5, <1>6, <1>7, <1>8

\* A deleted key gets no request past authentication later than KeyTTL and two
\* waits after it was deleted: use does not extend the life of the cached row.
THEOREM KeyAgeCorrect == Spec => []KeyAge
<1> USE FreshnessAssumption DEF Originals, Caches, Good, Never
<1>1. Init => KeyInv
  BY DEF Init, Idle, KeyInv, KeyAge
<1>2. Types /\ Clocks /\ KeyInv /\ [Next]_vars => KeyInv'
  <2> SUFFICES ASSUME Types, Clocks, KeyInv, [Next]_vars PROVE KeyInv'
    OBVIOUS
  <2>0. /\ now \in Nat /\ now <= MaxTime
        /\ gone["key"] \in Nat
        /\ \A r \in Requests : request[r] \in RequestStates /\ request[r].since \in Nat
        /\ \A e \in cache["key"] : e.stored \in Nat /\ e.stored <= now
        /\ \A r \in Requests :
             request[r].at \in {"verify", "verify_cached"} =>
               request[r].since <= now /\ now <= request[r].since + MaxWait
    BY DEF Types, Clocks, RequestStates, Entries, Waiting
  <2>1. ASSUME NEW o \in Originals, Change(o) PROVE KeyInv'
    <3>1. gone'["key"] = gone["key"] \/ gone'["key"] = now
      BY <2>1 DEF Change, Types
    <3> QED
      BY <2>0, <2>1, <3>1 DEF Change, KeyInv, KeyAge
  <2>2. ASSUME NEW r \in Requests, NEW v \in RequestStates,
               request' = [request EXCEPT ![r] = v], UNCHANGED <<now, gone>>,
               \A e \in cache'["key"] : e.stored <= gone["key"] + MaxWait,
               v.at = "verify" => v.since <= gone["key"],
               v.at = "verify_cached" => v.since < gone["key"] + MaxWait + KeyTTL,
               v.at = "caller" => now < gone["key"] + KeyTTL + 2 * MaxWait
        PROVE  KeyInv'
    <3>1. \A q \in Requests : request'[q] = IF q = r THEN v ELSE request[q]
      BY <2>2 DEF Types
    <3> QED
      BY <2>2, <3>1 DEF KeyInv, KeyAge
  <2>3. ASSUME NEW r \in Requests, Arrive(r) PROVE KeyInv'
    <3>1. PICK kind \in {"infer", "me"} :
            request' = [request EXCEPT ![r] =
              [Idle EXCEPT !.kind = kind, !.since = now,
                           !.at = IF Hit("key") THEN "verify_cached" ELSE "fetch_key"]]
      BY <2>3 DEF Arrive
    <3> DEFINE v == [Idle EXCEPT !.kind = kind, !.since = now,
                                 !.at = IF Hit("key") THEN "verify_cached" ELSE "fetch_key"]
    <3>2. /\ v \in RequestStates
          /\ v.at = IF Hit("key") THEN "verify_cached" ELSE "fetch_key"
          /\ v.since = now
      BY <2>0 DEF Idle, RequestStates, Stages, Waiting
    <3>3. Hit("key") => now < gone["key"] + MaxWait + KeyTTL
      BY <2>0 DEF Hit, Cached, Fresh, TTL, KeyInv
    <3> HIDE DEF v
    <3>4. request' = [request EXCEPT ![r] = v] /\ UNCHANGED <<now, gone, cache>>
      BY <2>3, <3>1 DEF Arrive, v
    <3> QED
      BY <2>2, <3>2, <3>3, <3>4 DEF KeyInv
  <2>4. ASSUME NEW r \in Requests, FetchKey(r) PROVE KeyInv'
    <3>1. "verify" \in Stages /\ "verify" \in Waiting
      BY DEF Stages, Waiting
    <3>2. CASE gone["key"] = MaxTime + 1
      <4>1. request' = [request EXCEPT ![r] = At(r, "verify")] /\ UNCHANGED <<now, gone, cache>>
        BY <2>4, <3>2 DEF FetchKey
      <4>2. /\ At(r, "verify") \in RequestStates
            /\ At(r, "verify").at = "verify" /\ At(r, "verify").since = now
        BY <3>1, AtIs
      <4>3. now <= gone["key"]
        BY <2>0, <3>2
      <4>4. \A e \in cache'["key"] : e.stored <= gone["key"] + MaxWait
        BY <4>1 DEF KeyInv
      <4> QED
        BY <2>2, <4>1, <4>2, <4>3, <4>4
    <3>3. CASE gone["key"] # MaxTime + 1
      BY <2>2, <2>4, <3>3, IdleIs DEF FetchKey, KeyInv
    <3> QED
      BY <3>2, <3>3
  <2>5. ASSUME NEW r \in Requests, Verified(r) PROVE KeyInv'
    <3>1. /\ At(r, "caller") \in RequestStates /\ At(r, "caller").at = "caller"
          /\ request' = [request EXCEPT ![r] = At(r, "caller")]
          /\ UNCHANGED <<now, gone>>
      BY <2>5, AtIs DEF Verified, Stages
    <3>2. \A e \in cache'["key"] : e.stored <= gone["key"] + MaxWait
      <4>1. CASE request[r].at = "verify"
        <5>1. cache'["key"] = {Entry(TRUE)}
          BY <2>5, <4>1 DEF Verified, VerifiedCache, Types
        <5> QED
          BY <2>0, <4>1, <5>1 DEF Entry, KeyInv
      <4>2. CASE request[r].at # "verify"
        BY <2>5, <4>2 DEF Verified, VerifiedCache, KeyInv
      <4> QED
        BY <4>1, <4>2
    <3>3. now < gone["key"] + KeyTTL + 2 * MaxWait
      BY <2>0, <2>5 DEF Verified, KeyInv
    <3> QED
      BY <2>2, <3>1, <3>2, <3>3
  <2>6. ASSUME NEW r \in Requests,
               LookUp(r) \/ FetchTenant(r) \/ StoreTenant(r) \/ Inspect(r) \/ Leave(r)
        PROVE  KeyInv'
    BY <2>2, <2>6, BeyondAuthentication DEF KeyInv
  <2>7. ASSUME StartProbe \/ WriteStatus \/ SentinelStops PROVE KeyInv'
    BY <2>7 DEF StartProbe, WriteStatus, SentinelStops, KeyInv, KeyAge
  <2>8. ASSUME Tick PROVE KeyInv'
    <3>1. \A r \in Requests : request[r].at # "caller"
      BY <2>8 DEF Tick, Waiting
    <3>2. cache'["key"] \subseteq cache["key"]
      BY <2>8 DEF Tick
    <3> QED
      BY <2>8, <3>1, <3>2 DEF Tick, KeyInv, KeyAge
  <2>9. ASSUME UNCHANGED vars PROVE KeyInv'
    BY <2>9 DEF vars, KeyInv, KeyAge
  <2> QED
    BY <2>1, <2>3, <2>4, <2>5, <2>6, <2>7, <2>8, <2>9 DEF Next, RequestStep
<1>3. KeyInv => KeyAge
  BY DEF KeyInv
<1> QED
  BY <1>1, <1>2, <1>3, ClocksCorrect, PTL DEF Spec

-----------------------------------------------------------------------------
(* The age of the tenant's settings. *)

\* A step of authentication: the settings and the requests beyond are left
\* alone.
LEMMA Authentication ==
  ASSUME Types, NEW r \in Requests, Arrive(r) \/ FetchKey(r) \/ Verified(r)
  PROVE  /\ cache'["tenant"] = cache["tenant"] /\ cache'["me"] = cache["me"]
         /\ \E v \in RequestStates :
              /\ request' = [request EXCEPT ![r] = v]
              /\ v.at \notin {"fetched", "inspect", "inspected", "shown"}
         /\ UNCHANGED <<now, gone, status>>
<1>1. {"verify", "caller"} \subseteq Stages
  BY DEF Stages, Waiting
<1>2. CASE Arrive(r)
  <2>1. PICK kind \in {"infer", "me"} :
          request' = [request EXCEPT ![r] =
            [Idle EXCEPT !.kind = kind, !.since = now,
                         !.at = IF Hit("key") THEN "verify_cached" ELSE "fetch_key"]]
    BY <1>2 DEF Arrive
  <2> DEFINE v == [Idle EXCEPT !.kind = kind, !.since = now,
                               !.at = IF Hit("key") THEN "verify_cached" ELSE "fetch_key"]
  <2>2. v \in RequestStates /\ v.at \in {"verify_cached", "fetch_key"}
    <3>1. now \in Nat
      BY FreshnessAssumption DEF Types
    <3> QED
      BY <3>1 DEF Idle, RequestStates, Stages, Waiting
  <2> HIDE DEF v
  <2> QED
    BY <1>2, <2>1, <2>2 DEF Arrive, v
<1>3. CASE FetchKey(r)
  BY <1>1, <1>3, AtIs, IdleIs DEF FetchKey
<1>4. CASE Verified(r)
  <2>1. cache'["tenant"] = cache["tenant"] /\ cache'["me"] = cache["me"]
    BY <1>4 DEF Verified, VerifiedCache, Types, Caches
  <2> QED
    BY <1>1, <1>4, <2>1, AtIs DEF Verified
<1> QED
  BY <1>2, <1>3, <1>4

\* A model that was taken off the tenant's list passes for TenantTTL and a wait,
\* whatever order slow reads store their answers in, and /v1/me shows it for
\* another TenantTTL at most.
THEOREM TenantAgeCorrect == Spec => []TenantAge
<1> USE FreshnessAssumption DEF Originals, Caches, Good, Never
<1>1. Init => TenantInv
  BY DEF Init, Idle, TenantInv, TenantAge
<1>2. Types /\ Clocks /\ TenantInv /\ [Next]_vars => TenantInv'
  <2> SUFFICES ASSUME Types, Clocks, TenantInv, [Next]_vars PROVE TenantInv'
    OBVIOUS
  <2> DEFINE InTenant(e) == e.good => e.stored <= gone["model"] + MaxWait
             InMe(e) == e.good => e.stored < gone["model"] + MaxWait + TenantTTL
  <2>0. /\ now \in Nat /\ now <= MaxTime
        /\ gone["model"] \in Nat
        /\ cache \in [Caches -> SUBSET Entries]
        /\ \A r \in Requests : request[r] \in RequestStates /\ request[r].since \in Nat
                               /\ request[r].allows \in BOOLEAN
        /\ \A c \in {"tenant", "me"} :
             \A e \in cache[c] : e.stored \in Nat /\ e.stored <= now
        /\ \A r \in Requests :
             request[r].at = "fetched" =>
               request[r].since <= now /\ now <= request[r].since + MaxWait
    BY DEF Types, Clocks, RequestStates, Entries, Waiting
  <2>1. ASSUME NEW o \in Originals, Change(o) PROVE TenantInv'
    <3>1. gone'["model"] = gone["model"] \/ gone'["model"] = now
      BY <2>1 DEF Change, Types
    <3> QED
      BY <2>0, <2>1, <3>1 DEF Change, TenantInv, TenantAge
  <2>2. ASSUME NEW r \in Requests, NEW v \in RequestStates,
               request' = [request EXCEPT ![r] = v], UNCHANGED <<now, gone>>,
               \A e \in cache'["tenant"] : InTenant(e), \A e \in cache'["me"] : InMe(e),
               v.at = "fetched" /\ v.allows => v.since <= gone["model"],
               v.at = "inspect" => now < gone["model"] + TenantTTL + MaxWait,
               (v.at = "shown" /\ v.allows) => now < gone["model"] + 2 * TenantTTL + MaxWait - 1
        PROVE  TenantInv'
    <3>1. \A q \in Requests : request'[q] = IF q = r THEN v ELSE request[q]
      BY <2>2 DEF Types
    <3> QED
      BY <2>2, <3>1 DEF TenantInv, TenantAge
  <2>3. (\A e \in cache["tenant"] : InTenant(e)) /\ (\A e \in cache["me"] : InMe(e))
    BY DEF TenantInv
  <2>4. ASSUME NEW r \in Requests, NEW allows \in BOOLEAN,
               NEW caches \in [Caches -> SUBSET Entries], Settings(r, allows, caches),
               UNCHANGED <<now, gone>>,
               \A e \in caches["tenant"] : InTenant(e), \A e \in caches["me"] : InMe(e),
               allows => now < gone["model"] + TenantTTL + MaxWait
        PROVE  TenantInv'
    <3>1. PICK v \in RequestStates :
            /\ request' = [request EXCEPT ![r] = v]
            /\ v.at \in {"idle", "inspect", "shown"}
            /\ v.at = "inspect" \/ (v.at = "shown" /\ v.allows) => allows
            /\ cache' = caches \/ cache' = [caches EXCEPT !["me"] = {Entry(allows)}]
      BY <2>4, SettingsMove
    <3>2. \A e \in cache'["tenant"] : InTenant(e)
      BY <2>4, <3>1
    <3>3. \A e \in cache'["me"] : InMe(e)
      <4>1. InMe(Entry(allows))
        BY <2>0, <2>4 DEF Entry
      <4> QED
        BY <2>4, <3>1, <4>1
    <3>4. allows => now < gone["model"] + 2 * TenantTTL + MaxWait - 1
      BY <2>0, <2>4
    <3> HIDE DEF InTenant, InMe
    <3> QED
      BY <2>2, <2>4, <3>1, <3>2, <3>3, <3>4
  <2>5. ASSUME NEW r \in Requests, Arrive(r) \/ FetchKey(r) \/ Verified(r) PROVE TenantInv'
    <3>1. PICK v \in RequestStates :
            /\ request' = [request EXCEPT ![r] = v]
            /\ v.at \notin {"fetched", "inspect", "inspected", "shown"}
      BY <2>5, Authentication
    <3>2. /\ cache'["tenant"] = cache["tenant"] /\ cache'["me"] = cache["me"]
          /\ UNCHANGED <<now, gone>>
      BY <2>5, Authentication
    <3> HIDE DEF InTenant, InMe
    <3> QED
      BY <2>2, <2>3, <3>1, <3>2
  <2>6. ASSUME NEW r \in Requests, LookUp(r) PROVE TenantInv'
    <3>0. UNCHANGED <<now, gone>> /\ Value("me") \in BOOLEAN /\ Value("tenant") \in BOOLEAN
      BY <2>6 DEF LookUp, Value
    <3>1. CASE request[r].kind = "me" /\ Hit("me")
      <4> DEFINE v == [At(r, "shown") EXCEPT !.allows = Value("me")]
      <4>1. v \in RequestStates /\ v.at = "shown" /\ (v.allows <=> Value("me"))
        BY <3>0, AtIs DEF RequestStates, Stages
      <4>2. request' = [request EXCEPT ![r] = v] /\ UNCHANGED cache
        BY <2>6, <3>1 DEF LookUp
      <4>3. Value("me") => now < gone["model"] + 2 * TenantTTL + MaxWait - 1
        BY <2>0, <2>3 DEF Value, Cached, Fresh, TTL
      <4> HIDE DEF v, InTenant, InMe
      <4> QED
        BY <2>2, <2>3, <3>0, <4>1, <4>2, <4>3
    <3>2. CASE ~ (request[r].kind = "me" /\ Hit("me")) /\ Hit("tenant")
      <4>1. Value("tenant") => now < gone["model"] + TenantTTL + MaxWait
        BY <2>0, <2>3 DEF Value, Cached, Fresh, TTL
      <4>2. Settings(r, Value("tenant"), cache)
        BY <2>6, <3>2 DEF LookUp
      <4> HIDE DEF InTenant, InMe
      <4> QED
        BY <2>0, <2>3, <2>4, <3>0, <4>1, <4>2
    <3>3. CASE ~ (request[r].kind = "me" /\ Hit("me")) /\ ~ Hit("tenant")
      <4>1. request' = [request EXCEPT ![r] = At(r, "fetch_tenant")] /\ UNCHANGED cache
        BY <2>6, <3>3 DEF LookUp
      <4>2. At(r, "fetch_tenant") \in RequestStates /\ At(r, "fetch_tenant").at = "fetch_tenant"
        BY AtIs DEF Stages, Waiting
      <4> HIDE DEF InTenant, InMe
      <4> QED
        BY <2>2, <2>3, <3>0, <4>1, <4>2
    <3> QED
      BY <3>1, <3>2, <3>3
  <2>7. ASSUME NEW r \in Requests, FetchTenant(r) PROVE TenantInv'
    <3> DEFINE v == [At(r, "fetched") EXCEPT !.allows = Good("model")]
    <3>1. (gone["model"] = MaxTime + 1) \in BOOLEAN
      OBVIOUS
    <3>2. At(r, "fetched") \in RequestStates /\ At(r, "fetched").at = "fetched"
          /\ At(r, "fetched").since = now
      BY AtIs DEF Stages, Waiting
    <3>3. /\ v \in RequestStates /\ v.at = "fetched" /\ v.since = now
          /\ v.allows <=> gone["model"] = MaxTime + 1
      BY <3>1, <3>2 DEF RequestStates
    <3>4. request' = [request EXCEPT ![r] = v] /\ UNCHANGED <<now, gone, cache>>
      BY <2>7 DEF FetchTenant
    <3>5. v.allows => v.since <= gone["model"]
      BY <2>0, <3>3
    <3> HIDE DEF v, InTenant, InMe
    <3> QED
      BY <2>2, <2>3, <3>3, <3>4, <3>5
  <2>8. ASSUME NEW r \in Requests, StoreTenant(r) PROVE TenantInv'
    <3> DEFINE caches == [cache EXCEPT !["tenant"] = {Entry(request[r].allows)}]
    <3>1. request[r].allows => now <= gone["model"] + MaxWait
      BY <2>0, <2>8 DEF StoreTenant, TenantInv
    <3>2. /\ Entry(request[r].allows) \in Entries
          /\ InTenant(Entry(request[r].allows))
      BY <2>0, <3>1 DEF Entry, Entries
    <3>3. /\ caches \in [Caches -> SUBSET Entries]
          /\ \A e \in caches["tenant"] : InTenant(e)
          /\ caches["me"] = cache["me"]
      BY <2>0, <3>2
    <3>4. request[r].allows => now < gone["model"] + TenantTTL + MaxWait
      BY <2>0, <3>1
    <3>5. Settings(r, request[r].allows, caches) /\ UNCHANGED <<now, gone>>
      BY <2>8 DEF StoreTenant
    <3> HIDE DEF caches, InTenant, InMe
    <3> QED
      BY <2>0, <2>3, <2>4, <3>3, <3>4, <3>5
  <2>9. ASSUME NEW r \in Requests, Inspect(r) \/ Leave(r) PROVE TenantInv'
    <3>1. UNCHANGED <<now, gone, cache>>
      BY <2>9 DEF Inspect, Leave
    <3>2. PICK v \in {Idle, At(r, "inspected")} : request' = [request EXCEPT ![r] = v]
      BY <2>9 DEF Inspect, Leave
    <3>3. v \in RequestStates /\ v.at \in {"idle", "inspected"}
      BY <3>2, AtIs, IdleIs DEF Stages
    <3> HIDE DEF InTenant, InMe
    <3> QED
      BY <2>2, <2>3, <3>1, <3>2, <3>3
  <2>10. ASSUME StartProbe \/ WriteStatus \/ SentinelStops PROVE TenantInv'
    BY <2>10 DEF StartProbe, WriteStatus, SentinelStops, TenantInv, TenantAge
  <2>11. ASSUME Tick PROVE TenantInv'
    <3>1. \A r \in Requests : request[r].at \notin {"inspect", "shown"}
      BY <2>11 DEF Tick, Waiting
    <3>2. cache'["tenant"] \subseteq cache["tenant"] /\ cache'["me"] \subseteq cache["me"]
      BY <2>11 DEF Tick
    <3> QED
      BY <2>11, <3>1, <3>2 DEF Tick, TenantInv, TenantAge
  <2>12. ASSUME UNCHANGED vars PROVE TenantInv'
    BY <2>12 DEF vars, TenantInv, TenantAge
  <2> QED
    BY <2>1, <2>5, <2>6, <2>7, <2>8, <2>9, <2>10, <2>11, <2>12 DEF Next, RequestStep
<1>3. TenantInv => TenantAge
  BY DEF TenantInv
<1> QED
  BY <1>1, <1>2, <1>3, ClocksCorrect, PTL DEF Spec

-----------------------------------------------------------------------------
(* The credentials. *)

\* Governance passes no request later than MaxAge after Google revoked the
\* credentials, however long a probe took and whether the sentinel runs or not.
THEOREM CredentialAgeCorrect == Spec => []CredentialAge
<1> USE FreshnessAssumption DEF Originals, Good, Never
<1>1. Init => CredentialInv
  BY DEF Init, Idle, CredentialInv, CredentialAge
<1>2. Types /\ Clocks /\ CredentialInv /\ [Next]_vars => CredentialInv'
  <2> SUFFICES ASSUME Types, Clocks, CredentialInv, [Next]_vars PROVE CredentialInv'
    OBVIOUS
  <2>0. /\ now \in Nat /\ now <= MaxTime /\ gone["google"] \in Nat
        /\ probe.since \in Nat /\ probe.since <= now
        /\ \A s \in status : s.checked \in Nat /\ s.checked <= now
    BY DEF Types, Clocks
  <2>1. ASSUME NEW o \in Originals, Change(o) PROVE CredentialInv'
    <3>1. gone'["google"] = gone["google"] \/ gone'["google"] = now
      BY <2>1 DEF Change, Types
    <3> QED
      BY <2>0, <2>1, <3>1 DEF Change, CredentialInv, CredentialAge
  <2>2. ASSUME NEW r \in Requests, RequestStep(r) PROVE CredentialInv'
    <3>1. PICK v \in RequestStates :
            /\ request' = [request EXCEPT ![r] = v]
            /\ v.at = "inspected" => Ready
      BY <2>2, Authentication, BeyondAuthentication DEF RequestStep
    <3>2. UNCHANGED <<now, gone, status>>
      BY <2>2, Authentication, BeyondAuthentication DEF RequestStep
    <3>3. Ready => now <= gone["google"] + MaxAge
      BY <2>0 DEF Ready, CredentialInv
    <3>4. \A q \in Requests : request'[q] = IF q = r THEN v ELSE request[q]
      BY <3>1 DEF Types
    <3> QED
      BY <3>1, <3>2, <3>3, <3>4 DEF CredentialInv, CredentialAge
  <2>3. ASSUME StartProbe \/ SentinelStops PROVE CredentialInv'
    BY <2>3 DEF StartProbe, SentinelStops, CredentialInv, CredentialAge
  <2>4. ASSUME WriteStatus PROVE CredentialInv'
    <3>1. PICK good \in Preflight : status' = {[good |-> good, checked |-> probe.since]}
      BY <2>4 DEF WriteStatus, CheckedAt
    <3>2. good => probe.since <= gone["google"]
      <4>1. good => gone["google"] >= probe.since
        BY Zenon DEF Preflight
      <4> QED
        BY <2>0, <4>1
    <3>3. \A s \in status' : s.good => s.checked <= gone["google"]
      BY <3>1, <3>2
    <3> QED
      BY <2>4, <3>3 DEF WriteStatus, CredentialInv, CredentialAge
  <2>5. ASSUME Tick PROVE CredentialInv'
    <3>1. \A r \in Requests : request[r].at # "inspected"
      BY <2>5 DEF Tick, Waiting
    <3> QED
      BY <2>5, <3>1 DEF Tick, CredentialInv, CredentialAge
  <2>6. ASSUME UNCHANGED vars PROVE CredentialInv'
    BY <2>6 DEF vars, CredentialInv, CredentialAge
  <2> QED
    BY <2>1, <2>2, <2>3, <2>4, <2>5, <2>6 DEF Next
<1>3. CredentialInv => CredentialAge
  BY DEF CredentialInv
<1> QED
  BY <1>1, <1>2, <1>3, ClocksCorrect, PTL DEF Spec

\* While the sentinel runs, governance goes by the verdict of a probe that is at
\* most two probes and a sleep old, good or not.
THEOREM VerdictCorrect == Spec => []VerdictFollowed
<1> USE FreshnessAssumption
<1>1. Init => StatusInv
  BY DEF Init, Stopped, StatusInv
<1>2. Types /\ Clocks /\ StatusInv /\ [Next]_vars => StatusInv'
  <2> SUFFICES ASSUME Types, Clocks, StatusInv, [Next]_vars PROVE StatusInv'
    OBVIOUS
  <2>0. /\ now \in Nat
        /\ probe \in [at : {"stopped", "sleep", "probe"}, since : Nat, down : BOOLEAN]
        /\ probe.since \in Nat
        /\ probe.at = "sleep" => now <= probe.since + Interval
        /\ probe.at = "probe" => now <= probe.since + MaxWait
        /\ probe.at = "stopped" => probe.down
        /\ \A s \in status : s.checked \in Nat
    BY DEF Types, Clocks
  <2>1. ASSUME NEW o \in Originals, Change(o) PROVE StatusInv'
    BY <2>1 DEF Change, StatusInv
  <2>2. ASSUME NEW r \in Requests, RequestStep(r) PROVE StatusInv'
    <3>1. UNCHANGED <<probe, status>>
      BY <2>2, RequestMoves DEF Moves
    <3> QED
      BY <3>1 DEF StatusInv
  <2>3. ASSUME StartProbe PROVE StatusInv'
    <3>1. probe'.at = "probe" /\ probe'.since = now /\ (probe'.down <=> probe.down)
      BY <2>0, <2>3 DEF StartProbe
    <3>2. UNCHANGED status
      BY <2>3 DEF StartProbe
    <3>3. SUFFICES ASSUME ~ probe.down PROVE StatusInv'
      BY <3>1, <3>2 DEF StatusInv
    <3>4. probe.at = "sleep"
      BY <2>0, <2>3, <3>3 DEF StartProbe
    <3>5. PICK s \in status : probe.since <= s.checked + MaxWait
      BY <3>3, <3>4 DEF StatusInv
    <3>6. now <= s.checked + MaxWait + Interval
      BY <2>0, <3>4, <3>5
    <3> QED
      BY <3>1, <3>2, <3>5, <3>6 DEF StatusInv
  <2>4. ASSUME WriteStatus PROVE StatusInv'
    <3>1. PICK good \in Preflight : status' = {[good |-> good, checked |-> probe.since]}
      BY <2>4 DEF WriteStatus, CheckedAt
    <3>2. probe' = [at |-> "sleep", since |-> now, down |-> FALSE] /\ probe.at = "probe"
      BY <2>4 DEF WriteStatus
    <3>3. now <= probe.since + MaxWait
      BY <2>0, <3>2
    <3> DEFINE s == [good |-> good, checked |-> probe.since]
    <3>4. status' = {s} /\ s.checked = probe.since
      BY <3>1
    <3>5. probe'.at = "sleep" /\ probe'.since = now
      BY <3>2
    <3> HIDE DEF s
    <3> QED
      BY <3>3, <3>4, <3>5 DEF StatusInv
  <2>5. ASSUME SentinelStops PROVE StatusInv'
    BY <2>5 DEF SentinelStops, Stopped, StatusInv
  <2>6. ASSUME Tick PROVE StatusInv'
    BY <2>6 DEF Tick, StatusInv
  <2>7. ASSUME UNCHANGED vars PROVE StatusInv'
    BY <2>7 DEF vars, StatusInv
  <2> QED
    BY <2>1, <2>2, <2>3, <2>4, <2>5, <2>6, <2>7 DEF Next
<1>3. Types /\ Clocks /\ StatusInv => VerdictFollowed
  <2> SUFFICES ASSUME Types, Clocks, StatusInv, ~ probe.down
               PROVE  \E s \in status :
                        /\ now <= s.checked + Interval + 2 * MaxWait
                        /\ Interval + 2 * MaxWait <= MaxAge => (Ready <=> s.good)
    BY DEF VerdictFollowed
  <2>1. PICK s \in status :
          /\ probe.at = "sleep" => probe.since <= s.checked + MaxWait
          /\ probe.at = "probe" => probe.since <= s.checked + MaxWait + Interval
    BY DEF StatusInv
  <2>2. /\ now \in Nat /\ probe.since \in Nat /\ s.checked \in Nat
        /\ probe.at \in {"sleep", "probe"}
        /\ probe.at = "sleep" => now <= probe.since + Interval
        /\ probe.at = "probe" => now <= probe.since + MaxWait
    BY DEF Types, Clocks
  <2>3. now <= s.checked + Interval + 2 * MaxWait
    BY <2>1, <2>2
  <2>4. ASSUME Interval + 2 * MaxWait <= MaxAge PROVE Ready <=> s.good
    <3>1. now - s.checked <= MaxAge
      BY <2>2, <2>3, <2>4
    <3>2. \A q \in status : q = s
      BY DEF StatusInv
    <3> QED
      BY <3>1, <3>2 DEF Ready
  <2> QED
    BY <2>3, <2>4
<1> QED
  BY <1>1, <1>2, <1>3, ClocksCorrect, PTL DEF Spec
=============================================================================
