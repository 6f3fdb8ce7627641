----------------------------- MODULE ScanSlots ------------------------------
(***************************************************************************)
(* The class-aware admission of PII scans (governance/app/pii.py): every   *)
(* scan, redaction and Google DLP attempt runs under one permit of three   *)
(* asyncio.Semaphore pools, taken by _acquire_scan_slot and given back in  *)
(* its finally.  A request is one coroutine that takes permits one after   *)
(* the other (scan then redact, or attempt after attempt with a backoff    *)
(* sleep in between), so it arrives again and again.                       *)
(*                                                                         *)
(* asyncio.Semaphore is external; its state is the counter, value, and the *)
(* deque of futures, waiters.  release() hands the permit to the first     *)
(* waiter whose future is pending (the future is "woken", the counter is   *)
(* taken down again), but the waiter leaves the deque only when its        *)
(* coroutine runs, so between the two others may come.                     *)
(***************************************************************************)
EXTENDS Integers, Sequences, FiniteSets, SequencesExt

CONSTANTS
  Interactive,        \* requests of /inspect
  Bulk,               \* requests of /v1/dlp/pii-scan
  WorkerCounts        \* possible values of _executor_max_workers

ASSUME SlotsAssumption ==
  /\ Interactive \cap Bulk = {}
  /\ IsFiniteSet(Interactive) /\ IsFiniteSet(Bulk)
  /\ WorkerCounts \subseteq Nat \ {0}

VARIABLES
  total,              \* _executor_max_workers
  value,              \* Semaphore._value of each pool
  waiters,            \* Semaphore._waiters of each pool, as requests
  fut,                \* the future of a waiting request
  phase,              \* where a request is
  pool                \* the pool a request holds or waits on

vars == <<total, value, waiters, fut, phase, pool>>

Requests == Interactive \cup Bulk
Pools == {"interactive", "bulk", "shared"}

\* max(1, int(total * 0.25)), then one less while twice that exceeds total.
HomeSize(n) ==
  IF n <= 1 THEN 0
  ELSE LET quarter == IF n \div 4 > 1 THEN n \div 4 ELSE 1
       IN  IF 2 * quarter > n THEN n \div 2 ELSE quarter

\* _split_pool_sizes
PoolSizes(n) ==
  [p \in Pools |-> IF p = "shared" THEN n - 2 * HomeSize(n) ELSE HomeSize(n)]

Home(r) == IF r \in Bulk THEN "bulk" ELSE "interactive"
Other(r) == IF r \in Bulk THEN "interactive" ELSE "bulk"

\* Mutant: both classes queue on the interactive pool.
BlockingTargetInteractive(r) ==
  IF PoolSizes(total)["interactive"] > 0 THEN "interactive" ELSE "shared"

BlockingTarget(r) == IF PoolSizes(total)[Home(r)] > 0 THEN Home(r) ELSE "shared"

\* initialize and _get_pools.
Init ==
  /\ total \in WorkerCounts
  /\ value = PoolSizes(total)
  /\ waiters = [p \in Pools |-> <<>>]
  /\ fut = [r \in Requests |-> "none"]
  /\ phase = [r \in Requests |-> "idle"]
  /\ pool = [r \in Requests |-> "none"]

-----------------------------------------------------------------------------
(* asyncio.Semaphore. *)

Queued(p) == ToSet(waiters[p])

Locked(p) == value[p] = 0 \/ \E r \in Queued(p) : fut[r] # "cancelled"

\* acquire() of a pool that is not locked: no suspension.
Take(r, p) ==
  /\ value' = [value EXCEPT ![p] = @ - 1]
  /\ phase' = [phase EXCEPT ![r] = "holding"]
  /\ pool' = [pool EXCEPT ![r] = p]
  /\ UNCHANGED <<total, waiters, fut>>

\* acquire() of a locked pool: a future at the end of the deque.
Enqueue(r, p) ==
  /\ waiters' = [waiters EXCEPT ![p] = Append(@, r)]
  /\ fut' = [fut EXCEPT ![r] = "pending"]
  /\ phase' = [phase EXCEPT ![r] = "waiting"]
  /\ pool' = [pool EXCEPT ![r] = p]
  /\ UNCHANGED <<total, value>>

PendingIn(q) == {r \in ToSet(q) : fut[r] = "pending"}

\* The first n requests of the deque q whose future is pending, or all of them
\* if they are fewer.
FirstPending(q, n) ==
  LET pending == PendingIn(q)
  IN  {first \in SUBSET pending :
         /\ Cardinality(first) = IF n < Cardinality(pending) THEN n ELSE Cardinality(pending)
         /\ \A i, j \in DOMAIN q : (q[i] \in first /\ q[j] \in pending \ first) => i < j}

\* Pool p has v permits and deque q; up to k of its pending waiters are woken,
\* each taking a permit.  gone (a request, as a set) leaves with future none.
Wake(p, v, q, k, gone) ==
  \E woken \in FirstPending(q, IF k < v THEN k ELSE v) :
    /\ value' = [value EXCEPT ![p] = v - Cardinality(woken)]
    /\ waiters' = [waiters EXCEPT ![p] = q]
    /\ fut' = [r \in Requests |-> IF r \in gone THEN "none"
                                  ELSE IF r \in woken THEN "woken" ELSE fut[r]]

\* deque.remove
Without(q, r) == RemoveAt(q, CHOOSE i \in DOMAIN q : q[i] = r)

\* How many waiters acquire() wakes on its way out when permits are left: one
\* or as many as there are permits, depending on the CPython release.
WakeBudgets == {1, total}

-----------------------------------------------------------------------------
(* _acquire_scan_slot: the four admission branches, in order. *)

TakeHome(r) ==
  /\ phase[r] = "idle"
  /\ ~Locked(Home(r))
  /\ Take(r, Home(r))

TakeShared(r) ==
  /\ phase[r] = "idle"
  /\ Locked(Home(r)) /\ ~Locked("shared")
  /\ Take(r, "shared")

Borrow(r) ==
  /\ phase[r] = "idle"
  /\ Locked(Home(r)) /\ Locked("shared") /\ ~Locked(Other(r))
  /\ Take(r, Other(r))

Block(r) ==
  /\ phase[r] = "idle"
  /\ Locked(Home(r)) /\ Locked("shared") /\ Locked(Other(r))
  /\ Enqueue(r, BlockingTarget(r))

\* Mutant: the permit goes to the home pool, not to the pool it came from.
ReleaseHome(r) ==
  /\ phase[r] = "holding"
  /\ Wake(Home(r), value[Home(r)] + 1, waiters[Home(r)], 1, {})
  /\ phase' = [phase EXCEPT ![r] = "idle"]
  /\ pool' = [pool EXCEPT ![r] = "none"]
  /\ UNCHANGED total

\* Mutant: the permit is counted and nobody is woken.
ReleaseSilently(r) ==
  /\ phase[r] = "holding"
  /\ Wake(pool[r], value[pool[r]] + 1, waiters[pool[r]], 0, {})
  /\ phase' = [phase EXCEPT ![r] = "idle"]
  /\ pool' = [pool EXCEPT ![r] = "none"]
  /\ UNCHANGED total

\* The scan is done or failed, or its task was cancelled (the worker thread may
\* then still run): held.release() in the finally.
Release(r) ==
  /\ phase[r] = "holding"
  /\ Wake(pool[r], value[pool[r]] + 1, waiters[pool[r]], 1, {})
  /\ phase' = [phase EXCEPT ![r] = "idle"]
  /\ pool' = [pool EXCEPT ![r] = "none"]
  /\ UNCHANGED total

\* A woken coroutine runs: it leaves the deque with its permit.
Resume(r) ==
  /\ phase[r] = "waiting" /\ fut[r] = "woken"
  /\ \E k \in WakeBudgets :
       Wake(pool[r], value[pool[r]], Without(waiters[pool[r]], r), k, {r})
  /\ phase' = [phase EXCEPT ![r] = "holding"]
  /\ UNCHANGED <<total, pool>>

\* The task of a queued request is cancelled before it was woken: its future
\* is cancelled at once, the deque entry stays until the coroutine runs.
Cancel(r) ==
  /\ phase[r] = "waiting" /\ fut[r] = "pending"
  /\ fut' = [fut EXCEPT ![r] = "cancelled"]
  /\ UNCHANGED <<total, value, waiters, phase, pool>>

Leave(r) ==
  /\ phase' = [phase EXCEPT ![r] = "idle"]
  /\ pool' = [pool EXCEPT ![r] = "none"]
  /\ UNCHANGED total

Prune(r) ==
  /\ phase[r] = "waiting" /\ fut[r] = "cancelled"
  /\ \E k \in {0, total} :
       Wake(pool[r], value[pool[r]], Without(waiters[pool[r]], r), k, {r})
  /\ Leave(r)

\* The task is cancelled after its future was woken: the permit goes back.
CancelWoken(r) ==
  /\ phase[r] = "waiting" /\ fut[r] = "woken"
  /\ \E k \in WakeBudgets :
       Wake(pool[r], value[pool[r]] + 1, Without(waiters[pool[r]], r), k, {r})
  /\ Leave(r)

Arrive(r) == TakeHome(r) \/ TakeShared(r) \/ Borrow(r) \/ Block(r)

Next ==
  \E r \in Requests :
    \/ Arrive(r) \/ Release(r) \/ Resume(r)
    \/ Cancel(r) \/ Prune(r) \/ CancelWoken(r)

\* Every scan ends (Google calls carry a timeout, Presidio runs on a bounded
\* text) and the event loop runs every ready coroutine.
Fairness ==
  \A r \in Requests : /\ WF_vars(Release(r))
                       /\ WF_vars(Resume(r) \/ CancelWoken(r))
                       /\ WF_vars(Prune(r))

Spec == Init /\ [][Next]_vars
FairSpec == Spec /\ Fairness

-----------------------------------------------------------------------------
(* Properties. *)

Holders(p) == {r \in Requests : phase[r] = "holding" /\ pool[r] = p}
Woken(p) == {r \in Requests : phase[r] = "waiting" /\ fut[r] = "woken" /\ pool[r] = p}
Pending(p) == {r \in Requests : phase[r] = "waiting" /\ fut[r] = "pending" /\ pool[r] = p}

\* "the aggregate concurrency cap is unchanged": in every pool the free permits,
\* the permits of running scans and those handed to woken waiters are exactly
\* the pool's size -- none is lost or doubled by borrowing, by a release racing
\* an arrival, or by a cancellation -- and the pools sum to the worker count.
PermitsConserved ==
  /\ \A p \in Pools :
       value[p] + Cardinality(Holders(p)) + Cardinality(Woken(p)) = PoolSizes(total)[p]
  /\ Cardinality({r \in Requests : phase[r] = "holding"}) <= total

\* A permit is never left idle in a pool somebody is queued on, except for the
\* moment in which a woken waiter, about to run, will wake the next one.
NoLostWakeup ==
  \A p \in Pools : value[p] > 0 /\ Pending(p) # {} => Woken(p) # {}

\* "the instant a request begins waiting on a home pool [...] no further
\* opportunistic borrow is admitted ahead of it" (governance/app/pii.py): while
\* a request of a class is queued on its home pool, no request of the other
\* class obtains a permit of that pool.
NoBorrowPastWaiter ==
  [][\A r, s \in Requests :
       /\ r \in Pending(Home(r)) \cup Woken(Home(r))
       /\ Home(s) # Home(r)
       /\ phase[s] # "holding" /\ phase'[s] = "holding"
       => pool'[s] # Home(r)]_vars

\* AC2, "a genuinely busy class can never be starved" (governance/app/pii.py):
\* every queued request is handed a permit, whatever the other class does,
\* unless it is cancelled first.
QueuedIsServed ==
  \A r \in Requests : fut[r] = "pending" ~> fut[r] # "pending"
=============================================================================
