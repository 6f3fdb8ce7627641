-------------------------- MODULE ScanSlotsProofs ---------------------------
(***************************************************************************)
(* Proofs about ScanSlots: that the permits of the three pools are         *)
(* conserved, that no wakeup is lost and that nobody borrows past a        *)
(* waiter, for any number of requests of both classes and any number of    *)
(* workers.                                                                *)
(***************************************************************************)
EXTENDS ScanSlots, SequenceTheorems, FiniteSetTheorems, TLAPS

Types ==
  /\ total \in Nat \ {0}
  /\ value \in [Pools -> Nat]
  /\ waiters \in [Pools -> Seq(Requests)]
  /\ fut \in [Requests -> {"none", "pending", "woken", "cancelled"}]
  /\ phase \in [Requests -> {"idle", "waiting", "holding"}]
  /\ pool \in [Requests -> Pools \cup {"none"}]

\* A deque has the requests that wait on its pool, each once, and nobody waits
\* on the pool of the other class.
QueueInv ==
  /\ \A p \in Pools : IsInjective(waiters[p])
  /\ \A p \in Pools, r \in Requests : r \in Queued(p) <=> phase[r] = "waiting" /\ pool[r] = p
  /\ \A r \in Requests :
       /\ phase[r] = "waiting" <=> fut[r] # "none"
       /\ phase[r] = "waiting" => pool[r] \in {Home(r), "shared"}
       /\ phase[r] = "holding" => pool[r] \in Pools

\* Of each pool: what is free, what is held and what was handed over.
Conserved(p) == value[p] + Cardinality(Holders(p)) + Cardinality(Woken(p)) = PoolSizes(total)[p]

SlotsInv ==
  /\ Types
  /\ QueueInv
  /\ \A p \in Pools : Conserved(p)
  /\ NoLostWakeup

-----------------------------------------------------------------------------
(* The deque. *)

\* Append puts a request that is not there at the end.
LEMMA AppendIs ==
  ASSUME NEW q \in Seq(Requests), IsInjective(q), NEW r \in Requests, r \notin ToSet(q)
  PROVE  /\ Append(q, r) \in Seq(Requests)
         /\ IsInjective(Append(q, r))
         /\ ToSet(Append(q, r)) = ToSet(q) \cup {r}
<1> DEFINE a == Append(q, r)
           n == Len(q)
<1>1. /\ n \in Nat /\ DOMAIN q = 1 .. n
      /\ a \in Seq(Requests) /\ Len(a) = n + 1 /\ DOMAIN a = 1 .. n + 1
      /\ \A i \in 1 .. n : a[i] = q[i]
      /\ a[n + 1] = r
  BY AppendProperties, LenProperties
<1> HIDE DEF a, n
<1>2. \A i \in 1 .. n + 1 : i \in 1 .. n \/ i = n + 1
  BY <1>1
<1>3. \A i \in 1 .. n : i \in DOMAIN a /\ q[i] \in ToSet(q)
  BY <1>1 DEF ToSet
<1>4. n + 1 \in DOMAIN a
  BY <1>1
<1>5. IsInjective(a)
  BY <1>1, <1>2, <1>3 DEF IsInjective
<1>6. \A x \in ToSet(a) : x \in ToSet(q) \cup {r}
  BY <1>1, <1>2, <1>3 DEF ToSet
<1>7. \A x \in ToSet(q) \cup {r} : x \in ToSet(a)
  BY <1>1, <1>3, <1>4 DEF ToSet
<1> QED
  BY <1>1, <1>5, <1>6, <1>7 DEF a

\* Without takes one request out of it.
LEMMA WithoutIs ==
  ASSUME NEW q \in Seq(Requests), IsInjective(q), NEW r \in ToSet(q)
  PROVE  /\ Without(q, r) \in Seq(Requests)
         /\ IsInjective(Without(q, r))
         /\ ToSet(Without(q, r)) = ToSet(q) \ {r}
<1> DEFINE k == CHOOSE i \in DOMAIN q : q[i] = r
           n == Len(q)
           front == SubSeq(q, 1, k - 1)
           back == SubSeq(q, k + 1, n)
           w == Without(q, r)
<1>1. n \in Nat /\ DOMAIN q = 1 .. n /\ \A i \in 1 .. n : q[i] \in Requests
  BY LenProperties, ElementOfSeq
<1>2. k \in 1 .. n /\ q[k] = r
  BY <1>1 DEF ToSet
<1>3. w = front \o back
  BY DEF Without, RemoveAt
<1> HIDE DEF k, n, w
<1>4. k \in Nat /\ k - 1 \in Int /\ k + 1 \in Int /\ n \in Int
  BY <1>1, <1>2
<1>5. /\ front \in Seq(Requests) /\ Len(front) = k - 1
      /\ \A i \in 1 .. k - 1 : front[i] = q[i]
  <2>1. \A i \in 1 .. k - 1 : q[i] \in Requests
    BY <1>1, <1>2
  <2> QED
    BY <1>2, <1>4, <2>1, SubSeqProperties
<1>6. /\ back \in Seq(Requests) /\ Len(back) = n - k
      /\ \A i \in 1 .. n - k : back[i] = q[k + i]
  <2>1. \A i \in k + 1 .. n : q[i] \in Requests
    BY <1>1, <1>2
  <2>2. /\ back \in Seq(Requests) /\ Len(back) = IF k + 1 <= n THEN n - (k + 1) + 1 ELSE 0
        /\ \A i \in 1 .. n - (k + 1) + 1 : back[i] = q[(k + 1) + i - 1]
    BY <1>4, <2>1, SubSeqProperties
  <2> QED
    BY <1>1, <1>2, <1>4, <2>2
<1>7. /\ w \in Seq(Requests) /\ Len(w) = n - 1 /\ DOMAIN w = 1 .. n - 1
      /\ \A i \in 1 .. n - 1 : w[i] = IF i < k THEN q[i] ELSE q[i + 1]
  <2> HIDE DEF front, back
  <2>1. /\ front \o back \in Seq(Requests) /\ Len(front \o back) = (k - 1) + (n - k)
        /\ \A i \in 1 .. (k - 1) + (n - k) :
             (front \o back)[i] = IF i <= k - 1 THEN front[i] ELSE back[i - (k - 1)]
    <3>1. /\ front \o back \in Seq(Requests) /\ Len(front \o back) = Len(front) + Len(back)
          /\ \A i \in 1 .. Len(front) + Len(back) :
               (front \o back)[i] = IF i <= Len(front) THEN front[i] ELSE back[i - Len(front)]
      BY <1>5, <1>6, ConcatProperties
    <3> QED
      BY <1>5, <1>6, <3>1
  <2>2. w \in Seq(Requests) /\ Len(w) = n - 1
    BY <1>1, <1>3, <1>4, <2>1
  <2>3. ASSUME NEW i \in 1 .. n - 1 PROVE w[i] = IF i < k THEN q[i] ELSE q[i + 1]
    <3>1. CASE i < k
      BY <1>1, <1>3, <1>4, <1>5, <2>1, <3>1
    <3>2. CASE ~ (i < k)
      <4>1. i - (k - 1) \in 1 .. n - k /\ k + (i - (k - 1)) = i + 1
        BY <1>1, <1>4, <3>2
      <4>2. w[i] = back[i - (k - 1)]
        BY <1>1, <1>3, <1>4, <2>1, <3>2
      <4> QED
        BY <1>6, <3>2, <4>1, <4>2
    <3> QED
      BY <3>1, <3>2
  <2> QED
    BY <2>2, <2>3, LenProperties
<1> HIDE DEF front, back
<1>8. \A i \in 1 .. n - 1 :
        \E j \in 1 .. n : w[i] = q[j] /\ j # k /\ j = IF i < k THEN i ELSE i + 1
  BY <1>1, <1>4, <1>7
<1>9. IsInjective(w)
  <2> SUFFICES ASSUME NEW i \in 1 .. n - 1, NEW j \in 1 .. n - 1, w[i] = w[j] PROVE i = j
    BY <1>7 DEF IsInjective
  <2>1. PICK x \in 1 .. n : w[i] = q[x] /\ x = IF i < k THEN i ELSE i + 1
    BY <1>8
  <2>2. PICK y \in 1 .. n : w[j] = q[y] /\ y = IF j < k THEN j ELSE j + 1
    BY <1>8
  <2>3. x = y
    BY <1>1, <2>1, <2>2 DEF IsInjective
  <2> QED
    BY <1>1, <1>4, <2>1, <2>2, <2>3
<1>10. \A x \in ToSet(w) : x \in ToSet(q) /\ x # r
  <2> SUFFICES ASSUME NEW i \in 1 .. n - 1 PROVE w[i] \in ToSet(q) /\ w[i] # r
    BY <1>7 DEF ToSet
  <2>1. PICK j \in 1 .. n : w[i] = q[j] /\ j # k
    BY <1>8
  <2> QED
    BY <1>1, <1>2, <2>1 DEF ToSet, IsInjective
<1>11. \A x \in ToSet(q) : x # r => x \in ToSet(w)
  <2> SUFFICES ASSUME NEW j \in 1 .. n, q[j] # r PROVE q[j] \in ToSet(w)
    BY <1>1 DEF ToSet
  <2>1. j # k
    BY <1>2
  <2>2. CASE j < k
    <3>1. j \in 1 .. n - 1 /\ w[j] = q[j]
      BY <1>1, <1>2, <1>4, <1>7, <2>2
    <3> QED
      BY <1>7, <3>1 DEF ToSet
  <2>3. CASE ~ (j < k)
    <3>1. j - 1 \in 1 .. n - 1 /\ ~ (j - 1 < k) /\ (j - 1) + 1 = j
      BY <1>1, <1>2, <1>4, <2>1, <2>3
    <3>2. w[j - 1] = q[j]
      BY <1>7, <3>1
    <3> QED
      BY <1>7, <3>1, <3>2 DEF ToSet
  <2> QED
    BY <2>2, <2>3
<1> QED
  BY <1>7, <1>9, <1>10, <1>11 DEF w

\* The waiters that are woken: at most n, pending in the deque, and some if
\* there are any and n is not zero.
LEMMA FirstPendingIs ==
  ASSUME IsFiniteSet(Requests), NEW q \in Seq(Requests), NEW n \in Nat,
         NEW first \in FirstPending(q, n)
  PROVE  /\ first \in SUBSET PendingIn(q)
         /\ IsFiniteSet(first) /\ Cardinality(first) \in Nat /\ Cardinality(first) <= n
         /\ n > 0 /\ PendingIn(q) # {} => first # {}
<1>1. /\ first \in SUBSET PendingIn(q)
      /\ Cardinality(first) = IF n < Cardinality(PendingIn(q)) THEN n
                              ELSE Cardinality(PendingIn(q))
  BY DEF FirstPending
<1>2. ToSet(q) \in SUBSET Requests
  BY LenProperties, ElementOfSeq DEF ToSet
<1>3. IsFiniteSet(PendingIn(q)) /\ IsFiniteSet(first)
  BY <1>1, <1>2, FS_Subset DEF PendingIn
<1>4. Cardinality(PendingIn(q)) \in Nat /\ Cardinality(first) \in Nat
  BY <1>3, FS_CardinalityType
<1>5. PendingIn(q) # {} => Cardinality(PendingIn(q)) # 0
  BY <1>3, FS_EmptySet
<1>6. first = {} => Cardinality(first) = 0
  BY FS_EmptySet
<1> QED
  BY <1>1, <1>3, <1>4, <1>5, <1>6

-----------------------------------------------------------------------------
(* Permits. *)

\* _split_pool_sizes: the three pools are the workers, each once.
LEMMA SizesAre ==
  ASSUME NEW n \in Nat \ {0}
  PROVE  /\ \A p \in Pools : PoolSizes(n)[p] \in Nat
         /\ PoolSizes(n)["interactive"] + PoolSizes(n)["bulk"] + PoolSizes(n)["shared"] = n
<1>1. HomeSize(n) \in Nat /\ 2 * HomeSize(n) <= n
  BY DEF HomeSize
<1> QED
  BY <1>1 DEF PoolSizes, Pools

\* There are finitely many requests.
LEMMA RequestsFinite == IsFiniteSet(Requests)
  BY SlotsAssumption, FS_Union DEF Requests

\* The sets of requests that are counted are finite.
LEMMA Counts ==
  ASSUME NEW p
  PROVE  /\ IsFiniteSet(Holders(p)) /\ IsFiniteSet(Woken(p))
         /\ Cardinality(Holders(p)) \in Nat /\ Cardinality(Woken(p)) \in Nat
<1>1. Holders(p) \in SUBSET Requests /\ Woken(p) \in SUBSET Requests
  BY DEF Holders, Woken
<1> QED
  BY <1>1, RequestsFinite, FS_Subset, FS_CardinalityType

\* Request r, which holds a permit of pool p or waits there, goes on as s, and
\* up to k waiters of the deque without it share the v permits that are free
\* then.
LEMMA Handover ==
  ASSUME SlotsInv,
         NEW r \in Requests, NEW p \in Pools, pool[r] = p, phase[r] # "idle",
         NEW v \in Nat, NEW k \in Nat, NEW gone \in SUBSET {r},
         NEW q \in Seq(Requests), IsInjective(q), ToSet(q) = Queued(p) \ {r},
         NEW s \in {"idle", "holding"},
         r \in gone \/ fut[r] = "none",
         Wake(p, v, q, k, gone),
         phase' = [phase EXCEPT ![r] = s],
         pool' = [pool EXCEPT ![r] = IF s = "holding" THEN p ELSE "none"],
         total' = total,
         v + Cardinality(Holders(p) \ {r}) + Cardinality(Woken(p) \ {r})
           + (IF s = "holding" THEN 1 ELSE 0) = PoolSizes(total)[p],
         k > 0 \/ Woken(p) \ {r} # {} \/ v = 0 \/ PendingIn(q) = {}
  PROVE  SlotsInv'
<1> USE DEF SlotsInv
<1> DEFINE n == IF k < v THEN k ELSE v
<1>1. n \in Nat /\ n <= v /\ (k > 0 /\ v > 0 => n > 0)
  OBVIOUS
<1>2. PICK woken \in FirstPending(q, n) :
        /\ value' = [value EXCEPT ![p] = v - Cardinality(woken)]
        /\ waiters' = [waiters EXCEPT ![p] = q]
        /\ fut' = [x \in Requests |-> IF x \in gone THEN "none"
                                      ELSE IF x \in woken THEN "woken" ELSE fut[x]]
  BY DEF Wake
<1> HIDE DEF n
<1>3. /\ woken \in SUBSET PendingIn(q)
      /\ IsFiniteSet(woken) /\ Cardinality(woken) \in Nat /\ Cardinality(woken) <= n
      /\ n > 0 /\ PendingIn(q) # {} => woken # {}
  BY <1>1, RequestsFinite, FirstPendingIs
<1>4. \A x \in PendingIn(q) : /\ x \in Requests /\ x # r
                              /\ phase[x] = "waiting" /\ pool[x] = p /\ fut[x] = "pending"
  <2>1. \A x \in ToSet(q) : x \in Requests
    BY LenProperties, ElementOfSeq DEF ToSet
  <2> QED
    BY <2>1 DEF PendingIn, QueueInv
<1>5. \A x \in Requests : /\ x # r => phase'[x] = phase[x] /\ pool'[x] = pool[x]
                          /\ x # r => fut'[x] = IF x \in woken THEN "woken" ELSE fut[x]
                          /\ phase'[r] = s /\ fut'[r] = "none"
                          /\ pool'[r] = IF s = "holding" THEN p ELSE "none"
  BY <1>2, <1>3, <1>4 DEF Types
<1>6. Types'
  <2>1. v - Cardinality(woken) \in Nat
    BY <1>1, <1>3
  <2>2. value' \in [Pools -> Nat]
    BY <1>2, <2>1 DEF Types
  <2>3. waiters' \in [Pools -> Seq(Requests)]
    BY <1>2 DEF Types
  <2>4. fut' \in [Requests -> {"none", "pending", "woken", "cancelled"}]
    BY <1>2 DEF Types
  <2>5. phase' \in [Requests -> {"idle", "waiting", "holding"}]
    BY DEF Types
  <2>6. pool' \in [Requests -> Pools \cup {"none"}]
    BY DEF Types
  <2> QED
    BY <2>2, <2>3, <2>4, <2>5, <2>6 DEF Types
<1>7. QueueInv'
  <2>1. \A o \in Pools : /\ o # p => waiters'[o] = waiters[o]
                         /\ waiters'[p] = q
    BY <1>2 DEF Types
  <2>2. \A o \in Pools : IsInjective(waiters'[o])
    BY <2>1 DEF QueueInv
  <2>3. \A o \in Pools, x \in Requests : x \in Queued(o)' <=> phase'[x] = "waiting" /\ pool'[x] = o
    BY <1>5, <2>1 DEF QueueInv, Queued
  <2>4. \A x \in Requests :
          /\ phase'[x] = "waiting" <=> fut'[x] # "none"
          /\ phase'[x] = "waiting" => pool'[x] \in {Home(x), "shared"}
          /\ phase'[x] = "holding" => pool'[x] \in Pools
    BY <1>3, <1>4, <1>5 DEF QueueInv
  <2> QED
    BY <2>2, <2>3, <2>4 DEF QueueInv
<1>8. /\ Holders(p)' = (Holders(p) \ {r}) \cup (IF s = "holding" THEN {r} ELSE {})
      /\ Woken(p)' = (Woken(p) \ {r}) \cup woken
      /\ \A x \in Pending(p)' : x \in PendingIn(q)
  <2>1. Holders(p)' = (Holders(p) \ {r}) \cup (IF s = "holding" THEN {r} ELSE {})
    BY <1>5 DEF Holders
  <2>2. Woken(p)' = (Woken(p) \ {r}) \cup woken
    BY <1>3, <1>4, <1>5 DEF Woken
  <2>3. ASSUME NEW x \in Pending(p)' PROVE x \in PendingIn(q)
    <3>1. x \in Requests /\ x # r /\ phase[x] = "waiting" /\ pool[x] = p /\ fut[x] = "pending"
      BY <1>5 DEF Pending
    <3> QED
      BY <3>1 DEF PendingIn, QueueInv
  <2> QED
    BY <2>1, <2>2, <2>3
<1>9. ASSUME NEW o \in Pools, o # p
      PROVE  /\ value'[o] = value[o]
             /\ Holders(o)' = Holders(o) /\ Woken(o)' = Woken(o) /\ Pending(o)' = Pending(o)
  <2>1. value'[o] = value[o]
    BY <1>2, <1>9 DEF Types
  <2>2. Holders(o)' = Holders(o)
    BY <1>5, <1>9 DEF Holders, Pools
  <2>3. Woken(o)' = Woken(o)
    BY <1>3, <1>4, <1>5, <1>9 DEF Woken, Pools
  <2>4. Pending(o)' = Pending(o)
    BY <1>3, <1>4, <1>5, <1>9 DEF Pending, Pools
  <2> QED
    BY <2>1, <2>2, <2>3, <2>4
<1>10. value'[p] = v - Cardinality(woken)
  BY <1>2 DEF Types
<1>11. Conserved(p)'
  <2>1. /\ IsFiniteSet(Holders(p) \ {r}) /\ IsFiniteSet(Woken(p) \ {r})
        /\ Cardinality(Holders(p) \ {r}) \in Nat /\ Cardinality(Woken(p) \ {r}) \in Nat
    BY Counts, FS_Subset, FS_CardinalityType
  <2>2. Cardinality(Holders(p)') = Cardinality(Holders(p) \ {r}) + (IF s = "holding" THEN 1 ELSE 0)
    <3>1. CASE s = "holding"
      <4>1. Holders(p)' = (Holders(p) \ {r}) \cup {r}
        BY <1>8, <3>1
      <4>2. Cardinality((Holders(p) \ {r}) \cup {r}) = Cardinality(Holders(p) \ {r}) + 1
        <5>1. r \notin Holders(p) \ {r}
          OBVIOUS
        <5> QED
          BY <2>1, <5>1, FS_AddElement
      <4> QED
        BY <3>1, <4>1, <4>2
    <3>2. CASE s # "holding"
      BY <1>8, <2>1, <3>2
    <3> QED
      BY <3>1, <3>2
  <2>3. (Woken(p) \ {r}) \cap woken = {}
    BY <1>3, <1>4 DEF Woken
  <2>4. Cardinality(Woken(p)') = Cardinality(Woken(p) \ {r}) + Cardinality(woken)
    <3> DEFINE before == Woken(p) \ {r}
    <3>1. Cardinality(before \cup woken)
            = Cardinality(before) + Cardinality(woken) - Cardinality(before \cap woken)
      BY <1>3, <2>1, FS_Union
    <3>2. Cardinality(before \cap woken) = 0
      BY <2>3, FS_EmptySet
    <3>3. Woken(p)' = before \cup woken
      BY <1>8
    <3> HIDE DEF before
    <3>4. Cardinality(before) \in Nat
      BY <2>1 DEF before
    <3>5. Cardinality(Woken(p)') = Cardinality(before) + Cardinality(woken)
      BY <1>3, <3>1, <3>2, <3>3, <3>4
    <3> QED
      BY <3>5 DEF before
  <2>5. PoolSizes(total)'[p] = PoolSizes(total)[p]
    OBVIOUS
  <2> QED
    BY <1>1, <1>3, <1>10, <2>1, <2>2, <2>4, <2>5 DEF Conserved
<1>12. \A o \in Pools : Conserved(o)'
  BY <1>9, <1>11 DEF Conserved
<1>13. value'[p] > 0 /\ Pending(p)' # {} => Woken(p)' # {}
  BY <1>1, <1>3, <1>8, <1>10
<1>14. NoLostWakeup'
  BY <1>9, <1>13 DEF NoLostWakeup
<1> QED
  BY <1>6, <1>7, <1>12, <1>14

-----------------------------------------------------------------------------
(* One lemma per kind of step. *)

\* A pool that is not locked has a permit and nobody pending or woken in it.
LEMMA Unlocked ==
  ASSUME SlotsInv, NEW p \in Pools, ~Locked(p)
  PROVE  value[p] \in Nat /\ value[p] > 0 /\ Pending(p) = {} /\ Woken(p) = {}
<1>1. value[p] \in Nat /\ value[p] > 0
  BY DEF SlotsInv, Types, Locked
<1>2. \A r \in Requests : phase[r] = "waiting" /\ pool[r] = p => fut[r] = "cancelled"
  BY DEF SlotsInv, QueueInv, Locked
<1> QED
  BY <1>1, <1>2 DEF Pending, Woken

\* acquire() of an unlocked pool keeps the invariant.
LEMMA TakeStep ==
  ASSUME SlotsInv, NEW r \in Requests, NEW p \in Pools,
         phase[r] = "idle", ~Locked(p), Take(r, p)
  PROVE  SlotsInv'
<1> USE DEF SlotsInv
<1>1. value[p] \in Nat /\ value[p] > 0 /\ Pending(p) = {} /\ Woken(p) = {}
  BY Unlocked
<1>2. /\ total' = total /\ waiters' = waiters /\ fut' = fut
      /\ \A o \in Pools : value'[o] = IF o = p THEN value[p] - 1 ELSE value[o]
      /\ \A x \in Requests : /\ phase'[x] = IF x = r THEN "holding" ELSE phase[x]
                             /\ pool'[x] = IF x = r THEN p ELSE pool[x]
  BY DEF Take, Types
<1>3. Types'
  <2>1. value[p] - 1 \in Nat
    BY <1>1
  <2>2. value' \in [Pools -> Nat]
    BY <2>1 DEF Take, Types
  <2>3. phase' \in [Requests -> {"idle", "waiting", "holding"}]
    BY DEF Take, Types
  <2>4. pool' \in [Requests -> Pools \cup {"none"}]
    BY DEF Take, Types
  <2> QED
    BY <1>2, <2>2, <2>3, <2>4 DEF Types
<1>4. QueueInv'
  BY <1>2 DEF QueueInv, Queued
<1>5. \A o \in Pools : Pending(o)' = Pending(o) /\ Woken(o)' = Woken(o)
  BY <1>2 DEF Pending, Woken
<1>6. \A o \in Pools : o # p => Holders(o)' = Holders(o)
  BY <1>2 DEF Holders
<1>7. Cardinality(Holders(p)') = Cardinality(Holders(p)) + 1
  <2>1. r \notin Holders(p) /\ Holders(p)' = Holders(p) \cup {r}
    BY <1>2 DEF Holders
  <2> QED
    BY <2>1, Counts, FS_AddElement
<1>8. \A o \in Pools : Conserved(o)'
  <2>1. Conserved(p)'
    <3>1. /\ value'[p] = value[p] - 1 /\ Cardinality(Woken(p)') = Cardinality(Woken(p))
          /\ PoolSizes(total)'[p] = PoolSizes(total)[p]
      BY <1>2, <1>5
    <3>2. Conserved(p)
      OBVIOUS
    <3>3. Cardinality(Holders(p)) \in Nat /\ Cardinality(Woken(p)) \in Nat
      BY Counts
    <3> QED
      BY <1>1, <1>7, <3>1, <3>2, <3>3 DEF Conserved
  <2> QED
    BY <1>2, <1>5, <1>6, <2>1 DEF Conserved
<1>9. NoLostWakeup'
  BY <1>1, <1>2, <1>5 DEF NoLostWakeup
<1> QED
  BY <1>3, <1>4, <1>8, <1>9

\* Whoever is queued on a locked pool will be woken: the pool is empty, or a
\* waiter that comes first was woken already.
LEMMA EnqueueStep ==
  ASSUME SlotsInv, NEW r \in Requests, NEW p \in Pools,
         phase[r] = "idle", Locked(p), p \in {Home(r), "shared"}, Enqueue(r, p)
  PROVE  SlotsInv'
<1> USE DEF SlotsInv
<1>1. /\ total' = total /\ value' = value
      /\ \A o \in Pools : waiters'[o] = IF o = p THEN Append(waiters[p], r) ELSE waiters[o]
      /\ \A x \in Requests : /\ phase'[x] = IF x = r THEN "waiting" ELSE phase[x]
                             /\ fut'[x] = IF x = r THEN "pending" ELSE fut[x]
                             /\ pool'[x] = IF x = r THEN p ELSE pool[x]
  BY DEF Enqueue, Types
<1>2. /\ Append(waiters[p], r) \in Seq(Requests)
      /\ IsInjective(Append(waiters[p], r))
      /\ ToSet(Append(waiters[p], r)) = ToSet(waiters[p]) \cup {r}
  <2>1. waiters[p] \in Seq(Requests) /\ IsInjective(waiters[p]) /\ r \notin ToSet(waiters[p])
    BY DEF Types, QueueInv, Queued
  <2> QED
    BY <2>1, AppendIs
<1>3. Types'
  <2>1. waiters' \in [Pools -> Seq(Requests)]
    BY <1>2 DEF Enqueue, Types
  <2>2. fut' \in [Requests -> {"none", "pending", "woken", "cancelled"}]
    BY DEF Enqueue, Types
  <2>3. phase' \in [Requests -> {"idle", "waiting", "holding"}]
    BY DEF Enqueue, Types
  <2>4. pool' \in [Requests -> Pools \cup {"none"}]
    BY DEF Enqueue, Types
  <2> QED
    BY <1>1, <2>1, <2>2, <2>3, <2>4 DEF Types
<1>4. QueueInv'
  <2>1. \A o \in Pools : IsInjective(waiters'[o])
    BY <1>1, <1>2 DEF QueueInv
  <2>2. \A o \in Pools, x \in Requests : x \in Queued(o)' <=> phase'[x] = "waiting" /\ pool'[x] = o
    BY <1>1, <1>2 DEF QueueInv, Queued
  <2>3. \A x \in Requests :
          /\ phase'[x] = "waiting" <=> fut'[x] # "none"
          /\ phase'[x] = "waiting" => pool'[x] \in {Home(x), "shared"}
          /\ phase'[x] = "holding" => pool'[x] \in Pools
    BY <1>1 DEF QueueInv
  <2> QED
    BY <2>1, <2>2, <2>3 DEF QueueInv
<1>5. \A o \in Pools : /\ Holders(o)' = Holders(o) /\ Woken(o)' = Woken(o)
                       /\ o # p => Pending(o)' = Pending(o)
  <2>1. fut[r] = "none"
    BY DEF QueueInv
  <2> QED
    BY <1>1, <2>1 DEF Holders, Woken, Pending
<1>6. \A o \in Pools : Conserved(o)'
  BY <1>1, <1>5 DEF Conserved
<1>7. value[p] > 0 => Woken(p) # {}
  <2> SUFFICES ASSUME value[p] > 0 PROVE Woken(p) # {}
    OBVIOUS
  <2>1. PICK x \in Queued(p) : fut[x] # "cancelled"
    BY DEF Locked, Types
  <2>2. x \in Requests /\ phase[x] = "waiting" /\ pool[x] = p /\ fut[x] \in {"pending", "woken"}
    <3>1. x \in Requests
      BY LenProperties, ElementOfSeq DEF Queued, ToSet, Types
    <3> QED
      BY <2>1, <3>1 DEF QueueInv, Types
  <2> QED
    BY <2>2 DEF Woken, Pending, NoLostWakeup
<1>8. NoLostWakeup'
  BY <1>1, <1>5, <1>7 DEF NoLostWakeup
<1> QED
  BY <1>3, <1>4, <1>6, <1>8

\* So does each of the four branches of _acquire_scan_slot.
LEMMA ArriveStep ==
  ASSUME SlotsInv, NEW r \in Requests, Arrive(r)
  PROVE  SlotsInv'
<1>1. Home(r) \in Pools /\ Other(r) \in Pools /\ "shared" \in Pools
  BY DEF Home, Other, Pools
<1>2. CASE TakeHome(r)
  BY <1>1, <1>2, TakeStep DEF TakeHome
<1>3. CASE TakeShared(r)
  BY <1>1, <1>3, TakeStep DEF TakeShared
<1>4. CASE Borrow(r)
  BY <1>1, <1>4, TakeStep DEF Borrow
<1>5. CASE Block(r)
  <2>1. PICK p \in Pools : p = BlockingTarget(r)
    BY <1>1 DEF BlockingTarget
  <2>2. p \in {Home(r), "shared"} /\ Locked(p)
    BY <1>5, <2>1 DEF BlockingTarget, Block
  <2> QED
    BY <1>5, <2>1, <2>2, EnqueueStep DEF Block
<1> QED
  BY <1>2, <1>3, <1>4, <1>5 DEF Arrive

\* What a pool has besides request r.
LEMMA Besides ==
  ASSUME NEW p, NEW r
  PROVE  /\ Cardinality(Holders(p) \ {r})
              = IF r \in Holders(p) THEN Cardinality(Holders(p)) - 1 ELSE Cardinality(Holders(p))
         /\ Cardinality(Woken(p) \ {r})
              = IF r \in Woken(p) THEN Cardinality(Woken(p)) - 1 ELSE Cardinality(Woken(p))
BY Counts, FS_RemoveElement

\* So does release(), which hands the permit over.
LEMMA ReleaseStep ==
  ASSUME SlotsInv, NEW r \in Requests, Release(r)
  PROVE  SlotsInv'
<1>1. PICK p \in Pools : p = pool[r]
  BY DEF SlotsInv, QueueInv, Release
<1>2. PICK v \in Nat : v = value[p] + 1
  BY DEF SlotsInv, Types
<1>3. PICK q \in Seq(Requests) : q = waiters[p]
  BY DEF SlotsInv, Types
<1>4. IsInjective(q) /\ ToSet(q) = Queued(p) \ {r} /\ fut[r] = "none"
  BY <1>3 DEF SlotsInv, QueueInv, Queued, Release
<1>5. r \in Holders(p) /\ r \notin Woken(p)
  BY <1>1 DEF Holders, Woken, Release
<1>6. v + Cardinality(Holders(p) \ {r}) + Cardinality(Woken(p) \ {r}) = PoolSizes(total)[p]
  <2>1. Conserved(p) /\ value[p] \in Nat
    BY DEF SlotsInv, Types
  <2> QED
    BY <1>2, <1>5, <2>1, Besides, Counts DEF Conserved
<1>7. /\ Wake(p, v, q, 1, {})
      /\ phase' = [phase EXCEPT ![r] = "idle"] /\ pool' = [pool EXCEPT ![r] = "none"]
      /\ total' = total /\ phase[r] # "idle"
  BY <1>1, <1>2, <1>3 DEF Release
<1> DEFINE s == "idle"
<1>8. /\ v + Cardinality(Holders(p) \ {r}) + Cardinality(Woken(p) \ {r})
           + (IF s = "holding" THEN 1 ELSE 0) = PoolSizes(total)[p]
      /\ phase' = [phase EXCEPT ![r] = s]
      /\ pool' = [pool EXCEPT ![r] = IF s = "holding" THEN p ELSE "none"]
      /\ s \in {"idle", "holding"}
  <2>1. v \in Nat /\ Cardinality(Holders(p) \ {r}) \in Nat /\ Cardinality(Woken(p) \ {r}) \in Nat
    BY Counts, FS_Subset, FS_CardinalityType
  <2> QED
    BY <1>6, <1>7, <2>1
<1> HIDE DEF s
<1> DEFINE gone == {}
           k == 1
<1>9. /\ gone \in SUBSET {r} /\ k \in Nat /\ k > 0
      /\ Wake(p, v, q, k, gone)
  BY <1>7
<1> HIDE DEF gone, k
<1> QED
  BY <1>1, <1>4, <1>7, <1>8, <1>9, Handover

\* The three ways a waiter leaves the deque.
LEMMA DequeueStep ==
  ASSUME SlotsInv, NEW r \in Requests, Resume(r) \/ Prune(r) \/ CancelWoken(r)
  PROVE  SlotsInv'
<1>1. phase[r] = "waiting" /\ phase[r] # "idle"
  BY DEF Resume, Prune, CancelWoken
<1>2. PICK p \in Pools : p = pool[r]
  BY <1>1 DEF SlotsInv, QueueInv, Home, Pools
<1>3. PICK q \in Seq(Requests) : q = Without(waiters[p], r) /\ IsInjective(q) /\ ToSet(q) = Queued(p) \ {r}
  <2>1. waiters[p] \in Seq(Requests) /\ IsInjective(waiters[p]) /\ r \in ToSet(waiters[p])
    BY <1>1, <1>2 DEF SlotsInv, Types, QueueInv, Queued
  <2> QED
    BY <2>1, WithoutIs DEF Queued
<1>4. Conserved(p) /\ value[p] \in Nat /\ total \in Nat \ {0} /\ pool \in [Requests -> Pools \cup {"none"}]
  BY DEF SlotsInv, Types
<1>5. Cardinality(Holders(p)) \in Nat /\ Cardinality(Woken(p)) \in Nat
  BY Counts
<1>6. r \notin Holders(p) /\ (r \in Woken(p) <=> fut[r] = "woken")
  BY <1>1, <1>2 DEF Holders, Woken
<1>7. /\ Cardinality(Holders(p) \ {r}) = Cardinality(Holders(p))
      /\ Cardinality(Woken(p) \ {r})
           = IF fut[r] = "woken" THEN Cardinality(Woken(p)) - 1 ELSE Cardinality(Woken(p))
  BY <1>6, Besides
<1>8. ASSUME NEW v \in Nat, NEW k \in Nat, NEW s \in {"idle", "holding"},
             Wake(p, v, q, k, {r}),
             phase' = [phase EXCEPT ![r] = s],
             pool' = [pool EXCEPT ![r] = IF s = "holding" THEN p ELSE "none"],
             total' = total,
             v + Cardinality(Holders(p)) + Cardinality(Woken(p) \ {r})
               + (IF s = "holding" THEN 1 ELSE 0) = PoolSizes(total)[p],
             k > 0 \/ Woken(p) \ {r} # {} \/ v = 0 \/ PendingIn(q) = {}
      PROVE  SlotsInv'
  <2>1. v + Cardinality(Holders(p) \ {r}) + Cardinality(Woken(p) \ {r})
          + (IF s = "holding" THEN 1 ELSE 0) = PoolSizes(total)[p]
    BY <1>7, <1>8
  <2>2. {r} \in SUBSET {r} /\ r \in {r}
    OBVIOUS
  <2> QED
    BY <1>1, <1>2, <1>3, <1>8, <2>1, <2>2, Handover
<1>9. CASE Resume(r)
  <2>1. PICK k \in WakeBudgets : Wake(p, value[p], q, k, {r})
    BY <1>2, <1>3, <1>9 DEF Resume
  <2>2. k \in Nat /\ k > 0
    BY <1>4 DEF WakeBudgets
  <2>3. PICK v \in Nat : v = value[p]
    BY <1>4
  <2>4. /\ phase' = [phase EXCEPT ![r] = "holding"] /\ total' = total
        /\ pool' = [pool EXCEPT ![r] = p] /\ fut[r] = "woken"
    BY <1>2, <1>4, <1>9 DEF Resume
  <2>5. v + Cardinality(Holders(p)) + Cardinality(Woken(p) \ {r}) + 1 = PoolSizes(total)[p]
    <3>1. Cardinality(Woken(p) \ {r}) = Cardinality(Woken(p)) - 1
      BY <1>7, <2>4
    <3>2. value[p] + Cardinality(Holders(p)) + Cardinality(Woken(p)) = PoolSizes(total)[p]
      BY <1>4 DEF Conserved
    <3>3. PICK a \in Nat, h \in Nat, w \in Nat :
            a = value[p] /\ h = Cardinality(Holders(p)) /\ w = Cardinality(Woken(p))
      BY <1>4, <1>5
    <3>4. a + h + (w - 1) + 1 = a + h + w
      OBVIOUS
    <3> QED
      BY <2>3, <3>1, <3>2, <3>3, <3>4
  <2> DEFINE s == "holding"
  <2>6. /\ s \in {"idle", "holding"} /\ phase' = [phase EXCEPT ![r] = s]
        /\ pool' = [pool EXCEPT ![r] = IF s = "holding" THEN p ELSE "none"]
        /\ v + Cardinality(Holders(p)) + Cardinality(Woken(p) \ {r})
             + (IF s = "holding" THEN 1 ELSE 0) = PoolSizes(total)[p]
    BY <2>4, <2>5
  <2> HIDE DEF s
  <2> QED
    BY <1>8, <2>1, <2>2, <2>3, <2>4, <2>6
<1>10. CASE CancelWoken(r)
  <2>1. PICK k \in WakeBudgets : Wake(p, value[p] + 1, q, k, {r})
    BY <1>2, <1>3, <1>10 DEF CancelWoken
  <2>2. k \in Nat /\ k > 0
    BY <1>4 DEF WakeBudgets
  <2>3. PICK v \in Nat : v = value[p] + 1
    BY <1>4
  <2>4. /\ phase' = [phase EXCEPT ![r] = "idle"] /\ total' = total
        /\ pool' = [pool EXCEPT ![r] = "none"] /\ fut[r] = "woken"
    BY <1>10 DEF CancelWoken, Leave
  <2>5. v + Cardinality(Holders(p)) + Cardinality(Woken(p) \ {r}) + 0 = PoolSizes(total)[p]
    <3>1. Cardinality(Woken(p) \ {r}) = Cardinality(Woken(p)) - 1
      BY <1>7, <2>4
    <3>2. value[p] + Cardinality(Holders(p)) + Cardinality(Woken(p)) = PoolSizes(total)[p]
      BY <1>4 DEF Conserved
    <3>3. PICK a \in Nat, h \in Nat, w \in Nat :
            a = value[p] /\ h = Cardinality(Holders(p)) /\ w = Cardinality(Woken(p))
      BY <1>4, <1>5
    <3>4. (a + 1) + h + (w - 1) + 0 = a + h + w
      OBVIOUS
    <3> QED
      BY <2>3, <3>1, <3>2, <3>3, <3>4
  <2> DEFINE s == "idle"
  <2>6. /\ s \in {"idle", "holding"} /\ phase' = [phase EXCEPT ![r] = s]
        /\ pool' = [pool EXCEPT ![r] = IF s = "holding" THEN p ELSE "none"]
        /\ v + Cardinality(Holders(p)) + Cardinality(Woken(p) \ {r})
             + (IF s = "holding" THEN 1 ELSE 0) = PoolSizes(total)[p]
    BY <2>4, <2>5
  <2> HIDE DEF s
  <2> QED
    BY <1>8, <2>1, <2>2, <2>3, <2>4, <2>6
<1>11. CASE Prune(r)
  <2>1. PICK k \in {0, total} : Wake(p, value[p], q, k, {r})
    BY <1>2, <1>3, <1>11 DEF Prune
  <2>2. k \in Nat
    BY <1>4
  <2>3. PICK v \in Nat : v = value[p]
    BY <1>4
  <2>4. /\ phase' = [phase EXCEPT ![r] = "idle"] /\ total' = total
        /\ pool' = [pool EXCEPT ![r] = "none"] /\ fut[r] = "cancelled"
    BY <1>11 DEF Prune, Leave
  <2>5. v + Cardinality(Holders(p)) + Cardinality(Woken(p) \ {r}) + 0 = PoolSizes(total)[p]
    BY <1>4, <1>5, <1>7, <2>3, <2>4 DEF Conserved
  <2> DEFINE s == "idle"
  <2>6. /\ s \in {"idle", "holding"} /\ phase' = [phase EXCEPT ![r] = s]
        /\ pool' = [pool EXCEPT ![r] = IF s = "holding" THEN p ELSE "none"]
        /\ v + Cardinality(Holders(p)) + Cardinality(Woken(p) \ {r})
             + (IF s = "holding" THEN 1 ELSE 0) = PoolSizes(total)[p]
    BY <2>4, <2>5
  <2>7. Woken(p) \ {r} # {} \/ v = 0 \/ PendingIn(q) = {}
    <3> SUFFICES ASSUME NEW x \in PendingIn(q), v # 0 PROVE Woken(p) \ {r} # {}
      OBVIOUS
    <3>1. x \in Requests
      BY LenProperties, ElementOfSeq DEF PendingIn, ToSet
    <3>2. x \in Pending(p)
      BY <1>3, <3>1 DEF PendingIn, Pending, SlotsInv, QueueInv
    <3>3. Woken(p) # {}
      BY <2>3, <3>2 DEF SlotsInv, NoLostWakeup
    <3> QED
      BY <1>6, <2>4, <3>3
  <2> HIDE DEF s
  <2> QED
    BY <1>8, <2>1, <2>2, <2>3, <2>4, <2>6, <2>7
<1> QED
  BY <1>9, <1>10, <1>11

\* So does the cancellation of a waiter that was not woken.
LEMMA CancelStep ==
  ASSUME SlotsInv, NEW r \in Requests, Cancel(r)
  PROVE  SlotsInv'
<1> USE DEF SlotsInv
<1>1. /\ total' = total /\ value' = value /\ waiters' = waiters /\ phase' = phase /\ pool' = pool
      /\ \A x \in Requests : fut'[x] = IF x = r THEN "cancelled" ELSE fut[x]
      /\ phase[r] = "waiting" /\ fut[r] = "pending"
  BY DEF Cancel, Types
<1>2. Types'
  BY <1>1 DEF Cancel, Types
<1>3. QueueInv'
  BY <1>1 DEF QueueInv, Queued
<1>4. \A p \in Pools : Holders(p)' = Holders(p) /\ Woken(p)' = Woken(p) /\ Pending(p)' \in SUBSET Pending(p)
  BY <1>1 DEF Holders, Woken, Pending
<1>5. \A p \in Pools : Conserved(p)'
  BY <1>1, <1>4 DEF Conserved
<1>6. NoLostWakeup'
  BY <1>1, <1>4 DEF NoLostWakeup
<1> QED
  BY <1>2, <1>3, <1>5, <1>6

\* The inductive invariant: the deques, the futures and the requests agree,
\* every permit of a pool is free, held or handed over, and no wakeup is lost.
THEOREM SlotsCorrect == Spec => []SlotsInv
<1>1. Init => SlotsInv
  <2> SUFFICES ASSUME Init PROVE SlotsInv
    OBVIOUS
  <2>1. total \in Nat \ {0}
    BY SlotsAssumption DEF Init
  <2>2. Types
    BY <2>1, SizesAre DEF Init, Types, PoolSizes, Pools
  <2>3. \A p \in Pools : waiters[p] = <<>>
    BY DEF Init
  <2>4. IsInjective(<<>>) /\ ToSet(<<>>) = {}
    BY DEF IsInjective, ToSet
  <2>5. QueueInv
    BY <2>3, <2>4 DEF QueueInv, Queued, Init
  <2>6. \A p \in Pools : Holders(p) = {} /\ Woken(p) = {} /\ Pending(p) = {}
    BY DEF Init, Holders, Woken, Pending
  <2>7. \A p \in Pools : Conserved(p)
    <3> TAKE p \in Pools
    <3>1. Cardinality(Holders(p)) = 0 /\ Cardinality(Woken(p)) = 0
      BY <2>6, FS_EmptySet
    <3>2. value[p] = PoolSizes(total)[p] /\ value[p] \in Nat
      BY <2>2 DEF Init, Types
    <3> QED
      BY <3>1, <3>2 DEF Conserved
  <2> QED
    BY <2>2, <2>5, <2>6, <2>7 DEF SlotsInv, NoLostWakeup
<1>2. SlotsInv /\ [Next]_vars => SlotsInv'
  <2> SUFFICES ASSUME SlotsInv, [Next]_vars PROVE SlotsInv'
    OBVIOUS
  <2>1. CASE UNCHANGED vars
    <3>1. Types' /\ QueueInv'
      BY <2>1 DEF vars, SlotsInv, Types, QueueInv, Queued
    <3>2. \A p \in Pools : /\ Holders(p)' = Holders(p) /\ Woken(p)' = Woken(p) /\ Pending(p)' = Pending(p)
                          /\ value' = value /\ PoolSizes(total)' = PoolSizes(total)
      BY <2>1 DEF vars, Holders, Woken, Pending
    <3> QED
      BY <3>1, <3>2 DEF SlotsInv, Conserved, NoLostWakeup
  <2>2. CASE Next
    BY <2>2, ArriveStep, ReleaseStep, DequeueStep, CancelStep DEF Next
  <2> QED
    BY <2>1, <2>2
<1> QED
  BY <1>1, <1>2, PTL DEF Spec

-----------------------------------------------------------------------------
(* What it gives. *)

\* The running scans are those of the three pools.
LEMMA HoldingIsBounded ==
  ASSUME SlotsInv
  PROVE  Cardinality({r \in Requests : phase[r] = "holding"}) <= total
<1> DEFINE i == Holders("interactive")
           b == Holders("bulk")
           s == Holders("shared")
           both == i \cup b
           all == both \cup s
<1>1. {r \in Requests : phase[r] = "holding"} = all
  BY DEF SlotsInv, QueueInv, Holders, Pools
<1>2. /\ IsFiniteSet(i) /\ IsFiniteSet(b) /\ IsFiniteSet(s)
      /\ Cardinality(i) \in Nat /\ Cardinality(b) \in Nat /\ Cardinality(s) \in Nat
  BY Counts
<1> HIDE DEF i, b, s
<1>3. IsFiniteSet(both) /\ Cardinality(both) <= Cardinality(i) + Cardinality(b)
  <2>1. Cardinality(i \cap b) \in Nat
    <3>1. IsFiniteSet(i \cap b)
      BY <1>2, FS_Intersection
    <3> QED
      BY <3>1, FS_CardinalityType
  <2>2. /\ IsFiniteSet(both)
        /\ Cardinality(both) = Cardinality(i) + Cardinality(b) - Cardinality(i \cap b)
    BY <1>2, FS_Union
  <2> HIDE DEF both
  <2> QED
    BY <1>2, <2>1, <2>2
<1> HIDE DEF both
<1>4. Cardinality(all) <= Cardinality(both) + Cardinality(s)
  <2>1. Cardinality(both \cap s) \in Nat
    <3>1. IsFiniteSet(both \cap s)
      BY <1>3, FS_Intersection
    <3> QED
      BY <3>1, FS_CardinalityType
  <2>2. Cardinality(both) \in Nat
    BY <1>3, FS_CardinalityType
  <2>3. Cardinality(all) = Cardinality(both) + Cardinality(s) - Cardinality(both \cap s)
    BY <1>2, <1>3, FS_Union
  <2> HIDE DEF all
  <2> QED
    BY <1>2, <2>1, <2>2, <2>3
<1>5. Cardinality(all) \in Nat /\ Cardinality(both) \in Nat
  <2>1. IsFiniteSet(all)
    BY <1>2, <1>3, FS_Union
  <2> QED
    BY <1>3, <2>1, FS_CardinalityType
<1>6. \A p \in Pools : Cardinality(Holders(p)) <= PoolSizes(total)[p]
  <2> TAKE p \in Pools
  <2>1. value[p] \in Nat /\ Conserved(p)
    BY DEF SlotsInv, Types
  <2>2. Cardinality(Holders(p)) \in Nat /\ Cardinality(Woken(p)) \in Nat
    BY Counts
  <2> QED
    BY <2>1, <2>2 DEF Conserved
<1>7. /\ Cardinality(i) <= PoolSizes(total)["interactive"]
      /\ Cardinality(b) <= PoolSizes(total)["bulk"]
      /\ Cardinality(s) <= PoolSizes(total)["shared"]
  BY <1>6 DEF i, b, s, Pools
<1>8. /\ total \in Nat \ {0}
      /\ PoolSizes(total)["interactive"] \in Nat /\ PoolSizes(total)["bulk"] \in Nat
      /\ PoolSizes(total)["shared"] \in Nat
      /\ PoolSizes(total)["interactive"] + PoolSizes(total)["bulk"] + PoolSizes(total)["shared"] = total
  <2>1. total \in Nat \ {0}
    BY DEF SlotsInv, Types
  <2> QED
    BY <2>1, SizesAre DEF Pools
<1> HIDE DEF all
<1>9. Cardinality(all) <= total
  BY <1>2, <1>3, <1>4, <1>5, <1>7, <1>8
<1> QED
  BY <1>1, <1>9

\* "the aggregate concurrency cap is unchanged" (governance/app/pii.py), for any
\* number of requests and of workers: free, held and handed over, the permits of
\* a pool are its size, and no more scans run than there are workers.
THEOREM PermitsCorrect == Spec => []PermitsConserved
<1>1. SlotsInv => PermitsConserved
  BY HoldingIsBounded DEF SlotsInv, Conserved, PermitsConserved
<1> QED
  BY <1>1, SlotsCorrect, PTL

\* No permit lies idle in a pool somebody is queued on, unless a waiter was woken
\* and is about to run: whichever order releases, arrivals and cancellations come in.
THEOREM NoLostWakeupCorrect == Spec => []NoLostWakeup
<1>1. SlotsInv => NoLostWakeup
  BY DEF SlotsInv
<1> QED
  BY <1>1, SlotsCorrect, PTL

\* Nobody of the other class obtains a permit of the pool a request queues on:
\* a borrow needs an unlocked pool, and a queued request locks its own.
THEOREM NoBorrowCorrect == Spec => NoBorrowPastWaiter
<1> DEFINE Obeyed == \A r, s \in Requests :
                       /\ r \in Pending(Home(r)) \cup Woken(Home(r))
                       /\ Home(s) # Home(r)
                       /\ phase[s] # "holding" /\ phase'[s] = "holding"
                       => pool'[s] # Home(r)
<1>1. SlotsInv /\ [Next]_vars => [Obeyed]_vars
  <2> SUFFICES ASSUME SlotsInv, Next,
                      NEW r \in Requests, NEW s \in Requests,
                      r \in Pending(Home(r)) \cup Woken(Home(r)),
                      Home(s) # Home(r),
                      phase[s] # "holding", phase'[s] = "holding"
               PROVE  pool'[s] # Home(r)
    OBVIOUS
  <2>1. \A x \in Requests : /\ Home(x) \in Pools /\ Other(x) \in Pools
                            /\ Home(x) # "shared"
    BY DEF Home, Other, Pools
  <2>2. phase \in [Requests -> {"idle", "waiting", "holding"}] /\ pool \in [Requests -> Pools \cup {"none"}]
    BY DEF SlotsInv, Types
  <2>3. PICK x \in Requests : \/ Arrive(x) \/ Release(x) \/ Resume(x)
                              \/ Cancel(x) \/ Prune(x) \/ CancelWoken(x)
    BY DEF Next
  <2>4. CASE TakeHome(x)
    BY <2>1, <2>2, <2>4 DEF TakeHome, Take
  <2>5. CASE TakeShared(x)
    BY <2>1, <2>2, <2>5 DEF TakeShared, Take
  <2>6. CASE Borrow(x)
    <3>1. x = s /\ pool'[s] = Other(s) /\ ~Locked(Other(s))
      BY <2>2, <2>6 DEF Borrow, Take
    <3>2. Pending(Other(s)) = {} /\ Woken(Other(s)) = {}
      BY <2>1, <3>1, Unlocked
    <3> QED
      BY <3>1, <3>2
  <2>7. CASE Block(x)
    BY <2>2, <2>7 DEF Block, Enqueue
  <2>8. CASE Release(x)
    BY <2>2, <2>8 DEF Release
  <2>9. CASE Resume(x)
    <3>1. x = s /\ pool'[s] = pool[s] /\ phase[s] = "waiting"
      BY <2>2, <2>9 DEF Resume
    <3>2. pool[s] \in {Home(s), "shared"}
      BY <3>1 DEF SlotsInv, QueueInv
    <3> QED
      BY <2>1, <3>1, <3>2
  <2>10. CASE Cancel(x)
    BY <2>2, <2>10 DEF Cancel
  <2>11. CASE Prune(x) \/ CancelWoken(x)
    BY <2>2, <2>11 DEF Prune, CancelWoken, Leave
  <2> QED
    BY <2>3, <2>4, <2>5, <2>6, <2>7, <2>8, <2>9, <2>10, <2>11 DEF Arrive
<1> QED
  BY <1>1, SlotsCorrect, PTL DEF Spec, NoBorrowPastWaiter
=============================================================================
