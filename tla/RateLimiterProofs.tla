------------------------- MODULE RateLimiterProofs --------------------------
(***************************************************************************)
(* Proofs about RateLimiter: the bound on the admissions of a window and   *)
(* the promise of retry_after, for any number of replicas, any limit and   *)
(* window and any difference of their clocks below the window.             *)
(***************************************************************************)
EXTENDS RateLimiter, FiniteSetTheorems, TLAPS

Types ==
  /\ now \in Nat
  /\ lead \in [Replicas -> 0 .. Skew]
  /\ entries \in SUBSET [seq : Nat, score : Nat]
  /\ seq \in Nat
  /\ expires \in Nat
  /\ admitted \in SUBSET [seq : Nat, at : Nat]
  /\ promise \in SUBSET Nat

\* The sorted set: no more than Limit entries, each under a number of its own
\* that the counter has passed.
EntriesInv ==
  /\ IsFiniteSet(entries) /\ Cardinality(entries) <= Limit
  /\ \A e \in entries : e.seq <= seq
  /\ \A e, f \in entries : e.seq = f.seq => e = f

\* The admissions of the last Window: an admission keeps its entry for
\* Window - Skew at least, and the keys live longer than any of them.
AdmittedInv ==
  /\ \A a \in admitted : /\ a.at <= now /\ now < a.at + Window
                         /\ a.seq <= seq
                         /\ a.at + Window < expires
  /\ \A a, b \in admitted : a.seq = b.seq => a = b
  /\ \A a \in admitted :
       now + Skew < a.at + Window => \E e \in entries : e.seq = a.seq /\ a.at <= e.score

\* At the time of a promise, the clocks' difference added, an entry is gone.
PromiseInv ==
  \A p \in promise : Cardinality({e \in entries : e.score + Window > p + Skew}) < Limit

-----------------------------------------------------------------------------

\* Rounded up to seconds, a time is not shorter.
LEMMA CeilingCovers ==
  ASSUME NEW n \in Nat
  PROVE  /\ Ceiling(n) \in Nat
         /\ n <= Second * Ceiling(n)
<1>1. Second \in Nat /\ Second > 0
  BY LimiterAssumption
<1> DEFINE x == n + Second - 1
           q == x \div Second
           r == x % Second
<1>2. x \in Nat
  BY <1>1
<1>3. /\ q \in Nat /\ r \in Nat /\ r < Second
      /\ x = Second * q + r
  <2> HIDE DEF x
  <2> QED
    BY <1>1, <1>2
<1>4. Second * q \in Nat
  BY <1>1, <1>3
<1> HIDE DEF q, r
<1>5. n <= Second * q
  BY <1>1, <1>3, <1>4
<1> QED
  BY <1>3, <1>5 DEF Ceiling, q

\* What check starts from: the entries and the counter that Redis still has.
\* When the keys have expired, the admissions they stood for are over, too.
LEMMA LiveKeys ==
  ASSUME Types, EntriesInv, AdmittedInv
  PROVE  /\ LiveSeq \in Nat
         /\ Live \in SUBSET entries
         /\ \A e \in Live : e.seq <= LiveSeq
         /\ \A a \in admitted : a.seq <= LiveSeq
         /\ \A a \in admitted :
              now + Skew < a.at + Window => \E e \in Live : e.seq = a.seq /\ a.at <= e.score
<1>1. CASE now < expires
  BY <1>1 DEF Types, EntriesInv, AdmittedInv, Live, LiveSeq
<1>2. CASE ~ (now < expires)
  <2>1. admitted = {}
    <3> SUFFICES ASSUME NEW a \in admitted PROVE FALSE
      OBVIOUS
    <3>1. now \in Nat /\ expires \in Nat /\ a.at \in Nat /\ Window \in Nat
      BY LimiterAssumption DEF Types
    <3>2. now < a.at + Window /\ a.at + Window < expires
      BY DEF AdmittedInv
    <3> QED
      BY <1>2, <3>1, <3>2
  <2> QED
    BY <1>2, <2>1 DEF Types, Live, LiveSeq
<1> QED
  BY <1>1, <1>2

\* The names of Check.
Clock(r) == now + lead[r]
Kept(r) == {e \in Live : e.score + Window > Clock(r)}

\* What check removes of the set, adds to it and counts: the new number is not
\* in use, so all that is kept is counted.
LEMMA CheckIs ==
  ASSUME Types, EntriesInv, AdmittedInv, NEW r \in Replicas, Check(r)
  PROVE  /\ seq' = LiveSeq + 1
         /\ \A a \in admitted : a.at + Window < expires'
         /\ now + Window < expires' /\ expires' \in Nat
         /\ UNCHANGED <<now, lead, loaded>>
         /\ \/ /\ Cardinality(Kept(r)) + 1 <= Limit
               /\ entries' = Kept(r) \cup {[seq |-> LiveSeq + 1, score |-> Clock(r)]}
               /\ admitted' = admitted \cup {[seq |-> LiveSeq + 1, at |-> now]}
               /\ promise' = {}
            \/ /\ ~ (Cardinality(Kept(r)) + 1 <= Limit)
               /\ entries' = Kept(r)
               /\ \E e \in Kept(r) :
                    promise' = {now + Second * RetryAfter(e.score, Clock(r))} \cup promise
               /\ UNCHANGED admitted
<1> DEFINE member == Member(LiveSeq + 1, Clock(r))
<1>1. member = [seq |-> LiveSeq + 1, score |-> Clock(r)] /\ member.seq = LiveSeq + 1
  BY DEF Member
<1>2. {e \in Kept(r) : e.seq # LiveSeq + 1} = Kept(r)
  <2>1. \A e \in Kept(r) : e.seq \in Nat /\ e.seq <= LiveSeq
    BY LiveKeys DEF Kept, Types
  <2>2. LiveSeq \in Nat
    BY LiveKeys
  <2> QED
    BY <2>1, <2>2
<1>3. /\ now + Window < expires' /\ expires' \in Nat
      /\ \A a \in admitted : a.at + Window < expires'
  <2>1. expires' = now + Second * (Ceiling(Window) + 1)
    BY DEF Check
  <2>2. /\ now \in Nat /\ Window \in Nat /\ Second \in Nat /\ Second > 0
        /\ Ceiling(Window) \in Nat /\ Window <= Second * Ceiling(Window)
    BY LimiterAssumption, CeilingCovers DEF Types
  <2> DEFINE c == Ceiling(Window)
  <2>3. Second * (c + 1) = Second * c + Second /\ Second * c \in Nat
    <3> HIDE DEF c
    <3> QED
      BY <2>2 DEF c
  <2>4. now + Window < expires' /\ expires' \in Nat
    <3> HIDE DEF c
    <3> QED
      BY <2>1, <2>2, <2>3 DEF c
  <2>5. \A a \in admitted : a.at \in Nat /\ a.at <= now
    BY DEF Types, AdmittedInv
  <2> QED
    BY <2>2, <2>4, <2>5
<1>4. /\ seq' = LiveSeq + 1
      /\ UNCHANGED <<now, lead, loaded>>
      /\ IF Cardinality(Kept(r)) + 1 <= Limit
           THEN /\ entries' = Kept(r) \cup {member}
                /\ admitted' = admitted \cup {[seq |-> LiveSeq + 1, at |-> now]}
                /\ promise' = {}
           ELSE /\ entries' = Kept(r)
                /\ \E e \in Kept(r) :
                     /\ IsOldest(e, Kept(r))
                     /\ promise' = {now + Second * RetryAfter(e.score, Clock(r))} \cup promise
                /\ UNCHANGED admitted
  BY <1>1, <1>2 DEF Check, Kept, Clock
<1> HIDE DEF member
<1> QED
  BY <1>1, <1>3, <1>4

-----------------------------------------------------------------------------

LimiterInv == Types /\ EntriesInv /\ AdmittedInv /\ PromiseInv

\* A check that is admitted keeps the invariant.
LEMMA AdmissionKeeps ==
  ASSUME LimiterInv, NEW r \in Replicas, Check(r), Cardinality(Kept(r)) + 1 <= Limit,
         entries' = Kept(r) \cup {[seq |-> LiveSeq + 1, score |-> Clock(r)]},
         admitted' = admitted \cup {[seq |-> LiveSeq + 1, at |-> now]},
         promise' = {}
  PROVE  LimiterInv'
<1> DEFINE m == [seq |-> LiveSeq + 1, score |-> Clock(r)]
           b == [seq |-> LiveSeq + 1, at |-> now]
<1>0. /\ Types /\ EntriesInv /\ AdmittedInv
      /\ Limit \in Nat /\ Window \in Nat /\ Skew \in Nat
  BY LimiterAssumption DEF LimiterInv
<1>1. /\ seq' = LiveSeq + 1 /\ UNCHANGED <<now, lead, loaded>>
      /\ now + Window < expires' /\ expires' \in Nat
      /\ \A a \in admitted : a.at + Window < expires'
  BY <1>0, CheckIs
<1>2. /\ LiveSeq \in Nat /\ Live \in SUBSET entries
      /\ \A e \in Live : e.seq <= LiveSeq
      /\ \A a \in admitted : a.seq <= LiveSeq
      /\ \A a \in admitted :
           now + Skew < a.at + Window => \E e \in Live : e.seq = a.seq /\ a.at <= e.score
  BY <1>0, LiveKeys
<1>3. /\ now \in Nat /\ lead[r] \in 0 .. Skew /\ Clock(r) \in Nat
      /\ now <= Clock(r) /\ Clock(r) <= now + Skew
  BY <1>0 DEF Types, Clock
<1>4. /\ Kept(r) \in SUBSET Live /\ Kept(r) \in SUBSET entries
      /\ \A e \in Kept(r) : e.seq \in Nat /\ e.score \in Nat /\ e.seq <= LiveSeq
  BY <1>0, <1>2 DEF Kept, Types
<1>5. m.seq = LiveSeq + 1 /\ m.score = Clock(r) /\ b.seq = LiveSeq + 1 /\ b.at = now
  OBVIOUS
<1>6. \A a \in admitted : a.seq \in Nat /\ a.at \in Nat /\ a.at <= now /\ now < a.at + Window
  BY <1>0 DEF Types, AdmittedInv
<1>7. Types'
  BY <1>0, <1>1, <1>2, <1>3, <1>4 DEF Types
<1> HIDE DEF m, b
<1>8. EntriesInv'
  <2>1. IsFiniteSet(Kept(r)) /\ Cardinality(Kept(r)) \in Nat
    BY <1>0, <1>4, FS_Subset, FS_CardinalityType DEF EntriesInv
  <2>2. IsFiniteSet(Kept(r) \cup {m}) /\ Cardinality(Kept(r) \cup {m}) <= Limit
    <3>1. m \notin Kept(r)
      BY <1>2, <1>4, <1>5
    <3>2. /\ IsFiniteSet(Kept(r) \cup {m})
          /\ Cardinality(Kept(r) \cup {m}) = Cardinality(Kept(r)) + 1
      BY <2>1, <3>1, FS_AddElement
    <3> QED
      BY <3>2
  <2>3. entries' = Kept(r) \cup {m}
    BY DEF m
  <2>4. \A e \in entries' : e.seq <= seq'
    BY <1>1, <1>2, <1>4, <1>5, <2>3
  <2>5. \A e, f \in entries' : e.seq = f.seq => e = f
    BY <1>0, <1>2, <1>4, <1>5, <2>3 DEF EntriesInv
  <2> QED
    BY <2>2, <2>3, <2>4, <2>5 DEF EntriesInv
<1>9. AdmittedInv'
  <2>1. admitted' = admitted \cup {b} /\ entries' = Kept(r) \cup {m}
    BY DEF b, m
  <2>2. \A a \in admitted' : /\ a.at <= now /\ now < a.at + Window
                             /\ a.seq <= seq' /\ a.at + Window < expires'
    <3>1. now < now + Window
      BY <1>3, LimiterAssumption
    <3> QED
      BY <1>1, <1>2, <1>3, <1>5, <1>6, <2>1, <3>1
  <2>3. \A a, c \in admitted' : a.seq = c.seq => a = c
    BY <1>0, <1>2, <1>5, <1>6, <2>1 DEF AdmittedInv
  <2>4. ASSUME NEW a \in admitted', now + Skew < a.at + Window
        PROVE  \E e \in entries' : e.seq = a.seq /\ a.at <= e.score
    <3>1. CASE a = b
      BY <1>3, <1>5, <2>1, <3>1
    <3>2. CASE a \in admitted
      <4>1. PICK e \in Live : e.seq = a.seq /\ a.at <= e.score
        BY <1>2, <2>4, <3>2
      <4>2. e.score + Window > Clock(r)
        <5>1. e.score \in Nat
          BY <1>0, <1>2 DEF Types
        <5> QED
          BY <1>0, <1>3, <1>6, <2>4, <3>2, <4>1, <5>1
      <4>3. e \in Kept(r)
        BY <4>2 DEF Kept
      <4> QED
        BY <2>1, <4>1, <4>3
    <3> QED
      BY <2>1, <3>1, <3>2
  <2> QED
    BY <1>1, <2>2, <2>3, <2>4 DEF AdmittedInv
<1>10. PromiseInv'
  BY DEF PromiseInv
<1> QED
  BY <1>7, <1>8, <1>9, <1>10 DEF LimiterInv

\* A check that is denied keeps the invariant: by the time it promises, the
\* entry it was computed from is out of every replica's window.
LEMMA DenialKeeps ==
  ASSUME LimiterInv, NEW r \in Replicas, Check(r), entries' = Kept(r), NEW o \in Kept(r),
         promise' = {now + Second * RetryAfter(o.score, Clock(r))} \cup promise,
         UNCHANGED admitted
  PROVE  LimiterInv'
<1>0. /\ Types /\ EntriesInv /\ AdmittedInv /\ PromiseInv
      /\ Limit \in Nat /\ Window \in Nat /\ Skew \in Nat /\ Second \in Nat
  BY LimiterAssumption DEF LimiterInv
<1>1. /\ seq' = LiveSeq + 1 /\ UNCHANGED <<now, lead, loaded>>
      /\ now + Window < expires' /\ expires' \in Nat
      /\ \A a \in admitted : a.at + Window < expires'
  BY <1>0, CheckIs
<1>2. /\ LiveSeq \in Nat /\ Live \in SUBSET entries
      /\ \A e \in Live : e.seq <= LiveSeq
      /\ \A a \in admitted : a.seq <= LiveSeq
      /\ \A a \in admitted :
           now + Skew < a.at + Window => \E e \in Live : e.seq = a.seq /\ a.at <= e.score
  BY <1>0, LiveKeys
<1>3. /\ now \in Nat /\ lead[r] \in 0 .. Skew /\ Clock(r) \in Nat
      /\ now <= Clock(r) /\ Clock(r) <= now + Skew
  BY <1>0 DEF Types, Clock
<1>4. /\ Kept(r) \in SUBSET Live /\ Kept(r) \in SUBSET entries
      /\ \A e \in Kept(r) : e.seq \in Nat /\ e.score \in Nat /\ e.seq <= LiveSeq
  BY <1>0, <1>2 DEF Kept, Types
<1>5. IsFiniteSet(Kept(r)) /\ Cardinality(Kept(r)) \in Nat /\ Cardinality(Kept(r)) <= Limit
  BY <1>0, <1>4, FS_Subset, FS_CardinalityType DEF EntriesInv
<1> DEFINE n == o.score + Window - Clock(r)
           p == now + Second * RetryAfter(o.score, Clock(r))
<1>6. p \in Nat /\ o.score + Window <= p + Skew
  <2>1. n \in Nat
    BY <1>0, <1>3, <1>4 DEF Kept
  <2>2. /\ Ceiling(n) \in Nat /\ n <= Second * Ceiling(n)
    <3> HIDE DEF n
    <3> QED
      BY <2>1, CeilingCovers
  <2> DEFINE c == Ceiling(n)
             d == Second * c
  <2>3. d \in Nat /\ n <= d
    <3>1. c \in Nat
      BY <2>2
    <3> HIDE DEF c
    <3>2. Second * c \in Nat
      BY <1>0, <3>1
    <3> QED
      BY <2>2, <3>2 DEF c
  <2>4. p = now + d
    BY DEF RetryAfter
  <2> HIDE DEF d, p
  <2> QED
    BY <1>0, <1>3, <1>4, <2>3, <2>4
<1> HIDE DEF p, n
<1>7. Types'
  <2>1. promise' = {p} \cup promise
    BY DEF p
  <2>2. promise' \in SUBSET Nat
    BY <1>0, <1>6, <2>1 DEF Types
  <2>3. entries' \in SUBSET [seq : Nat, score : Nat] /\ seq' \in Nat
    BY <1>0, <1>1, <1>2, <1>4 DEF Types
  <2> QED
    BY <1>0, <1>1, <2>2, <2>3 DEF Types
<1>8. EntriesInv'
  BY <1>0, <1>1, <1>2, <1>4, <1>5 DEF EntriesInv
<1>9. AdmittedInv'
  <2>1. \A a \in admitted : a.seq \in Nat /\ a.at \in Nat /\ a.at <= now /\ now < a.at + Window
    BY <1>0 DEF Types, AdmittedInv
  <2>2. ASSUME NEW a \in admitted, now + Skew < a.at + Window
        PROVE  \E e \in Kept(r) : e.seq = a.seq /\ a.at <= e.score
    <3>1. PICK e \in Live : e.seq = a.seq /\ a.at <= e.score
      BY <1>2, <2>2
    <3>2. e.score \in Nat
      BY <1>0, <1>2 DEF Types
    <3>3. e.score + Window > Clock(r)
      BY <1>0, <1>3, <2>1, <2>2, <3>1, <3>2
    <3> QED
      BY <3>1, <3>3 DEF Kept
  <2>3. \A a \in admitted : a.seq <= seq'
    BY <1>1, <1>2, <2>1
  <2> QED
    BY <1>0, <1>1, <2>1, <2>2, <2>3 DEF AdmittedInv
<1>10. PromiseInv'
  <2> SUFFICES ASSUME NEW q \in promise'
               PROVE  Cardinality({e \in Kept(r) : e.score + Window > q + Skew}) < Limit
    BY DEF PromiseInv
  <2> DEFINE in == {e \in Kept(r) : e.score + Window > q + Skew}
  <2>1. CASE q \in promise
    <3> DEFINE was == {e \in entries : e.score + Window > q + Skew}
    <3>1. in \in SUBSET was /\ was \in SUBSET entries
      BY <1>4
    <3>2. Cardinality(was) < Limit
      BY <1>0, <2>1 DEF PromiseInv
    <3> HIDE DEF in, was
    <3>3. IsFiniteSet(was) /\ IsFiniteSet(in)
      BY <1>0, <3>1, FS_Subset DEF EntriesInv
    <3>4. Cardinality(in) <= Cardinality(was) /\ Cardinality(in) \in Nat /\ Cardinality(was) \in Nat
      BY <3>1, <3>3, FS_Subset, FS_CardinalityType
    <3> QED
      BY <1>0, <3>2, <3>4 DEF in
  <2>2. CASE q = p
    <3>1. in \in SUBSET Kept(r) /\ o \notin in
      BY <1>0, <1>4, <1>6, <2>2
    <3> HIDE DEF in
    <3>2. /\ Cardinality(in) <= Cardinality(Kept(r)) /\ Cardinality(in) # Cardinality(Kept(r))
          /\ Cardinality(in) \in Nat
      BY <1>5, <3>1, FS_Subset, FS_CardinalityType
    <3> QED
      BY <1>0, <1>5, <3>2 DEF in
  <2> QED
    BY <2>1, <2>2 DEF p
<1> QED
  BY <1>7, <1>8, <1>9, <1>10 DEF LimiterInv

\* The sorted set, the counter and the expiry of both account for every
\* admission of the last Window and for every promise made.
THEOREM LimiterCorrect == Spec => []LimiterInv
<1> USE LimiterAssumption
<1>1. Init => LimiterInv
  <2> SUFFICES ASSUME Init PROVE LimiterInv
    OBVIOUS
  <2>1. Types
    BY DEF Init, Types
  <2>2. EntriesInv
    BY FS_EmptySet DEF Init, EntriesInv
  <2>3. AdmittedInv /\ PromiseInv
    BY DEF Init, AdmittedInv, PromiseInv
  <2> QED
    BY <2>1, <2>2, <2>3 DEF LimiterInv
<1>2. LimiterInv /\ [Next]_vars => LimiterInv'
  <2> SUFFICES ASSUME LimiterInv, [Next]_vars PROVE LimiterInv'
    OBVIOUS
  <2>1. ASSUME NEW r \in Replicas, Check(r) PROVE LimiterInv'
    BY <2>1, CheckIs, AdmissionKeeps, DenialKeeps DEF LimiterInv
  <2>2. ASSUME RedisRestart PROVE LimiterInv'
    <3>1. Types'
      BY <2>2 DEF RedisRestart, LimiterInv, Types
    <3>2. EntriesInv'
      BY <2>2, FS_EmptySet DEF RedisRestart, EntriesInv
    <3>3. AdmittedInv' /\ PromiseInv'
      BY <2>2 DEF RedisRestart, AdmittedInv, PromiseInv
    <3> QED
      BY <3>1, <3>2, <3>3 DEF LimiterInv
  <2>3. ASSUME LoadScript \/ UNCHANGED vars PROVE LimiterInv'
    <3>1. UNCHANGED <<now, lead, entries, seq, expires, admitted, promise>>
      BY <2>3 DEF LoadScript, vars
    <3> QED
      BY <3>1 DEF LimiterInv, Types, EntriesInv, AdmittedInv, PromiseInv
  <2>4. ASSUME Tick PROVE LimiterInv'
    <3>1. /\ now' = now + 1 /\ UNCHANGED <<lead, entries, seq, expires, promise>>
          /\ admitted' = {a \in admitted : a.at + Window > now + 1}
      BY <2>4 DEF Tick
    <3>2. Types'
      BY <3>1 DEF LimiterInv, Types
    <3>3. EntriesInv' /\ PromiseInv'
      BY <3>1 DEF LimiterInv, EntriesInv, PromiseInv
    <3>4. AdmittedInv'
      <4>1. now \in Nat /\ \A a \in admitted : a.at \in Nat /\ a.at <= now
        BY DEF LimiterInv, Types, AdmittedInv
      <4>2. /\ \A a \in admitted' : /\ a.at <= now' /\ now' < a.at + Window
                                    /\ a.seq <= seq /\ a.at + Window < expires
            /\ \A a, b \in admitted' : a.seq = b.seq => a = b
        BY <3>1, <4>1 DEF LimiterInv, AdmittedInv
      <4>3. ASSUME NEW a \in admitted', now' + Skew < a.at + Window
            PROVE  \E e \in entries : e.seq = a.seq /\ a.at <= e.score
        <5>1. now + Skew < a.at + Window /\ a \in admitted
          BY <3>1, <4>1, <4>3
        <5> QED
          BY <5>1 DEF LimiterInv, AdmittedInv
      <4> QED
        BY <3>1, <4>2, <4>3 DEF AdmittedInv
    <3> QED
      BY <3>2, <3>3, <3>4 DEF LimiterInv
  <2> QED
    BY <2>1, <2>2, <2>3, <2>4 DEF Next
<1> QED
  BY <1>1, <1>2, PTL DEF Spec

\* In any period of Window - Skew no more than Limit requests of a caller are
\* admitted, whichever replicas they go to.
THEOREM WindowBoundCorrect == Spec => []WindowBound
<1>1. LimiterInv => WindowBound
  <2> SUFFICES ASSUME LimiterInv PROVE WindowBound
    OBVIOUS
  <2> DEFINE recent == {a \in admitted : a.at + (Window - Skew) > now}
             f == [a \in recent |-> CHOOSE e \in entries : e.seq = a.seq]
  <2>1. \A a \in recent : \E e \in entries : e.seq = a.seq
    <3> SUFFICES ASSUME NEW a \in recent PROVE \E e \in entries : e.seq = a.seq
      OBVIOUS
    <3>1. now \in Nat /\ a \in admitted /\ a.at \in Nat
      BY DEF LimiterInv, Types
    <3>2. now + Skew < a.at + Window
      BY <3>1, LimiterAssumption
    <3> QED
      BY <3>1, <3>2 DEF LimiterInv, AdmittedInv
  <2>2. \A a \in recent : f[a] \in entries /\ f[a].seq = a.seq
    BY <2>1
  <2>3. \A a, b \in recent : a.seq = b.seq => a = b
    BY DEF LimiterInv, AdmittedInv
  <2>4. f \in Injection(recent, entries)
    <3>1. f \in [recent -> entries]
      BY <2>2
    <3>2. \A a, b \in recent : f[a] = f[b] => a = b
      BY <2>2, <2>3
    <3> HIDE DEF f, recent
    <3> QED
      BY <3>1, <3>2 DEF Injection, IsInjective
  <2> HIDE DEF f, recent
  <2>5. IsFiniteSet(recent) /\ Cardinality(recent) <= Cardinality(entries)
    BY <2>4, FS_Injection DEF LimiterInv, EntriesInv
  <2>6. Cardinality(recent) \in Nat /\ Cardinality(entries) \in Nat /\ Cardinality(entries) <= Limit
    BY <2>5, FS_CardinalityType DEF LimiterInv, EntriesInv
  <2> QED
    BY <2>5, <2>6, LimiterAssumption DEF WindowBound, recent
<1> QED
  BY <1>1, LimiterCorrect, PTL

\* A denied caller who comes back after retry_after, and Skew for the clocks, is
\* admitted, however often it was denied in between.
THEOREM RetryAfterCorrect == Spec => RetryAfterHonoured
<1> DEFINE Honoured ==
      \A r \in Replicas : (Check(r) /\ \E p \in promise : p + Skew <= now) => admitted' # admitted
<1>1. LimiterInv /\ [Next]_vars => [Honoured]_vars
  <2> SUFFICES ASSUME LimiterInv, NEW r \in Replicas, Check(r), NEW p \in promise, p + Skew <= now
               PROVE  admitted' # admitted
    BY DEF Honoured
  <2>0. /\ now \in Nat /\ p \in Nat /\ Limit \in Nat /\ Window \in Nat /\ Skew \in Nat
        /\ lead[r] \in 0 .. Skew
    BY LimiterAssumption DEF LimiterInv, Types
  <2> DEFINE later == {e \in entries : e.score + Window > p + Skew}
  <2>1. /\ LiveSeq \in Nat /\ Live \in SUBSET entries
        /\ \A a \in admitted : a.seq \in Nat /\ a.seq <= LiveSeq
    BY LiveKeys DEF LimiterInv, Types
  <2>2. Kept(r) \in SUBSET later /\ later \in SUBSET entries
    <3> SUFFICES ASSUME NEW e \in Kept(r) PROVE e \in later
      OBVIOUS
    <3>1. e \in entries /\ e.score \in Nat /\ e.score + Window > Clock(r)
      BY <2>1 DEF Kept, LimiterInv, Types
    <3> QED
      BY <2>0, <3>1 DEF Clock
  <2>3. Cardinality(later) < Limit
    BY DEF LimiterInv, PromiseInv
  <2> HIDE DEF later
  <2>4. IsFiniteSet(later) /\ IsFiniteSet(Kept(r)) /\ Cardinality(Kept(r)) <= Cardinality(later)
    BY <2>2, FS_Subset DEF LimiterInv, EntriesInv
  <2>5. Cardinality(later) \in Nat /\ Cardinality(Kept(r)) \in Nat
    BY <2>4, FS_CardinalityType
  <2>6. Cardinality(Kept(r)) + 1 <= Limit
    BY <2>0, <2>3, <2>4, <2>5
  <2>7. admitted' = admitted \cup {[seq |-> LiveSeq + 1, at |-> now]}
    BY <2>6, CheckIs DEF LimiterInv
  <2>8. [seq |-> LiveSeq + 1, at |-> now] \notin admitted
    BY <2>1
  <2> QED
    BY <2>7, <2>8
<1> QED
  BY <1>1, LimiterCorrect, PTL DEF Spec, RetryAfterHonoured, Honoured
=============================================================================
