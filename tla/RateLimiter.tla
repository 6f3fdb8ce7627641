---------------------------- MODULE RateLimiter ----------------------------
(***************************************************************************)
(* The sliding-window rate limiter of the gateway proxy (rate_limit.py):   *)
(* a script that Redis runs atomically on the sorted set of one caller.    *)
(* Every replica of the proxy passes the script the time of its own clock, *)
(* so entries are scored, counted and removed by clocks that disagree.     *)
(*                                                                         *)
(* Time is in ticks; Redis and the real world share one clock, and a       *)
(* replica's is ahead of it by a fixed lead of at most Skew.               *)
(***************************************************************************)
EXTENDS Naturals, FiniteSets

CONSTANTS
  Replicas,
  Limit,              \* rate_limit_requests
  Window,             \* rate_limit_window_seconds, in ticks
  Second,             \* ticks of a second
  Skew,               \* how far the replicas' clocks are apart
  MaxTime,            \* how long the model runs
  MaxSeq              \* requests a caller makes before its keys expire

ASSUME LimiterAssumption ==
  /\ Limit \in Nat \ {0} /\ Window \in Nat \ {0} /\ Second \in Nat \ {0}
  /\ Skew \in Nat /\ Skew < Window
  /\ MaxTime \in Nat /\ MaxSeq \in Nat

VARIABLES
  now,                \* real time
  lead,               \* replica -> how far its clock is ahead
  entries,            \* the sorted set: members [seq, score]
  seq,                \* the counter beside it
  expires,            \* when Redis drops both
  loaded,             \* whether Redis has the script
  admitted,           \* the admissions of the last Window, since Redis started:
                      \* the counter and the time
  promise             \* {} or when a denied caller was promised admission

vars == <<now, lead, entries, seq, expires, loaded, admitted, promise>>

-----------------------------------------------------------------------------

\* math.ceil(n / Second)
Ceiling(n) == (n + Second - 1) \div Second

\* Mutant: as RetryAfter, but rounded down.
RetryAfterFloor(oldest, clock) == (oldest + Window - clock) \div Second

\* retry_after, in seconds.
RetryAfter(oldest, clock) == Ceiling(oldest + Window - clock)

\* Mutant: as Member, but the score is the member.
MemberScore(n, clock) == [seq |-> clock, score |-> clock]

\* ZADD key now seq
Member(n, clock) == [seq |-> n, score |-> clock]

\* ZRANGE key 0 0
IsOldest(e, set) == \A f \in set : e.score <= f.score

Init ==
  /\ now = 0
  /\ lead \in [Replicas -> 0 .. Skew]
  /\ entries = {}
  /\ seq = 0
  /\ expires = 0
  /\ loaded = TRUE
  /\ admitted = {}
  /\ promise = {}

\* What is left of the caller's keys.
Live == IF now < expires THEN entries ELSE {}
LiveSeq == IF now < expires THEN seq ELSE 0

\* check: ZREMRANGEBYSCORE, INCR, ZADD, ZCOUNT, EXPIRE, and ZREM on a denial.
\* The scores are not negative: a clock below Window removes none.  now_ms is
\* read before the script is sent: what that costs counts as skew, a call with
\* another delay being a replica of its own.
Check(r) ==
  LET clock  == now + lead[r]
      member == Member(LiveSeq + 1, clock)
      kept   == {e \in Live : e.score + Window > clock}
      others == {e \in kept : e.seq # member.seq}
      count  == Cardinality(others) + 1
  IN  /\ loaded
      /\ LiveSeq < MaxSeq
      /\ seq' = LiveSeq + 1
      /\ expires' = now + Second * (Ceiling(Window) + 1)
      /\ IF count <= Limit
           THEN /\ entries' = others \cup {member}
                /\ admitted' = admitted \cup {[seq |-> LiveSeq + 1, at |-> now]}
                /\ promise' = {}
           ELSE /\ entries' = others
                /\ \E e \in others :
                     /\ IsOldest(e, others)
                     /\ promise' = {now + Second * RetryAfter(e.score, clock)} \cup promise
                /\ UNCHANGED admitted
      /\ UNCHANGED <<now, lead, loaded>>

\* Redis starts again, empty: EVALSHA fails (NOSCRIPT), and so does every
\* request, until a replica starts, too, and loads the script.
RedisRestart ==
  /\ loaded
  /\ loaded' = FALSE
  /\ entries' = {} /\ seq' = 0 /\ expires' = 0
  /\ admitted' = {} /\ promise' = {}
  /\ UNCHANGED <<now, lead>>

LoadScript ==
  /\ ~ loaded
  /\ loaded' = TRUE
  /\ UNCHANGED <<now, lead, entries, seq, expires, admitted, promise>>

Tick ==
  /\ now < MaxTime
  /\ now' = now + 1
  /\ admitted' = {a \in admitted : a.at + Window > now + 1}
  /\ UNCHANGED <<lead, entries, seq, expires, loaded, promise>>

Next == (\E r \in Replicas : Check(r)) \/ RedisRestart \/ LoadScript \/ Tick

Spec == Init /\ [][Next]_vars

-----------------------------------------------------------------------------
(* Properties.                                                              *)

\* However the requests of a caller are spread over the replicas, no more than
\* Limit are admitted in any period of Window - Skew: clocks that disagree
\* shorten the window by no more than they disagree, expiry of the keys and the
\* counter's restart by nothing.  A restart of Redis forgets the window.
WindowBound == Cardinality({a \in admitted : a.at + (Window - Skew) > now}) <= Limit

\* A denied caller who comes back after the retry_after it was told, Skew for
\* the clocks added, is admitted, however often it was denied in between; only
\* other admissions void the promise.
RetryAfterHonoured ==
  [][\A r \in Replicas :
       (Check(r) /\ \E p \in promise : p + Skew <= now) => admitted' # admitted]_vars
=============================================================================
