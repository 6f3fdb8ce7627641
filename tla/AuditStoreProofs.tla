------------------------- MODULE AuditStoreProofs ---------------------------
(***************************************************************************)
(* Proofs about AuditStore: what an audit row, a lost write and a finished *)
(* export say about the tables, for any number of users, tenants,          *)
(* concurrent writes and erasures, any page size and any number of months. *)
(***************************************************************************)
EXTENDS AuditStore, SequenceTheorems, TLAPS

Links == {"absent", "linked"}

Transactions(states) ==
  [state : {"idle", "failed"} \cup states, subject : Subjects \cup {NoSubject}, created : Nat,
   holds : BOOLEAN, fault : BOOLEAN]

WriteStates == Transactions({"received", "mapped", "written"})
ErasureStates == Transactions({"found", "not_found", "overwritten"})

Rows == [created : Nat, id : Writes, subject : Subjects]

\* A transaction names its subject from its first statement on.
Types ==
  /\ link \in [Subjects -> Links]
  /\ log \in SUBSET Rows
  /\ write \in [Writes -> WriteStates]
  /\ erasure \in [Erasures -> ErasureStates]
  /\ now \in Nat
  /\ polled \in BOOLEAN
  /\ \A w \in Writes : write[w].state # "idle" => write[w].subject \in Subjects
  /\ \A e \in Erasures : erasure[e].state # "idle" => erasure[e].subject \in Subjects

\* What a write has done to its subject's row of the map and not committed: an
\* insert holds the key of a row that is not there, and a key has one holder; a
\* write that inserted nothing found the row there.
LocksInv ==
  /\ \A w \in Writes :
       /\ write[w].holds =>
            write[w].state = "mapped" /\ link[write[w].subject] = "absent"
       /\ write[w].state = "mapped" /\ ~ write[w].holds => link[write[w].subject] # "absent"
  /\ \A v, w \in Writes :
       write[v].holds /\ write[w].holds /\ write[v].subject = write[w].subject => v = w

\* Every month so far has its partition, and so has the next once /health has
\* answered; no request is from the future.
PartitionsInv ==
  /\ \A m \in Nat : m <= now => m \in partitions
  /\ polled => now + 1 \in partitions
  /\ \A w \in Writes : write[w].created <= now

StoreInv ==
  /\ Types
  /\ LocksInv
  /\ PartitionsInv
  /\ RowsPseudonymised
  /\ WriteLostOnlyByFault

-----------------------------------------------------------------------------

\* A failed transaction has lost what it held.
LEMMA FailedIs ==
  ASSUME NEW states, NEW t \in Transactions(states), NEW fault \in BOOLEAN
  PROVE  LET u == Failed(t, fault)
         IN  /\ u \in Transactions(states)
             /\ u.state = "failed" /\ u.subject = t.subject /\ u.created = t.created
             /\ ~ u.holds
             /\ u.fault <=> fault
BY DEF Transactions, Failed

\* A transaction that goes on to another state.
Onward(t, state, holds) == [t EXCEPT !.state = state, !.holds = holds]

\* A write keeps its subject and its time.
LEMMA WriteGoesOn ==
  ASSUME NEW t \in WriteStates, NEW s \in {"mapped", "written"}, NEW holds \in BOOLEAN
  PROVE  LET u == Onward(t, s, holds)
         IN  /\ u \in WriteStates
             /\ u.state = s /\ u.subject = t.subject /\ u.created = t.created
             /\ u.holds <=> holds
BY DEF WriteStates, Transactions, Onward

\* A transaction that begins.
LEMMA Begins ==
  ASSUME NEW states, NEW s \in states, NEW subject \in Subjects
  PROVE  LET u == [Idle EXCEPT !.state = s, !.subject = subject]
         IN  /\ u \in Transactions(states)
             /\ u.state = s /\ u.subject = subject /\ ~ u.holds
BY DEF Transactions, Idle

-----------------------------------------------------------------------------
(* The tables. *)

\* The transaction u of write w agrees with the map as it is.
WriteFits(w, u) ==
  /\ u \in WriteStates /\ u.subject \in Subjects /\ u.created <= now
  /\ u.holds => /\ u.state = "mapped" /\ link[u.subject] = "absent"
                /\ \A v \in Writes : write[v].holds /\ write[v].subject = u.subject => v = w
  /\ u.state = "mapped" /\ ~ u.holds => link[u.subject] # "absent"
  /\ u.state = "failed" => u.fault

\* A step of one write that commits nothing.
LEMMA WriteMoves ==
  ASSUME StoreInv, NEW w \in Writes, NEW u, WriteFits(w, u), write' = [write EXCEPT ![w] = u],
         UNCHANGED <<link, log, erasure, now, partitions, polled>>
  PROVE  StoreInv'
<1>1. \A v \in Writes : write'[v] = IF v = w THEN u ELSE write[v]
  BY DEF StoreInv, Types
<1>2. Types'
  BY <1>1 DEF StoreInv, Types, WriteFits
<1>3. LocksInv'
  BY <1>1 DEF StoreInv, LocksInv, WriteFits
<1>4. PartitionsInv'
  BY <1>1 DEF StoreInv, PartitionsInv, WriteFits
<1>5. RowsPseudonymised'
  BY DEF StoreInv, RowsPseudonymised
<1>6. WriteLostOnlyByFault'
  BY <1>1 DEF StoreInv, WriteLostOnlyByFault, WriteFits
<1> QED
  BY <1>2, <1>3, <1>4, <1>5, <1>6 DEF StoreInv

\* A step of one erasure: none of them commits anything.
LEMMA ErasureMoves ==
  ASSUME StoreInv, NEW e \in Erasures, NEW u \in ErasureStates, u.subject \in Subjects,
         erasure' = [erasure EXCEPT ![e] = u],
         UNCHANGED <<link, log, write, now, partitions, polled>>
  PROVE  StoreInv'
<1>1. \A d \in Erasures : erasure'[d] = IF d = e THEN u ELSE erasure[d]
  BY DEF StoreInv, Types
<1>2. Types'
  BY <1>1 DEF StoreInv, Types
<1>3. (LocksInv /\ PartitionsInv /\ RowsPseudonymised /\ WriteLostOnlyByFault)'
  BY DEF StoreInv, LocksInv, PartitionsInv, RowsPseudonymised, WriteLostOnlyByFault
<1> QED
  BY <1>2, <1>3 DEF StoreInv

\* The invariant holds in every state: the pseudonym map, the log, the open
\* transactions and the partitions agree.
THEOREM StoreCorrect == Spec => []StoreInv
<1> USE AuditAssumption
<1>1. Init => StoreInv
  <2> SUFFICES ASSUME Init PROVE StoreInv
    OBVIOUS
  <2>1. /\ Idle \in WriteStates /\ Idle \in ErasureStates
        /\ Idle.state = "idle" /\ ~ Idle.holds /\ Idle.created = 0
    BY DEF Idle, WriteStates, ErasureStates, Transactions
  <2>2. Types
    BY <2>1 DEF Init, Types, Links
  <2>3. LocksInv /\ RowsPseudonymised /\ WriteLostOnlyByFault
    BY <2>1 DEF Init, LocksInv, RowsPseudonymised, WriteLostOnlyByFault
  <2>4. PartitionsInv
    BY <2>1 DEF Init, PartitionsInv
  <2> QED
    BY <2>2, <2>3, <2>4 DEF StoreInv
<1>2. StoreInv /\ [Next]_vars => StoreInv'
  <2> SUFFICES ASSUME StoreInv, [Next]_vars PROVE StoreInv'
    OBVIOUS
  <2>0. Types /\ LocksInv /\ PartitionsInv /\ RowsPseudonymised /\ WriteLostOnlyByFault
    BY DEF StoreInv
  <2>1. /\ now \in Nat
        /\ \A w \in Writes : write[w] \in WriteStates /\ write[w].created \in Nat
        /\ \A e \in Erasures : erasure[e] \in ErasureStates
    BY <2>0 DEF Types, WriteStates, Transactions
  <2>4. ASSUME NEW w \in Writes, Receive(w) PROVE StoreInv'
    <3>1. PICK s \in Subjects :
            write' = [write EXCEPT ![w] = [Idle EXCEPT !.state = "received", !.subject = s,
                                                       !.created = now]]
      BY <2>4 DEF Receive
    <3> DEFINE u == [Idle EXCEPT !.state = "received", !.subject = s, !.created = now]
    <3>2. /\ u \in WriteStates /\ u.state = "received" /\ u.subject = s /\ u.created = now
          /\ ~ u.holds
      BY <2>1 DEF Idle, WriteStates, Transactions
    <3>3. WriteFits(w, u)
      BY <2>1, <3>2 DEF WriteFits
    <3> HIDE DEF u
    <3> QED
      BY <2>1, <2>4, <3>1, <3>2, <3>3, WriteMoves DEF Receive, u
  <2>5. ASSUME NEW w \in Writes, InsertPseudonym(w) PROVE StoreInv'
    <3> DEFINE s == write[w].subject
    <3>1. /\ s \in Subjects /\ link[s] \in Links /\ write[w].created <= now
      BY <2>0, <2>5 DEF InsertPseudonym, Types, PartitionsInv
    <3> DEFINE b == link[s] = "absent"
               u == Onward(write[w], "mapped", b)
    <3>2. b \in BOOLEAN
      OBVIOUS
    <3>3. write' = [write EXCEPT ![w] = u]
      BY <2>0, <2>5 DEF InsertPseudonym, Types, Onward
    <3>4. /\ u \in WriteStates /\ u.state = "mapped" /\ u.subject = s
          /\ u.created = write[w].created
          /\ u.holds <=> link[s] = "absent"
      <4> SUFFICES /\ u \in WriteStates /\ u.state = "mapped" /\ u.subject = s
                   /\ u.created = write[w].created
                   /\ u.holds <=> b
        OBVIOUS
      <4> HIDE DEF b
      <4> QED
        BY <2>1, <3>2, WriteGoesOn
    <3>5. \A v \in Writes : ~ (write[v].holds /\ write[v].subject = s)
      BY <2>5 DEF InsertPseudonym, Inserting
    <3> HIDE DEF b, u
    <3>6. WriteFits(w, u)
      BY <3>1, <3>4, <3>5 DEF WriteFits
    <3> QED
      BY <2>5, <3>3, <3>6, WriteMoves DEF InsertPseudonym
  <2>6. ASSUME NEW w \in Writes, InsertAudit(w) PROVE StoreInv'
    <3> DEFINE t == write[w]
               s == write[w].subject
               u == Onward(t, "written", FALSE)
    <3>1. /\ t.state = "mapped" /\ s \in Subjects /\ link[s] \in Links
          /\ t.created \in partitions
      BY <2>0, <2>1, <2>6 DEF InsertAudit, Types, PartitionsInv
    <3>2. /\ u \in WriteStates /\ u.state = "written" /\ u.subject = s /\ u.created = t.created
          /\ ~ u.holds
      <4>1. FALSE \in BOOLEAN
        OBVIOUS
      <4> QED
        BY <2>1, <4>1, WriteGoesOn
    <3>3. /\ log' = log \cup {Row(w)}
          /\ link' = [link EXCEPT ![s] = IF t.holds THEN "linked" ELSE @]
          /\ write' = [write EXCEPT ![w] = u]
          /\ UNCHANGED <<erasure, now, partitions, polled>>
      BY <2>0, <2>6, <3>1 DEF InsertAudit, Types, Onward
    <3> HIDE DEF u
    <3>4. \A v \in Writes : write'[v] = IF v = w THEN u ELSE write[v]
      BY <2>0, <3>3 DEF Types
    <3>5. \A r \in Subjects :
            /\ link'[r] = link[r] \/ (r = s /\ t.holds /\ link[r] = "absent" /\ link'[r] = "linked")
            /\ link'[r] \in Links
      BY <2>0, <3>1, <3>3 DEF Types, LocksInv, Links
    <3>6. link'[s] # "absent"
      BY <2>0, <3>1, <3>3 DEF Types, LocksInv
    <3>7. Row(w) \in Rows /\ Row(w).subject = s
      BY <2>1, <3>1 DEF Row, Rows
    <3>8. Types'
      BY <2>0, <3>1, <3>2, <3>3, <3>4, <3>5, <3>7 DEF Types
    <3>9. LocksInv'
      <4>1. \A v \in Writes : v # w /\ write[v].holds => write[v].subject # s \/ ~ t.holds
        BY <2>0 DEF LocksInv
      <4>2. \A v \in Writes : write[v].state = "mapped" => write[v].subject \in Subjects
        BY <2>0 DEF Types
      <4>3. /\ \A v \in Writes :
                 /\ write'[v].holds =>
                      write'[v].state = "mapped" /\ link'[write'[v].subject] = "absent"
                 /\ write'[v].state = "mapped" /\ ~ write'[v].holds =>
                      link'[write'[v].subject] # "absent"
            /\ \A v, x \in Writes :
                 write'[v].holds /\ write'[x].holds /\ write'[v].subject = write'[x].subject
                   => v = x
        BY <2>0, <3>2, <3>4, <3>5, <4>1, <4>2 DEF LocksInv
      <4> QED
        BY <4>3 DEF LocksInv
    <3>10. PartitionsInv'
      BY <2>0, <3>2, <3>3, <3>4 DEF PartitionsInv
    <3>11. RowsPseudonymised'
      BY <2>0, <3>3, <3>5, <3>6, <3>7 DEF RowsPseudonymised, Types, Rows
    <3>12. WriteLostOnlyByFault'
      BY <2>0, <3>2, <3>4 DEF WriteLostOnlyByFault
    <3> QED
      BY <3>8, <3>9, <3>10, <3>11, <3>12 DEF StoreInv
  <2>7. ASSUME NEW w \in Writes, WriteFault(w) PROVE StoreInv'
    <3> DEFINE u == Failed(write[w], TRUE)
    <3>1. /\ u \in WriteStates /\ u.state = "failed" /\ u.subject = write[w].subject
          /\ u.created = write[w].created /\ ~ u.holds /\ u.fault
      BY <2>1, FailedIs DEF WriteStates
    <3>2. write[w].subject \in Subjects /\ write[w].created <= now
      BY <2>0, <2>7 DEF WriteFault, Types, PartitionsInv
    <3>3. write' = [write EXCEPT ![w] = u]
      BY <2>7 DEF WriteFault
    <3> HIDE DEF u
    <3>4. WriteFits(w, u)
      BY <3>1, <3>2 DEF WriteFits
    <3> QED
      BY <2>7, <3>3, <3>4, WriteMoves DEF WriteFault
  <2>8. ASSUME NEW e \in Erasures, FindPseudonyms(e) PROVE StoreInv'
    <3>1. PICK s \in Subjects :
            erasure' = [erasure EXCEPT ![e] =
              [Idle EXCEPT !.state = IF link[s] = "linked" THEN "found" ELSE "not_found",
                           !.subject = s]]
      BY <2>8 DEF FindPseudonyms
    <3> DEFINE state == IF link[s] = "linked" THEN "found" ELSE "not_found"
               u == [Idle EXCEPT !.state = state, !.subject = s]
    <3>2. state \in {"found", "not_found", "overwritten"}
      OBVIOUS
    <3>3. u \in ErasureStates /\ u.subject = s
      <4> DEFINE states == {"found", "not_found", "overwritten"}
      <4>1. state \in states
        BY <3>2
      <4> HIDE DEF state, states
      <4>2. u \in Transactions(states) /\ u.subject = s
        BY <4>1, Begins, Zenon
      <4> QED
        BY <4>2 DEF ErasureStates, states
    <3>4. erasure' = [erasure EXCEPT ![e] = u]
      BY <3>1
    <3> HIDE DEF u
    <3> QED
      BY <2>8, <3>3, <3>4, ErasureMoves DEF FindPseudonyms
  <2>9. ASSUME NEW e \in Erasures, OverwriteUser(e) PROVE StoreInv'
    <3> DEFINE u == Onward(erasure[e], "overwritten", TRUE)
    <3>1. u \in ErasureStates /\ u.subject = erasure[e].subject
      BY <2>1 DEF ErasureStates, Transactions, Onward
    <3>2. erasure[e].subject \in Subjects
      BY <2>0, <2>9 DEF OverwriteUser, Types
    <3>3. erasure' = [erasure EXCEPT ![e] = u]
      BY <2>0, <2>9 DEF OverwriteUser, Types, Onward
    <3> HIDE DEF u
    <3> QED
      BY <2>9, <3>1, <3>2, <3>3, ErasureMoves DEF OverwriteUser
  <2>10. ASSUME NEW e \in Erasures, InsertErasureLog(e) \/ ErasureFault(e) PROVE StoreInv'
    <3>1. PICK fault \in BOOLEAN : erasure' = [erasure EXCEPT ![e] = Failed(erasure[e], fault)]
      BY <2>10 DEF InsertErasureLog, ErasureFault
    <3> DEFINE u == Failed(erasure[e], fault)
    <3>2. u \in ErasureStates /\ u.subject = erasure[e].subject
      BY <2>1, FailedIs DEF ErasureStates
    <3>3. erasure[e].subject \in Subjects
      BY <2>0, <2>10 DEF InsertErasureLog, ErasureFault, Types
    <3>4. UNCHANGED <<link, log, write, now, partitions, polled>>
      BY <2>10 DEF InsertErasureLog, ErasureFault
    <3> HIDE DEF u
    <3> QED
      BY <3>1, <3>2, <3>3, <3>4, ErasureMoves DEF u
  <2>11. ASSUME UNCHANGED <<link, log, write, erasure>>,
                now' \in Nat, polled' \in BOOLEAN, now <= now', PartitionsInv'
         PROVE  StoreInv'
    BY <2>0, <2>11 DEF StoreInv, Types, LocksInv, RowsPseudonymised, WriteLostOnlyByFault
  <2>12. ASSUME StartExport \/ NextPage \/ UNCHANGED vars PROVE StoreInv'
    <3>1. UNCHANGED <<link, log, write, erasure, now, partitions, polled>>
      BY <2>12 DEF StartExport, NextPage, vars
    <3> QED
      BY <2>0, <2>11, <3>1 DEF PartitionsInv, Types
  <2>13. ASSUME EnsureWritePartitions \/ EnsureFails PROVE StoreInv'
    <3>0. polled' \in BOOLEAN
      BY <2>0, <2>13, Zenon DEF EnsureWritePartitions, EnsureFails, Types
    <3>1. /\ UNCHANGED <<link, log, write, erasure, now>>
          /\ partitions \subseteq partitions'
          /\ polled' => polled \/ now + 1 \in partitions'
      BY <2>0, <2>13 DEF EnsureWritePartitions, EnsureFails, WritePartitions, Types
    <3>2. PartitionsInv'
      BY <2>0, <3>1 DEF PartitionsInv
    <3> QED
      BY <2>1, <2>11, <3>0, <3>1, <3>2
  <2>14. ASSUME NextMonth PROVE StoreInv'
    <3>1. UNCHANGED <<link, log, write, erasure, partitions>> /\ polled
          /\ now' = now + 1 /\ polled' = FALSE
      BY <2>14 DEF NextMonth
    <3>2. PartitionsInv'
      BY <2>0, <2>1, <3>1 DEF PartitionsInv
    <3>3. now' \in Nat /\ now <= now'
      BY <2>1, <3>1
    <3>4. polled' \in BOOLEAN
      BY <3>1, Zenon
    <3> QED
      BY <2>11, <3>1, <3>2, <3>3, <3>4
  <2> QED
    BY <2>4, <2>5, <2>6, <2>7, <2>8, <2>9, <2>10, <2>12, <2>13, <2>14
    DEF Next, WriteStep, ErasureStep
<1> QED
  BY <1>1, <1>2, PTL DEF Spec

\* Every audit row has its pseudonym in the map: the two commit together.
THEOREM RowsPseudonymisedCorrect == Spec => []RowsPseudonymised
BY StoreCorrect, PTL DEF StoreInv

\* Only a failing database costs an audit row: no race on the map and no missing
\* partition does.
THEOREM WriteLostCorrect == Spec => []WriteLostOnlyByFault
BY StoreCorrect, PTL DEF StoreInv

-----------------------------------------------------------------------------
(* The export. *)

Ordered(got) == \A i, j \in DOMAIN got : i < j => Before(got[i], got[j])

\* Between two pages, every row that was there at the start has been read or is
\* still to come.
ExportInv ==
  /\ export.got \in Seq(Rows) /\ export.until \in Nat
  /\ export.base \subseteq log
  /\ \A r \in export.base : r.created <= export.until
  /\ ToSet(export.got) \subseteq log
  /\ Ordered(export.got)
  /\ export.state = "paging" =>
       \A r \in export.base : r \in ToSet(export.got) \/ After(r, export.got)
  /\ export.state = "done" => export.base \subseteq ToSet(export.got)

\* The keyset order is transitive.
LEMMA BeforeTransitive ==
  ASSUME NEW p \in Rows, NEW q \in Rows, NEW r \in Rows, Before(p, q), Before(q, r)
  PROVE  Before(p, r)
BY AuditAssumption DEF Before, Rows, Writes

\* One more page on top of what was got: still in order and of the log; a full
\* page leaves only later rows to come, one that is not full leaves none.
LEMMA PageExtends ==
  ASSUME log \in SUBSET Rows, NEW until \in Nat, NEW got \in Seq(Rows), NEW base \in SUBSET log,
         ToSet(got) \subseteq log, Ordered(got),
         \A r \in base : r.created <= until /\ (r \in ToSet(got) \/ After(r, got)),
         NEW page \in Pages(Selected(until, got))
  PROVE  /\ got \o page \in Seq(Rows)
         /\ ToSet(got \o page) \subseteq log
         /\ Ordered(got \o page)
         /\ Len(page) = PageLimit =>
              \A r \in base : r \in ToSet(got \o page) \/ After(r, got \o page)
         /\ Len(page) # PageLimit => base \subseteq ToSet(got \o page)
<1> DEFINE sel == Selected(until, got)
           both == got \o page
<1>1. sel \subseteq log /\ \A r \in sel : After(r, got)
  BY DEF Selected
<1>2. PICK m \in 0 .. PageLimit : page \in [1 .. m -> sel]
  BY DEF Pages, BoundedSeq, SeqOf
<1>3. page \in Seq(sel) /\ page \in Seq(Rows)
  <2>1. m \in Nat
    BY <1>2, AuditAssumption
  <2>2. page \in Seq(sel)
    BY <1>2, <2>1, SeqDef
  <2> QED
    BY <1>1, <2>2, SeqMonotonic
<1>4. /\ Len(page) \in Nat /\ DOMAIN page = 1 .. Len(page)
      /\ \A i \in 1 .. Len(page) : page[i] \in sel
      /\ Len(got) \in Nat /\ DOMAIN got = 1 .. Len(got)
      /\ \A i \in 1 .. Len(got) : got[i] \in Rows /\ got[i] \in ToSet(got)
  BY <1>3, LenProperties, ElementOfSeq DEF ToSet
<1>5. /\ both \in Seq(Rows) /\ Len(both) = Len(got) + Len(page)
      /\ DOMAIN both = 1 .. (Len(got) + Len(page))
      /\ \A i \in 1 .. Len(got) : both[i] = got[i]
      /\ \A i \in 1 .. Len(page) : both[Len(got) + i] = page[i]
      /\ \A k \in DOMAIN both :
           \/ k \in 1 .. Len(got)
           \/ \E i \in 1 .. Len(page) : k = Len(got) + i
  <2>1. /\ both \in Seq(Rows) /\ Len(both) = Len(got) + Len(page)
        /\ \A i \in 1 .. Len(got) + Len(page) :
             both[i] = IF i <= Len(got) THEN got[i] ELSE page[i - Len(got)]
    BY <1>3, ConcatProperties
  <2>2. DOMAIN both = 1 .. (Len(got) + Len(page))
    BY <2>1, LenProperties
  <2>3. /\ \A i \in 1 .. Len(got) : both[i] = got[i]
        /\ \A i \in 1 .. Len(page) : both[Len(got) + i] = page[i]
    BY <1>4, <2>1
  <2>4. ASSUME NEW k \in 1 .. (Len(got) + Len(page)), k \notin 1 .. Len(got)
        PROVE  \E i \in 1 .. Len(page) : k = Len(got) + i
    <3>1. k - Len(got) \in 1 .. Len(page) /\ k = Len(got) + (k - Len(got))
      BY <1>4, <2>4
    <3> QED
      BY <3>1
  <2> QED
    BY <2>1, <2>2, <2>3, <2>4
<1> HIDE DEF both, sel
<1>6. ToSet(both) = ToSet(got) \cup ToSet(page)
  <2>1. \A x \in ToSet(both) : x \in ToSet(got) \cup ToSet(page)
    <3> SUFFICES ASSUME NEW k \in DOMAIN both PROVE both[k] \in ToSet(got) \cup ToSet(page)
      BY DEF ToSet
    <3>1. CASE k \in 1 .. Len(got)
      BY <1>4, <1>5, <3>1
    <3>2. CASE k \notin 1 .. Len(got)
      <4>1. PICK i \in 1 .. Len(page) : k = Len(got) + i
        BY <1>5, <3>2
      <4>2. both[k] = page[i] /\ i \in DOMAIN page
        BY <1>4, <1>5, <4>1
      <4> QED
        BY <4>2 DEF ToSet
    <3> QED
      BY <3>1, <3>2
  <2>2. \A x \in ToSet(got) : x \in ToSet(both)
    BY <1>4, <1>5 DEF ToSet
  <2>3. \A x \in ToSet(page) : x \in ToSet(both)
    <3> SUFFICES ASSUME NEW i \in 1 .. Len(page) PROVE page[i] \in ToSet(both)
      BY <1>4 DEF ToSet
    <3>1. Len(got) + i \in DOMAIN both
      BY <1>4, <1>5
    <3> QED
      BY <1>5, <3>1 DEF ToSet
  <2> QED
    BY <2>1, <2>2, <2>3
<1>7. ToSet(both) \subseteq log
  BY <1>1, <1>4, <1>6 DEF ToSet
<1>8. \A i \in 1 .. Len(got), j \in 1 .. Len(page) : Before(got[i], page[j])
  <2> SUFFICES ASSUME NEW i \in 1 .. Len(got), NEW j \in 1 .. Len(page)
               PROVE  Before(got[i], page[j])
    OBVIOUS
  <2>1. got # <<>> /\ Len(got) \in 1 .. Len(got)
    BY <1>4
  <2>2. Before(got[Len(got)], page[j])
    BY <1>1, <1>4, <2>1 DEF After, Last
  <2>3. i = Len(got) \/ Before(got[i], got[Len(got)])
    <3>0. Len(got) \in Nat /\ i \in Nat /\ i <= Len(got)
      BY <1>4
    <3>1. i = Len(got) \/ i < Len(got)
      BY <3>0
    <3>2. i \in DOMAIN got /\ Len(got) \in DOMAIN got
      BY <1>4, <2>1
    <3> QED
      BY <3>1, <3>2 DEF Ordered
  <2>4. got[i] \in Rows /\ got[Len(got)] \in Rows /\ page[j] \in Rows
    BY <1>1, <1>4, <2>1
  <2> QED
    BY <2>2, <2>3, <2>4, BeforeTransitive
<1>9. Ordered(both)
  <2> SUFFICES ASSUME NEW k \in DOMAIN both, NEW l \in DOMAIN both, k < l
               PROVE  Before(both[k], both[l])
    BY DEF Ordered
  <2>1. CASE l \in 1 .. Len(got)
    <3>1. k \in 1 .. Len(got)
      BY <1>4, <1>5, <2>1
    <3> QED
      BY <1>4, <1>5, <2>1, <3>1 DEF Ordered
  <2>2. CASE l \notin 1 .. Len(got)
    <3>1. PICK j \in 1 .. Len(page) : l = Len(got) + j
      BY <1>5, <2>2
    <3>2. CASE k \in 1 .. Len(got)
      BY <1>5, <1>8, <3>1, <3>2
    <3>3. CASE k \notin 1 .. Len(got)
      <4>1. PICK i \in 1 .. Len(page) : k = Len(got) + i
        BY <1>5, <3>3
      <4>2. i < j
        BY <1>4, <3>1, <4>1
      <4>3. Before(page[i], page[j])
        BY <1>4, <4>2 DEF Pages
      <4> QED
        BY <1>5, <3>1, <4>1, <4>3
    <3> QED
      BY <3>2, <3>3
  <2> QED
    BY <2>1, <2>2
<1>10. ASSUME NEW r \in base, r \notin ToSet(both)
       PROVE  /\ Len(page) = PageLimit
              /\ \A i \in 1 .. Len(page) : Before(page[i], r)
  <2>1. r \in sel
    BY <1>6, <1>10 DEF sel, Selected
  <2>2. r \notin ToSet(page)
    BY <1>6, <1>10
  <2> QED
    BY <1>4, <2>1, <2>2 DEF Pages, sel
<1>11. ASSUME Len(page) = PageLimit, NEW r \in base, r \notin ToSet(both)
       PROVE  After(r, both)
  <2>1. Len(page) \in 1 .. Len(page)
    BY <1>4, <1>11, AuditAssumption
  <2>2. both[Len(both)] = page[Len(page)]
    BY <1>4, <1>5, <2>1
  <2> QED
    BY <1>10, <1>11, <2>1, <2>2 DEF After, Last
<1> QED
  BY <1>5, <1>7, <1>9, <1>10, <1>11 DEF both

\* A finished export has every row that was in the table when it started, each
\* once and in order, whatever is written between its pages.
THEOREM ExportCorrect == Spec => []ExportExact
<1>1. Init => ExportInv
  <2> SUFFICES ASSUME Init PROVE ExportInv
    OBVIOUS
  <2>1. /\ export.state = "idle" /\ export.until = 0 /\ export.got = <<>> /\ export.base = {}
    BY DEF Init, NoExport
  <2>2. export.got \in Seq(Rows) /\ DOMAIN export.got = {}
    BY <2>1, EmptySeq
  <2> QED
    BY <2>1, <2>2 DEF ExportInv, Ordered, ToSet
<1>2. StoreInv /\ ExportInv /\ [Next]_vars => ExportInv'
  <2> SUFFICES ASSUME StoreInv, ExportInv, [Next]_vars PROVE ExportInv'
    OBVIOUS
  <2>1. log \in SUBSET Rows /\ now \in Nat
    BY DEF StoreInv, Types
  <2>2. ASSUME UNCHANGED export, log \subseteq log' PROVE ExportInv'
    BY <2>2 DEF ExportInv, Ordered, After
  <2>3. ASSUME NEW until \in Nat, NEW got \in Seq(Rows), NEW base \in SUBSET log,
               ToSet(got) \subseteq log, Ordered(got), UNCHANGED log,
               \A r \in base : r.created <= until /\ (r \in ToSet(got) \/ After(r, got)),
               ExportPage(until, got, base)
        PROVE  ExportInv'
    <3>1. PICK page \in Pages(Selected(until, got)) :
            export' = [state |-> IF Len(page) = PageLimit THEN "paging" ELSE "done",
                       until |-> until, got |-> got \o page, base |-> base]
      BY <2>3 DEF ExportPage
    <3> DEFINE both == got \o page
    <3>2. /\ both \in Seq(Rows) /\ ToSet(both) \subseteq log /\ Ordered(both)
          /\ Len(page) = PageLimit => \A r \in base : r \in ToSet(both) \/ After(r, both)
          /\ Len(page) # PageLimit => base \subseteq ToSet(both)
      BY <2>1, <2>3, PageExtends
    <3> HIDE DEF both
    <3>3. /\ export'.state = IF Len(page) = PageLimit THEN "paging" ELSE "done"
          /\ export'.until = until /\ export'.got = both /\ export'.base = base
      BY <3>1 DEF both
    <3>4. /\ Ordered(export'.got)
          /\ export'.state = "paging" =>
               \A r \in export'.base : r \in ToSet(export'.got) \/ After(r, export'.got)
          /\ export'.state = "done" => export'.base \subseteq ToSet(export'.got)
      BY <3>2, <3>3
    <3> QED
      BY <2>3, <3>2, <3>3, <3>4 DEF ExportInv, Ordered, After, Before
  <2>4. ASSUME StartExport PROVE ExportInv'
    <3> DEFINE base == {r \in log : r.created <= now}
    <3>1. ExportPage(now, <<>>, base) /\ UNCHANGED log
      BY <2>4 DEF StartExport
    <3>2. /\ <<>> \in Seq(Rows) /\ ToSet(<<>>) \subseteq log /\ Ordered(<<>>)
          /\ base \in SUBSET log
          /\ \A r \in base : r.created <= now /\ After(r, <<>>)
      BY EmptySeq DEF ToSet, Ordered, After
    <3> HIDE DEF base
    <3> QED
      BY <2>1, <2>3, <3>1, <3>2
  <2>5. ASSUME NextPage PROVE ExportInv'
    <3>1. /\ export.state = "paging" /\ UNCHANGED log
          /\ ExportPage(export.until, export.got, export.base)
      BY <2>5 DEF NextPage
    <3> QED
      BY <2>3, <3>1 DEF ExportInv
  <2>6. ASSUME NEW w \in Writes, Receive(w) \/ WriteStep(w) \/ WriteFault(w) PROVE ExportInv'
    BY <2>2, <2>6 DEF Receive, WriteStep, InsertPseudonym, InsertAudit, WriteFault
  <2>7. ASSUME NEW e \in Erasures, FindPseudonyms(e) \/ ErasureStep(e) \/ ErasureFault(e)
        PROVE  ExportInv'
    BY <2>2, <2>7 DEF FindPseudonyms, ErasureStep, OverwriteUser, InsertErasureLog, ErasureFault
  <2>8. ASSUME EnsureWritePartitions \/ EnsureFails \/ NextMonth \/ UNCHANGED vars
        PROVE  ExportInv'
    BY <2>2, <2>8 DEF EnsureWritePartitions, EnsureFails, NextMonth, vars
  <2> QED
    BY <2>4, <2>5, <2>6, <2>7, <2>8 DEF Next
<1>3. ExportInv => ExportExact
  BY DEF ExportInv, ExportExact, Ordered
<1> QED
  BY <1>1, <1>2, <1>3, StoreCorrect, PTL DEF Spec
=============================================================================
