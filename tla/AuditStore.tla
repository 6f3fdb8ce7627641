----------------------------- MODULE AuditStore -----------------------------
(***************************************************************************)
(* The audit store of the governance service: the tables                   *)
(* user_pseudonym_map, audit_log and erasure_log (migration 001) and the   *)
(* transactions that run on them: the audit writes (audit.py,              *)
(* pseudonym.py), the erasure of a user and the paged export (main.py),    *)
(* and the creation of the monthly partitions (retention.py).              *)
(*                                                                         *)
(* A step is one SQL statement.  Statements see what is committed (READ    *)
(* COMMITTED) and wait for an open transaction that holds a row or a key   *)
(* they need.  The pseudonym is an HMAC of the subject, the user of a      *)
(* tenant, so each subject has one row of the map at most; rotation_id is  *)
(* always 0.                                                               *)
(*                                                                         *)
(* audit_log has forced row-level security and a policy for SELECT alone,  *)
(* so that only a role that bypasses it can insert: the service is taken   *)
(* to run as such a role, as it does under docker-compose.yml.             *)
(***************************************************************************)
EXTENDS Naturals, FiniteSets, Sequences, SequencesExt

CONSTANTS
  Users, Tenants,
  NumWrites,          \* audit writes; the number of one is its audit_id
  Erasures,           \* requests to erase a user
  PageLimit,          \* rows of a page of the export
  MaxMonth            \* how many months pass

ASSUME AuditAssumption ==
  /\ NumWrites \in Nat
  /\ PageLimit \in Nat \ {0}
  /\ MaxMonth \in Nat

Subjects == Users \X Tenants
Writes == 1 .. NumWrites
Months == 0 .. MaxMonth

NoSubject == "nobody"

VARIABLES
  link,               \* subject -> what user_pseudonym_map holds of it
  log,                \* the rows of audit_log
  write,              \* write -> its transaction
  erasure,            \* request -> its transaction
  export,             \* the export in progress
  now,                \* the month
  partitions,         \* the months audit_log has a partition for
  polled              \* whether /health has answered this month

vars == <<link, log, write, erasure, export, now, partitions, polled>>

-----------------------------------------------------------------------------

\* fault: the database failed the transaction.  holds: it has inserted the
\* subject's row of the map, or updated it, and not committed.
Idle == [state |-> "idle", subject |-> NoSubject, created |-> 0, holds |-> FALSE, fault |-> FALSE]

NoExport == [state |-> "idle", until |-> 0, got |-> <<>>, base |-> {}]

\* The last of the months the migration creates partitions for.
Init ==
  /\ link = [s \in Subjects |-> "absent"]
  /\ log = {}
  /\ write = [w \in Writes |-> Idle]
  /\ erasure = [e \in Erasures |-> Idle]
  /\ export = NoExport
  /\ now = 0
  /\ partitions = {0}
  /\ polled = FALSE

\* The transactions that make others wait for subject s.
Inserting(s) == \E w \in Writes : write[w].holds /\ write[w].subject = s
Erasing(s) == \E e \in Erasures : erasure[e].holds /\ erasure[e].subject = s

\* Mutant: as Failed, but the transaction is not rolled back.
FailedOpen(t, fault) == [t EXCEPT !.state = "failed", !.fault = fault]

Failed(t, fault) == [t EXCEPT !.state = "failed", !.holds = FALSE, !.fault = fault]

-----------------------------------------------------------------------------
(* An audit write: write_audit in the background of /inspect, or            *)
(* write_mcp_audit_event.                                                   *)

\* The request comes in; created_at is this moment.
Receive(w) ==
  /\ write[w].state = "idle"
  /\ \E s \in Subjects :
       write' = [write EXCEPT ![w] = [Idle EXCEPT !.state = "received", !.subject = s,
                                                  !.created = now]]
  /\ UNCHANGED <<link, log, erasure, export, now, partitions, polled>>

\* Mutant: as InsertPseudonym, but the insert has no ON CONFLICT.
InsertPseudonymPlain(w) ==
  LET s == write[w].subject
  IN  /\ write[w].state = "received"
      /\ ~ Inserting(s) /\ ~ Erasing(s)
      /\ write' = [write EXCEPT ![w] =
           IF link[s] # "absent" THEN Failed(write[w], FALSE)
           ELSE [write[w] EXCEPT !.state = "mapped", !.holds = TRUE]]
      /\ UNCHANGED <<link, log, erasure, export, now, partitions, polled>>

\* get_or_create: the subject's row is inserted unless it is there.
InsertPseudonym(w) ==
  LET s == write[w].subject
  IN  /\ write[w].state = "received"
      /\ ~ Inserting(s) /\ ~ Erasing(s)
      /\ write' = [write EXCEPT ![w].state = "mapped", ![w].holds = link[s] = "absent"]
      /\ UNCHANGED <<link, log, erasure, export, now, partitions, polled>>

Row(w) == [created |-> write[w].created, id |-> w, subject |-> write[w].subject]

\* Mutant: as InsertAudit, but the pseudonym is left out of the transaction.
InsertAuditAlone(w) ==
  /\ write[w].state = "mapped"
  /\ write[w].created \in partitions
  /\ log' = log \cup {Row(w)}
  /\ write' = [write EXCEPT ![w].state = "written", ![w].holds = FALSE]
  /\ UNCHANGED <<link, erasure, export, now, partitions, polled>>

\* INSERT INTO audit_log and the commit.
InsertAudit(w) ==
  LET t == write[w]
  IN  /\ t.state = "mapped"
      /\ IF t.created \in partitions
           THEN /\ log' = log \cup {Row(w)}
                /\ link' = [link EXCEPT ![t.subject] = IF t.holds THEN "linked" ELSE @]
                /\ write' = [write EXCEPT ![w].state = "written", ![w].holds = FALSE]
           ELSE /\ write' = [write EXCEPT ![w] = Failed(t, FALSE)]
                /\ UNCHANGED <<link, log>>
      /\ UNCHANGED <<erasure, export, now, partitions, polled>>

\* The database or the service fails: the transaction is rolled back.
WriteFault(w) ==
  /\ write[w].state \in {"received", "mapped"}
  /\ write' = [write EXCEPT ![w] = Failed(write[w], TRUE)]
  /\ UNCHANGED <<link, log, erasure, export, now, partitions, polled>>

-----------------------------------------------------------------------------
(* DELETE /v1/users/{user_id} (erase_user).                                 *)

\* The SELECT of the pseudonyms, and the count of the subject's rows.
FindPseudonyms(e) ==
  /\ erasure[e].state = "idle"
  /\ \E s \in Subjects :
       erasure' = [erasure EXCEPT ![e] =
         [Idle EXCEPT !.state = IF link[s] = "linked" THEN "found" ELSE "not_found",
                      !.subject = s]]
  /\ UNCHANGED <<link, log, write, export, now, partitions, polled>>

\* real_user_id = '[ERASED]', under UNIQUE (real_user_id, tenant_id,
\* rotation_id): two of them in a tenant wait for each other.
OverwriteUser(e) ==
  /\ erasure[e].state = "found"
  /\ ~ \E r \in Subjects : r[2] = erasure[e].subject[2] /\ Erasing(r)
  /\ erasure' = [erasure EXCEPT ![e].state = "overwritten", ![e].holds = TRUE]
  /\ UNCHANGED <<link, log, write, export, now, partitions, polled>>

\* The INSERT INTO erasure_log writes ":erasure_id::uuid": text() does not take
\* a name in front of a colon as that parameter, so the statement never
\* executes, and the commit and the 202 behind it are never reached.
InsertErasureLog(e) ==
  /\ erasure[e].state = "overwritten"
  /\ erasure' = [erasure EXCEPT ![e] = Failed(erasure[e], FALSE)]
  /\ UNCHANGED <<link, log, write, export, now, partitions, polled>>

ErasureFault(e) ==
  /\ erasure[e].state \in {"found", "overwritten"}
  /\ erasure' = [erasure EXCEPT ![e] = Failed(erasure[e], TRUE)]
  /\ UNCHANGED <<link, log, write, export, now, partitions, polled>>

-----------------------------------------------------------------------------
(* GET /v1/audit/export, page by page.                                      *)

\* (created_at, audit_id), compared as a row value.
Before(r, q) == r.created < q.created \/ (r.created = q.created /\ r.id < q.id)

\* Mutant: as After, but the key is created_at alone.
AfterCreated(r, got) == got = <<>> \/ Last(got).created < r.created

After(r, got) == got = <<>> \/ Before(Last(got), r)

\* WHERE ...
Selected(until, got) == {r \in log : r.created <= until /\ After(r, got)}

\* ORDER BY created_at, audit_id LIMIT :limit: the first of the rows, in order.
Pages(rows) ==
  {page \in BoundedSeq(rows, PageLimit) :
     /\ \A i, j \in DOMAIN page : i < j => Before(page[i], page[j])
     /\ \A r \in rows \ ToSet(page) :
          Len(page) = PageLimit /\ \A i \in DOMAIN page : Before(page[i], r)}

\* The reader follows the Link header, which a full page has.
ExportPage(until, got, base) ==
  \E page \in Pages(Selected(until, got)) :
    export' = [state |-> IF Len(page) = PageLimit THEN "paging" ELSE "done",
               until |-> until, got |-> got \o page, base |-> base]

\* base: what was in the table, for ExportExact.
StartExport ==
  /\ export.state = "idle"
  /\ ExportPage(now, <<>>, {r \in log : r.created <= now})
  /\ UNCHANGED <<link, log, write, erasure, now, partitions, polled>>

NextPage ==
  /\ export.state = "paging"
  /\ ExportPage(export.until, export.got, export.base)
  /\ UNCHANGED <<link, log, write, erasure, now, partitions, polled>>

-----------------------------------------------------------------------------
(* Partitions.                                                              *)

\* Mutant: as WritePartitions, but the next month is left for later.
WritePartitionsCurrent == {now}

\* The months ensure_write_partitions sees to, in this order.
WritePartitions == {now, now + 1}

\* /health, or the nightly rotate_partitions.py.
EnsureWritePartitions ==
  /\ partitions' = partitions \cup WritePartitions
  /\ polled' = TRUE
  /\ UNCHANGED <<link, log, write, erasure, export, now>>

\* A statement fails, or another process has created the partition meanwhile:
\* what was created before stays.
EnsureFails ==
  /\ \E months \in {{}, {now}} : partitions' = partitions \cup months
  /\ UNCHANGED <<link, log, write, erasure, export, now, polled>>

\* /health is polled all the time: it has answered before a month is over.
NextMonth ==
  /\ now < MaxMonth
  /\ polled
  /\ now' = now + 1
  /\ polled' = FALSE
  /\ UNCHANGED <<link, log, write, erasure, export, partitions>>

-----------------------------------------------------------------------------

WriteStep(w) == InsertPseudonym(w) \/ InsertAudit(w)
ErasureStep(e) == OverwriteUser(e) \/ InsertErasureLog(e)

Next ==
  \/ \E w \in Writes : Receive(w) \/ WriteStep(w) \/ WriteFault(w)
  \/ \E e \in Erasures : FindPseudonyms(e) \/ ErasureStep(e) \/ ErasureFault(e)
  \/ StartExport \/ NextPage
  \/ EnsureWritePartitions \/ EnsureFails \/ NextMonth

\* A transaction that is not made to wait goes on; nothing else is fair.
Fairness ==
  /\ \A w \in Writes : WF_vars(WriteStep(w))
  /\ \A e \in Erasures : WF_vars(ErasureStep(e))

Spec == Init /\ [][Next]_vars /\ Fairness

-----------------------------------------------------------------------------
(* Properties.                                                              *)

\* Every audit row has its pseudonym in the map, although no foreign key says
\* so: get_or_create and the row commit together or not at all.
RowsPseudonymised == \A r \in log : link[r.subject] # "absent"

\* Only a failing database costs an audit row: no race on the map with another
\* write or an erasure, and no month without a partition, even for a request
\* that came in last month.
WriteLostOnlyByFault ==
  \A w \in Writes : write[w].state = "failed" => write[w].fault

\* A finished export has each row once and in order, and every row that was
\* there when it started: writes between the pages shift nothing.
ExportExact ==
  /\ \A i, j \in DOMAIN export.got : i < j => Before(export.got[i], export.got[j])
  /\ ToSet(export.got) \subseteq log
  /\ export.state = "done" => export.base \subseteq ToSet(export.got)

\* No transaction waits for ever for the others.
TransactionsEnd ==
  /\ \A w \in Writes : write[w].state = "received" ~> write[w].state \in {"written", "failed"}
  /\ \A e \in Erasures : erasure[e].state = "found" ~> erasure[e].state = "failed"

\* "Right-to-erasure destroys the real-user-to-pseudonym link while keeping
\* audit records for compliance.": only a failing database makes the erasure of
\* a known user fail.
ErasureDestroysLink ==
  \A e \in Erasures : erasure[e].state = "failed" => erasure[e].fault
=============================================================================
