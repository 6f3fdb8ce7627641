----------------------------- MODULE Governance -----------------------------
(***************************************************************************)
(* POST /inspect of the governance service: the credential gate            *)
(* (governance/app/main.py), the PII stage followed by the concurrent harm *)
(* and OPA checks (pipeline.py), and the background audit write (audit.py).*)
(*                                                                         *)
(* An inspection <<r, k>> is the k-th attempt the gateway proxy makes for  *)
(* request r.  The service does not know that two attempts belong to one   *)
(* request, and goes on with an inspection whose caller has given up.      *)
(*                                                                         *)
(* The text of a request is abstracted to what the scanners say about it   *)
(* when they work: whether it holds PII and whether it is harmful.  What   *)
(* OPA says may change between attempts, since policies are reloaded.      *)
(***************************************************************************)
EXTENDS Integers, Sequences

CONSTANTS
  Requests,           \* requests of the gateway proxy
  MaxAttempts         \* stop_after_attempt(3) of the proxy's client

ASSUME GovernanceAssumption == MaxAttempts \in Nat \ {0}

VARIABLES
  hasPii,             \* the PII scanner finds something in the text
  harmful,            \* the harm scanner blocks the text
  stage,              \* where an inspection is
  piiScan,            \* outcome of pii_stage
  harmScan,           \* outcome of harm_scan in the gather
  opaCheck,           \* outcome of opa.check in the gather
  decision,           \* ctx.decision
  audit               \* whether the inspection's audit_log row is written

textVars == <<hasPii, harmful>>
govVars == <<stage, piiScan, harmScan, opaCheck, decision, audit>>

Attempts == 1..MaxAttempts
Inspections == Requests \X Attempts

\* "refused" is a 4xx (bad token, body over 1MB), "unavailable" a 503 or 500,
\* "lost" an inspection that died with its process.
Stages == {"none", "sent", "pii", "checks", "answered", "refused", "unavailable", "lost"}

GovTypeOK ==
  /\ hasPii \in [Requests -> BOOLEAN]
  /\ harmful \in [Requests -> BOOLEAN]
  /\ stage \in [Inspections -> Stages]
  /\ piiScan \in [Inspections -> {"none", "ok", "error"}]
  /\ harmScan \in [Inspections -> {"none", "ok", "error"}]
  /\ opaCheck \in [Inspections -> {"none", "allow", "deny", "error"}]
  /\ decision \in [Inspections -> {"allow", "block"}]
  /\ audit \in [Inspections -> {"none", "pending", "written", "lost"}]

\* PipelineContext starts with decision "allow".
GovInit ==
  /\ hasPii \in [Requests -> BOOLEAN]
  /\ harmful \in [Requests -> BOOLEAN]
  /\ stage = [i \in Inspections |-> "none"]
  /\ piiScan = [i \in Inspections |-> "none"]
  /\ harmScan = [i \in Inspections |-> "none"]
  /\ opaCheck = [i \in Inspections |-> "none"]
  /\ decision = [i \in Inspections |-> "allow"]
  /\ audit = [i \in Inspections |-> "none"]

-----------------------------------------------------------------------------
\* Token, body size and Google credentials are in order: the pipeline starts.
Admit(i) ==
  /\ stage[i] = "sent"
  /\ stage' = [stage EXCEPT ![i] = "pii"]
  /\ UNCHANGED <<textVars, piiScan, harmScan, opaCheck, decision, audit>>

\* 403 or 413; or 503 with Retry-After when the credential status is stale.
TurnAway(i, how) ==
  /\ stage[i] = "sent"
  /\ how \in {"refused", "unavailable"}
  /\ stage' = [stage EXCEPT ![i] = how]
  /\ UNCHANGED <<textVars, piiScan, harmScan, opaCheck, decision, audit>>

\* Mutant: a scanner failure passes as an empty result.
PiiStageFailsOpen(i, result) ==
  /\ stage[i] = "pii"
  /\ result \in {"ok", "error"}
  /\ piiScan' = [piiScan EXCEPT ![i] = result]
  /\ stage' = [stage EXCEPT ![i] = "checks"]
  /\ UNCHANGED <<textVars, harmScan, opaCheck, decision, audit>>

\* pii_stage: any exception of the scanner blocks; the checks run all the same.
PiiStage(i, result) ==
  /\ stage[i] = "pii"
  /\ result \in {"ok", "error"}
  /\ piiScan' = [piiScan EXCEPT ![i] = result]
  /\ decision' = [decision EXCEPT ![i] = IF result = "error" THEN "block" ELSE @]
  /\ stage' = [stage EXCEPT ![i] = "checks"]
  /\ UNCHANGED <<textVars, harmScan, opaCheck, audit>>

\* The two awaitables of asyncio.gather(return_exceptions=True) end in any order.
HarmReturns(i, result) ==
  /\ stage[i] = "checks"
  /\ harmScan[i] = "none"
  /\ result \in {"ok", "error"}
  /\ harmScan' = [harmScan EXCEPT ![i] = result]
  /\ UNCHANGED <<textVars, stage, piiScan, opaCheck, decision, audit>>

OpaReturns(i, result) ==
  /\ stage[i] = "checks"
  /\ opaCheck[i] = "none"
  /\ result \in {"allow", "deny", "error"}
  /\ opaCheck' = [opaCheck EXCEPT ![i] = result]
  /\ UNCHANGED <<textVars, stage, piiScan, harmScan, decision, audit>>

\* What the code after the gather makes of the results: a harm error is
\* ignored (fail-open), an OPA error blocks (fail-closed), and ctx.decision is
\* only ever moved to "block".
Verdict(i) ==
  IF \/ harmScan[i] = "ok" /\ harmful[i[1]]
     \/ opaCheck[i] # "allow"
    THEN "block"
    ELSE decision[i]

\* Both results are in: decide, queue the background audit, return 200.
Conclude(i) ==
  /\ stage[i] = "checks"
  /\ harmScan[i] # "none"
  /\ opaCheck[i] # "none"
  /\ decision' = [decision EXCEPT ![i] = Verdict(i)]
  /\ audit' = [audit EXCEPT ![i] = "pending"]
  /\ stage' = [stage EXCEPT ![i] = "answered"]
  /\ UNCHANGED <<textVars, piiScan, harmScan, opaCheck>>

\* _do_audit: the row is inserted, or the exception is printed and dropped.
WriteAudit(i, result) ==
  /\ audit[i] = "pending"
  /\ result \in {"written", "lost"}
  /\ audit' = [audit EXCEPT ![i] = result]
  /\ UNCHANGED <<textVars, stage, piiScan, harmScan, opaCheck, decision>>

\* The service restarts: running inspections and queued audits are gone.
GovRestart ==
  /\ stage' = [i \in Inspections |->
                 IF stage[i] \in {"sent", "pii", "checks"} THEN "lost" ELSE stage[i]]
  /\ audit' = [i \in Inspections |-> IF audit[i] = "pending" THEN "lost" ELSE audit[i]]
  /\ UNCHANGED <<textVars, piiScan, harmScan, opaCheck, decision>>

GovStep(i) ==
  \/ Admit(i)
  \/ \E how \in {"refused", "unavailable"} : TurnAway(i, how)
  \/ \E result \in {"ok", "error"} : PiiStage(i, result) \/ HarmReturns(i, result)
  \/ \E result \in {"allow", "deny", "error"} : OpaReturns(i, result)
  \/ Conclude(i)
  \/ \E result \in {"written", "lost"} : WriteAudit(i, result)
=============================================================================
