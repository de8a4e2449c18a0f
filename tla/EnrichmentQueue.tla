-------------------------- MODULE EnrichmentQueue --------------------------
(***************************************************************************)
(* The enrichment job of one URL, its worker processes and the requests    *)
(* that share it.  All scans of one URL (one fingerprint and one policy    *)
(* context) share one analysis_run row and at most one scan_job row; the   *)
(* web processes create and delete scans, worker processes lease the job   *)
(* and call the outside world under a per-run advisory lock, the cleanup   *)
(* command removes what has expired.                                       *)
(*                                                                         *)
(* Every action is one statement or one group of statements of PostgreSQL  *)
(* READ COMMITTED transactions that no other transaction can separate.     *)
(* Rows read earlier in a session stay as they were read (wk[w].status and *)
(* rq[s].status, rq[s].attempts): the ORM does not refresh them, and at    *)
(* flush it writes a column only when it differs from the value read.      *)
(* Time is abstracted to the flags of job, scan and final that it flips.   *)
(***************************************************************************)
EXTENDS Integers

CONSTANTS
    Worker,     \* worker processes
    Scan,       \* scans of the URL, each requested and deleted at most once
    Enriched,   \* those requested with mode ENRICHED and consent
    NoOne,      \* holder of a free lock, owner of a job without a lease
    MaxRuns,    \* bound: analysis_run rows the URL may have, one after another
    MaxFaults   \* bound: crashes, overslept leases, failed requests, failed
                \* first reads

ASSUME EnrichedAreScans == Enriched \subseteq Scan
ASSUME HoldersAreDistinct ==
    /\ Worker \cap Scan = {}
    /\ NoOne \notin Worker \cup Scan
ASSUME BoundsAreNaturals == MaxRuns \in Nat \ {0} /\ MaxFaults \in Nat

VARIABLES
    run,        \* the analysis_run row: its number and status
    job,        \* the scan_job row of kind ENRICH
    scan,       \* the scan rows
    final,      \* latest FINAL decision: "none", or its evidence "fresh" or "stale"
    consent,    \* holder of the consent advisory lock of each run
    wk,         \* worker processes: where each is and what its session read
    rq,         \* the request under way for each scan and what its session read
    stray,      \* runs for which a call goes on that no session waits for
    rounds,     \* history: times the job was put in the queue by a request
    finals,     \* history: FINAL decisions added to the run
    faults      \* faults so far

vars == <<run, job, scan, final, consent, wk, rq, stray, rounds, finals, faults>>

RetryLimit == 2
RunIds == 1..MaxRuns

RunStatus == {"LOCAL_COMPLETE", "QUEUED", "PARTIAL", "COMPLETE"}
OpenStates == {"QUEUED", "LEASED"}
JobStates == OpenStates \cup {"absent", "COMPLETE", "CANCELLED"}
Leases == {"none", "fresh", "aging", "expired"}

\* Rows and sessions are written out field by field.
RunRow(id, status) == [id |-> id, status |-> status]
JobRow(state, attempts, owner, lease, due, late) ==
    [state |-> state, attempts |-> attempts, owner |-> owner,
     lease |-> lease, due |-> due, late |-> late]
Session(pc, id, status, renewing) ==
    [pc |-> pc, run |-> id, status |-> status, renewing |-> renewing]
Request(pc, id, status, attempts, plan) ==
    [pc |-> pc, run |-> id, status |-> status, attempts |-> attempts, plan |-> plan]

NoJob == JobRow("absent", 0, NoOne, "none", FALSE, FALSE)
NewJob == JobRow("QUEUED", 0, NoOne, "none", TRUE, FALSE)
IdleWorker == Session("idle", 0, "absent", FALSE)
NoRequest == Request("none", 0, "absent", 0, "none")

WorkerPC == {"idle", "leased", "loaded", "cancelling", "finalizing", "admitted",
             "waiting", "locked", "abandoning", "outbound", "answered", "failed"}
RequestPC == {"none", "creating", "planned", "deleting", "withdrawing", "cancelling"}
Plans == {"none", "local", "insert", "mark", "reuse", "requeue"}
ScanPhase == {"new", "active", "expired", "withdrawn", "purged", "erased"}

RunRows == [id : 0..MaxRuns, status : RunStatus \cup {"absent"}]
JobRows == [state : JobStates, attempts : Nat, owner : Worker \cup {NoOne},
            lease : Leases, due : BOOLEAN, late : BOOLEAN]
Sessions == [pc : WorkerPC, run : 0..MaxRuns,
             status : RunStatus \cup {"absent"}, renewing : BOOLEAN]
Requests == [pc : RequestPC, run : 0..MaxRuns,
             status : RunStatus \cup {"absent"}, attempts : Nat, plan : Plans]

TypeOK ==
    /\ run \in RunRows
    /\ job \in JobRows
    /\ scan \in [Scan -> ScanPhase]
    /\ final \in {"none", "fresh", "stale"}
    /\ consent \in [RunIds -> Worker \cup Scan \cup {NoOne}]
    /\ wk \in [Worker -> Sessions]
    /\ rq \in [Scan -> Requests]
    /\ stray \in SUBSET (0..MaxRuns)
    /\ rounds \in Nat /\ finals \in Nat /\ faults \in 0..MaxFaults

Init ==
    /\ run = RunRow(0, "absent")
    /\ job = NoJob
    /\ scan = [s \in Scan |-> "new"]
    /\ final = "none"
    /\ consent = [r \in RunIds |-> NoOne]
    /\ wk = [w \in Worker |-> IdleWorker]
    /\ rq = [s \in Scan |-> NoRequest]
    /\ stray = {}
    /\ rounds = 0 /\ finals = 0 /\ faults = 0

----------------------------------------------------------------------------
(* What the statements of both sides read and write.                       *)

RunExists == run.status # "absent"
RowPresent(s) == scan[s] \in {"active", "expired", "withdrawn"}
Consenting == {s \in Enriched : scan[s] = "active"}

\* The flush writes a column only if it differs from the value the session read.
Written(read, new, current) == IF new = read THEN current ELSE new

\* Variant: the mode and the consent of the scans are not looked at.
AnyActiveScan(r) == r = run.id /\ \E s \in Scan : scan[s] = "active"

ActiveEnrichment(r) == r = run.id /\ Consenting # {}

\* The job is leased, by w, and the lease has not run out.
Owned(w) ==
    /\ job.state = "LEASED"
    /\ job.owner = w
    /\ job.lease \in {"fresh", "aging"}

\* The row once its lease is over, and with another lease.
Settled(state) == JobRow(state, job.attempts, NoOne, "none", job.due, job.late)
Lasting(lease) ==
    JobRow(job.state, job.attempts, job.owner, lease, job.due, job.late)

\* The run with another status; a worker or a request one step further.
Becomes(status) == run' = RunRow(run.id, status)
At(w, pc) == Session(pc, wk[w].run, wk[w].status, FALSE)
Asking(s, pc) == Request(pc, rq[s].run, rq[s].status, rq[s].attempts, rq[s].plan)

\* pg_advisory_xact_lock: held until the transaction of its holder ends.
Released(holder) ==
    [r \in RunIds |-> IF consent[r] = holder THEN NoOne ELSE consent[r]]

AddFinal(evidence) ==
    /\ final' = evidence
    /\ finals' = finals + 1

\* Variant: the lock is taken for the session, not for the transaction.
FinishKeepingLock(w) ==
    /\ wk' = [wk EXCEPT ![w] = IdleWorker]
    /\ UNCHANGED consent

\* The worker is done with the job: its session is closed, its locks are free.
Finish(w) ==
    /\ wk' = [wk EXCEPT ![w] = IdleWorker]
    /\ consent' = Released(w)

----------------------------------------------------------------------------
(* run_worker, lease_jobs and process_job.                                 *)

\* Variant: leases that ran out are not taken over.
LeasableIfQueued == job.due /\ job.state = "QUEUED"

\* lease_jobs: a due job nobody has leased, or whose lease has run out.
Leasable ==
    /\ job.due
    /\ \/ job.state = "QUEUED"
       \/ job.state = "LEASED" /\ job.lease = "expired"

Lease(w) ==
    /\ wk[w].pc = "idle"
    /\ Leasable
    /\ job' = JobRow("LEASED", job.attempts + 1, w, "fresh", job.due, job.late)
    /\ wk' = [wk EXCEPT ![w] = At(w, "leased")]
    /\ UNCHANGED <<run, scan, final, consent, rq, rounds, finals, faults, stray>>

\* The job and its run are read; a job lost meanwhile ends the processing.
Load(w) ==
    /\ wk[w].pc = "leased"
    /\ wk' = [wk EXCEPT ![w] =
                IF job.state = "LEASED" /\ job.owner = w
                THEN Session("loaded", run.id, run.status, FALSE)
                ELSE IdleWorker]
    /\ UNCHANGED <<run, job, scan, final, consent, rq, rounds, finals, faults, stray>>

\* Without an active consented scan the job is to be cancelled, after its
\* deadline to be finalized with the evidence marked as timed out.
Assess(w) ==
    /\ wk[w].pc = "loaded"
    /\ wk' = [wk EXCEPT ![w] = At(w,
                IF ~ActiveEnrichment(wk[w].run) THEN "cancelling"
                ELSE IF job.late THEN "finalizing" ELSE "admitted")]
    /\ UNCHANGED <<run, job, scan, final, consent, rq, rounds, finals, faults, stray>>

\* _cancel_job: the run leaves QUEUED if that is what the session read.
CancelJob(w) ==
    /\ job' = Settled("CANCELLED")
    /\ Becomes(IF wk[w].status = "QUEUED" THEN "LOCAL_COMPLETE" ELSE run.status)

Cancel(w) ==
    /\ wk[w].pc = "cancelling"
    /\ IF Owned(w) THEN CancelJob(w) ELSE UNCHANGED <<run, job>>
    /\ Finish(w)
    /\ UNCHANGED <<scan, final, rq, rounds, finals, faults, stray>>

\* Variant: the status is set, the decision is not added.
FinalizeWithoutDecision(status) ==
    /\ Becomes(Written(status, "PARTIAL", run.status))
    /\ job' = Settled("COMPLETE")
    /\ UNCHANGED <<final, finals, stray>>

\* _finalize_missing: a FINAL decision without usable evidence.
FinalizeMissing(status) ==
    /\ AddFinal("stale")
    /\ Becomes(Written(status, "PARTIAL", run.status))
    /\ job' = Settled("COMPLETE")

FinalizeLate(w) ==
    /\ wk[w].pc = "finalizing"
    /\ IF Owned(w) THEN FinalizeMissing(wk[w].status)
                   ELSE UNCHANGED <<run, job, final, finals>>
    /\ Finish(w)
    /\ UNCHANGED <<scan, rq, rounds, faults, stray>>

(***************************************************************************)
(* The provider policy and the quota bucket are consulted and committed;   *)
(* a database error there is absorbed by a rollback, which expires what    *)
(* the session has read, so the run is read again.                         *)
(***************************************************************************)
ConsumeQuota(w) ==
    /\ wk[w].pc = "admitted"
    /\ \E status \in {wk[w].status, run.status} :
          wk' = [wk EXCEPT ![w] = Session("waiting", wk[w].run, status, FALSE)]
    /\ UNCHANGED <<run, job, scan, final, consent, rq, rounds, finals, faults, stray>>

\* Variant: the lock is only tried, and its absence ignored.
LockConsentNoWait(w) ==
    /\ wk[w].pc = "waiting"
    /\ IF Owned(w)
       THEN /\ consent' = [consent EXCEPT ![wk[w].run] = w]
            /\ wk' = [wk EXCEPT ![w] = At(w, "locked")]
       ELSE Finish(w)
    /\ UNCHANGED <<run, job, scan, final, rq, rounds, finals, faults, stray>>

\* lock_enrichment_consent, then _current_owned_job without a row lock.
LockConsent(w) ==
    /\ wk[w].pc = "waiting"
    /\ consent[wk[w].run] = NoOne
    /\ IF Owned(w)
       THEN /\ consent' = [consent EXCEPT ![wk[w].run] = w]
            /\ wk' = [wk EXCEPT ![w] = At(w, "locked")]
       ELSE Finish(w)
    /\ UNCHANGED <<run, job, scan, final, rq, rounds, finals, faults, stray>>

\* Variant: the transaction is committed before the call.
RecheckAndCommit(w) ==
    /\ wk[w].pc = "locked"
    /\ wk' = [wk EXCEPT ![w] =
                IF ActiveEnrichment(wk[w].run)
                THEN Session("outbound", wk[w].run, wk[w].status, TRUE)
                ELSE At(w, "abandoning")]
    /\ consent' = Released(w)
    /\ UNCHANGED <<run, job, scan, final, rq, rounds, finals, faults, stray>>

Recheck(w) ==
    /\ wk[w].pc = "locked"
    /\ wk' = [wk EXCEPT ![w] =
                IF ActiveEnrichment(wk[w].run)
                THEN Session("outbound", wk[w].run, wk[w].status, TRUE)
                ELSE At(w, "abandoning")]
    /\ UNCHANGED <<run, job, scan, final, consent, rq, rounds, finals, faults, stray>>

(***************************************************************************)
(* The job row was read without a lock: it is overwritten whatever it has  *)
(* become since.  If the cleanup has deleted it the update matches no row, *)
(* which is an error.                                                      *)
(***************************************************************************)
Abandon(w) ==
    /\ wk[w].pc = "abandoning"
    /\ IF RunExists /\ wk[w].run = run.id /\ job.state # "absent"
       THEN CancelJob(w) ELSE UNCHANGED <<run, job>>
    /\ Finish(w)
    /\ UNCHANGED <<scan, final, rq, rounds, finals, faults, stray>>

\* renew_job_lease while the call is under way; it gives up for good when the
\* lease is no longer the worker's, or on a database error.
Renew(w) ==
    /\ wk[w].pc = "outbound" /\ wk[w].renewing
    /\ \/ /\ Owned(w)
          /\ job.lease = "aging"
          /\ job' = Lasting("fresh")
          /\ UNCHANGED wk
       \/ /\ wk' = [wk EXCEPT ![w] = At(w, "outbound")]
          /\ UNCHANGED job
    /\ UNCHANGED <<run, scan, final, consent, rq, rounds, finals, faults, stray>>

\* What a session no longer waits for may go on: nothing cancels it.
LeavesCall(w) == stray' \in {stray, stray \cup {wk[w].run}}

(***************************************************************************)
(* Both calls have returned, every HTTP error an observation of its own.   *)
(* One that has timed out is over for the worker only: the fetcher may     *)
(* still be at the page.                                                   *)
(***************************************************************************)
Answer(w) ==
    /\ wk[w].pc = "outbound"
    /\ wk' = [wk EXCEPT ![w] = At(w, "answered")]
    /\ LeavesCall(w)
    /\ UNCHANGED <<run, job, scan, final, consent, rq, rounds, finals, faults>>

(***************************************************************************)
(* One of the two calls raises (an answer of the lookup the client cannot  *)
(* read): gather raises at once, without waiting for the other call, and   *)
(* the rollback frees the lock.                                            *)
(***************************************************************************)
CallRaises(w) ==
    /\ wk[w].pc = "outbound"
    /\ wk' = [wk EXCEPT ![w] = At(w, "failed")]
    /\ consent' = Released(w)
    /\ LeavesCall(w)
    /\ UNCHANGED <<run, job, scan, final, rq, rounds, finals, faults>>

\* A call left behind ends, and its result is dropped.
StrayEnds ==
    /\ \E r \in stray : stray' = stray \ {r}
    /\ UNCHANGED <<run, job, scan, final, consent, wk, rq, rounds, finals, faults>>

\* Variant: the lease is not checked again before the answer is stored.
CommitUnfenced(w) ==
    /\ wk[w].pc = "answered"
    /\ AddFinal("stale")
    /\ Becomes(Written(wk[w].status, "PARTIAL", run.status))
    /\ job' = Settled("COMPLETE")
    /\ Finish(w)
    /\ UNCHANGED <<scan, rq, rounds, faults, stray>>

\* The answer is kept only while the lease is still the worker's.
Commit(w) ==
    /\ wk[w].pc = "answered"
    /\ IF Owned(w)
       THEN /\ \E result \in {"PARTIAL", "COMPLETE"}, evidence \in {"fresh", "stale"} :
                  /\ result = "PARTIAL" => evidence = "stale"
                  /\ AddFinal(evidence)
                  /\ Becomes(Written(wk[w].status, result, run.status))
            /\ job' = Settled("COMPLETE")
       ELSE UNCHANGED <<run, job, final, finals>>
    /\ Finish(w)
    /\ UNCHANGED <<scan, rq, rounds, faults, stray>>

\* Any other statement may raise: the transaction is rolled back, its lock with
\* it.  Of the two first reads this is the second, the one of the run.
Fail(w) ==
    /\ wk[w].pc \notin {"idle", "outbound", "failed"}
    /\ wk' = [wk EXCEPT ![w] = At(w, "failed")]
    /\ consent' = Released(w)
    /\ UNCHANGED <<run, job, scan, final, rq, rounds, finals, faults, stray>>

\* The read of the job raises: the handler does not know the owner yet, finds no
\* job of its own, and leaves it leased.
LoadFails(w) ==
    /\ wk[w].pc = "leased"
    /\ faults < MaxFaults
    /\ faults' = faults + 1
    /\ wk' = [wk EXCEPT ![w] = IdleWorker]
    /\ UNCHANGED <<run, job, scan, final, consent, rq, rounds, finals, stray>>

\* Variant: the last attempt is retried as well.
HandleFailureOnceMore(w) ==
    /\ wk[w].pc = "failed"
    /\ \/ /\ Owned(w) /\ job.attempts <= RetryLimit
          /\ job' = JobRow("QUEUED", job.attempts, NoOne, "none", FALSE, job.late)
          /\ UNCHANGED <<run, final, finals>>
       \/ /\ Owned(w) /\ job.attempts > RetryLimit
          /\ FinalizeMissing(run.status)
       \/ /\ ~Owned(w)
          /\ UNCHANGED <<run, job, final, finals>>
    /\ Finish(w)
    /\ UNCHANGED <<scan, rq, rounds, faults, stray>>

\* The handler: back to the queue after a pause, or closed for good.
HandleFailure(w) ==
    /\ wk[w].pc = "failed"
    /\ \/ /\ Owned(w) /\ job.attempts < RetryLimit
          /\ job' = JobRow("QUEUED", job.attempts, NoOne, "none", FALSE, job.late)
          /\ UNCHANGED <<run, final, finals>>
       \/ /\ Owned(w) /\ job.attempts >= RetryLimit
          /\ FinalizeMissing(run.status)
       \/ /\ ~Owned(w)
          /\ UNCHANGED <<run, job, final, finals>>
    /\ Finish(w)
    /\ UNCHANGED <<scan, rq, rounds, faults, stray>>

\* The process dies, and its connection with it; another takes its place.
Crash(w) ==
    /\ wk[w].pc # "idle"
    /\ faults < MaxFaults
    /\ faults' = faults + 1
    /\ Finish(w)
    /\ IF wk[w].pc = "outbound" THEN LeavesCall(w) ELSE UNCHANGED stray
    /\ UNCHANGED <<run, job, scan, final, rq, rounds, finals>>

WorkerStep(w) ==
    \/ Load(w) \/ Assess(w) \/ Cancel(w) \/ FinalizeLate(w)
    \/ ConsumeQuota(w) \/ Recheck(w) \/ Abandon(w)
    \/ Answer(w) \/ Commit(w) \/ HandleFailure(w)

----------------------------------------------------------------------------
(* ScanService.create and DELETE /scans/{id}.                              *)

\* The run of the URL is looked up; without one, a new one is to be inserted.
CreateRead(s) ==
    /\ rq[s].pc = "none" /\ scan[s] = "new"
    /\ rq' = [rq EXCEPT ![s] = Request("creating", IF RunExists THEN run.id ELSE 0,
                                        run.status, 0, "none")]
    /\ UNCHANGED <<run, job, scan, final, consent, wk, rounds, finals, faults, stray>>

\* What create will do to the job of the run it has read.
PlanFor(s) ==
    LET jobRead == IF rq[s].run = run.id THEN job ELSE NoJob
    IN  CASE s \notin Enriched -> "local"
          [] s \in Enriched /\ jobRead.state = "absent" -> "insert"
          [] s \in Enriched /\ jobRead.state \in OpenStates -> "mark"
          [] s \in Enriched /\ jobRead.state = "COMPLETE" /\ final = "fresh" -> "reuse"
          [] OTHER -> "requeue"

CreatePlan(s) ==
    /\ rq[s].pc = "creating"
    /\ rq' = [rq EXCEPT ![s] =
                Request("planned", rq[s].run, rq[s].status,
                        IF rq[s].run = run.id THEN job.attempts ELSE 0, PlanFor(s))]
    /\ UNCHANGED <<run, job, scan, final, consent, wk, rounds, finals, faults, stray>>

\* Unique and foreign keys: another request inserted the run or the job first,
\* or the cleanup removed the run.
Conflicts(s) ==
    \/ rq[s].run = 0 /\ RunExists
    \/ rq[s].run # 0 /\ ~(RunExists /\ rq[s].run = run.id)
    \/ rq[s].run # 0 /\ rq[s].plan = "insert" /\ job.state # "absent"

\* _requeue: the lease columns were read as NULL, so they are not written, and
\* attempts is not written when it was read as 0.
Requeued(attemptsRead) ==
    JobRow("QUEUED", Written(attemptsRead, 0, job.attempts),
           job.owner, job.lease, TRUE, FALSE)

CreateCommit(s) ==
    /\ rq[s].pc = "planned"
    /\ ~Conflicts(s)
    /\ rq[s].run = 0 => run.id < MaxRuns
    /\ scan' = [scan EXCEPT ![s] = "active"]
    /\ LET queued == rq[s].plan \in {"insert", "mark", "requeue"}
       IN  IF rq[s].run = 0
           THEN run' = RunRow(run.id + 1, IF queued THEN "QUEUED" ELSE "LOCAL_COMPLETE")
           ELSE Becomes(IF queued THEN Written(rq[s].status, "QUEUED", run.status)
                                  ELSE run.status)
    /\ job' = CASE rq[s].plan = "insert" -> NewJob
                [] rq[s].plan = "requeue" -> Requeued(rq[s].attempts)
                [] OTHER -> job
    /\ rounds' = IF rq[s].plan \in {"insert", "requeue"} THEN rounds + 1 ELSE rounds
    /\ rq' = [rq EXCEPT ![s] = NoRequest]
    /\ UNCHANGED <<final, consent, wk, finals, faults, stray>>

\* 409: the transaction is rolled back; the client may ask again.
CreateConflict(s) ==
    /\ rq[s].pc = "planned"
    /\ Conflicts(s)
    /\ rq' = [rq EXCEPT ![s] = NoRequest]
    /\ UNCHANGED <<run, job, scan, final, consent, wk, rounds, finals, faults, stray>>

\* The scan is marked deleted and flushed; others see it only at the commit.
DeleteFlush(s) ==
    /\ rq[s].pc = "none" /\ scan[s] = "active"
    /\ rq' = [rq EXCEPT ![s] = Asking(s, "deleting")]
    /\ UNCHANGED <<run, job, scan, final, consent, wk, rounds, finals, faults, stray>>

\* Variant: the deletion does not wait for the lock.
DeleteLockNoWait(s) ==
    /\ rq[s].pc = "deleting"
    /\ rq' = [rq EXCEPT ![s] =
                Asking(s, IF Consenting \ {s} # {} THEN "withdrawing" ELSE "cancelling")]
    /\ UNCHANGED <<run, job, scan, final, consent, wk, rounds, finals, faults, stray>>

\* cancel_enrichment_if_unneeded: the lock, then the scans other than this one.
DeleteLock(s) ==
    /\ rq[s].pc = "deleting"
    /\ consent[run.id] = NoOne
    /\ consent' = [consent EXCEPT ![run.id] = s]
    /\ rq' = [rq EXCEPT ![s] =
                Asking(s, IF Consenting \ {s} # {} THEN "withdrawing" ELSE "cancelling")]
    /\ UNCHANGED <<run, job, scan, final, wk, rounds, finals, faults, stray>>

DeleteCommit(s) ==
    /\ rq[s].pc \in {"withdrawing", "cancelling"}
    /\ scan' = [scan EXCEPT ![s] = "withdrawn"]
    /\ IF rq[s].pc = "cancelling" /\ job.state \in OpenStates
       THEN /\ job' = Settled("CANCELLED")
            /\ Becomes(IF run.status = "QUEUED" THEN "LOCAL_COMPLETE" ELSE run.status)
       ELSE UNCHANGED <<run, job>>
    /\ consent' = Released(s)
    /\ rq' = [rq EXCEPT ![s] = NoRequest]
    /\ UNCHANGED <<final, wk, rounds, finals, faults, stray>>

\* A statement of the request fails (a deadlock victim, a lost connection).
RequestFails(s) ==
    /\ rq[s].pc # "none"
    /\ faults < MaxFaults
    /\ faults' = faults + 1
    /\ rq' = [rq EXCEPT ![s] = NoRequest]
    /\ consent' = Released(s)
    /\ UNCHANGED <<run, job, scan, final, wk, rounds, finals, stray>>

RequestStep(s) ==
    \/ CreatePlan(s) \/ CreateCommit(s) \/ CreateConflict(s) \/ DeleteCommit(s)

----------------------------------------------------------------------------
(* cleanup_expired and the passage of time.                                *)

\* Variant: the run of an expired scan goes with it, whoever else uses the run.
CleanupEagerly ==
    LET due == {s \in Scan : scan[s] \in {"expired", "withdrawn"}}
    IN  /\ due # {}
        /\ \A s \in due : rq[s].pc = "none"
        /\ scan' = [s \in Scan |-> IF s \in due THEN "purged" ELSE scan[s]]
        /\ Becomes("absent")
        /\ job' = NoJob
        /\ final' = "none" /\ rounds' = 0 /\ finals' = 0
        /\ UNCHANGED <<consent, wk, rq, faults, stray>>

(***************************************************************************)
(* Scans past their expiry are deleted, deletion having set it to now, and *)
(* a run left without scans is deleted with its job and its decisions.  A  *)
(* row a delete request has flushed is locked and keeps the cleanup        *)
(* waiting.                                                                *)
(***************************************************************************)
Cleanup ==
    LET due == {s \in Scan : scan[s] \in {"expired", "withdrawn"}}
        orphaned == \A s \in Scan \ due : ~RowPresent(s)
    IN  /\ due # {}
        /\ \A s \in due : rq[s].pc = "none"
        /\ scan' = [s \in Scan |->
                      IF s \notin due THEN scan[s]
                      ELSE IF scan[s] = "expired" THEN "purged" ELSE "erased"]
        /\ Becomes(IF orphaned THEN "absent" ELSE run.status)
        /\ job' = IF orphaned THEN NoJob ELSE job
        /\ final' = IF orphaned THEN "none" ELSE final
        /\ rounds' = IF orphaned THEN 0 ELSE rounds
        /\ finals' = IF orphaned THEN 0 ELSE finals
        /\ UNCHANGED <<consent, wk, rq, faults, stray>>

ScanExpires(s) ==
    /\ scan[s] = "active"
    /\ scan' = [scan EXCEPT ![s] = "expired"]
    /\ UNCHANGED <<run, job, final, consent, wk, rq, rounds, finals, faults, stray>>

EvidenceExpires ==
    /\ final = "fresh"
    /\ final' = "stale"
    /\ UNCHANGED <<run, job, scan, consent, wk, rq, rounds, finals, faults, stray>>

\* The two seconds before a retry are over.
BecomeDue ==
    /\ job.state = "QUEUED" /\ ~job.due
    /\ job' = JobRow(job.state, job.attempts, job.owner, job.lease, TRUE, job.late)
    /\ UNCHANGED <<run, scan, final, consent, wk, rq, rounds, finals, faults, stray>>

\* The job is two minutes old.
DeadlinePasses ==
    /\ job.state \in OpenStates /\ ~job.late
    /\ job' = JobRow(job.state, job.attempts, job.owner, job.lease, job.due, TRUE)
    /\ UNCHANGED <<run, scan, final, consent, wk, rq, rounds, finals, faults, stray>>

\* A third of the lease has passed: time for a renewal.
LeaseAges ==
    /\ job.state = "LEASED" /\ job.lease = "fresh"
    /\ job' = Lasting("aging")
    /\ UNCHANGED <<run, scan, final, consent, wk, rq, rounds, finals, faults, stray>>

\* The lease of a worker that is gone runs out: nobody renews it.
LeaseRunsOut ==
    /\ job.state = "LEASED" /\ job.lease = "aging"
    /\ wk[job.owner].pc = "idle"
    /\ job' = Lasting("expired")
    /\ UNCHANGED <<run, scan, final, consent, wk, rq, rounds, finals, faults, stray>>

\* A worker still at the job is held up, and renews too late: a fault.
LeaseOverslept ==
    /\ job.state = "LEASED" /\ job.lease = "aging"
    /\ wk[job.owner].pc # "idle"
    /\ faults < MaxFaults
    /\ faults' = faults + 1
    /\ job' = Lasting("expired")
    /\ UNCHANGED <<run, scan, final, consent, wk, rq, rounds, finals, stray>>

----------------------------------------------------------------------------

Next ==
    \/ \E w \in Worker :
          \/ Lease(w) \/ WorkerStep(w) \/ LockConsent(w)
          \/ Renew(w) \/ CallRaises(w) \/ LoadFails(w) \/ Fail(w) \/ Crash(w)
    \/ \E s \in Scan :
          \/ CreateRead(s) \/ RequestStep(s) \/ DeleteFlush(s) \/ DeleteLock(s)
          \/ RequestFails(s) \/ ScanExpires(s)
    \/ Cleanup \/ StrayEnds \/ EvidenceExpires \/ BecomeDue \/ DeadlinePasses
    \/ LeaseAges \/ LeaseRunsOut \/ LeaseOverslept

Spec == Init /\ [][Next]_vars

(***************************************************************************)
(* Fairness: run_worker polls for ever and its calls time out; the web     *)
(* process finishes each request; PostgreSQL hands an advisory lock to its *)
(* waiters in turn, so one that is free again and again is granted.        *)
(***************************************************************************)
Fairness ==
    /\ \A w \in Worker :
          WF_vars(Lease(w)) /\ WF_vars(WorkerStep(w)) /\ SF_vars(LockConsent(w))
    /\ \A s \in Scan : WF_vars(RequestStep(s)) /\ SF_vars(DeleteLock(s))
    /\ WF_vars(BecomeDue) /\ WF_vars(LeaseAges) /\ WF_vars(LeaseRunsOut)

FairSpec == Spec /\ Fairness

----------------------------------------------------------------------------
(* Safety.                                                                 *)

OnCall(w) == wk[w].pc = "outbound"

\* The rows agree, whatever creations, deletions and cleanups interleave: a
\* scan has its run, an enriched scan the job it asked for, and nothing derived
\* from the URL outlives the last scan of it (scans.create, cleanup_expired).
RowsConsistent ==
    /\ RunExists <=> \E s \in Scan : RowPresent(s)
    /\ job.state # "absent" => RunExists
    /\ \A s \in Enriched : RowPresent(s) => job.state # "absent"

\* Leases are stolen, workers crash and jobs are queued again while a call is
\* under way, and still no two sessions wait for calls of one run at the same
\* time: what serializes them is the advisory lock, not the lease (process_job).
\* A call left behind by a session that is gone (stray) is not serialized.
OneCallPerRun ==
    \A v, w \in Worker :
       v # w /\ OnCall(v) /\ OnCall(w) => wk[v].run # wk[w].run

\* As long as a session waits for a call of the run, somebody who consented to
\* it has not withdrawn: at worst the scan expired during the call.  Nothing is
\* said of the calls left behind (stray), which no lock covers.
CallHasConsent ==
    \A w \in Worker :
       OnCall(w) /\ wk[w].run = run.id =>
          \E s \in Enriched : scan[s] \in {"active", "expired", "purged"}

\* However often the job is leased, retried, stolen and queued again, a round in
\* the queue ends in at most one FINAL decision: a worker that lost its lease
\* adds nothing (_owned_job at the commit).
OneFinalPerRound ==
    finals + (IF job.state \in OpenStates THEN 1 ELSE 0) <= rounds

\* Retries of a failure the handler sees end.  Each attempt beyond the limit is
\* paid for by a fault that keeps the handler from comparing the attempts (a
\* crash, a lease overslept, a first read that raises: LoadFails), or by a
\* request that put the job in the queue again (_requeue leaves attempts as they
\* are when it has read 0).
AttemptsPaidFor == job.attempts < RetryLimit + rounds + faults

\* A status that announces a result has a FINAL decision behind it, so that
\* GET /scans/{id} never labels the local decision PARTIAL or COMPLETE.
ResultHasDecision == run.status \in {"PARTIAL", "COMPLETE"} => final # "none"

(***************************************************************************)
(* Deletion waits for the sessions: when the consent of a scan is          *)
(* withdrawn no worker is waiting for a call of its run (the lock of       *)
(* cancel_enrichment_if_unneeded).  What it does not wait for is the       *)
(* subject of DeletionEndsCalls.                                           *)
(***************************************************************************)
DeletionWaits ==
    [][\A s \in Scan : scan[s] # "withdrawn" /\ scan'[s] = "withdrawn" =>
          \A w \in Worker : OnCall(w) => wk[w].run # run.id]_vars

----------------------------------------------------------------------------
(* Why the consent lock works: the invariant behind the three properties   *)
(* about the calls sessions wait for, and what the rows need to agree.     *)

\* A scan or a job keeps its run, and a run that exists has a number.
RowInv ==
    /\ RunExists => run.id \in RunIds
    /\ job.state # "absent" => RunExists
    /\ \A s \in Scan : RowPresent(s) => RunExists

\* A deletion is of a scan that is still there and, past DeleteLock, it holds
\* the lock of the present run: the run cannot be replaced meanwhile.
RequestInv ==
    \A s \in Scan :
       /\ rq[s].pc \in {"creating", "planned"} => scan[s] = "new"
       /\ rq[s].pc \in {"deleting", "withdrawing", "cancelling"} =>
             scan[s] \in {"active", "expired"}
       /\ rq[s].pc \in {"withdrawing", "cancelling"} => consent[run.id] = s

\* A worker between LockConsent and its commit holds the lock of the run it
\* has read, which may be a run that is gone but never one yet to come.
HolderInv ==
    \A w \in Worker :
       /\ wk[w].run <= run.id
       /\ wk[w].pc \notin {"idle", "leased", "failed"} => wk[w].run \in RunIds
       /\ wk[w].pc \in {"locked", "abandoning", "outbound", "answered"} =>
             consent[wk[w].run] = w

\* The inductive invariant of the consent lock (lock_enrichment_consent, in
\* process_job and in cancel_enrichment_if_unneeded): whoever is past it holds
\* it, and a call a session waits for still has a consent.
ConsentLockHeld ==
    TypeOK /\ RowInv /\ RequestInv /\ HolderInv /\ CallHasConsent

\* What a creation planned from the rows it read stays compatible with what it
\* will find: a job it counts on is still there, or its commit conflicts.
CountsOnJob(s) ==
    rq[s].pc = "planned" /\ rq[s].plan \in {"mark", "reuse", "requeue"}

PlanInv ==
    \A s \in Scan :
       /\ rq[s].run <= run.id
       /\ rq[s].pc = "planned" /\ s \in Enriched =>
             rq[s].plan = "insert" \/ CountsOnJob(s)
       /\ CountsOnJob(s) => rq[s].run # 0
       /\ CountsOnJob(s) /\ rq[s].run = run.id /\ RunExists => job.state # "absent"

----------------------------------------------------------------------------
\* The refinement: consent and calls of the present run, and nothing else.
GateConsent ==
    [s \in Enriched |->
        CASE scan[s] = "new" -> "none"
          [] scan[s] = "active" -> "given"
          [] scan[s] \in {"expired", "purged"} -> "lapsed"
          [] scan[s] \in {"withdrawn", "erased"} -> "withdrawn"]

Calling == RunExists /\ \E w \in Worker : OnCall(w) /\ wk[w].run = run.id

\* Calls no session waits for, and calls that have outlived their run.
LeftBehind ==
    \/ stray # {}
    \/ \E w \in Worker : OnCall(w) /\ ~(RunExists /\ wk[w].run = run.id)

Gate == INSTANCE ConsentGate
            WITH Scan <- Enriched, consent <- GateConsent, calling <- Calling,
                 left <- LeftBehind

\* The queue with its leases and locks keeps this much of the promise.
ImplementsConsentGate == Gate!GateSpec

----------------------------------------------------------------------------
(* Liveness.                                                               *)

\* A job in the queue is finished, finalized or cancelled in the end, in spite
\* of crashes, failures, lost leases and deletions that take the lock.
JobSettles == job.state \in OpenStates ~> job.state \notin OpenStates

\* A deletion that waits for a worker's call returns in the end.
DeletionReturns ==
    \A s \in Scan : rq[s].pc = "deleting" ~> rq[s].pc = "none"

----------------------------------------------------------------------------
(* What the repository says and the code does not keep.                    *)

\* ADR-0003: workers claim jobs with bounded attempts.
AttemptsBounded == job.attempts <= RetryLimit

\* ADR-0003: an enrichment job is persisted with its scan: as long as somebody
\* wants the enrichment, the job is not left cancelled.
NoStrandedScan == job.state = "CANCELLED" => Consenting = {}

(***************************************************************************)
(* worker.py: deletion takes the consent lock "before it can return", to   *)
(* serialize it with the outbound work: when the consent of a scan is      *)
(* withdrawn, no call of its run is under way, whoever waits for it.       *)
(***************************************************************************)
DeletionEndsCalls ==
    [][\A s \in Scan : scan[s] # "withdrawn" /\ scan'[s] = "withdrawn" =>
          /\ \A w \in Worker : OnCall(w) => wk[w].run # run.id
          /\ run.id \notin stray]_vars
============================================================================
