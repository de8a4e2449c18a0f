----------------------- MODULE EnrichmentQueueProofs -----------------------
(***************************************************************************)
(* Proofs about EnrichmentQueue, for any workers, scans and bounds.        *)
(***************************************************************************)
EXTENDS EnrichmentQueue, TLAPS

USE DEF RunStatus, OpenStates, JobStates, Leases, WorkerPC, RequestPC, Plans,
        ScanPhase

----------------------------------------------------------------------------
(* The rows and sessions the actions write have their types.               *)

LEMMA RowTypes ==
    ASSUME TypeOK
    PROVE  /\ run.id \in 0..MaxRuns /\ run.status \in RunStatus \cup {"absent"}
           /\ \A st \in RunStatus \cup {"absent"} : RunRow(run.id, st) \in RunRows
           /\ \A st \in JobStates : Settled(st) \in JobRows
           /\ \A l \in Leases : Lasting(l) \in JobRows
           /\ NoJob \in JobRows /\ NewJob \in JobRows
           /\ job.state \in JobStates /\ job.attempts \in Nat
           /\ job.owner \in Worker \cup {NoOne} /\ job.lease \in Leases
           /\ job.due \in BOOLEAN /\ job.late \in BOOLEAN
  BY DEF TypeOK, RunRows, RunRow, JobRows, JobRow, Settled, Lasting, NoJob, NewJob

LEMMA SessionTypes ==
    ASSUME TypeOK, NEW w \in Worker
    PROVE  /\ wk[w] \in Sessions /\ wk[w].run \in 0..MaxRuns
           /\ wk[w].status \in RunStatus \cup {"absent"}
           /\ IdleWorker \in Sessions
           /\ \A pc \in WorkerPC : At(w, pc) \in Sessions
  BY BoundsAreNaturals DEF TypeOK, Sessions, Session, At, IdleWorker

LEMMA RequestTypes ==
    ASSUME TypeOK, NEW s \in Scan
    PROVE  /\ rq[s] \in Requests /\ rq[s].run \in 0..MaxRuns
           /\ rq[s].status \in RunStatus \cup {"absent"}
           /\ rq[s].attempts \in Nat /\ rq[s].plan \in Plans
           /\ NoRequest \in Requests
           /\ \A pc \in RequestPC : Asking(s, pc) \in Requests
  BY BoundsAreNaturals DEF TypeOK, Requests, Request, Asking, NoRequest

LEMMA ReleasedType ==
    ASSUME TypeOK, NEW holder
    PROVE  Released(holder) \in [RunIds -> Worker \cup Scan \cup {NoOne}]
  BY DEF TypeOK, Released

LEMMA FinishType ==
    ASSUME TypeOK, NEW w \in Worker, Finish(w)
    PROVE  /\ wk' \in [Worker -> Sessions]
           /\ consent' \in [RunIds -> Worker \cup Scan \cup {NoOne}]
  BY ReleasedType, SessionTypes DEF TypeOK, Finish

LEMMA FinalizeType ==
    ASSUME TypeOK, NEW status \in RunStatus \cup {"absent"}, FinalizeMissing(status)
    PROVE  /\ run' \in RunRows /\ job' \in JobRows
           /\ final' = "stale" /\ finals' \in Nat
<1>1. Written(status, "PARTIAL", run.status) \in RunStatus \cup {"absent"}
  BY RowTypes DEF Written
<1> QED
  BY <1>1, RowTypes DEF FinalizeMissing, AddFinal, Becomes, TypeOK

LEMMA CancelType ==
    ASSUME TypeOK, NEW w \in Worker, CancelJob(w)
    PROVE  run' \in RunRows /\ job' \in JobRows
  BY RowTypes DEF CancelJob, Becomes

LEMMA LeavesType ==
    ASSUME TypeOK, NEW w \in Worker, LeavesCall(w)
    PROVE  stray' \in SUBSET (0..MaxRuns)
  BY SessionTypes DEF TypeOK, LeavesCall

LEMMA TypeInit == Init => TypeOK
<1> SUFFICES ASSUME Init PROVE TypeOK
  OBVIOUS
<1>1. run \in RunRows /\ job \in JobRows
  BY BoundsAreNaturals DEF Init, RunRows, RunRow, JobRows, JobRow, NoJob
<1>2. IdleWorker \in Sessions /\ NoRequest \in Requests
  BY BoundsAreNaturals
     DEF IdleWorker, Sessions, Session, NoRequest, Requests, Request
<1> QED
  BY <1>1, <1>2, BoundsAreNaturals DEF Init, TypeOK, RunIds

----------------------------------------------------------------------------
(* Type correctness: one step per action.                                  *)

LEMMA WorkerType ==
    ASSUME TypeOK, NEW w \in Worker,
           \/ Lease(w) \/ WorkerStep(w) \/ LockConsent(w)
           \/ Renew(w) \/ CallRaises(w) \/ LoadFails(w) \/ Fail(w) \/ Crash(w)
    PROVE  TypeOK'
<1>1. CASE Lease(w)
  <2>1. job' \in JobRows
    BY <1>1, RowTypes DEF Lease, JobRows, JobRow
  <2> QED BY <1>1, <2>1, SessionTypes DEF Lease, TypeOK
<1>2. CASE Load(w)
  <2>1. Session("loaded", run.id, run.status, FALSE) \in Sessions
    BY RowTypes DEF Session, Sessions
  <2> QED BY <1>2, <2>1, SessionTypes DEF Load, TypeOK
<1>3. CASE Assess(w) BY <1>3, SessionTypes DEF Assess, TypeOK
<1>4. CASE Cancel(w) BY <1>4, CancelType, FinishType DEF Cancel, TypeOK
<1>5. CASE FinalizeLate(w)
  BY <1>5, FinalizeType, FinishType, SessionTypes DEF FinalizeLate, TypeOK
<1>6. CASE ConsumeQuota(w)
  <2>1. \A st \in RunStatus \cup {"absent"} :
           Session("waiting", wk[w].run, st, FALSE) \in Sessions
    BY SessionTypes DEF Session, Sessions
  <2>2. PICK st \in {wk[w].status, run.status} :
           wk' = [wk EXCEPT ![w] = Session("waiting", wk[w].run, st, FALSE)]
    BY <1>6 DEF ConsumeQuota
  <2>3. wk' \in [Worker -> Sessions]
    BY <2>1, <2>2, SessionTypes, RowTypes DEF TypeOK
  <2> QED BY <1>6, <2>3 DEF ConsumeQuota, TypeOK
<1>7. CASE Recheck(w)
  <2>1. Session("outbound", wk[w].run, wk[w].status, TRUE) \in Sessions
    BY SessionTypes DEF Session, Sessions
  <2> QED BY <1>7, <2>1, SessionTypes DEF Recheck, TypeOK
<1>8. CASE Abandon(w) BY <1>8, CancelType, FinishType DEF Abandon, TypeOK
<1>9. CASE Answer(w) BY <1>9, SessionTypes, LeavesType DEF Answer, TypeOK
<1>10. CASE Commit(w)
  <2>1. \A result \in {"PARTIAL", "COMPLETE"} :
           Written(wk[w].status, result, run.status) \in RunStatus \cup {"absent"}
    BY RowTypes DEF Written
  <2>2. CASE Owned(w)
    <3>1. run' \in RunRows /\ job' \in JobRows
      BY <1>10, <2>1, <2>2, RowTypes DEF Commit, Becomes
    <3>2. final' \in {"none", "fresh", "stale"} /\ finals' \in Nat
      BY <1>10, <2>2 DEF Commit, AddFinal, TypeOK
    <3> QED BY <1>10, <3>1, <3>2, FinishType DEF Commit, TypeOK
  <2>3. CASE ~Owned(w) BY <1>10, <2>3, FinishType DEF Commit, TypeOK
  <2> QED BY <2>2, <2>3
<1>11. CASE HandleFailure(w)
  <2>1. JobRow("QUEUED", job.attempts, NoOne, "none", FALSE, job.late) \in JobRows
    BY RowTypes DEF JobRow, JobRows
  <2> QED
    BY <1>11, <2>1, FinalizeType, FinishType, RowTypes DEF HandleFailure, TypeOK
<1>12. CASE LockConsent(w)
  <2>1. CASE Owned(w)
    BY <1>12, <2>1, SessionTypes DEF LockConsent, TypeOK
  <2>2. CASE ~Owned(w) BY <1>12, <2>2, FinishType DEF LockConsent, TypeOK
  <2> QED BY <2>1, <2>2
<1>13. CASE Renew(w) BY <1>13, SessionTypes, RowTypes DEF Renew, TypeOK
<1>14. CASE Fail(w) BY <1>14, ReleasedType, SessionTypes DEF Fail, TypeOK
<1>15. CASE Crash(w)
  <2>1. stray' \in SUBSET (0..MaxRuns)
    BY <1>15, LeavesType DEF Crash, TypeOK
  <2> QED BY <1>15, <2>1, FinishType, BoundsAreNaturals DEF Crash, TypeOK
<1>16. CASE CallRaises(w)
  BY <1>16, ReleasedType, SessionTypes, LeavesType DEF CallRaises, TypeOK
<1>17. CASE LoadFails(w)
  BY <1>17, SessionTypes, BoundsAreNaturals DEF LoadFails, TypeOK
<1> QED
  BY <1>1, <1>2, <1>3, <1>4, <1>5, <1>6, <1>7, <1>8, <1>9, <1>10, <1>11, <1>12,
     <1>13, <1>14, <1>15, <1>16, <1>17 DEF WorkerStep

LEMMA RequestType ==
    ASSUME TypeOK, NEW s \in Scan,
           \/ CreateRead(s) \/ RequestStep(s) \/ DeleteFlush(s) \/ DeleteLock(s)
           \/ RequestFails(s) \/ ScanExpires(s)
    PROVE  TypeOK'
<1>1. CASE CreateRead(s)
  <2>1. Request("creating", IF RunExists THEN run.id ELSE 0, run.status, 0, "none")
           \in Requests
    BY RowTypes, BoundsAreNaturals DEF Request, Requests
  <2> QED BY <1>1, <2>1 DEF CreateRead, TypeOK
<1>2. CASE CreatePlan(s)
  <2>1. PlanFor(s) \in Plans
    BY DEF PlanFor
  <2>2. Request("planned", rq[s].run, rq[s].status,
                IF rq[s].run = run.id THEN job.attempts ELSE 0, PlanFor(s))
           \in Requests
    BY <2>1, RowTypes, RequestTypes DEF Request, Requests
  <2> QED BY <1>2, <2>2 DEF CreatePlan, TypeOK
<1>3. CASE CreateCommit(s)
  <2>1. run' \in RunRows
    <3>1. CASE rq[s].run = 0
      <4>1. run.id < MaxRuns /\ run.id \in Nat
        BY <1>3, <3>1, RowTypes DEF CreateCommit
      <4>2. run.id + 1 \in 0..MaxRuns
        BY <4>1, BoundsAreNaturals
      <4> QED BY <1>3, <3>1, <4>2 DEF CreateCommit, RunRow, RunRows
    <3>2. CASE rq[s].run # 0
      BY <1>3, <3>2, RowTypes DEF CreateCommit, Becomes, Written
    <3> QED BY <3>1, <3>2
  <2>2. job' \in JobRows
    <3>1. Requeued(rq[s].attempts) \in JobRows
      BY RowTypes, RequestTypes DEF Requeued, JobRow, JobRows, Written
    <3> QED BY <1>3, <3>1, RowTypes DEF CreateCommit, TypeOK
  <2>3. rounds' \in Nat
    BY <1>3 DEF CreateCommit, TypeOK
  <2> QED BY <1>3, <2>1, <2>2, <2>3, RequestTypes DEF CreateCommit, TypeOK
<1>4. CASE CreateConflict(s) BY <1>4, RequestTypes DEF CreateConflict, TypeOK
<1>5. CASE DeleteFlush(s) BY <1>5, RequestTypes DEF DeleteFlush, TypeOK
<1>6. CASE DeleteLock(s) BY <1>6, RequestTypes DEF DeleteLock, TypeOK
<1>7. CASE DeleteCommit(s)
  <2>1. run' \in RunRows /\ job' \in JobRows
    BY <1>7, RowTypes DEF DeleteCommit, Becomes, TypeOK
  <2> QED BY <1>7, <2>1, RequestTypes, ReleasedType DEF DeleteCommit, TypeOK
<1>8. CASE RequestFails(s)
  BY <1>8, ReleasedType, RequestTypes, BoundsAreNaturals DEF RequestFails, TypeOK
<1>9. CASE ScanExpires(s) BY <1>9 DEF ScanExpires, TypeOK
<1> QED
  BY <1>1, <1>2, <1>3, <1>4, <1>5, <1>6, <1>7, <1>8, <1>9 DEF RequestStep

LEMMA EnvironmentType ==
    ASSUME TypeOK,
           \/ Cleanup \/ StrayEnds \/ EvidenceExpires \/ BecomeDue \/ DeadlinePasses
           \/ LeaseAges \/ LeaseRunsOut \/ LeaseOverslept
    PROVE  TypeOK'
<1>1. CASE Cleanup
  <2> DEFINE due == {s \in Scan : scan[s] \in {"expired", "withdrawn"}}
             orphaned == \A s \in Scan \ due : ~RowPresent(s)
  <2>1. run' \in RunRows
    BY <1>1, RowTypes DEF Cleanup, Becomes
  <2>2. job' = NoJob \/ job' = job
    BY <1>1 DEF Cleanup
  <2>3. scan' \in [Scan -> ScanPhase]
    BY <1>1 DEF Cleanup, TypeOK
  <2>4. final' \in {"none", "fresh", "stale"} /\ rounds' \in Nat /\ finals' \in Nat
    BY <1>1 DEF Cleanup, TypeOK
  <2> QED BY <1>1, <2>1, <2>2, <2>3, <2>4, RowTypes DEF Cleanup, TypeOK
<1>2. CASE EvidenceExpires BY <1>2 DEF EvidenceExpires, TypeOK
<1>3. CASE BecomeDue BY <1>3, RowTypes DEF BecomeDue, TypeOK, JobRow, JobRows
<1>4. CASE DeadlinePasses
  BY <1>4, RowTypes DEF DeadlinePasses, TypeOK, JobRow, JobRows
<1>5. CASE LeaseAges BY <1>5, RowTypes DEF LeaseAges, TypeOK
<1>6. CASE LeaseRunsOut BY <1>6, RowTypes DEF LeaseRunsOut, TypeOK
<1>7. CASE LeaseOverslept
  BY <1>7, RowTypes, BoundsAreNaturals DEF LeaseOverslept, TypeOK
<1>8. CASE StrayEnds BY <1>8 DEF StrayEnds, TypeOK
<1> QED BY <1>1, <1>2, <1>3, <1>4, <1>5, <1>6, <1>7, <1>8

LEMMA TypeNext == TypeOK /\ [Next]_vars => TypeOK'
<1> SUFFICES ASSUME TypeOK, [Next]_vars PROVE TypeOK'
  OBVIOUS
<1>1. CASE Next BY <1>1, WorkerType, RequestType, EnvironmentType DEF Next
<1>2. CASE UNCHANGED vars BY <1>2 DEF vars, TypeOK
<1> QED BY <1>1, <1>2

\* The variables keep their types whatever the number of workers, scans, runs
\* and faults; in particular attempts never leaves the naturals, however
\* requests and leases interleave (EnrichmentQueue's TypeOK).
THEOREM TypeCorrect == Spec => []TypeOK
  BY TypeInit, TypeNext, PTL DEF Spec

----------------------------------------------------------------------------
(* What the steps of a worker, of a request and of time leave alone.       *)

\* A lock changes hands only between its holder and nobody.
Exchanges(p) ==
    \A r \in RunIds :
       \/ consent'[r] = consent[r]
       \/ consent[r] = p /\ consent'[r] = NoOne
       \/ consent[r] = NoOne /\ consent'[r] = p

KeepsJob == job'.state = "absent" <=> job.state = "absent"

WorkerFrame(w) ==
    /\ scan' = scan /\ rq' = rq
    /\ run'.id = run.id /\ (RunExists' <=> RunExists)
    /\ KeepsJob
    /\ \A v \in Worker \ {w} : wk'[v] = wk[v]
    /\ Exchanges(w)

LEMMA ReleasedExchanges ==
    ASSUME TypeOK, NEW p, consent' = Released(p)
    PROVE  Exchanges(p) /\ \A r \in RunIds : consent'[r] # p \/ p = NoOne
  BY DEF TypeOK, Released, Exchanges

LEMMA FinishFrame ==
    ASSUME TypeOK, NEW w \in Worker, Finish(w)
    PROVE  /\ \A v \in Worker \ {w} : wk'[v] = wk[v]
           /\ wk'[w] = IdleWorker
           /\ Exchanges(w)
  BY ReleasedExchanges DEF Finish, TypeOK

LEMMA CancelFrame ==
    ASSUME TypeOK, NEW w \in Worker, CancelJob(w), RunExists, job.state # "absent"
    PROVE  run'.id = run.id /\ RunExists' /\ KeepsJob
  BY DEF CancelJob, Becomes, RunRow, RunExists, Settled, JobRow, KeepsJob

LEMMA FinalizeFrame ==
    ASSUME TypeOK, NEW status, FinalizeMissing(status), RunExists,
           job.state # "absent"
    PROVE  run'.id = run.id /\ RunExists' /\ KeepsJob
  BY DEF FinalizeMissing, Becomes, RunRow, RunExists, Settled, JobRow, KeepsJob,
         Written

LEMMA OwnedExists ==
    ASSUME TypeOK, RowInv, NEW w \in Worker, Owned(w)
    PROVE  RunExists /\ job.state # "absent"
  BY DEF RowInv, Owned

LEMMA WorkerFrames ==
    ASSUME TypeOK, RowInv, NEW w \in Worker,
           \/ Lease(w) \/ WorkerStep(w) \/ LockConsent(w)
           \/ Renew(w) \/ CallRaises(w) \/ LoadFails(w) \/ Fail(w) \/ Crash(w)
    PROVE  WorkerFrame(w)
<1> USE DEF WorkerFrame
<1>1. CASE Lease(w)
  BY <1>1 DEF Lease, Leasable, KeepsJob, JobRow, RunExists, Exchanges, TypeOK
<1>2. CASE Load(w) BY <1>2 DEF Load, KeepsJob, RunExists, Exchanges, TypeOK
<1>3. CASE Assess(w) BY <1>3 DEF Assess, KeepsJob, RunExists, Exchanges, TypeOK
<1>4. CASE Cancel(w)
  <2>1. CASE Owned(w)
    BY <1>4, <2>1, OwnedExists, CancelFrame, FinishFrame DEF Cancel
  <2>2. CASE ~Owned(w) BY <1>4, <2>2, FinishFrame DEF Cancel, KeepsJob, RunExists
  <2> QED BY <2>1, <2>2
<1>5. CASE FinalizeLate(w)
  <2>1. CASE Owned(w)
    BY <1>5, <2>1, OwnedExists, FinalizeFrame, FinishFrame DEF FinalizeLate
  <2>2. CASE ~Owned(w)
    BY <1>5, <2>2, FinishFrame DEF FinalizeLate, KeepsJob, RunExists
  <2> QED BY <2>1, <2>2
<1>6. CASE ConsumeQuota(w)
  BY <1>6 DEF ConsumeQuota, KeepsJob, RunExists, Exchanges, TypeOK
<1>7. CASE Recheck(w) BY <1>7 DEF Recheck, KeepsJob, RunExists, Exchanges, TypeOK
<1>8. CASE Abandon(w)
  <2>1. CASE RunExists /\ wk[w].run = run.id /\ job.state # "absent"
    BY <1>8, <2>1, CancelFrame, FinishFrame DEF Abandon
  <2>2. CASE ~(RunExists /\ wk[w].run = run.id /\ job.state # "absent")
    BY <1>8, <2>2, FinishFrame DEF Abandon, KeepsJob, RunExists
  <2> QED BY <2>1, <2>2
<1>9. CASE Answer(w) BY <1>9 DEF Answer, KeepsJob, RunExists, Exchanges, TypeOK
<1>10. CASE Commit(w)
  <2>1. CASE Owned(w)
    <3>1. run'.id = run.id /\ RunExists' /\ job' = Settled("COMPLETE")
      BY <1>10, <2>1, OwnedExists
         DEF Commit, Becomes, RunRow, RunExists, Written
    <3> QED
      BY <1>10, <2>1, <3>1, OwnedExists, FinishFrame
         DEF Commit, Settled, JobRow, KeepsJob
  <2>2. CASE ~Owned(w) BY <1>10, <2>2, FinishFrame DEF Commit, KeepsJob, RunExists
  <2> QED BY <2>1, <2>2
<1>11. CASE HandleFailure(w)
  <2>1. CASE Owned(w) /\ job.attempts < RetryLimit
    BY <1>11, <2>1, OwnedExists, FinishFrame, RowTypes
       DEF HandleFailure, KeepsJob, JobRow, RunExists, RetryLimit
  <2>2. CASE Owned(w) /\ job.attempts >= RetryLimit
    <3>1. /\ job' = Settled("COMPLETE")
          /\ Becomes(Written(run.status, "PARTIAL", run.status))
      <4>1. ~(job.attempts < RetryLimit)
        BY <2>2, RowTypes DEF RetryLimit
      <4> QED BY <1>11, <2>2, <4>1 DEF HandleFailure, FinalizeMissing
    <3>2. run'.id = run.id /\ RunExists' /\ KeepsJob
      BY <2>2, <3>1, OwnedExists
         DEF Becomes, Written, RunRow, RunExists, Settled, JobRow, KeepsJob
    <3> QED BY <1>11, <2>2, <3>2, OwnedExists, FinishFrame DEF HandleFailure
  <2>3. CASE ~Owned(w)
    BY <1>11, <2>3, FinishFrame DEF HandleFailure, KeepsJob, RunExists
  <2> QED BY <2>1, <2>2, <2>3, RowTypes DEF RetryLimit
<1>12. CASE LockConsent(w)
  <2>1. CASE Owned(w)
    BY <1>12, <2>1 DEF LockConsent, KeepsJob, RunExists, Exchanges, TypeOK
  <2>2. CASE ~Owned(w)
    BY <1>12, <2>2, FinishFrame DEF LockConsent, KeepsJob, RunExists
  <2> QED BY <2>1, <2>2
<1>13. CASE Renew(w)
  BY <1>13 DEF Renew, Lasting, JobRow, KeepsJob, RunExists, Exchanges, TypeOK
<1>14. CASE Fail(w)
  BY <1>14, ReleasedExchanges DEF Fail, KeepsJob, RunExists, TypeOK
<1>15. CASE Crash(w) BY <1>15, FinishFrame DEF Crash, KeepsJob, RunExists
<1>16. CASE CallRaises(w)
  BY <1>16, ReleasedExchanges DEF CallRaises, KeepsJob, RunExists, TypeOK
<1>17. CASE LoadFails(w)
  BY <1>17 DEF LoadFails, KeepsJob, RunExists, Exchanges, TypeOK
<1> QED
  BY <1>1, <1>2, <1>3, <1>4, <1>5, <1>6, <1>7, <1>8, <1>9, <1>10, <1>11, <1>12,
     <1>13, <1>14, <1>15, <1>16, <1>17 DEF WorkerStep

RequestFrame(s) ==
    /\ wk' = wk
    /\ \A t \in Scan \ {s} : scan'[t] = scan[t] /\ rq'[t] = rq[t]
    /\ Exchanges(s)

LEMMA RequestFrames ==
    ASSUME TypeOK, NEW s \in Scan,
           \/ CreateRead(s) \/ RequestStep(s) \/ DeleteFlush(s) \/ DeleteLock(s)
           \/ RequestFails(s) \/ ScanExpires(s)
    PROVE  RequestFrame(s)
<1> USE DEF RequestFrame
<1>1. CASE CreateRead(s) BY <1>1 DEF CreateRead, Exchanges, TypeOK
<1>2. CASE CreatePlan(s) BY <1>2 DEF CreatePlan, Exchanges, TypeOK
<1>3. CASE CreateCommit(s)
  <2>1. /\ wk' = wk /\ consent' = consent
        /\ scan' = [scan EXCEPT ![s] = "active"]
        /\ rq' = [rq EXCEPT ![s] = NoRequest]
    BY <1>3 DEF CreateCommit
  <2> QED BY <2>1 DEF Exchanges, TypeOK
<1>4. CASE CreateConflict(s) BY <1>4 DEF CreateConflict, Exchanges, TypeOK
<1>5. CASE DeleteFlush(s) BY <1>5 DEF DeleteFlush, Exchanges, TypeOK
<1>6. CASE DeleteLock(s) BY <1>6 DEF DeleteLock, Exchanges, TypeOK
<1>7. CASE DeleteCommit(s) BY <1>7, ReleasedExchanges DEF DeleteCommit, TypeOK
<1>8. CASE RequestFails(s) BY <1>8, ReleasedExchanges DEF RequestFails, TypeOK
<1>9. CASE ScanExpires(s) BY <1>9 DEF ScanExpires, Exchanges, TypeOK
<1> QED
  BY <1>1, <1>2, <1>3, <1>4, <1>5, <1>6, <1>7, <1>8, <1>9 DEF RequestStep

LEMMA TimeFrames ==
    ASSUME TypeOK,
           \/ StrayEnds \/ EvidenceExpires \/ BecomeDue \/ DeadlinePasses
           \/ LeaseAges \/ LeaseRunsOut \/ LeaseOverslept
    PROVE  UNCHANGED <<run, scan, consent, wk, rq>> /\ KeepsJob
  BY DEF StrayEnds, EvidenceExpires, BecomeDue, DeadlinePasses, LeaseAges, LeaseRunsOut,
         LeaseOverslept, Lasting, JobRow, KeepsJob

----------------------------------------------------------------------------
(* The rows.                                                               *)

LEMMA RowNext ==
    ASSUME ConsentLockHeld, Next
    PROVE  RowInv'
<1> USE DEF ConsentLockHeld
<1>1. ASSUME NEW w \in Worker, WorkerFrame(w) PROVE RowInv'
  BY <1>1 DEF WorkerFrame, RowInv, RowPresent, KeepsJob
<1>2. ASSUME NEW s \in Scan, UNCHANGED <<run, job, scan>> PROVE RowInv'
  BY <1>2 DEF RowInv, RowPresent, RunExists
<1>3. ASSUME NEW s \in Scan, CreateCommit(s) PROVE RowInv'
  <2>1. CASE rq[s].run = 0
    <3>1. run'.id \in RunIds /\ RunExists'
      BY <1>3, <2>1, RowTypes, BoundsAreNaturals
         DEF CreateCommit, RunRow, RunExists, RunIds
    <3> QED BY <3>1 DEF RowInv
  <2>2. CASE rq[s].run # 0
    <3>1. RunExists
      BY <1>3, <2>2 DEF CreateCommit, Conflicts
    <3>2. run'.id = run.id /\ RunExists'
      BY <1>3, <2>2, <3>1
         DEF CreateCommit, Becomes, Written, RunRow, RunExists
    <3> QED BY <3>1, <3>2 DEF RowInv
  <2> QED BY <2>1, <2>2
<1>4. ASSUME NEW s \in Scan, DeleteCommit(s) PROVE RowInv'
  <2>1. run'.id = run.id /\ (RunExists' <=> RunExists)
    BY <1>4 DEF DeleteCommit, Becomes, RunRow, RunExists, RowInv
  <2>2. KeepsJob
    BY <1>4 DEF DeleteCommit, Settled, JobRow, KeepsJob
  <2>3. \A t \in Scan : RowPresent(t)' => RowPresent(t)
    BY <1>4 DEF DeleteCommit, RowPresent, RequestInv, TypeOK
  <2> QED BY <2>1, <2>2, <2>3 DEF RowInv, KeepsJob
<1>5. ASSUME NEW s \in Scan, ScanExpires(s) PROVE RowInv'
  <2>1. \A t \in Scan : RowPresent(t)' => RowPresent(t)
    BY <1>5 DEF ScanExpires, RowPresent, TypeOK
  <2> QED BY <1>5, <2>1 DEF ScanExpires, RowInv, RunExists
<1>6. CASE Cleanup
  <2> DEFINE due == {s \in Scan : scan[s] \in {"expired", "withdrawn"}}
             orphaned == \A s \in Scan \ due : ~RowPresent(s)
  <2>1. \A s \in Scan : RowPresent(s)' => RowPresent(s) /\ s \notin due
    BY <1>6 DEF Cleanup, RowPresent, TypeOK
  <2>2. CASE orphaned
    <3>1. ~RunExists' /\ job'.state = "absent"
      BY <1>6, <2>2 DEF Cleanup, Becomes, RunRow, RunExists, NoJob, JobRow
    <3> QED BY <2>1, <2>2, <3>1 DEF RowInv
  <2>3. CASE ~orphaned
    <3>1. run'.id = run.id /\ (RunExists' <=> RunExists) /\ job' = job
      BY <1>6, <2>3 DEF Cleanup, Becomes, RunRow, RunExists
    <3> QED BY <2>1, <3>1 DEF RowInv
  <2> QED BY <2>2, <2>3
<1>7. ASSUME UNCHANGED <<run, scan>>, KeepsJob PROVE RowInv'
  BY <1>7 DEF RowInv, RowPresent, RunExists, KeepsJob
<1>8. ASSUME NEW s \in Scan,
             \/ CreateRead(s) \/ CreatePlan(s) \/ CreateConflict(s)
             \/ DeleteFlush(s) \/ DeleteLock(s) \/ RequestFails(s)
      PROVE  UNCHANGED <<run, job, scan>>
  BY <1>8 DEF CreateRead, CreatePlan, CreateConflict, DeleteFlush, DeleteLock,
              RequestFails
<1> QED
  BY <1>1, <1>2, <1>3, <1>4, <1>5, <1>6, <1>7, <1>8, WorkerFrames, TimeFrames
     DEF Next, RequestStep

----------------------------------------------------------------------------
(* The lock: those past it keep it, and nobody else gets it.               *)

PastLock == {"locked", "abandoning", "outbound", "answered"}

\* What HolderInv says of one worker.
Holds(w) ==
    /\ wk[w].run <= run.id
    /\ wk[w].pc \notin {"idle", "leased", "failed"} => wk[w].run \in RunIds
    /\ wk[w].pc \in PastLock => consent[wk[w].run] = w

\* What RequestInv says of one request.
Asks(s) ==
    /\ rq[s].pc \in {"creating", "planned"} => scan[s] = "new"
    /\ rq[s].pc \in {"deleting", "withdrawing", "cancelling"} =>
          scan[s] \in {"active", "expired"}
    /\ rq[s].pc \in {"withdrawing", "cancelling"} => consent[run.id] = s

\* The worker that takes a step: the lock is taken in LockConsent, given back
\* where the session ends.
LEMMA ActorHolds ==
    ASSUME ConsentLockHeld, NEW w \in Worker,
           \/ Lease(w) \/ WorkerStep(w) \/ LockConsent(w)
           \/ Renew(w) \/ CallRaises(w) \/ LoadFails(w) \/ Fail(w) \/ Crash(w)
    PROVE  Holds(w)'
<1> USE DEF ConsentLockHeld, Holds, PastLock
<1>1. Holds(w) /\ run.id \in Nat /\ wk[w].run \in Nat
  BY RowTypes, SessionTypes, BoundsAreNaturals DEF HolderInv
<1>2. run'.id = run.id
  BY WorkerFrames DEF WorkerFrame
<1>3. ASSUME NEW pc \in WorkerPC, wk' = [wk EXCEPT ![w] = At(w, pc)]
      PROVE  wk'[w].run = wk[w].run /\ wk'[w].pc = pc
  BY <1>3 DEF At, Session, TypeOK
<1>4. ASSUME Finish(w) PROVE Holds(w)'
  BY <1>1, <1>2, <1>4, FinishFrame DEF IdleWorker, Session
<1>5. CASE Lease(w) BY <1>1, <1>2, <1>3, <1>5 DEF Lease
<1>6. CASE Load(w)
  <2>1. CASE job.state = "LEASED" /\ job.owner = w
    <3>1. run.id \in RunIds
      BY <2>1 DEF RowInv
    <3>2. wk'[w] = Session("loaded", run.id, run.status, FALSE)
      BY <1>6, <2>1 DEF Load, TypeOK
    <3> QED BY <1>1, <1>2, <3>1, <3>2 DEF Session
  <2>2. CASE ~(job.state = "LEASED" /\ job.owner = w)
    <3>1. wk'[w] = IdleWorker
      BY <1>6, <2>2 DEF Load, TypeOK
    <3> QED BY <1>1, <1>2, <3>1 DEF IdleWorker, Session
  <2> QED BY <2>1, <2>2
<1>7. CASE Assess(w) BY <1>1, <1>2, <1>3, <1>7 DEF Assess
<1>8. CASE ConsumeQuota(w)
  <2>1. wk'[w].run = wk[w].run /\ wk'[w].pc = "waiting"
    BY <1>8 DEF ConsumeQuota, Session, TypeOK
  <2> QED BY <1>1, <1>2, <1>8, <2>1 DEF ConsumeQuota
<1>9. CASE LockConsent(w)
  <2>1. CASE Owned(w)
    BY <1>1, <1>2, <1>3, <1>9, <2>1 DEF LockConsent, TypeOK
  <2>2. CASE ~Owned(w) BY <1>4, <1>9, <2>2 DEF LockConsent
  <2> QED BY <2>1, <2>2
<1>10. CASE Recheck(w)
  <2>1. /\ wk'[w].run = wk[w].run
        /\ wk'[w].pc \in {"outbound", "abandoning"}
    BY <1>10 DEF Recheck, At, Session, TypeOK
  <2> QED BY <1>1, <1>2, <1>10, <2>1 DEF Recheck
<1>11. CASE Answer(w) BY <1>1, <1>2, <1>3, <1>11 DEF Answer
<1>12. CASE Renew(w)
  <2>1. wk'[w].run = wk[w].run /\ wk'[w].pc = wk[w].pc
    BY <1>3, <1>12 DEF Renew
  <2> QED BY <1>1, <1>2, <1>12, <2>1 DEF Renew
<1>13. CASE Fail(w) \/ CallRaises(w)
  BY <1>1, <1>2, <1>3, <1>13 DEF Fail, CallRaises
<1>14. CASE LoadFails(w)
  <2>1. wk'[w] = IdleWorker
    BY <1>14 DEF LoadFails, TypeOK
  <2> QED BY <1>1, <1>2, <2>1 DEF IdleWorker, Session
<1> QED
  BY <1>4, <1>5, <1>6, <1>7, <1>8, <1>9, <1>10, <1>11, <1>12, <1>13, <1>14
     DEF WorkerStep, Cancel, FinalizeLate, Abandon, Commit, HandleFailure, Crash

LEMMA ActorAsks ==
    ASSUME ConsentLockHeld, NEW s \in Scan,
           \/ CreateRead(s) \/ RequestStep(s) \/ DeleteFlush(s) \/ DeleteLock(s)
           \/ RequestFails(s) \/ ScanExpires(s)
    PROVE  Asks(s)'
<1> USE DEF ConsentLockHeld, Asks
<1>1. Asks(s)
  BY DEF RequestInv
<1>2. ASSUME rq'[s] = NoRequest PROVE Asks(s)'
  BY <1>2 DEF NoRequest, Request
<1>3. ASSUME NEW pc \in RequestPC, rq' = [rq EXCEPT ![s] = Asking(s, pc)]
      PROVE  rq'[s].pc = pc
  BY <1>3 DEF Asking, Request, TypeOK
<1>4. CASE CreateRead(s)
  <2>1. rq'[s].pc = "creating"
    BY <1>4 DEF CreateRead, Request, TypeOK
  <2> QED BY <1>4, <2>1 DEF CreateRead
<1>5. CASE CreatePlan(s)
  <2>1. rq'[s].pc = "planned"
    BY <1>5 DEF CreatePlan, Request, TypeOK
  <2> QED BY <1>1, <1>5, <2>1 DEF CreatePlan
<1>6. CASE DeleteFlush(s) BY <1>3, <1>6 DEF DeleteFlush
<1>7. CASE DeleteLock(s)
  <2>1. rq'[s].pc \in {"withdrawing", "cancelling"} /\ run' = run /\ scan' = scan
    BY <1>3, <1>7 DEF DeleteLock
  <2>2. run.id \in RunIds
    BY <1>1, <1>7 DEF DeleteLock, RowInv, RowPresent
  <2>3. consent'[run.id] = s
    BY <1>7, <2>2 DEF DeleteLock, TypeOK
  <2> QED BY <1>1, <1>7, <2>1, <2>3 DEF DeleteLock
<1>8. CASE ScanExpires(s)
  BY <1>1, <1>8 DEF ScanExpires, TypeOK
<1>9. CASE CreateCommit(s) \/ CreateConflict(s) \/ DeleteCommit(s) \/ RequestFails(s)
  <2>1. rq' = [rq EXCEPT ![s] = NoRequest]
    BY <1>9 DEF CreateCommit, CreateConflict, DeleteCommit, RequestFails
  <2> QED BY <1>2, <2>1 DEF TypeOK
<1> QED
  BY <1>4, <1>5, <1>6, <1>7, <1>8, <1>9 DEF RequestStep

\* Only a creation that found no run gives the URL another one.
LEMMA RunKept ==
    ASSUME ConsentLockHeld, NEW s \in Scan,
           \/ CreateRead(s) \/ RequestStep(s) \/ DeleteFlush(s) \/ DeleteLock(s)
           \/ RequestFails(s) \/ ScanExpires(s)
    PROVE  /\ run'.id \in Nat /\ run.id <= run'.id
           /\ RunExists => run'.id = run.id
<1>1. run.id \in Nat
  BY RowTypes DEF ConsentLockHeld
<1>2. CASE CreateCommit(s)
  <2>1. CASE rq[s].run = 0
    <3>1. run'.id = run.id + 1 /\ ~RunExists
      BY <1>2, <2>1 DEF CreateCommit, Conflicts, RunRow
    <3> QED BY <1>1, <3>1
  <2>2. CASE rq[s].run # 0
    BY <1>1, <1>2, <2>2 DEF CreateCommit, Becomes, RunRow
  <2> QED BY <2>1, <2>2
<1>3. CASE DeleteCommit(s)
  BY <1>1, <1>3 DEF DeleteCommit, Becomes, RunRow
<1>4. CASE \/ CreateRead(s) \/ CreatePlan(s) \/ CreateConflict(s)
           \/ DeleteFlush(s) \/ DeleteLock(s) \/ RequestFails(s) \/ ScanExpires(s)
  BY <1>1, <1>4 DEF CreateRead, CreatePlan, CreateConflict, DeleteFlush,
                    DeleteLock, RequestFails, ScanExpires
<1> QED BY <1>2, <1>3, <1>4 DEF RequestStep

\* The cleanup touches no request, no lock and no scan with a request.
LEMMA CleanupFrame ==
    ASSUME TypeOK, Cleanup
    PROVE  /\ UNCHANGED <<consent, wk, rq>> /\ run'.id = run.id
           /\ \A s \in Scan : rq[s].pc # "none" => scan'[s] = scan[s]
           /\ \A s \in Scan :
                 \/ scan'[s] = scan[s]
                 \/ scan[s] = "expired" /\ scan'[s] = "purged"
                 \/ scan[s] = "withdrawn" /\ scan'[s] = "erased"
  BY DEF Cleanup, Becomes, RunRow, TypeOK

LEMMA HolderNext ==
    ASSUME ConsentLockHeld, Next
    PROVE  HolderInv'
<1> USE DEF ConsentLockHeld, PastLock
<1>1. ASSUME NEW v \in Worker,
             \/ Lease(v) \/ WorkerStep(v) \/ LockConsent(v)
             \/ Renew(v) \/ CallRaises(v) \/ LoadFails(v) \/ Fail(v) \/ Crash(v)
      PROVE  HolderInv'
  <2>1. WorkerFrame(v) /\ Holds(v)'
    BY <1>1, WorkerFrames, ActorHolds
  <2>2. ASSUME NEW w \in Worker \ {v} PROVE Holds(w)'
    <3>1. wk'[w] = wk[w] /\ run'.id = run.id
      BY <2>1 DEF WorkerFrame
    <3>2. wk[w].pc \in PastLock => consent'[wk[w].run] = w
      BY <2>1, HoldersAreDistinct DEF WorkerFrame, Exchanges, HolderInv
    <3> QED BY <3>1, <3>2 DEF Holds, HolderInv
  <2> QED BY <2>1, <2>2 DEF Holds, HolderInv
<1>2. ASSUME NEW s \in Scan,
             \/ CreateRead(s) \/ RequestStep(s) \/ DeleteFlush(s) \/ DeleteLock(s)
             \/ RequestFails(s) \/ ScanExpires(s)
      PROVE  HolderInv'
  <2>1. RequestFrame(s) /\ run.id <= run'.id /\ run.id \in Nat /\ run'.id \in Nat
    BY <1>2, RequestFrames, RunKept, RowTypes
  <2>2. ASSUME NEW w \in Worker PROVE Holds(w)'
    <3>1. wk'[w] = wk[w] /\ wk[w].run \in Nat
      BY <2>1, SessionTypes, BoundsAreNaturals DEF RequestFrame
    <3>2. wk[w].pc \in PastLock => consent'[wk[w].run] = w
      BY <2>1, HoldersAreDistinct DEF RequestFrame, Exchanges, HolderInv
    <3> QED BY <2>1, <3>1, <3>2 DEF Holds, HolderInv
  <2> QED BY <2>2 DEF Holds, HolderInv
<1>3. CASE Cleanup BY <1>3, CleanupFrame DEF HolderInv
<1>4. CASE UNCHANGED <<run, consent, wk>> BY <1>4 DEF HolderInv
<1> QED BY <1>1, <1>2, <1>3, <1>4, TimeFrames DEF Next

LEMMA RequestNext ==
    ASSUME ConsentLockHeld, Next
    PROVE  RequestInv'
<1> USE DEF ConsentLockHeld
<1>1. \A s \in Scan : rq[s].pc \in {"withdrawing", "cancelling"} =>
          RunExists /\ run.id \in RunIds
  BY DEF RequestInv, RowInv, RowPresent
<1>2. ASSUME NEW w \in Worker,
             \/ Lease(w) \/ WorkerStep(w) \/ LockConsent(w)
             \/ Renew(w) \/ CallRaises(w) \/ LoadFails(w) \/ Fail(w) \/ Crash(w)
      PROVE  RequestInv'
  <2>1. WorkerFrame(w)
    BY <1>2, WorkerFrames
  <2>2. ASSUME NEW s \in Scan, rq[s].pc \in {"withdrawing", "cancelling"}
        PROVE  consent'[run.id] = s
    BY <1>1, <2>1, <2>2, HoldersAreDistinct DEF WorkerFrame, Exchanges, RequestInv
  <2> QED BY <2>1, <2>2 DEF WorkerFrame, RequestInv
<1>3. ASSUME NEW s \in Scan,
             \/ CreateRead(s) \/ RequestStep(s) \/ DeleteFlush(s) \/ DeleteLock(s)
             \/ RequestFails(s) \/ ScanExpires(s)
      PROVE  RequestInv'
  <2>1. RequestFrame(s) /\ Asks(s)' /\ (RunExists => run'.id = run.id)
    BY <1>3, RequestFrames, ActorAsks, RunKept
  <2>2. ASSUME NEW t \in Scan \ {s} PROVE Asks(t)'
    <3>1. rq'[t] = rq[t] /\ scan'[t] = scan[t]
      BY <2>1 DEF RequestFrame
    <3>2. rq[t].pc \in {"withdrawing", "cancelling"} => consent'[run'.id] = t
      BY <1>1, <2>1, HoldersAreDistinct DEF RequestFrame, Exchanges, RequestInv
    <3> QED BY <3>1, <3>2 DEF Asks, RequestInv
  <2> QED BY <2>1, <2>2 DEF Asks, RequestInv
<1>4. CASE Cleanup
  BY <1>4, CleanupFrame DEF RequestInv
<1>5. CASE UNCHANGED <<run, scan, consent, rq>> BY <1>5 DEF RequestInv
<1> QED BY <1>2, <1>3, <1>4, <1>5, TimeFrames DEF Next

----------------------------------------------------------------------------
(* Consent.                                                                *)

\* A deletion that commits holds the lock of the run, so nobody calls for it.
LEMMA NobodyCalls ==
    ASSUME ConsentLockHeld, NEW s \in Scan, DeleteCommit(s),
           NEW w \in Worker, OnCall(w)
    PROVE  wk[w].run # run.id
  BY HoldersAreDistinct
     DEF ConsentLockHeld, DeleteCommit, RequestInv, HolderInv, OnCall

Consents(t) == scan[t] \in {"active", "expired", "purged"}

LEMMA CallNext ==
    ASSUME ConsentLockHeld, Next
    PROVE  CallHasConsent'
<1> USE DEF ConsentLockHeld
<1>1. \A w \in Worker : OnCall(w) /\ wk[w].run = run.id =>
          \E t \in Enriched : Consents(t)
  BY DEF CallHasConsent, Consents
<1>2. ASSUME NEW w \in Worker,
             \/ Lease(w) \/ WorkerStep(w) \/ LockConsent(w)
             \/ Renew(w) \/ CallRaises(w) \/ LoadFails(w) \/ Fail(w) \/ Crash(w)
      PROVE  CallHasConsent'
  <2>1. WorkerFrame(w)
    BY <1>2, WorkerFrames
  <2>2. OnCall(w)' /\ wk'[w].run = run.id => \E t \in Enriched : Consents(t)
    <3>1. ASSUME NEW pc \in WorkerPC, pc # "outbound",
                 wk' = [wk EXCEPT ![w] = At(w, pc)]
          PROVE  ~OnCall(w)'
      BY <3>1 DEF At, Session, OnCall, TypeOK
    <3>2. ASSUME Finish(w) PROVE ~OnCall(w)'
      BY <3>2, FinishFrame DEF IdleWorker, Session, OnCall
    <3>3. CASE Renew(w)
      <4>1. wk'[w].run = wk[w].run /\ wk[w].pc = "outbound"
        BY <3>3 DEF Renew, At, Session, TypeOK
      <4> QED BY <1>1, <4>1 DEF OnCall
    <3>4. CASE Recheck(w)
      <4>1. CASE ActiveEnrichment(wk[w].run)
        BY <4>1 DEF ActiveEnrichment, Consenting, Consents
      <4>2. CASE ~ActiveEnrichment(wk[w].run)
        <5>1. wk' = [wk EXCEPT ![w] = At(w, "abandoning")]
          BY <3>4, <4>2 DEF Recheck
        <5> QED BY <3>1, <5>1
      <4> QED BY <4>1, <4>2
    <3>5. CASE Load(w) \/ LoadFails(w) \/ ConsumeQuota(w)
      BY <3>5 DEF Load, LoadFails, ConsumeQuota, IdleWorker, Session, OnCall, TypeOK
    <3>6. CASE Lease(w) \/ Assess(w) \/ Answer(w) \/ Fail(w) \/ CallRaises(w)
      BY <3>1, <3>6 DEF Lease, Assess, Answer, Fail, CallRaises
    <3>7. CASE LockConsent(w)
      BY <3>1, <3>2, <3>7 DEF LockConsent
    <3> QED
      BY <1>2, <3>2, <3>3, <3>4, <3>5, <3>6, <3>7
         DEF WorkerStep, Cancel, FinalizeLate, Abandon, Commit, HandleFailure, Crash
  <2> QED BY <1>1, <2>1, <2>2 DEF WorkerFrame, CallHasConsent, Consents, OnCall
<1>3. ASSUME NEW s \in Scan,
             \/ CreateRead(s) \/ RequestStep(s) \/ DeleteFlush(s) \/ DeleteLock(s)
             \/ RequestFails(s) \/ ScanExpires(s),
             NEW w \in Worker, OnCall(w)', wk'[w].run = run'.id
      PROVE  \E t \in Enriched : Consents(t)'
  <2>1. RequestFrame(s) /\ run.id <= run'.id /\ run.id \in Nat /\ run'.id \in Nat
    BY <1>3, RequestFrames, RunKept, RowTypes
  <2>2. wk[w].run = run.id /\ OnCall(w)
    BY <1>3, <2>1, SessionTypes, BoundsAreNaturals
       DEF RequestFrame, HolderInv, OnCall
  <2>3. PICK t \in Enriched : Consents(t)
    BY <1>1, <2>2
  <2>4. ~DeleteCommit(s)
    BY <2>2, NobodyCalls
  <2>5. scan'[s] = scan[s] \/ scan'[s] = "active" \/ scan'[s] = "expired"
    BY <1>3, <2>4
       DEF CreateRead, RequestStep, CreatePlan, CreateCommit, CreateConflict,
           DeleteFlush, DeleteLock, RequestFails, ScanExpires, TypeOK
  <2>6. Consents(t)'
    BY <2>1, <2>3, <2>5, EnrichedAreScans DEF Consents, RequestFrame
  <2> QED BY <2>6
<1>4. CASE Cleanup
  BY <1>1, <1>4, CleanupFrame, EnrichedAreScans
     DEF CallHasConsent, Consents, OnCall
<1>5. CASE UNCHANGED <<run, scan, wk>>
  BY <1>5 DEF CallHasConsent, OnCall
<1> QED
  BY <1>2, <1>3, <1>4, <1>5, TimeFrames DEF Next, CallHasConsent, Consents

LEMMA LockInit == Init => ConsentLockHeld
<1> SUFFICES ASSUME Init PROVE ConsentLockHeld
  OBVIOUS
<1>1. TypeOK
  BY TypeInit
<1>2. RowInv /\ RequestInv
  BY DEF Init, RowInv, RequestInv, RunExists, RowPresent, RunRow, NoJob, JobRow,
         NoRequest, Request
<1>3. HolderInv /\ CallHasConsent
  BY DEF Init, HolderInv, CallHasConsent, OnCall, IdleWorker, Session, RunRow
<1> QED BY <1>1, <1>2, <1>3 DEF ConsentLockHeld

LEMMA LockNext == ConsentLockHeld /\ [Next]_vars => ConsentLockHeld'
<1> SUFFICES ASSUME ConsentLockHeld, [Next]_vars PROVE ConsentLockHeld'
  OBVIOUS
<1>1. CASE Next
  BY <1>1, TypeNext, RowNext, RequestNext, HolderNext, CallNext
     DEF ConsentLockHeld
<1>2. CASE UNCHANGED vars
  <2>1. TypeOK' /\ RowInv'
    BY <1>2, TypeNext DEF vars, ConsentLockHeld, RowInv, RunExists, RowPresent
  <2>2. RequestInv' /\ HolderInv' /\ CallHasConsent'
    BY <1>2 DEF vars, ConsentLockHeld, RequestInv, HolderInv, CallHasConsent, OnCall
  <2> QED BY <2>1, <2>2 DEF ConsentLockHeld
<1> QED BY <1>1, <1>2

\* Whoever is past the consent lock holds it: workers in process_job until
\* their transaction ends, deletions in cancel_enrichment_if_unneeded.
THEOREM LockHeld == Spec => []ConsentLockHeld
  BY LockInit, LockNext, PTL DEF Spec

\* Any number of workers may steal leases, crash and fail, and no two sessions
\* wait for calls of one run at a time (process_job between the lock and the
\* commit).  A call left behind by a session that is gone is not counted.
THEOREM CallsSerialized == Spec => []OneCallPerRun
<1>1. ConsentLockHeld => OneCallPerRun
  BY DEF ConsentLockHeld, HolderInv, OneCallPerRun, OnCall
<1> QED BY <1>1, LockHeld, PTL

\* While a session waits for a call for the present run there is somebody who
\* consented to it and has not withdrawn (the check under the lock, and deletion
\* waiting for the session, though not for what it leaves behind).
THEOREM CallsConsented == Spec => []CallHasConsent
<1>1. ConsentLockHeld => CallHasConsent
  BY DEF ConsentLockHeld
<1> QED BY <1>1, LockHeld, PTL

LEMMA WithdrawalWaits ==
    ASSUME ConsentLockHeld, [Next]_vars, NEW s \in Scan,
           scan[s] # "withdrawn", scan'[s] = "withdrawn",
           NEW w \in Worker, OnCall(w)
    PROVE  wk[w].run # run.id
<1> USE DEF ConsentLockHeld
<1>1. CASE \E v \in Worker :
              \/ Lease(v) \/ WorkerStep(v) \/ LockConsent(v)
              \/ Renew(v) \/ CallRaises(v) \/ LoadFails(v) \/ Fail(v) \/ Crash(v)
  BY <1>1, WorkerFrames DEF WorkerFrame
<1>2. ASSUME NEW t \in Scan,
             \/ CreateRead(t) \/ RequestStep(t) \/ DeleteFlush(t) \/ DeleteLock(t)
             \/ RequestFails(t) \/ ScanExpires(t)
      PROVE  DeleteCommit(t)
  <2>1. s = t
    BY <1>2, RequestFrames DEF RequestFrame
  <2> QED
    BY <1>2, <2>1
       DEF CreateRead, RequestStep, CreatePlan, CreateCommit, CreateConflict,
           DeleteFlush, DeleteLock, RequestFails, ScanExpires, TypeOK
<1>3. CASE Cleanup BY <1>3, CleanupFrame
<1>4. CASE UNCHANGED scan BY <1>4
<1> QED BY <1>1, <1>2, <1>3, <1>4, NobodyCalls, TimeFrames DEF Next, vars

\* DELETE /scans/{id} waits for the session that calls for the run, however
\* sessions crash, fail and lose their leases: it never commits beside one.  A
\* call that is left behind it does not wait for (DeletionEndsCalls is violated).
THEOREM DeletionIsSafe == Spec => DeletionWaits
<1> DEFINE Waits == \A s \in Scan : scan[s] # "withdrawn" /\ scan'[s] = "withdrawn" =>
                       \A w \in Worker : OnCall(w) => wk[w].run # run.id
<1>1. ConsentLockHeld /\ [Next]_vars => [Waits]_vars
  BY WithdrawalWaits
<1> QED BY <1>1, LockHeld, PTL DEF Spec, DeletionWaits

----------------------------------------------------------------------------
(* The lock is given back.                                                 *)

UsedBy(r, w) == consent[r] = w /\ wk[w].pc \in PastLock /\ wk[w].run = r
AskedBy(r, s) ==
    /\ consent[r] = s /\ run.id = r
    /\ rq[s].pc \in {"withdrawing", "cancelling"}

\* The converse of ConsentLockHeld: a lock that is taken is in use, by one of
\* those past it, for the run they are at.
NoOrphanLock ==
    \A r \in RunIds :
       \/ consent[r] = NoOne
       \/ \E w \in Worker : UsedBy(r, w)
       \/ \E s \in Scan : AskedBy(r, s)

LEMMA OwnerUses ==
    ASSUME TypeOK, NoOrphanLock, NEW r \in RunIds
    PROVE  /\ \A w \in Worker : consent[r] = w => UsedBy(r, w)
           /\ \A s \in Scan : consent[r] = s => AskedBy(r, s)
  BY HoldersAreDistinct DEF NoOrphanLock, UsedBy, AskedBy

\* A worker's step leaves it no lock it does not use.
LEMMA WorkerGivesBack ==
    ASSUME ConsentLockHeld, NoOrphanLock, NEW w \in Worker,
           \/ Lease(w) \/ WorkerStep(w) \/ LockConsent(w)
           \/ Renew(w) \/ CallRaises(w) \/ LoadFails(w) \/ Fail(w) \/ Crash(w),
           NEW r \in RunIds, consent'[r] = w
    PROVE  UsedBy(r, w)'
<1> USE DEF ConsentLockHeld, PastLock
<1>1. consent[r] = w => UsedBy(r, w)
  BY OwnerUses
<1>2. ASSUME consent' = Released(w) PROVE FALSE
  BY <1>2, ReleasedExchanges, HoldersAreDistinct
<1>3. ASSUME NEW pc \in WorkerPC, wk' = [wk EXCEPT ![w] = At(w, pc)]
      PROVE  wk'[w].run = wk[w].run /\ wk'[w].pc = pc
  BY <1>3 DEF At, Session, TypeOK
<1>4. CASE Lease(w) \/ Load(w) \/ LoadFails(w) \/ Assess(w) \/ ConsumeQuota(w)
  BY <1>1, <1>4 DEF Lease, Load, LoadFails, Assess, ConsumeQuota, UsedBy
<1>5. CASE LockConsent(w)
  <2>1. CASE Owned(w)
    <3>1. r = wk[w].run
      BY <1>1, <1>5, <2>1 DEF LockConsent, UsedBy, TypeOK
    <3>2. wk'[w].run = r /\ wk'[w].pc = "locked"
      BY <1>3, <1>5, <2>1, <3>1 DEF LockConsent
    <3> QED BY <3>2 DEF UsedBy
  <2>2. CASE ~Owned(w) BY <1>2, <1>5, <2>2 DEF LockConsent, Finish
  <2> QED BY <2>1, <2>2
<1>6. CASE Recheck(w)
  <2>1. wk'[w].run = wk[w].run /\ wk'[w].pc \in {"outbound", "abandoning"}
    BY <1>6 DEF Recheck, At, Session, TypeOK
  <2> QED BY <1>1, <1>6, <2>1 DEF Recheck, UsedBy
<1>7. CASE Answer(w) BY <1>1, <1>3, <1>7 DEF Answer, UsedBy
<1>8. CASE Renew(w)
  <2>1. wk'[w].run = wk[w].run /\ wk'[w].pc = wk[w].pc
    BY <1>3, <1>8 DEF Renew
  <2> QED BY <1>1, <1>8, <2>1 DEF Renew, UsedBy
<1> QED
  BY <1>2, <1>4, <1>5, <1>6, <1>7, <1>8
     DEF WorkerStep, Cancel, FinalizeLate, Abandon, Commit, HandleFailure, Fail,
         CallRaises, Crash, Finish

\* Nor does a request's.
LEMMA RequestGivesBack ==
    ASSUME ConsentLockHeld, NoOrphanLock, NEW s \in Scan,
           \/ CreateRead(s) \/ RequestStep(s) \/ DeleteFlush(s) \/ DeleteLock(s)
           \/ RequestFails(s) \/ ScanExpires(s),
           NEW r \in RunIds, consent'[r] = s
    PROVE  AskedBy(r, s)'
<1> USE DEF ConsentLockHeld
<1>1. consent[r] = s => AskedBy(r, s)
  BY OwnerUses
<1>2. CASE DeleteCommit(s) \/ RequestFails(s)
  BY <1>2, ReleasedExchanges, HoldersAreDistinct DEF DeleteCommit, RequestFails
<1>3. CASE DeleteLock(s)
  <2>1. rq'[s].pc \in {"withdrawing", "cancelling"}
    BY <1>3 DEF DeleteLock, Asking, Request, TypeOK
  <2>2. r = run.id
    BY <1>1, <1>3 DEF DeleteLock, AskedBy, TypeOK
  <2> QED BY <1>3, <2>1, <2>2 DEF DeleteLock, AskedBy
<1>4. CASE ScanExpires(s) BY <1>1, <1>4 DEF ScanExpires, AskedBy
<1> QED
  BY <1>1, <1>2, <1>3, <1>4
     DEF RequestStep, CreateRead, CreatePlan, CreateCommit, CreateConflict,
         DeleteFlush, AskedBy

LEMMA OrphanNext == ConsentLockHeld /\ NoOrphanLock /\ [Next]_vars => NoOrphanLock'
<1> SUFFICES ASSUME ConsentLockHeld, NoOrphanLock, [Next]_vars,
                    NEW r \in RunIds, consent'[r] # NoOne
             PROVE  \/ \E w \in Worker : UsedBy(r, w)'
                    \/ \E s \in Scan : AskedBy(r, s)'
  BY DEF NoOrphanLock
<1> USE DEF ConsentLockHeld
<1>1. ASSUME NEW w \in Worker,
             \/ Lease(w) \/ WorkerStep(w) \/ LockConsent(w)
             \/ Renew(w) \/ CallRaises(w) \/ LoadFails(w) \/ Fail(w) \/ Crash(w)
      PROVE  \/ \E v \in Worker : UsedBy(r, v)'
             \/ \E s \in Scan : AskedBy(r, s)'
  <2>1. WorkerFrame(w)
    BY <1>1, WorkerFrames
  <2>2. CASE consent'[r] = w BY <1>1, <2>2, WorkerGivesBack
  <2>3. CASE consent'[r] # w
    <3>1. consent'[r] = consent[r]
      BY <2>1, <2>3 DEF WorkerFrame, Exchanges
    <3> QED
      BY <2>1, <2>3, <3>1 DEF WorkerFrame, NoOrphanLock, UsedBy, AskedBy
  <2> QED BY <2>2, <2>3
<1>2. ASSUME NEW s \in Scan,
             \/ CreateRead(s) \/ RequestStep(s) \/ DeleteFlush(s) \/ DeleteLock(s)
             \/ RequestFails(s) \/ ScanExpires(s)
      PROVE  \/ \E w \in Worker : UsedBy(r, w)'
             \/ \E t \in Scan : AskedBy(r, t)'
  <2>1. RequestFrame(s) /\ (RunExists => run'.id = run.id)
    BY <1>2, RequestFrames, RunKept
  <2>2. CASE consent'[r] = s BY <1>2, <2>2, RequestGivesBack
  <2>3. CASE consent'[r] # s
    <3>1. consent'[r] = consent[r]
      BY <2>1, <2>3 DEF RequestFrame, Exchanges
    <3>2. CASE \E w \in Worker : UsedBy(r, w)
      BY <2>1, <3>1, <3>2 DEF RequestFrame, UsedBy
    <3>3. ASSUME NEW t \in Scan, AskedBy(r, t) PROVE AskedBy(r, t)'
      <4>1. RunExists
        BY <3>3 DEF AskedBy, RequestInv, RowInv, RowPresent
      <4> QED BY <2>1, <2>3, <3>1, <3>3, <4>1 DEF RequestFrame, AskedBy
    <3> QED BY <3>1, <3>2, <3>3 DEF NoOrphanLock
  <2> QED BY <2>2, <2>3
<1>3. CASE Cleanup
  BY <1>3, CleanupFrame DEF NoOrphanLock, UsedBy, AskedBy
<1>4. CASE UNCHANGED <<run, consent, wk, rq>>
  BY <1>4 DEF NoOrphanLock, UsedBy, AskedBy
<1> QED BY <1>1, <1>2, <1>3, <1>4, TimeFrames DEF Next, vars

\* No failure, crash, lost lease or replaced run leaves the consent lock taken
\* by somebody who is not between taking it and the end of the transaction
\* (process_job, cancel_enrichment_if_unneeded): what DELETE /scans/{id} waits
\* for is always somebody at work.
THEOREM LocksAreGivenBack == Spec => []NoOrphanLock
<1>1. Init => NoOrphanLock
  BY DEF Init, NoOrphanLock
<1> QED BY <1>1, OrphanNext, LockHeld, PTL DEF Spec

----------------------------------------------------------------------------
(* Results.                                                                *)

LEMMA FinalsNext == TypeOK /\ OneFinalPerRound /\ [Next]_vars => OneFinalPerRound'
<1> SUFFICES ASSUME TypeOK, OneFinalPerRound, [Next]_vars PROVE OneFinalPerRound'
  OBVIOUS
<1> DEFINE Open == job.state \in OpenStates
<1>1. rounds \in Nat /\ finals \in Nat /\ finals + (IF Open THEN 1 ELSE 0) <= rounds
  BY DEF TypeOK, OneFinalPerRound
<1>2. ASSUME rounds' = rounds, finals' = finals, Open' => Open
      PROVE  OneFinalPerRound'
  BY <1>1, <1>2 DEF OneFinalPerRound
<1>3. ASSUME rounds' = rounds, finals' = finals + 1, Open, ~Open'
      PROVE  OneFinalPerRound'
  BY <1>1, <1>3 DEF OneFinalPerRound
<1>4. \A st \in JobStates : Settled(st).state = st
  BY DEF Settled, JobRow
<1>5. ASSUME NEW w \in Worker, Owned(w) PROVE Open
  BY <1>5 DEF Owned
<1>6. ASSUME NEW w \in Worker,
             \/ Lease(w) \/ WorkerStep(w) \/ LockConsent(w)
             \/ Renew(w) \/ CallRaises(w) \/ LoadFails(w) \/ Fail(w) \/ Crash(w)
      PROVE  OneFinalPerRound'
  <2>1. CASE Lease(w) BY <1>2, <2>1 DEF Lease, Leasable
  <2>2. CASE Cancel(w) \/ Abandon(w)
    BY <1>2, <1>4, <2>2 DEF Cancel, Abandon, CancelJob
  <2>3. CASE FinalizeLate(w)
    BY <1>2, <1>3, <1>4, <1>5, <2>3 DEF FinalizeLate, FinalizeMissing, AddFinal
  <2>4. CASE Commit(w)
    BY <1>2, <1>3, <1>4, <1>5, <2>4 DEF Commit, AddFinal
  <2>5. CASE HandleFailure(w)
    BY <1>2, <1>3, <1>4, <1>5, <2>5 DEF HandleFailure, FinalizeMissing, AddFinal
  <2>6. CASE Renew(w) BY <1>2, <2>6 DEF Renew, Lasting, JobRow
  <2>7. CASE UNCHANGED <<job, rounds, finals>> BY <1>2, <2>7
  <2> QED
    BY <1>6, <2>1, <2>2, <2>3, <2>4, <2>5, <2>6, <2>7
       DEF WorkerStep, Load, Assess, ConsumeQuota, Recheck, Answer, LockConsent,
           CallRaises, LoadFails, Fail, Crash
<1>7. ASSUME NEW s \in Scan, CreateCommit(s) PROVE OneFinalPerRound'
  <2>1. CASE rq[s].plan \in {"insert", "requeue"}
    BY <1>1, <1>7, <2>1 DEF CreateCommit, OneFinalPerRound
  <2>2. CASE rq[s].plan \notin {"insert", "requeue"}
    BY <1>2, <1>7, <2>2 DEF CreateCommit
  <2> QED BY <2>1, <2>2
<1>8. ASSUME NEW s \in Scan, DeleteCommit(s) PROVE OneFinalPerRound'
  BY <1>2, <1>4, <1>8 DEF DeleteCommit
<1>9. CASE Cleanup
  <2>1. \/ rounds' = rounds /\ finals' = finals /\ job' = job
        \/ rounds' = 0 /\ finals' = 0 /\ job' = NoJob
    BY <1>9 DEF Cleanup
  <2> QED BY <1>2, <2>1 DEF NoJob, JobRow, OneFinalPerRound
<1>10. CASE \/ StrayEnds \/ EvidenceExpires \/ BecomeDue \/ DeadlinePasses
            \/ LeaseAges \/ LeaseRunsOut \/ LeaseOverslept
  BY <1>2, <1>10 DEF StrayEnds, EvidenceExpires, BecomeDue, DeadlinePasses, LeaseAges,
                     LeaseRunsOut, LeaseOverslept, Lasting, JobRow
<1>11. CASE UNCHANGED <<job, rounds, finals>> BY <1>2, <1>11
<1> QED
  BY <1>6, <1>7, <1>8, <1>9, <1>10, <1>11
     DEF Next, RequestStep, CreateRead, CreatePlan, CreateConflict, DeleteFlush,
         DeleteLock, RequestFails, ScanExpires, vars

\* Whatever the workers do to each other, a round in the queue ends in at most
\* one FINAL decision (_owned_job before each of the three places that add one).
THEOREM FinalsBounded == Spec => []OneFinalPerRound
<1>1. Init => OneFinalPerRound
  BY DEF Init, OneFinalPerRound, NoJob, JobRow
<1> QED BY <1>1, FinalsNext, TypeCorrect, PTL DEF Spec

LEMMA DecisionNext == TypeOK /\ ResultHasDecision /\ [Next]_vars => ResultHasDecision'
<1> SUFFICES ASSUME TypeOK, ResultHasDecision, [Next]_vars PROVE ResultHasDecision'
  OBVIOUS
<1> DEFINE Result == run.status \in {"PARTIAL", "COMPLETE"}
<1>1. ASSUME Result' => Result, final # "none" => final' # "none"
      PROVE  ResultHasDecision'
  BY <1>1 DEF ResultHasDecision
<1>2. \A st : RunRow(run.id, st).status = st
  BY DEF RunRow
<1>3. ASSUME NEW w \in Worker,
             \/ Lease(w) \/ WorkerStep(w) \/ LockConsent(w)
             \/ Renew(w) \/ CallRaises(w) \/ LoadFails(w) \/ Fail(w) \/ Crash(w)
      PROVE  ResultHasDecision'
  <2>1. CASE Cancel(w) \/ Abandon(w)
    BY <1>1, <1>2, <2>1 DEF Cancel, Abandon, CancelJob, Becomes
  <2>2. CASE final' \in {"fresh", "stale"} BY <2>2 DEF ResultHasDecision
  <2>3. CASE UNCHANGED <<run, final>> BY <1>1, <2>3
  <2> QED
    BY <1>3, <2>1, <2>2, <2>3
       DEF WorkerStep, Lease, Load, Assess, FinalizeLate, ConsumeQuota, Recheck,
           Answer, Commit, HandleFailure, FinalizeMissing, AddFinal, LockConsent,
           Renew, CallRaises, LoadFails, Fail, Crash
<1>4. ASSUME NEW s \in Scan, CreateCommit(s) PROVE ResultHasDecision'
  <2>1. run'.status \in {"QUEUED", "LOCAL_COMPLETE", run.status} /\ final' = final
    BY <1>4 DEF CreateCommit, Becomes, Written, RunRow
  <2> QED BY <1>1, <2>1
<1>5. ASSUME NEW s \in Scan, DeleteCommit(s) PROVE ResultHasDecision'
  BY <1>1, <1>2, <1>5 DEF DeleteCommit, Becomes
<1>6. CASE Cleanup
  <2>1. \/ run'.status = "absent"
        \/ run'.status = run.status /\ final' = final
    BY <1>2, <1>6 DEF Cleanup, Becomes
  <2> QED BY <1>1, <2>1 DEF ResultHasDecision
<1>7. CASE EvidenceExpires
  BY <1>7 DEF EvidenceExpires, ResultHasDecision
<1>8. CASE UNCHANGED <<run, final>> BY <1>1, <1>8
<1> QED
  BY <1>3, <1>4, <1>5, <1>6, <1>7, <1>8
     DEF Next, RequestStep, CreateRead, CreatePlan, CreateConflict, DeleteFlush,
         DeleteLock, RequestFails, ScanExpires, StrayEnds, BecomeDue,
         DeadlinePasses,
         LeaseAges, LeaseRunsOut, LeaseOverslept, vars

\* A run shown as PARTIAL or COMPLETE has a FINAL decision, whatever statuses
\* were read before and written after (process_job, scans.create, _cancel_job).
THEOREM ResultsDecided == Spec => []ResultHasDecision
<1>1. Init => ResultHasDecision
  BY DEF Init, ResultHasDecision, RunRow
<1> QED BY <1>1, DecisionNext, TypeCorrect, PTL DEF Spec

----------------------------------------------------------------------------
(* Attempts.                                                               *)

Paid == RetryLimit + rounds + faults

\* The job can be leased again, at once or when the lease it has runs out.
Takeable ==
    \/ job.state = "QUEUED"
    \/ job.state = "LEASED" /\ (job.lease = "expired" \/ wk[job.owner].pc = "idle")

\* A leased job has an owner, at work on the run of the job or gone.
LeaseOwned ==
    job.state = "LEASED" =>
       /\ job.owner \in Worker /\ job.lease # "none"
       /\ wk[job.owner].pc \notin {"idle", "leased", "failed"} =>
             wk[job.owner].run = run.id

\* AttemptsPaidFor is not inductive: the next attempt must be paid for as soon
\* as somebody may take the job, before Lease counts it.
PaidInv ==
    /\ job.state \in OpenStates => rounds > 0
    /\ LeaseOwned
    /\ AttemptsPaidFor
    /\ Takeable => job.attempts + 1 < Paid

LEMMA PaidTypes ==
    ASSUME TypeOK
    PROVE  job.attempts \in Nat /\ Paid \in Nat /\ RetryLimit = 2 /\ rounds \in Nat
           /\ faults \in Nat
  BY RowTypes, BoundsAreNaturals DEF TypeOK, Paid, RetryLimit

\* A job that is settled owes nothing more.
LEMMA SettledPaid ==
    ASSUME TypeOK, PaidInv, NEW st \in {"COMPLETE", "CANCELLED"},
           job' = Settled(st), UNCHANGED <<rounds, faults>>
    PROVE  PaidInv'
<1>1. job'.state = st /\ job'.attempts = job.attempts
  BY DEF Settled, JobRow
<1> QED
  BY <1>1 DEF PaidInv, AttemptsPaidFor, Takeable, LeaseOwned, Paid

\* A worker that gives up its lease, or never had it, leaves what is paid for.
LEMMA LeavePaid ==
    ASSUME TypeOK, PaidInv, NEW w \in Worker, ~Owned(w),
           wk' = [wk EXCEPT ![w] = IdleWorker],
           UNCHANGED <<run, job, rounds, faults>>
    PROVE  PaidInv'
<1>1. job.state = "LEASED" /\ job.owner = w => job.lease = "expired"
  BY RowTypes DEF Owned, PaidInv, LeaseOwned
<1>2. wk'[w].pc = "idle" /\ \A v \in Worker \ {w} : wk'[v] = wk[v]
  BY DEF TypeOK, IdleWorker, Session
<1>3. LeaseOwned'
  BY <1>2 DEF PaidInv, LeaseOwned
<1>4. Takeable' => Takeable
  BY <1>1, <1>2 DEF Takeable, PaidInv, LeaseOwned
<1> QED BY <1>3, <1>4 DEF PaidInv, AttemptsPaidFor, Paid

\* A step of a session on its way, which keeps the run it has read or fails.
LEMMA GoOnPaid ==
    ASSUME TypeOK, PaidInv, NEW w \in Worker, wk[w].pc # "idle",
           NEW session, session.pc # "idle",
           \/ session.pc = "failed"
           \/ wk[w].pc \notin {"leased", "failed"} /\ session.run = wk[w].run,
           wk' = [wk EXCEPT ![w] = session],
           UNCHANGED <<run, job, rounds, faults>>
    PROVE  PaidInv'
<1>1. wk'[w] = session /\ \A v \in Worker \ {w} : wk'[v] = wk[v]
  BY DEF TypeOK
<1>2. LeaseOwned'
  BY <1>1 DEF PaidInv, LeaseOwned
<1>3. Takeable' => Takeable
  BY <1>1 DEF Takeable, PaidInv, LeaseOwned
<1> QED BY <1>2, <1>3 DEF PaidInv, AttemptsPaidFor, Paid

LEMMA WorkerPays ==
    ASSUME TypeOK, RowInv, PaidInv, NEW w \in Worker,
           \/ Lease(w) \/ WorkerStep(w) \/ LockConsent(w)
           \/ Renew(w) \/ CallRaises(w) \/ LoadFails(w) \/ Fail(w) \/ Crash(w)
    PROVE  PaidInv'
<1> USE PaidTypes
<1>1. CASE Lease(w)
  <2>1. /\ job'.state = "LEASED" /\ job'.attempts = job.attempts + 1
        /\ job'.owner = w /\ job'.lease = "fresh" /\ wk'[w].pc = "leased"
    BY <1>1 DEF Lease, JobRow, At, Session, TypeOK
  <2>2. Takeable
    BY <1>1 DEF Lease, Leasable, Takeable
  <2>3. rounds > 0
    BY <2>2 DEF PaidInv, Takeable
  <2>4. rounds' = rounds /\ faults' = faults
    BY <1>1 DEF Lease
  <2> QED
    BY <2>1, <2>2, <2>3, <2>4 DEF PaidInv, LeaseOwned, AttemptsPaidFor, Takeable, Paid
<1>2. CASE Load(w)
  <2>1. UNCHANGED <<run, job, rounds, faults>>
    BY <1>2 DEF Load
  <2>2. CASE job.state = "LEASED" /\ job.owner = w
    <3>1. wk'[w].pc = "loaded" /\ wk'[w].run = run.id
      BY <1>2, <2>2 DEF Load, Session, TypeOK
    <3> QED BY <2>1, <2>2, <3>1
            DEF PaidInv, LeaseOwned, AttemptsPaidFor, Takeable, Paid
  <2>3. CASE ~(job.state = "LEASED" /\ job.owner = w)
    <3>1. wk' = [wk EXCEPT ![w] = IdleWorker] /\ ~Owned(w)
      BY <1>2, <2>3 DEF Load, Owned
    <3> QED BY <2>1, <3>1, LeavePaid
  <2> QED BY <2>2, <2>3
<1>3. CASE Assess(w) BY <1>3, GoOnPaid DEF Assess, At, Session
<1>4. CASE Cancel(w)
  BY <1>4, SettledPaid, LeavePaid DEF Cancel, CancelJob, Finish
<1>5. CASE FinalizeLate(w)
  BY <1>5, SettledPaid, LeavePaid DEF FinalizeLate, FinalizeMissing, Finish
<1>6. CASE ConsumeQuota(w)
  <2>1. PICK st \in {wk[w].status, run.status} :
           wk' = [wk EXCEPT ![w] = Session("waiting", wk[w].run, st, FALSE)]
    BY <1>6 DEF ConsumeQuota
  <2> QED BY <1>6, <2>1, GoOnPaid DEF ConsumeQuota, Session
<1>7. CASE Recheck(w)
  <2> DEFINE next == IF ActiveEnrichment(wk[w].run)
                     THEN Session("outbound", wk[w].run, wk[w].status, TRUE)
                     ELSE At(w, "abandoning")
  <2>1. next.pc # "idle" /\ next.run = wk[w].run
    BY DEF Session, At
  <2>2. wk' = [wk EXCEPT ![w] = next]
    BY <1>7 DEF Recheck
  <2> QED BY <1>7, <2>1, <2>2, GoOnPaid DEF Recheck
<1>8. CASE Abandon(w)
  <2>1. CASE RunExists /\ wk[w].run = run.id /\ job.state # "absent"
    BY <1>8, <2>1, SettledPaid DEF Abandon, CancelJob
  <2>2. CASE ~(RunExists /\ wk[w].run = run.id /\ job.state # "absent")
    <3>1. ~Owned(w)
      BY <1>8, <2>2 DEF Abandon, Owned, PaidInv, LeaseOwned, RowInv
    <3> QED BY <1>8, <2>2, <3>1, LeavePaid DEF Abandon, Finish
  <2> QED BY <2>1, <2>2
<1>9. CASE Answer(w) BY <1>9, GoOnPaid DEF Answer, At, Session
<1>10. CASE Commit(w)
  BY <1>10, SettledPaid, LeavePaid DEF Commit, Finish
<1>11. CASE HandleFailure(w)
  <2>1. CASE Owned(w) /\ job.attempts < RetryLimit
    <3>1. job'.state = "QUEUED" /\ job'.attempts = job.attempts
      BY <1>11, <2>1 DEF HandleFailure, JobRow
    <3>2. rounds > 0 /\ rounds' = rounds /\ faults' = faults
      BY <1>11, <2>1 DEF HandleFailure, Owned, PaidInv
    <3>3. job.attempts + 1 < RetryLimit + rounds + faults
      BY <2>1, <3>2
    <3> QED
      BY <3>1, <3>2, <3>3 DEF PaidInv, LeaseOwned, AttemptsPaidFor, Takeable, Paid
  <2>2. CASE Owned(w) /\ job.attempts >= RetryLimit
    <3>1. ~(job.attempts < RetryLimit)
      BY <2>2
    <3>2. job' = Settled("COMPLETE") /\ UNCHANGED <<rounds, faults>>
      BY <1>11, <2>2, <3>1 DEF HandleFailure, FinalizeMissing
    <3> QED BY <3>2, SettledPaid
  <2>3. CASE ~Owned(w)
    BY <1>11, <2>3, LeavePaid DEF HandleFailure, Finish
  <2> QED BY <2>1, <2>2, <2>3
<1>12. CASE LockConsent(w)
  <2>1. CASE Owned(w)
    BY <1>12, <2>1, GoOnPaid DEF LockConsent, At, Session
  <2>2. CASE ~Owned(w) BY <1>12, <2>2, LeavePaid DEF LockConsent, Finish
  <2> QED BY <2>1, <2>2
<1>13. CASE Renew(w)
  <2>1. UNCHANGED <<run, rounds, faults>>
    BY <1>13 DEF Renew
  <2>2. CASE job' = Lasting("fresh") /\ Owned(w) /\ UNCHANGED wk
    <3>1. /\ job'.state = job.state /\ job'.attempts = job.attempts
          /\ job'.owner = w /\ job'.lease = "fresh"
      BY <2>2 DEF Lasting, JobRow, Owned
    <3> QED BY <1>13, <2>1, <2>2, <3>1
            DEF Renew, Owned, PaidInv, LeaseOwned, AttemptsPaidFor, Takeable, Paid
  <2>3. CASE wk' = [wk EXCEPT ![w] = At(w, "outbound")] /\ UNCHANGED job
    BY <1>13, <2>1, <2>3, GoOnPaid DEF Renew, At, Session
  <2> QED BY <1>13, <2>2, <2>3 DEF Renew
<1>14. CASE Fail(w) BY <1>14, GoOnPaid DEF Fail, At, Session
<1>15. CASE CallRaises(w) BY <1>15, GoOnPaid DEF CallRaises, At, Session
<1>16. CASE Crash(w) \/ LoadFails(w)
  <2>1. faults' = faults + 1 /\ UNCHANGED <<run, job, rounds>>
    BY <1>16 DEF Crash, LoadFails
  <2>2. wk'[w].pc = "idle" /\ \A v \in Worker \ {w} : wk'[v] = wk[v]
    BY <1>16 DEF Crash, LoadFails, Finish, TypeOK, IdleWorker, Session
  <2>3. LeaseOwned'
    BY <2>1, <2>2 DEF PaidInv, LeaseOwned
  <2>4. job'.attempts + 1 < Paid'
    BY <2>1 DEF PaidInv, AttemptsPaidFor, Paid
  <2> QED BY <2>1, <2>3, <2>4 DEF PaidInv, AttemptsPaidFor, Paid
<1> QED
  BY <1>1, <1>2, <1>3, <1>4, <1>5, <1>6, <1>7, <1>8, <1>9, <1>10, <1>11, <1>12,
     <1>13, <1>14, <1>15, <1>16 DEF WorkerStep

LEMMA RequestPays ==
    ASSUME TypeOK, RowInv, PaidInv, NEW s \in Scan,
           CreateCommit(s) \/ DeleteCommit(s)
    PROVE  PaidInv'
<1> USE PaidTypes
<1>1. CASE CreateCommit(s) /\ rq[s].plan \in {"insert", "requeue"}
  <2>1. rounds' = rounds + 1 /\ faults' = faults
    BY <1>1 DEF CreateCommit
  <2>2. job'.state = "QUEUED" /\ job'.attempts \in {0, job.attempts}
    BY <1>1 DEF CreateCommit, NewJob, Requeued, JobRow, Written
  <2>3. job'.attempts + 1 < Paid'
    BY <2>1, <2>2 DEF PaidInv, AttemptsPaidFor, Paid
  <2> QED
    BY <2>1, <2>2, <2>3
       DEF PaidInv, LeaseOwned, AttemptsPaidFor, Paid
<1>2. CASE CreateCommit(s) /\ rq[s].plan \notin {"insert", "requeue"}
  <2>1. UNCHANGED <<job, rounds, faults, wk>>
    BY <1>2 DEF CreateCommit
  <2>2. job.state = "LEASED" => run'.id = run.id
    BY <1>2 DEF CreateCommit, Conflicts, RowInv, RunExists, Becomes, RunRow
  <2>3. LeaseOwned'
    BY <2>1, <2>2 DEF PaidInv, LeaseOwned
  <2> QED BY <2>1, <2>3 DEF PaidInv, AttemptsPaidFor, Takeable, Paid
<1>3. CASE DeleteCommit(s)
  <2>1. CASE rq[s].pc = "cancelling" /\ job.state \in OpenStates
    BY <1>3, <2>1, SettledPaid DEF DeleteCommit
  <2>2. CASE ~(rq[s].pc = "cancelling" /\ job.state \in OpenStates)
    BY <1>3, <2>2
       DEF DeleteCommit, PaidInv, LeaseOwned, AttemptsPaidFor, Takeable, Paid
  <2> QED BY <2>1, <2>2
<1> QED BY <1>1, <1>2, <1>3

\* Only time that is overslept takes a job from a worker that is at work.
LEMMA TimePays ==
    ASSUME TypeOK, PaidInv,
           \/ BecomeDue \/ DeadlinePasses
           \/ LeaseAges \/ LeaseRunsOut \/ LeaseOverslept
    PROVE  PaidInv'
<1> USE PaidTypes
<1>1. /\ UNCHANGED <<run, wk, rounds>>
      /\ job'.state = job.state /\ job'.attempts = job.attempts
      /\ job'.owner = job.owner
  BY DEF BecomeDue, DeadlinePasses, LeaseAges, LeaseRunsOut, LeaseOverslept,
         Lasting, JobRow
<1>2. job'.lease = job.lease \/ job'.lease \in {"aging", "expired"}
  BY DEF BecomeDue, DeadlinePasses, LeaseAges, LeaseRunsOut, LeaseOverslept,
         Lasting, JobRow
<1>3. LeaseOwned'
  BY <1>1, <1>2 DEF PaidInv, LeaseOwned
<1>4. CASE LeaseOverslept
  <2>1. faults' = faults + 1
    BY <1>4 DEF LeaseOverslept
  <2>2. job'.attempts + 1 < Paid'
    BY <1>1, <2>1 DEF PaidInv, AttemptsPaidFor, Paid
  <2> QED BY <1>1, <1>3, <2>1, <2>2 DEF PaidInv, AttemptsPaidFor, Paid
<1>5. CASE BecomeDue \/ DeadlinePasses \/ LeaseAges \/ LeaseRunsOut
  <2>1. faults' = faults
    BY <1>5 DEF BecomeDue, DeadlinePasses, LeaseAges, LeaseRunsOut
  <2>2. Takeable' => Takeable
    BY <1>1, <1>5
       DEF BecomeDue, DeadlinePasses, LeaseAges, LeaseRunsOut, Lasting, JobRow,
           Takeable
  <2> QED BY <1>1, <1>3, <2>1, <2>2 DEF PaidInv, AttemptsPaidFor, Paid
<1> QED BY <1>4, <1>5

LEMMA PaidNext == ConsentLockHeld /\ PaidInv /\ [Next]_vars => PaidInv'
<1> SUFFICES ASSUME ConsentLockHeld, PaidInv, [Next]_vars PROVE PaidInv'
  OBVIOUS
<1> USE DEF ConsentLockHeld
<1>1. CASE Cleanup
  <2>1. \/ UNCHANGED <<job, rounds>> /\ run'.id = run.id
        \/ rounds' = 0 /\ job' = NoJob
    BY <1>1 DEF Cleanup, Becomes, RunRow
  <2>2. UNCHANGED <<wk, faults>>
    BY <1>1 DEF Cleanup
  <2> QED
    BY <2>1, <2>2, PaidTypes
       DEF PaidInv, LeaseOwned, AttemptsPaidFor, Takeable, Paid, NoJob, JobRow
<1>2. ASSUME UNCHANGED <<run, job, wk, rounds, faults>> PROVE PaidInv'
  BY <1>2 DEF PaidInv, LeaseOwned, AttemptsPaidFor, Takeable, Paid
<1>3. ASSUME NEW s \in Scan, RequestFails(s) PROVE PaidInv'
  <2>1. faults' = faults + 1 /\ UNCHANGED <<run, job, wk, rounds>>
    BY <1>3 DEF RequestFails
  <2> QED
    BY <2>1, PaidTypes DEF PaidInv, LeaseOwned, AttemptsPaidFor, Takeable, Paid
<1> QED
  BY <1>1, <1>2, <1>3, WorkerPays, RequestPays, TimePays
     DEF Next, RequestStep, CreateRead, CreatePlan, CreateConflict, DeleteFlush,
         DeleteLock, ScanExpires, StrayEnds, EvidenceExpires, vars

LEMMA PaidAlways == Spec => []PaidInv
<1>1. Init => PaidInv
  BY BoundsAreNaturals
     DEF Init, PaidInv, LeaseOwned, AttemptsPaidFor, Takeable, Paid, RetryLimit,
         NoJob, JobRow
<1> QED BY <1>1, PaidNext, LockHeld, PTL DEF Spec

\* A failure that reaches the handler is not retried for ever: each attempt
\* beyond the second is paid for by a fault the handler does not get to see or to
\* act on (a crash, a lease overslept, a first read that raises) or by a request
\* that put the job in the queue again (lease_jobs, process_job, _requeue).
THEOREM AttemptsArePaidFor == Spec => []AttemptsPaidFor
<1>1. PaidInv => AttemptsPaidFor
  BY DEF PaidInv
<1> QED BY <1>1, PaidAlways, PTL

----------------------------------------------------------------------------
(* An open job goes on.                                                    *)

\* A lease is only given to a job that is due, so whoever finds it run out may
\* take the job over.
LeasedIsDue == job.state = "LEASED" => job.due

\* A worker that has a step to take: of its steps only LockConsent waits.
MayStep(w) ==
    /\ wk[w].pc # "idle"
    /\ wk[w].pc = "waiting" => consent[wk[w].run] = NoOne

JobMayGoOn ==
    \/ \E w \in Worker : MayStep(w) \/ (Leasable /\ wk[w].pc = "idle")
    \/ \E s \in Scan : rq[s].pc \in {"withdrawing", "cancelling"}
    \/ job.state = "QUEUED" /\ ~job.due
    \/ job.state = "LEASED" /\ job.lease = "fresh"
    \/ job.state = "LEASED" /\ job.lease = "aging" /\ wk[job.owner].pc = "idle"

LEMMA DueNext == TypeOK /\ LeasedIsDue /\ [Next]_vars => LeasedIsDue'
<1> SUFFICES ASSUME TypeOK, LeasedIsDue, [Next]_vars, job'.state = "LEASED"
             PROVE  job'.due
  BY DEF LeasedIsDue
<1>1. \A st \in JobStates : Settled(st).state = st
  BY DEF Settled, JobRow
<1>2. ASSUME job' = job PROVE job'.due
  BY <1>2 DEF LeasedIsDue
<1>3. ASSUME NEW w \in Worker, Lease(w) PROVE job'.due
  BY <1>3, RowTypes DEF Lease, Leasable, JobRow
<1>4. ASSUME NEW w \in Worker,
             \/ Cancel(w) \/ FinalizeLate(w) \/ Abandon(w) \/ Commit(w)
             \/ HandleFailure(w)
      PROVE  job'.due
  BY <1>1, <1>2, <1>4
     DEF Cancel, CancelJob, FinalizeLate, FinalizeMissing, Abandon, Commit,
         HandleFailure, JobRow
<1>5. ASSUME NEW w \in Worker, Renew(w) PROVE job'.due
  BY <1>2, <1>5, RowTypes DEF Renew, Lasting, JobRow, LeasedIsDue
<1>6. ASSUME NEW s \in Scan, CreateCommit(s) \/ DeleteCommit(s) PROVE job'.due
  BY <1>1, <1>2, <1>6 DEF CreateCommit, DeleteCommit, NewJob, Requeued, JobRow
<1>7. CASE Cleanup
  BY <1>2, <1>7 DEF Cleanup, NoJob, JobRow
<1>8. CASE BecomeDue \/ DeadlinePasses \/ LeaseAges \/ LeaseRunsOut \/ LeaseOverslept
  BY <1>8, RowTypes
     DEF BecomeDue, DeadlinePasses, LeaseAges, LeaseRunsOut, LeaseOverslept,
         Lasting, JobRow, LeasedIsDue
<1> QED
  BY <1>2, <1>3, <1>4, <1>5, <1>6, <1>7, <1>8
     DEF Next, WorkerStep, Load, Assess, ConsumeQuota, LockConsent, Recheck,
         Answer, CallRaises, LoadFails, Fail, Crash, RequestStep, CreateRead,
         CreatePlan, CreateConflict, DeleteFlush, DeleteLock, RequestFails,
         ScanExpires, StrayEnds, EvidenceExpires, vars

\* Who does not wait can go on, and who waits does so for one who can.
LEMMA WaitersWaitForWork ==
    ASSUME ConsentLockHeld, NoOrphanLock, NEW w \in Worker, wk[w].pc # "idle"
    PROVE  JobMayGoOn
<1>1. CASE MayStep(w) BY <1>1 DEF JobMayGoOn
<1>2. CASE ~MayStep(w)
  <2>1. consent[wk[w].run] # NoOne /\ wk[w].run \in RunIds
    BY <1>2 DEF MayStep, ConsentLockHeld, HolderInv
  <2>2. CASE \E v \in Worker : UsedBy(wk[w].run, v)
    BY <2>2 DEF UsedBy, PastLock, MayStep, JobMayGoOn
  <2>3. CASE \E s \in Scan : AskedBy(wk[w].run, s)
    BY <2>3 DEF AskedBy, JobMayGoOn
  <2> QED BY <2>1, <2>2, <2>3 DEF NoOrphanLock
<1> QED BY <1>1, <1>2

\* A job in the queue is never stuck: as long as there is a worker process, some
\* worker, the deletion a worker waits for, or time can go on, whatever has
\* crashed, failed or lost its lease (run_worker, lease_jobs, process_job).
THEOREM OpenJobsGoOn ==
    ASSUME Worker # {}
    PROVE  Spec => [](job.state \in OpenStates => JobMayGoOn)
<1>1. ASSUME ConsentLockHeld, NoOrphanLock, PaidInv, LeasedIsDue,
             job.state \in OpenStates
      PROVE  JobMayGoOn
  <2>1. CASE Leasable
    <3>1. PICK w : w \in Worker
      OBVIOUS
    <3> QED BY <2>1, <3>1, <1>1, WaitersWaitForWork DEF JobMayGoOn
  <2>2. CASE job.state = "QUEUED"
    BY <2>1, <2>2 DEF Leasable, JobMayGoOn
  <2>3. CASE job.state = "LEASED"
    <3>1. /\ job.due /\ job.owner \in Worker
          /\ job.lease \in {"fresh", "aging", "expired"}
      BY <1>1, <2>3, RowTypes
         DEF LeasedIsDue, PaidInv, LeaseOwned, ConsentLockHeld
    <3>2. CASE job.lease = "aging" /\ wk[job.owner].pc # "idle"
      BY <1>1, <3>1, <3>2, WaitersWaitForWork
    <3> QED BY <2>1, <2>3, <3>1, <3>2 DEF Leasable, JobMayGoOn
  <2> QED BY <1>1, <2>2, <2>3
<1>2. ConsentLockHeld /\ NoOrphanLock /\ PaidInv /\ LeasedIsDue =>
          (job.state \in OpenStates => JobMayGoOn)
  BY <1>1
<1>3. Init => LeasedIsDue
  BY DEF Init, LeasedIsDue, NoJob, JobRow
<1> QED
  BY <1>2, <1>3, DueNext, TypeCorrect, LockHeld, LocksAreGivenBack, PaidAlways, PTL
     DEF Spec

----------------------------------------------------------------------------
(* The rows agree.                                                         *)

\* What PlanInv says of one request.
Compatible(s) ==
    /\ rq[s].run <= run.id
    /\ rq[s].pc = "planned" /\ s \in Enriched =>
          rq[s].plan = "insert" \/ CountsOnJob(s)
    /\ CountsOnJob(s) => rq[s].run # 0
    /\ CountsOnJob(s) /\ rq[s].run = run.id /\ RunExists => job.state # "absent"

LEMMA CleanupRows ==
    ASSUME TypeOK, RowsConsistent, Cleanup
    PROVE  RowsConsistent' /\ (RunExists' => RunExists /\ job' = job)
<1> DEFINE due == {s \in Scan : scan[s] \in {"expired", "withdrawn"}}
           orphaned == \A s \in Scan \ due : ~RowPresent(s)
<1>1. \A s \in Scan : RowPresent(s)' <=> RowPresent(s) /\ s \notin due
  BY DEF Cleanup, RowPresent, TypeOK
<1>2. CASE orphaned
  <2>1. ~RunExists' /\ job'.state = "absent"
    BY <1>2 DEF Cleanup, Becomes, RunRow, RunExists, NoJob, JobRow
  <2> QED BY <1>1, <1>2, <2>1, EnrichedAreScans DEF RowsConsistent
<1>3. CASE ~orphaned
  <2>1. run'.status = run.status /\ job' = job
    BY <1>3 DEF Cleanup, Becomes, RunRow
  <2>2. RunExists /\ RunExists'
    BY <1>3, <2>1 DEF RowsConsistent, RunExists
  <2> QED BY <1>1, <1>3, <2>1, <2>2, EnrichedAreScans DEF RowsConsistent
<1> QED BY <1>2, <1>3

LEMMA CreateRows ==
    ASSUME ConsentLockHeld, PlanInv, RowsConsistent, NEW s \in Scan, CreateCommit(s)
    PROVE  RowsConsistent' /\ PlanInv'
<1> USE DEF ConsentLockHeld
<1>1. /\ RequestFrame(s) /\ rq'[s] = NoRequest /\ run'.id \in Nat
      /\ scan'[s] = "active" /\ run.id \in Nat /\ rq[s].pc = "planned"
  <2>1. RequestStep(s)
    BY DEF RequestStep
  <2>2. RequestFrame(s) /\ run'.id \in Nat /\ run.id \in Nat
    BY <2>1, RequestFrames, RunKept, RowTypes
  <2>3. rq'[s] = NoRequest /\ scan'[s] = "active" /\ rq[s].pc = "planned"
    BY DEF CreateCommit, TypeOK
  <2> QED BY <2>2, <2>3
<1>2. RunExists' /\ RowPresent(s)'
  BY <1>1 DEF CreateCommit, Becomes, Written, RunRow, RunExists, RowPresent, Conflicts
<1>3. \A t \in Scan \ {s} : (RowPresent(t)' <=> RowPresent(t))
  BY <1>1 DEF RequestFrame, RowPresent
<1>4. job.state # "absent" => job'.state # "absent"
  BY DEF CreateCommit, NewJob, Requeued, JobRow
<1>5. s \in Enriched => job'.state # "absent"
  <2>1. CASE rq[s].plan = "insert"
    BY <2>1 DEF CreateCommit, NewJob, JobRow
  <2>2. CASE CountsOnJob(s)
    BY <1>4, <2>2 DEF PlanInv, CreateCommit, Conflicts
  <2> QED BY <1>1, <2>1, <2>2 DEF PlanInv
<1>6. RowsConsistent'
  <2>1. \A t \in Enriched \ {s} : RowPresent(t)' => job'.state # "absent"
    BY <1>3, <1>4, EnrichedAreScans DEF RowsConsistent
  <2> QED BY <1>2, <1>5, <2>1 DEF RowsConsistent
<1>7. ASSUME NEW t \in Scan PROVE Compatible(t)'
  <2>1. CASE t = s
    BY <1>1, <2>1 DEF Compatible, NoRequest, Request, CountsOnJob
  <2>2. CASE t # s
    <3>1. rq'[t] = rq[t] /\ Compatible(t) /\ rq[t].run \in Nat
      BY <1>1, <2>2, RequestTypes, BoundsAreNaturals
         DEF RequestFrame, PlanInv, Compatible
    <3>2. CASE rq[s].run = 0
      <4>1. run'.id = run.id + 1
        BY <3>2 DEF CreateCommit, RunRow
      <4>2. rq[t].run <= run.id
        BY <3>1 DEF Compatible
      <4>3. rq[t].run <= run'.id /\ rq[t].run # run'.id
        BY <1>1, <3>1, <4>1, <4>2
      <4> QED BY <3>1, <4>3 DEF Compatible, CountsOnJob
    <3>3. CASE rq[s].run # 0
      <4>1. run'.id = run.id /\ RunExists
        BY <3>3 DEF CreateCommit, Conflicts, Becomes, RunRow
      <4> QED BY <1>4, <3>1, <4>1 DEF Compatible, CountsOnJob
    <3> QED BY <3>2, <3>3
  <2> QED BY <2>1, <2>2
<1> QED BY <1>6, <1>7 DEF PlanInv, Compatible

LEMMA PlanRows ==
    ASSUME ConsentLockHeld, PlanInv, NEW s \in Scan, CreatePlan(s)
    PROVE  Compatible(s)'
<1> USE DEF ConsentLockHeld
<1>1. /\ rq'[s].pc = "planned" /\ rq'[s].run = rq[s].run
      /\ rq'[s].plan = PlanFor(s) /\ run' = run /\ job' = job
  BY DEF CreatePlan, Request, TypeOK
<1>2. s \in Enriched => PlanFor(s) \in {"insert", "mark", "reuse", "requeue"}
  BY DEF PlanFor
<1>3. PlanFor(s) \in {"mark", "reuse", "requeue"} =>
         rq[s].run = run.id /\ job.state # "absent"
  BY DEF PlanFor, NoJob, JobRow
<1>4. job.state # "absent" => run.id # 0
  BY DEF RowInv, RunIds
<1> QED BY <1>1, <1>2, <1>3, <1>4 DEF PlanInv, Compatible, CountsOnJob, RunExists

LEMMA RowsNext ==
    ConsentLockHeld /\ PlanInv /\ RowsConsistent /\ [Next]_vars =>
       PlanInv' /\ RowsConsistent'
<1> SUFFICES ASSUME ConsentLockHeld, PlanInv, RowsConsistent, [Next]_vars
             PROVE  PlanInv' /\ RowsConsistent'
  OBVIOUS
<1> USE DEF ConsentLockHeld
<1>1. ASSUME UNCHANGED <<scan, rq>>, KeepsJob, run'.id = run.id,
             RunExists' <=> RunExists
      PROVE  PlanInv' /\ RowsConsistent'
  BY <1>1 DEF PlanInv, RowsConsistent, RowPresent, CountsOnJob, KeepsJob
<1>2. ASSUME NEW s \in Scan, RequestFrame(s), Compatible(s)', KeepsJob,
             run'.id = run.id, RunExists' <=> RunExists,
             RowPresent(s)' <=> RowPresent(s)
      PROVE  PlanInv' /\ RowsConsistent'
  <2>1. \A t \in Scan : (RowPresent(t)' <=> RowPresent(t))
    BY <1>2 DEF RequestFrame, RowPresent
  <2>2. \A t \in Scan \ {s} : Compatible(t)'
    BY <1>2 DEF RequestFrame, PlanInv, Compatible, CountsOnJob, KeepsJob
  <2> QED
    BY <1>2, <2>1, <2>2, EnrichedAreScans DEF PlanInv, Compatible, RowsConsistent, KeepsJob
<1>3. ASSUME NEW w \in Worker,
             \/ Lease(w) \/ WorkerStep(w) \/ LockConsent(w)
             \/ Renew(w) \/ CallRaises(w) \/ LoadFails(w) \/ Fail(w) \/ Crash(w)
      PROVE  PlanInv' /\ RowsConsistent'
  BY <1>1, <1>3, WorkerFrames DEF WorkerFrame
<1>4. ASSUME NEW s \in Scan,
             \/ CreateRead(s) \/ RequestStep(s) \/ DeleteFlush(s) \/ DeleteLock(s)
             \/ RequestFails(s) \/ ScanExpires(s)
      PROVE  PlanInv' /\ RowsConsistent'
  <2>1. RequestFrame(s)
    BY <1>4, RequestFrames
  <2>2. Compatible(s) /\ run.id \in Nat
    BY RowTypes DEF PlanInv, Compatible
  <2>3. ASSUME UNCHANGED <<run, job, scan>>, Compatible(s)'
        PROVE  PlanInv' /\ RowsConsistent'
    BY <1>2, <2>1, <2>3 DEF KeepsJob, RunExists, RowPresent
  <2>4. ASSUME rq'[s] = NoRequest, run'.id = run.id PROVE Compatible(s)'
    BY <2>2, <2>4 DEF Compatible, NoRequest, Request, CountsOnJob
  <2>5. ASSUME NEW pc \in RequestPC, pc # "planned",
               rq' = [rq EXCEPT ![s] = Asking(s, pc)], run' = run
        PROVE  Compatible(s)'
    BY <2>2, <2>5 DEF Compatible, Asking, Request, CountsOnJob, TypeOK
  <2>6. CASE CreateRead(s)
    <3>1. rq'[s].pc = "creating" /\ rq'[s].run \in {0, run.id}
      BY <2>6 DEF CreateRead, Request, TypeOK
    <3> QED BY <2>2, <2>3, <2>6, <3>1 DEF CreateRead, Compatible, CountsOnJob
  <2>7. CASE CreatePlan(s) BY <2>3, <2>7, PlanRows DEF CreatePlan
  <2>8. CASE CreateCommit(s) BY <2>8, CreateRows
  <2>9. CASE CreateConflict(s) \/ RequestFails(s)
    BY <2>3, <2>4, <2>9 DEF CreateConflict, RequestFails, TypeOK
  <2>10. CASE DeleteFlush(s) BY <2>3, <2>5, <2>10 DEF DeleteFlush
  <2>11. CASE DeleteLock(s) BY <2>3, <2>5, <2>11 DEF DeleteLock
  <2>12. CASE DeleteCommit(s)
    <3>1. RowPresent(s) /\ RowPresent(s)'
      BY <2>12 DEF DeleteCommit, RequestInv, RowPresent, TypeOK
    <3>2. run'.id = run.id /\ (RunExists' <=> RunExists) /\ KeepsJob
      BY <2>12, <3>1
         DEF DeleteCommit, Becomes, RunRow, RunExists, RowInv, Settled, JobRow, KeepsJob
    <3>3. rq'[s] = NoRequest
      BY <2>12 DEF DeleteCommit, TypeOK
    <3> QED BY <1>2, <2>1, <2>4, <3>1, <3>2, <3>3
  <2>13. CASE ScanExpires(s)
    <3>1. RowPresent(s) /\ RowPresent(s)'
      BY <2>13 DEF ScanExpires, RowPresent, TypeOK
    <3>2. Compatible(s)' /\ KeepsJob /\ RunExists' = RunExists /\ run'.id = run.id
      BY <2>2, <2>13 DEF ScanExpires, Compatible, CountsOnJob, RunExists, KeepsJob
    <3> QED BY <1>2, <2>1, <3>1, <3>2
  <2> QED
    BY <1>4, <2>6, <2>7, <2>8, <2>9, <2>10, <2>11, <2>12, <2>13 DEF RequestStep
<1>5. CASE Cleanup
  <2>1. RowsConsistent' /\ (RunExists' => RunExists /\ job' = job)
    BY <1>5, CleanupRows
  <2>2. PlanInv'
    BY <1>5, <2>1, CleanupFrame DEF PlanInv, CountsOnJob
  <2> QED BY <2>1, <2>2
<1>6. CASE UNCHANGED <<run, scan, rq>> /\ KeepsJob
  BY <1>1, <1>6 DEF RunExists
<1> QED
  BY <1>3, <1>4, <1>5, <1>6, TimeFrames DEF Next, vars, KeepsJob

\* However creations, deletions and the cleanup of one URL interleave: a scan
\* has its run, an enriched scan its job, and nothing outlives the last scan
\* (the conflicts in ScanService.create, the two deletes of cleanup_expired).
THEOREM RowsAgree == Spec => []RowsConsistent
<1>1. Init => PlanInv /\ RowsConsistent
  BY EnrichedAreScans
     DEF Init, PlanInv, CountsOnJob, RowsConsistent, RunExists, RowPresent, RunRow,
         NoJob, JobRow, NoRequest, Request
<1> QED BY <1>1, RowsNext, LockHeld, PTL DEF Spec

----------------------------------------------------------------------------
(* The refinement of ConsentGate.                                          *)

\* The state of a scan's consent, and how a step changes it.
ConsentOf(s) ==
    CASE scan[s] = "new" -> "none"
      [] scan[s] = "active" -> "given"
      [] scan[s] \in {"expired", "purged"} -> "lapsed"
      [] scan[s] \in {"withdrawn", "erased"} -> "withdrawn"

LEMMA GateConsents ==
    /\ GateConsent = [s \in Enriched |-> ConsentOf(s)]
    /\ GateConsent' = [s \in Enriched |-> ConsentOf(s)']
  BY DEF GateConsent, ConsentOf

OfPresentRun(w) == RunExists /\ wk[w].run = run.id

\* A worker that calls after its step called before, or starts a call with a
\* consent in force.
LEMMA CallStarts ==
    ASSUME ConsentLockHeld, NEW w \in Worker,
           \/ Lease(w) \/ WorkerStep(w) \/ LockConsent(w)
           \/ Renew(w) \/ CallRaises(w) \/ LoadFails(w) \/ Fail(w) \/ Crash(w),
           OnCall(w)'
    PROVE  /\ wk'[w].run = wk[w].run
           /\ OnCall(w) \/ (ActiveEnrichment(wk[w].run) /\ RunExists)
           /\ stray' = stray
<1> USE DEF ConsentLockHeld
<1>1. ASSUME NEW pc \in WorkerPC, pc # "outbound",
             wk' = [wk EXCEPT ![w] = At(w, pc)]
      PROVE  FALSE
  BY <1>1 DEF At, Session, OnCall, TypeOK
<1>2. ASSUME Finish(w) PROVE FALSE
  BY <1>2, FinishFrame DEF IdleWorker, Session, OnCall
<1>3. ~Load(w) /\ ~LoadFails(w) /\ ~ConsumeQuota(w)
  BY DEF Load, LoadFails, ConsumeQuota, IdleWorker, Session, OnCall, TypeOK
<1>4. ~Lease(w) /\ ~Assess(w) /\ ~Answer(w) /\ ~Fail(w) /\ ~CallRaises(w)
  BY <1>1 DEF Lease, Assess, Answer, Fail, CallRaises
<1>5. ~LockConsent(w)
  BY <1>1, <1>2 DEF LockConsent
<1>6. CASE Renew(w)
  BY <1>6 DEF Renew, At, Session, TypeOK, OnCall
<1>7. CASE Recheck(w)
  <2>1. ActiveEnrichment(wk[w].run)
    BY <1>1, <1>7 DEF Recheck
  <2>2. RunExists
    BY <2>1, EnrichedAreScans DEF ActiveEnrichment, Consenting, RowInv, RowPresent
  <2> QED BY <1>7, <2>1, <2>2 DEF Recheck, Session, TypeOK
<1> QED
  BY <1>2, <1>3, <1>4, <1>5, <1>6, <1>7
     DEF WorkerStep, Cancel, FinalizeLate, Abandon, Commit, HandleFailure, Crash

\* Only the end of a call leaves one behind.
LEMMA StrayBy ==
    ASSUME ConsentLockHeld, NEW w \in Worker,
           \/ Lease(w) \/ WorkerStep(w) \/ LockConsent(w)
           \/ Renew(w) \/ CallRaises(w) \/ LoadFails(w) \/ Fail(w) \/ Crash(w)
    PROVE  /\ stray \subseteq stray'
           /\ stray' # stray => OnCall(w) /\ ~OnCall(w)'
<1>1. CASE Answer(w) \/ CallRaises(w)
  BY <1>1 DEF Answer, CallRaises, LeavesCall, At, Session, OnCall,
              ConsentLockHeld, TypeOK
<1>2. CASE Crash(w)
  <2>1. ~OnCall(w)'
    BY <1>2, FinishFrame DEF Crash, ConsentLockHeld, IdleWorker, Session, OnCall
  <2>2. CASE wk[w].pc = "outbound"
    BY <1>2, <2>1, <2>2 DEF Crash, LeavesCall, OnCall
  <2>3. CASE wk[w].pc # "outbound" BY <1>2, <2>3 DEF Crash
  <2> QED BY <2>2, <2>3
<1>3. CASE stray' = stray BY <1>3
<1> QED
  BY <1>1, <1>2, <1>3
     DEF Lease, WorkerStep, Load, Assess, Cancel, FinalizeLate, ConsumeQuota, Recheck,
         Abandon, Commit, HandleFailure, LockConsent, Renew, LoadFails, Fail

\* Of one run at most one worker calls.
LEMMA OneCaller ==
    ASSUME ConsentLockHeld, NEW v \in Worker, NEW w \in Worker,
           OnCall(v), OnCall(w), wk[v].run = wk[w].run
    PROVE  v = w
  BY DEF ConsentLockHeld, HolderInv, OnCall

\* A worker's step starts a call, ends one, or is not seen.
LEMMA WorkerRefines ==
    ASSUME ConsentLockHeld, NEW w \in Worker,
           \/ Lease(w) \/ WorkerStep(w) \/ LockConsent(w)
           \/ Renew(w) \/ CallRaises(w) \/ LoadFails(w) \/ Fail(w) \/ Crash(w)
    PROVE  [Gate!GateNext]_(Gate!gateVars)
<1>1. GateConsent' = GateConsent
  <2>1. scan' = scan
    BY WorkerFrames DEF ConsentLockHeld, WorkerFrame
  <2> QED BY <2>1 DEF GateConsent
<1>2. /\ Calling \in BOOLEAN /\ Calling' \in BOOLEAN
      /\ LeftBehind \in BOOLEAN /\ LeftBehind' \in BOOLEAN
  BY DEF Calling, LeftBehind, RunExists
<1>3. /\ run'.id = run.id /\ (RunExists' <=> RunExists)
      /\ \A v \in Worker \ {w} : wk'[v] = wk[v]
  BY WorkerFrames DEF ConsentLockHeld, WorkerFrame
<1>4. \A v \in Worker \ {w} :
         (OnCall(v)' <=> OnCall(v)) /\ (OfPresentRun(v)' <=> OfPresentRun(v))
  BY <1>3 DEF OnCall, OfPresentRun
<1>5. OnCall(w)' /\ ~OfPresentRun(w)' => OnCall(w) /\ ~OfPresentRun(w)
  BY <1>3, CallStarts DEF OfPresentRun, ActiveEnrichment
<1>6. CASE ~Calling /\ Calling'
  <2>1. OnCall(w)' /\ OfPresentRun(w)' /\ ~(OnCall(w) /\ OfPresentRun(w))
    BY <1>4, <1>6 DEF Calling, OfPresentRun
  <2>2. ~OnCall(w) /\ ActiveEnrichment(wk[w].run) /\ stray' = stray
    BY <1>3, <2>1, CallStarts DEF OfPresentRun
  <2>3. PICK s \in Enriched : scan[s] = "active"
    BY <2>2 DEF ActiveEnrichment, Consenting
  <2>4. GateConsent[s] = "given"
    BY <2>3, GateConsents DEF ConsentOf
  <2>5. LeftBehind' = LeftBehind
    BY <1>2, <1>4, <2>1, <2>2 DEF LeftBehind, OfPresentRun
  <2>6. Gate!StartCall
    BY <1>1, <1>2, <1>6, <2>4, <2>5 DEF Gate!StartCall
  <2> QED BY <2>6 DEF Gate!GateNext
<1>7. CASE Calling /\ ~Calling'
  <2>1. OnCall(w) /\ OfPresentRun(w)
    BY <1>4, <1>7 DEF Calling, OfPresentRun
  <2>2. stray \subseteq stray'
    BY StrayBy
  <2>3. LeftBehind => LeftBehind'
    BY <1>4, <2>1, <2>2 DEF LeftBehind, OfPresentRun
  <2>4. LeftBehind' \in {LeftBehind, TRUE}
    BY <1>2, <2>3
  <2> QED BY <1>1, <1>2, <1>7, <2>4 DEF Gate!EndCall, Gate!GateNext
<1>8. CASE Calling' = Calling
  <2>1. ASSUME ~LeftBehind, LeftBehind' PROVE FALSE
    <3>1. stray = {} /\ \A v \in Worker : OnCall(v) => OfPresentRun(v)
      BY <2>1 DEF LeftBehind, OfPresentRun
    <3>2. \A v \in Worker : OnCall(v)' => OfPresentRun(v)'
      BY <1>4, <1>5, <3>1
    <3>3. stray' # stray
      BY <2>1, <3>1, <3>2 DEF LeftBehind, OfPresentRun
    <3>4. OnCall(w) /\ ~OnCall(w)' /\ OfPresentRun(w)
      BY <3>1, <3>3, StrayBy
    <3>5. PICK v \in Worker : OnCall(v)' /\ OfPresentRun(v)'
      BY <1>8, <3>4 DEF Calling, OfPresentRun
    <3>6. v # w /\ OnCall(v) /\ OfPresentRun(v)
      BY <1>4, <3>4, <3>5
    <3> QED BY <3>4, <3>6, OneCaller DEF OfPresentRun
  <2>2. CASE LeftBehind /\ ~LeftBehind'
    BY <1>1, <1>2, <1>8, <2>2 DEF Gate!LeftEnds, Gate!GateNext
  <2>3. CASE LeftBehind' = LeftBehind
    BY <1>1, <1>8, <2>3 DEF Gate!gateVars
  <2> QED BY <1>2, <2>1, <2>2, <2>3
<1> QED BY <1>2, <1>6, <1>7, <1>8

\* A request's step gives, lets lapse or withdraws the consent of its scan.
LEMMA RequestRefines ==
    ASSUME ConsentLockHeld, NEW s \in Scan,
           \/ CreateRead(s) \/ RequestStep(s) \/ DeleteFlush(s) \/ DeleteLock(s)
           \/ RequestFails(s) \/ ScanExpires(s)
    PROVE  [Gate!GateNext]_(Gate!gateVars)
<1> USE DEF ConsentLockHeld
<1>1. RequestFrame(s) /\ run.id <= run'.id /\ run.id \in Nat /\ run'.id \in Nat
      /\ (RunExists => run'.id = run.id)
  BY RequestFrames, RunKept, RowTypes
<1>2. Calling' = Calling /\ LeftBehind' = LeftBehind
  <2>1. stray' = stray
    BY DEF CreateRead, RequestStep, CreatePlan, CreateCommit, CreateConflict,
           DeleteFlush, DeleteLock, DeleteCommit, RequestFails, ScanExpires
  <2>2. ASSUME RunExists PROVE RunExists'
    BY <2>2
       DEF RunExists, CreateRead, RequestStep, CreatePlan, CreateCommit, Conflicts,
           CreateConflict, DeleteFlush, DeleteLock, DeleteCommit, RequestFails,
           ScanExpires, Becomes, Written, RunRow
  <2>3. ASSUME ~RunExists, RunExists', NEW w \in Worker PROVE wk'[w].run # run'.id
    <3>1. CreateCommit(s) /\ rq[s].run = 0
      BY <2>3
         DEF RunExists, CreateRead, RequestStep, CreatePlan, CreateCommit, Conflicts,
             CreateConflict, DeleteFlush, DeleteLock, DeleteCommit, RequestFails,
             ScanExpires, Becomes, RunRow, RowInv
    <3>2. run'.id = run.id + 1
      BY <3>1 DEF CreateCommit, RunRow
    <3> QED BY <1>1, <3>2, SessionTypes, BoundsAreNaturals DEF RequestFrame, HolderInv
  <2>4. \A w \in Worker : OfPresentRun(w)' <=> OfPresentRun(w)
    BY <1>1, <2>2, <2>3 DEF OfPresentRun, RequestFrame
  <2>5. \A w \in Worker : OnCall(w)' <=> OnCall(w)
    BY <1>1 DEF RequestFrame, OnCall
  <2>6. Calling' <=> Calling
    BY <2>4, <2>5 DEF Calling, OfPresentRun
  <2>7. LeftBehind' <=> LeftBehind
    BY <2>1, <2>4, <2>5 DEF LeftBehind, OfPresentRun
  <2> QED BY <2>6, <2>7 DEF Calling, LeftBehind
<1>3. \A t \in Enriched \ {s} : ConsentOf(t)' = ConsentOf(t)
  BY <1>1, EnrichedAreScans DEF RequestFrame, ConsentOf
<1>4. ASSUME s \in Enriched, NEW c, ConsentOf(s)' = c
      PROVE  GateConsent' = [GateConsent EXCEPT ![s] = c]
  BY <1>3, <1>4, GateConsents
<1>5. CASE s \notin Enriched \/ ConsentOf(s)' = ConsentOf(s)
  BY <1>2, <1>3, <1>5, GateConsents DEF Gate!gateVars
<1>6. CASE s \in Enriched /\ CreateCommit(s)
  <2>1. ConsentOf(s) = "none" /\ ConsentOf(s)' = "given"
    BY <1>6 DEF CreateCommit, RequestInv, ConsentOf, TypeOK
  <2>2. Gate!Give(s)
    BY <1>2, <1>4, <1>6, <2>1, GateConsents DEF Gate!Give
  <2> QED BY <1>6, <2>2 DEF Gate!GateNext
<1>7. CASE s \in Enriched /\ ScanExpires(s)
  <2>1. ConsentOf(s) = "given" /\ ConsentOf(s)' = "lapsed"
    BY <1>7 DEF ScanExpires, ConsentOf, TypeOK
  <2>2. Gate!Lapse(s)
    BY <1>2, <1>4, <1>7, <2>1, GateConsents DEF Gate!Lapse
  <2> QED BY <1>7, <2>2 DEF Gate!GateNext
<1>8. CASE s \in Enriched /\ DeleteCommit(s)
  <2>1. ConsentOf(s) \in {"given", "lapsed"} /\ ConsentOf(s)' = "withdrawn"
    BY <1>8 DEF DeleteCommit, RequestInv, ConsentOf, TypeOK
  <2>2. ~Calling
    BY <1>8, NobodyCalls DEF Calling
  <2>3. Gate!Withdraw(s)
    BY <1>2, <1>4, <1>8, <2>1, <2>2, GateConsents DEF Gate!Withdraw
  <2> QED BY <1>8, <2>3 DEF Gate!GateNext
<1>9. CASE UNCHANGED scan
  BY <1>5, <1>9 DEF ConsentOf
<1> QED
  BY <1>5, <1>6, <1>7, <1>8, <1>9
     DEF CreateRead, RequestStep, CreatePlan, CreateConflict, DeleteFlush,
         DeleteLock, RequestFails

LEMMA CleanupRefines ==
    ASSUME ConsentLockHeld, Cleanup
    PROVE  [Gate!GateNext]_(Gate!gateVars)
<1>1. \A s \in Enriched : ConsentOf(s)' = ConsentOf(s)
  BY CleanupFrame, EnrichedAreScans DEF ConsentLockHeld, ConsentOf
<1>2. GateConsent' = GateConsent
  BY <1>1, GateConsents
<1>3. /\ Calling \in BOOLEAN /\ Calling' \in BOOLEAN
      /\ LeftBehind \in BOOLEAN /\ LeftBehind' \in BOOLEAN
  BY DEF Calling, LeftBehind, RunExists
<1>4. /\ run'.id = run.id /\ stray' = stray /\ wk' = wk
      /\ RunExists' => RunExists
  BY DEF Cleanup, Becomes, RunRow, RunExists
<1>5. \A w \in Worker :
         (OnCall(w)' <=> OnCall(w)) /\ (OfPresentRun(w)' => OfPresentRun(w))
  BY <1>4 DEF OnCall, OfPresentRun
<1>6. Calling' => Calling
  BY <1>5 DEF Calling, OfPresentRun
<1>7. LeftBehind => LeftBehind'
  BY <1>4, <1>5 DEF LeftBehind, OfPresentRun
<1>8. CASE Calling /\ ~Calling'
  <2>1. LeftBehind' \in {LeftBehind, TRUE}
    BY <1>3, <1>7
  <2> QED BY <1>2, <1>3, <1>8, <2>1 DEF Gate!GateNext, Gate!EndCall
<1>9. CASE Calling' = Calling
  <2>1. ASSUME ~LeftBehind, LeftBehind' PROVE FALSE
    <3>1. PICK w \in Worker : OnCall(w) /\ OfPresentRun(w) /\ ~OfPresentRun(w)'
      BY <1>4, <1>5, <2>1 DEF LeftBehind, OfPresentRun
    <3>2. ~RunExists' /\ Calling
      BY <1>4, <3>1 DEF OfPresentRun, Calling
    <3> QED BY <1>9, <3>2 DEF Calling
  <2>2. LeftBehind' = LeftBehind
    BY <1>3, <1>7, <2>1
  <2> QED BY <1>2, <1>9, <2>2 DEF Gate!gateVars
<1> QED BY <1>3, <1>6, <1>8, <1>9

LEMMA StepRefines ==
    ConsentLockHeld /\ [Next]_vars => [Gate!GateNext]_(Gate!gateVars)
<1> SUFFICES ASSUME ConsentLockHeld, [Next]_vars
             PROVE  [Gate!GateNext]_(Gate!gateVars)
  OBVIOUS
<1>1. CASE UNCHANGED <<run, scan, wk, stray>>
  BY <1>1 DEF Gate!gateVars, GateConsent, Calling, LeftBehind, OnCall, RunExists
<1>2. CASE StrayEnds
  <2>1. GateConsent' = GateConsent /\ Calling' = Calling
    BY <1>2 DEF StrayEnds, GateConsent, Calling, OnCall, RunExists
  <2>2. LeftBehind \in BOOLEAN /\ LeftBehind' \in BOOLEAN
    BY DEF LeftBehind
  <2>3. LeftBehind' => LeftBehind
    BY <1>2 DEF StrayEnds, LeftBehind, OnCall, RunExists
  <2>4. CASE LeftBehind' = LeftBehind BY <2>1, <2>4 DEF Gate!gateVars
  <2>5. CASE LeftBehind /\ ~LeftBehind'
    BY <2>1, <2>2, <2>5 DEF Gate!LeftEnds, Gate!GateNext
  <2> QED BY <2>2, <2>3, <2>4, <2>5
<1>3. CASE \/ EvidenceExpires \/ BecomeDue \/ DeadlinePasses
           \/ LeaseAges \/ LeaseRunsOut \/ LeaseOverslept
  BY <1>1, <1>3
     DEF EvidenceExpires, BecomeDue, DeadlinePasses, LeaseAges, LeaseRunsOut,
         LeaseOverslept
<1> QED
  BY <1>1, <1>2, <1>3, WorkerRefines, RequestRefines, CleanupRefines
     DEF Next, vars, ConsentLockHeld

\* The queue with its leases, retries and crashes keeps what the gate says of
\* consent: calls start with a consent in force, sessions wait for one at a time,
\* and a withdrawal waits for the session, though not for a call left behind.
THEOREM QueueImplementsGate == Spec => ImplementsConsentGate
<1>1. Init => Gate!GateInit
  BY EnrichedAreScans DEF Init, Gate!GateInit, GateConsent, Calling, LeftBehind,
                           OnCall, IdleWorker, Session, RunExists, RunRow
<1> QED
  BY <1>1, StepRefines, LockHeld, PTL DEF Spec, ImplementsConsentGate, Gate!GateSpec
============================================================================
