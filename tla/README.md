# PhishGuard in TLA+

PhishGuard classifies URLs. A web process accepts *scans*; scans of the same URL
under the same policy share one *analysis run*. A local decision is made at once;
if the requester consents, a *job* is queued and a *worker* process calls Web Risk
and an isolated fetcher and adds a FINAL decision. Everything the processes share
is in PostgreSQL, read and written at READ COMMITTED through SQLAlchemy sessions
that neither flush automatically nor refresh what they have read
(`infrastructure/database.py`: `autoflush=False, expire_on_commit=False`).

This directory holds TLA+ modules for the parts whose correctness depends on the
order of things, configurations that check them with TLC, and proofs that TLAPS
checks for every value of the constants.

    tlc -workers 2 -config EnrichmentQueue_workers.cfg MCEnrichmentQueue
    tlc -workers 2 -config EnrichmentPipeline.cfg MCEnrichmentPipeline
    tlc -workers 2 -config ReviewCase.cfg ReviewCase
    tlapm EnrichmentQueueProofs.tla

## The system and what is modelled

Paths are below `src/backend/src/phishguard/` unless they start with `src/`.

| Part | State | Operations | Hard behaviour | Properties | Module |
|---|---|---|---|---|---|
| Enrichment queue and workers (`jobs/worker.py`) | `scan_job`, `analysis_run.status`, `decision`, `evidence`; one consent advisory lock per run; sessions of the workers | lease, process, renew, retry, finalize, cancel, clean up | leases stolen during calls, calls that raise and leave another behind, crashes, rows read before a lock and used after it | sessions wait for one call of a run at a time and with consent, one FINAL per round, attempts paid for, results decided, locks given back, jobs settle | `EnrichmentQueue` |
| Scan requests (`application/scans.py`, `api/routes.py` create and delete) | `scan`, and the rows above | create (insert, reuse, requeue, mark), delete, expire | creations racing with deletions, the cleanup and each other; the stale flush | rows agree, deletion waits for the session that calls and returns; no call outlives it (some do) | `EnrichmentQueue` |
| Consent, as a promise | consent of each scan, whether a call is under way | give, lapse, withdraw, start and end a call | | refined by the queue | `ConsentGate` |
| A case file, as a promise | case, feedback, number of audited acts | open, claim, release, adjudicate, note, remove | | refined by the reviews | `CaseFile` |
| Identity and sessions (`application/auth.py`, `api/routes.py` 166-277) | `application_session`, `user_account` | exchange, reauthenticate, end, expire | a sign-in while a role changes | TOTP at every grant, no session after a change of authority | `RoleGovernance` in part |
| Roles (`application/roles.py`, `api/governance.py` 256-465, `cli.py` 127-212) | `user_account.role`, `role_request` | request, cancel, decide, assign, disable, bootstrap, transfer | rows read before a row lock and used after it | one canonical administrator, nothing becomes pending between the check and the insert, nobody changes the own account, approval grants the role | `RoleGovernance` |
| Idempotency and rate limits (`api/governance.py` 925-952, `api/routes.py` 878-930) | `idempotency_record`, `rate_limit_bucket` | replay, store, expire, count | the same key twice at once | a key acts once | `ReviewCase`; rate limits are not modelled |
| Reviews and feedback (`api/governance.py` 98-231, `api/routes.py` 567-620, 732-791) | `review_case`, `feedback` | give feedback, claim, release, annotate, adjudicate, reveal, read | several analysts and the owner at once; two locks in each request | rulings are final, are the claimant's and are what feedback says; requests are as good as atomic, and end | `ReviewCase` |
| Audit chain (`application/audit.py`) | `audit_event`, one advisory lock | append, verify | rollbacks, appends side by side | the committed events verify | `AuditChain`, within `ReviewCase` |
| Research export (`cli.py` 319-405) | `research_export`, a file | claim, select, filter, write, complete, fail, die | deletion and adjudication while it reads | takes what is reviewed, nothing deleted before the claim | `ReviewCase` |
| Retention and account deletion (`jobs/worker.py` 358-384, `api/routes.py` 442-499) | `scan` over several runs, consent locks | clean up, delete the account's scans | locks of several runs, event loops that block | no job calls after a deletion; deletion returns (it does not) | `ReviewCase`, `ConsentLocks` |
| Fusion and rules (`domain/`) | none | decide, evaluate | thresholds, missing evidence | evidence never lowers a verdict, a match alone raises none, COMPLETE is whole | `Fusion` |
| Provider clients and quota (`infrastructure/providers.py`, `jobs/worker.py` 119-217, 467-513) | quota bucket, the calls of a session | consume, look up, retry, call the fetcher, decide | timeouts, lost and refused answers, unexpected errors | each step leaves less to do, the wait for the calls ends | `EnrichmentPipeline` |
| Fetcher (`src/fetcher/`) | none that lasts | resolve, check, connect, follow, read, parse, look up the registration | names that resolve anew, two timers, an event loop that parses without a pause | checked peers, whole answers, page evidence kept | `Fetcher` |
| Experiments, sharing, guest sessions, frontend polling | | | | | not modelled, see below |
| Local model, encryption, HTTP shell, migrations, deployment | | | floating point, or configuration | not modelled | - |

`PROJECT.json` lists every part with its status, every hazard met while reading the
code at the line where it bites, and, for each definition, the lines it stands for.

## The modules

**`ConsentGate`** says what the product keeps about consent for one run: a call
starts only while some consent is in force, one call is waited for at a time, and a withdrawal
never happens while it is. A call may be left behind when what waited for it is gone; neither a
withdrawal nor a later call waits for one of those (`left`). `DeletionEndsCalls`, in `EnrichmentQueue`,
is the stronger promise of the comment in `worker.py`, which the code does not keep.

**`EnrichmentQueue`** is the code: the run row, the job row, the scan rows and the
latest FINAL decision of one URL; the holder of the advisory lock of each run; for
each worker process a program counter and what its session has read (`wk`); for
each scan the request under way for it and what that has read (`rq`); and the runs for which
a call goes on that no session waits for (`stray`). `rounds` and
`finals` are history variables, `faults` counts what `MaxFaults` bounds.

One action stands for one group of statements no other transaction can separate:

| Action | Code |
|---|---|
| `Lease` | `lease_jobs` |
| `Load`, `Assess`, `ConsumeQuota`, `LockConsent`, `Recheck`, `Answer`, `Commit` | `process_job`, from the first read to the commit of a FINAL decision |
| `Cancel`, `FinalizeLate`, `Abandon` | its early ends: no consented scan before the lock, past the deadline, no consented scan under the lock |
| `CallRaises` | a lookup that raises: `gather` raises at once, the rollback frees the lock, the fetcher's call may go on |
| `Fail`, `HandleFailure` | any other exception, and the handler: roll back, then retry in two seconds or finalize as unavailable |
| `LoadFails` | the first read raises, before the handler can know the owner: the job stays LEASED |
| `StrayEnds` | a call that was left behind ends: by a raising lookup, by a crash, or by a client that timed out while the fetcher goes on (`Answer`) |
| `Renew` | `renew_job_lease`, a task beside the calls |
| `Crash` | the process dies; PostgreSQL ends its transaction and releases its lock |
| `CreateRead`, `CreatePlan`, `CreateCommit`, `CreateConflict` | `ScanService.create`: the run is read, then the job, then the rows are written, or a key conflicts (409) |
| `DeleteFlush`, `DeleteLock`, `DeleteCommit` | `DELETE /scans/{id}` and `cancel_enrichment_if_unneeded` |
| `RequestFails` | an error of the database in a request: `get_db` rolls back |
| `Cleanup` | `cleanup_expired` |
| `ScanExpires`, `EvidenceExpires`, `BecomeDue`, `DeadlinePasses`, `LeaseAges`, `LeaseRunsOut`, `LeaseOverslept` | time: each flips the one comparison with the clock that the code makes |

What a session has read stays as it was read, which is where the interesting
behaviour comes from: `Written(read, new, current)` is the ORM's flush, which writes a
column only if the new value differs from the value read. So `_requeue` leaves
`lease_owner` alone (it read NULL) and `create` may write QUEUED over COMPLETE.

Abstractions, and what they leave out:

- One URL. Jobs of different URLs share nothing but workers and the quota; account
  deletion, which takes several consent locks, is in `ConsentLocks`.
- A scan is created and deleted at most once; a client that asks again is another
  scan, or the same after a conflict.
- The outcome of the calls is a choice between a partial and a complete result, with
  fresh or stale evidence; a partial result's evidence is never fresh. The policy and
  the quota may fail the session (`ConsumeQuota` re-reads the run) but not the job.
- A worker process handles one job at a time here. The real one runs several
  coroutines, but no two for the same job row unless its lease is lost, which two
  processes show.
- The connection of a worker is not lost without its process. With it the advisory
  lock would go while the session still waits for its call, and `OneCallPerRun`, `CallHasConsent` and
  `DeletionWaits` assume that it does not.
- The `run_missing` branch of the handler is not reached: the job row is deleted
  with its run (`ON DELETE CASCADE`), so the job is not owned any more.

**`RoleGovernance`** is the second part: the account of each identity, the
`role_request` rows, the accounts with a live session (`online`) and the requests of the
API under way (`tx`). A request is two actions: the one that reads without a lock and
the one that locks, checks, writes and commits. A request for a role is three: the lock of the account is
taken with the check for a pending request (`AskLock`, `SignInLock`) and kept until the insert
is committed; whoever locks, writes or refers to that account waits meanwhile (`Free`). What the first has read is in `tx[t].read`, and `Row`
says which object the second works on: SQLAlchemy returns the one in the identity map,
as it was read, even for `SELECT ... FOR UPDATE`, unless the query asks for
`populate_existing`, which these do not (`worker.py` 398 does). An object whose
last reference has gone is read afresh, so the account `resolve_principal` read is not the one the
handler works on.

| Action | Code |
|---|---|
| `SignInRead`, `SignInLock`, `SignInCommit` | `POST /session`: the account is read; it is locked if a role preference comes along; its flag, the session row and the preference are written |
| `AskRead`, `AskLock`, `AskCommit` | `POST /account/role-requests`: the account is read, locked and looked up for a pending request; the request is inserted |
| `CancelRead`, `CancelCommit` | `DELETE /account/role-requests/{id}` |
| `DecideRead`, `Approve`, `Reject` | `POST /admin/role-requests/{id}/actions` |
| `AdminRead`, `Update`, `Revoke` | `PUT /admin/users/{id}`, `POST .../revoke-sessions` |
| `BootstrapCanonical`, `TransferCanonical` | the operator's commands, serialized by an advisory lock |
| `Refuse` | any error answer or abort: `get_db` rolls back |
| `SessionEnds` | sign-out, expiry |

Between the lock of a row and the commit nobody else writes it, so elsewhere the second step is one
action: what is checked there is a column of a row that is locked. A pending request is no row of the
account but one among others, so there the lock has to be a step, if it is to be seen to work. Its lock also orders it against sign-ins: the insertion of a session row takes a
key-share lock of the account, which the administrators' FOR UPDATE waits for. The
admission of the caller and the reads of the handler are one step: a later read could only
see fewer permissions. The partial unique index of `role_request` and the
check on the canonical account are *not* in the model: that they hold anyway is what
`NonePendingWhileAsking` (with the theorem `PendingUnique`) and `CanonicalIsActiveAdmin` say. Left out: CSRF, idempotency records and audit rows (`ReviewCase` has
them), fresh authentication, guests. `online` says that an account has some session, not which.

**`Fusion`** has no state: it is `domain/fusion.py` and the weights of
`domain/enrichment.py` as operators. Log-odds are counted in units of 0.05, of which every
weight is a multiple (0.65 is 13, the bound of 2.0 is 40, reputation 20). Thresholds on the probability become
the first unit that reaches them: logit(0.72) = 0.944 is 19 units, logit(0.38) = -0.49 is
-9; rule-only odds start from logit(0.12) = -1.992, so that 0.55 is reached by 44 units of
rules and 0.20 by 13. A model's log-odds are any integer here, where the code has any real: a
threshold falls between two units for both. The order of reasons and the texts are left out.

**`Fetcher`** is one request to the isolated fetcher (`fetch.py`, `policy.py`, `rdap.py`).
`at` is where the coroutine waits, `pinned` the addresses its connector resolves to, `peer`
the open connection, `answer` the observations, `clock` the time since the event loop got to the request.

| Action | Code |
|---|---|
| `Begin` | the event loop gets to a request that was sent (`queued`); its budget starts here |
| `Resolve`, `Connect`, `Redirect` | the loop of `_fetch_page`: every hop looks at the time left, is resolved, checked, pinned and connected anew |
| `NoPage`, `ReadBody`, `Parse` | the end of the page; decompression and parsing are synchronous |
| `Reject`, `ConnectionFails`, `PageTimesOut` | the handlers of `enrich` |
| `RdapWithoutQuery`, `RdapBegins`, `RdapResolve`, `RdapConnect`, `RdapQuery`, `RdapTimesOut` | `_rdap_observation` under the time the page has left |

Names resolve to any set of addresses, another at every hop. A refused URL, header or
body is one action, since its cause makes no difference; a 500 (`broken`) is an error the
handlers do not name, such as a charset Python does not know, or a registration answer nested deeper than its JSON parser follows. No timer is
prompt: the loop may be at the parsing of this page or of another one, so whatever a request can do next it may
do although its budget is spent, and `clock` does not go beyond `Budget`. The 1.5 s of the resolver and the timers of a
connection are within the budget and appear as failures that may happen at any time.

**`EnrichmentPipeline`** composes both with the clients of one worker session: quota, Web Risk with
its retries, the call of the fetcher with its own 12 s, and the decision made of what
they return. `EnrichmentQueue` has all this as one choice (`ConsumeQuota`, `Answer`): it says *when* a
session calls, this module *what* the calls do. Jobs follow one another, one at a time. A call that outlives its
session (`LookupRaises`, `ClientTimesOut`) does not keep the next job from calling: from then on the fetcher's variables are those of
the new request, and the old one, like the requests of other sessions, is only felt as time the loop takes.

| Action | Code |
|---|---|
| `StartCalls` | `process_job` from the provider's row to `gather`; one unit of quota for a lookup |
| `Request`, `NotConfigured` | `WebRiskClient.lookup`, up to three requests |
| `LookupRaises` | a JSON answer that is no object: `payload.get` raises what the client does not catch, and the session's handler gives the job back |
| `AnswerArrives`, `ServerError`, `FetcherDies`, `AnswerLost`, `ClientTimesOut` | `FetcherClient.enrich` and its handlers |
| `Tick`, `MinutePasses` | time, as far as the two timers measure it; one that is due may have to wait |
| `Decide`, `NextJob` | evidence, rules, `decide`, the FINAL decision |

httpx applies its 12 s to each read. The fetcher sends nothing before its answer is complete, so from the
request to the answer they are one wait, which is the one the model has. The Web Risk client's 5 s are for each
read, too, and its body has no limit: that one of its requests ends is an assumption of the model (`Request`).

An answer that arrives may be refused by the closed schema. That a fetcher answer can carry more
addresses than the 32 the client admits (`providers.py` 32) is why a well-formed one with DNS evidence may be, too.

**`AuditChain`** and **`ReviewCase`** are what becomes of a scan after its decision: the
feedback row, the case row and the holder of its row lock, the idempotency records of
review actions, the requests under way with what they have read (`tx`), the
export and its process (`job`), the committed audit events and the holder of their advisory lock. A
request of an analyst locks the case, reads it, decides (`LockCase`, `Refuse`), flushes and takes the chain
(`Audit`), and commits (`CommitChange`) or rolls back (`Conflict`, `Abort`).

| Action | Code |
|---|---|
| `Begin`, `LockCase`, `Refuse` | `review_action` up to its flush; a key with a record gets the recorded response and does not begin |
| `Look`, `CommitLook` | `reveal_review_case_original_url`, `get_scan` by an analyst: audited, without a lock on the case |
| `GiveFeedback`, `CommitFeedback` | `create_feedback`; nothing of it is audited |
| `RequestExport`, `CommitExport` | `create_export` |
| `Audit` | the flush, then `append_audit`: lock, head, event |
| `Conflict`, `Abort` | a unique or foreign key (409), any other error: `get_db` rolls back and the locks go |
| `Expire`, `Delete`, `Purge`, `RecordExpires` | `scan_is_active`, `delete_scan`, `cleanup_expired`, the 24 hours of a record |
| `ClaimExport`, `Select`, `Filter`, `WriteFile`, `Complete`, `ExportFails`, `ExportDies` | `_export_recorded_research`, a process of its own |

An event holds the stamp of the event before it where the code has an HMAC over it; stamps stand for
`created_at`, and all writers read one clock. The scan is deleted between any two steps of a request
that has found it active, since only the case is locked. The rows of accounts and sessions, which an
audit event refers to and a request writes to, are locked in the code and not here: where they close a circle with the
chain, PostgreSQL aborts a request, and `Abort` may end any request at any point. Bounds: one feedback and
one case for a scan, one export. `acted`, `ruling` and `goneFirst` are history variables.

**`CaseFile`** is what the reviews promise: a case is worked on one act at a time. Claim, release
and adjudication are allowed by the case as it *is*, change case and feedback together and are audited with
them; looks, annotations and requests for an export are audited and change nothing. `ReviewCase` has the same case and
feedback, and `audited` is the length of its committed chain. Everything else in it (sessions, locks,
keys, the export) is how the code gets there: every step but the commits, the opening and the removal of a case stutters.

**`ConsentLocks`** is about the consent locks of *several* runs. Jobs of one worker process are
coroutines of one event loop, and a wait for an advisory lock is a synchronous call that stops the loop; the
deletion of an account takes the locks of all its runs in one transaction. A lock is held by a job, by
the deletion or by `"nobody"`. A call that raises (`CallRaises`) gives the lock back and may leave the other call
behind (`stray`).

`MCEnrichmentPipeline` gives TLC local stages on both sides of every threshold.
`MCEnrichmentQueue` adds the symmetry sets for TLC: workers are interchangeable,
and so are scans of the same mode. `MCRoleGovernance` does the same for accounts, requests under
way and role requests. Symmetry is used in safety runs only.

## What the runs check

| Run | Instance | Shows |
|---|---|---|
| `workers` | 2 workers, 2 consented scans, 2 runs, 1 fault | the calls sessions wait for are serialized and consented, the lock invariant, one FINAL per round, attempts paid for, deletion waits for the sessions |
| `scans` | 1 worker, 2 consented and 1 local scan, 2 runs, no fault | rows agree, results decided, the refinement of `ConsentGate` |
| `live` | 2 workers, 1 scan, 2 faults, fair | every queued job is settled, every deletion returns |
| `attempts`, `stranded` | smallest instances that show it | two sentences of ADR-0003 that the code does not keep |
| `left_behind` | 1 worker, 1 scan, no fault | a deletion returns during a call that a raising lookup has left behind |
| `roles_overlap` | 2 accounts, 2 requests at once beside the operator, 1 role request | one canonical administrator from the bootstrap on, nothing becomes pending between check and insert, no self change, privilege only with TOTP, no session left by a change of authority, approval grants the role |
| `roles_final`, `roles_requester` | smallest instances that show it | a sentence of ADR-0007 and one of an error message that stale reads break |
| `pipeline` | a public and a private address, 2 redirects, budget 2, client timeout 3, quota 1, 9 local stages; fair | checked peers, whole answers, page evidence kept, verdicts never lowered, uncorroborated matches, COMPLETE is whole, each step leaves less to do, calls end |
| `reviews` | 2 requests at once, an analyst and an administrator, 1 key, 3 audit events; fair | the chain verifies, a key acts once, rulings final, the claimant's and in the feedback, exports reviewed and not deleted, the refinement of `CaseFile`, requests end |
| `locks` | 2 runs, one worker process, one account deletion; fair | a comment of `worker.py` that a blocked event loop breaks |

Bounds. Two workers are enough for a stolen lease and for two calls at a time; two
consented scans for a withdrawal that leaves a consent and for a creation that relies
on another's job; two runs for a row deleted and inserted again while a session still
holds the old one; one fault for a lease lost at any point. `attempts` is not bounded
by a constant, but by what pays for it (`AttemptsPaidFor`). Faults alone do not: `attempts <= RetryLimit + faults`
holds with two scans and is false with three. A request that read a cancelled job before its first lease
(attempts 0) and commits its `_requeue` after another request has requeued the job and workers have leased it
twice writes no attempts, since the value it read is the one it writes, and the job gets a third attempt
without any crash. So a round in the queue pays, too; the invariant was checked with three scans as well
(one worker, one fault: 5.5M states). The proofs below need none of these bounds.

For roles, two accounts show an administrator and the other, before and after a transfer between
them; two requests at once show every stale read and every wait for an account, since each depends on
one commit in between, and more of them only repeat it. One row of role requests is enough for
`NonePendingWhileAsking`, which an insert by the other of two requests of one account would break. Three accounts
(a canonical administrator, a former and a delegated one) and several rows are left to the proofs, which need no bound.

For the pipeline, one redirect less than the limit and the limit itself both occur; a budget of
two ticks lets the page use up none, some or all of it; the client waits one tick longer, as 12 s are longer than
10 s, but its time runs from the call and the fetcher's from `Begin`, so that either may give up first. One unit of quota meets its
limit at the second job of a minute. Nine local stages have a sum at each side of each threshold. For reviews,
two requests are what a row lock, a chain lock and a key can be contended by; three events
let a case be claimed, adjudicated and looked at or claimed, released and claimed by another. Four events
(379k states, safety only) show nothing new. One key is enough to be used twice; another one would be
another request.

`CHECK_DEADLOCK FALSE` (queue, reviews, locks): when every scan has been deleted and cleaned up nothing is
left to happen; the bound on audit events ends the model of reviews; when all jobs are done and the deletion has returned, that of the locks.

Fairness (`Fairness`). `run_worker` polls for ever and every call has a timeout, so a
worker's next step is weakly fair; a request is carried through by the web process. PostgreSQL grants
an advisory lock to its waiters in turn, so taking it is strongly fair: free again
and again, it is granted. Leases age and retries become due because time passes. Nothing is
assumed about clients, renewals, failures and the cleanup.

In the pipeline the worker's event loop runs, the requests of the lookup end and time passes
(`WF_vars(Tick \/ Looks \/ Client)`); nothing is assumed of the fetcher, which may never get to the request or hang in a parser: the
client's timer ends the wait. In the reviews a request takes a lock it
waits for when that is free again and again (`SF`, the waits are queues) and commits when it can
(`WF`); nothing is assumed about owners, the cleanup and the export. In `ConsentLocks` the worker's loop runs whenever it
can (`WF`) and the deletion is granted a lock that is free again and again (`SF`): what blocks them is not the lack of fairness.

## What is proved

`EnrichmentQueueProofs` holds, for all `Worker`, `Scan`, `Enriched`, `MaxRuns` and
`MaxFaults` that satisfy the three named assumptions (enriched scans are scans; workers,
scans and `NoOne` differ; the bounds are naturals):

| Theorem | Statement |
|---|---|
| `TypeCorrect` | `Spec => []TypeOK` |
| `LockHeld` | `Spec => []ConsentLockHeld`, the inductive invariant |
| `CallsSerialized`, `CallsConsented` | `[]OneCallPerRun`, `[]CallHasConsent` |
| `DeletionIsSafe` | `DeletionWaits` |
| `FinalsBounded`, `ResultsDecided` | `[]OneFinalPerRound`, `[]ResultHasDecision` |
| `AttemptsArePaidFor` | `[]AttemptsPaidFor` |
| `LocksAreGivenBack` | `[]NoOrphanLock`: a lock that is taken is in use |
| `OpenJobsGoOn` | with a worker at all, `[](job.state \in OpenStates => JobMayGoOn)` |
| `RowsAgree` | `[]RowsConsistent` |
| `QueueImplementsGate` | `Spec => ImplementsConsentGate` |

The argument. `OneCallPerRun` says nothing about the lock, so it is not inductive.
`ConsentLockHeld` adds that a worker between `LockConsent` and its commit holds the lock
of the run it has *read* (`HolderInv`), that a deletion past `DeleteLock` holds the lock of the
*present* run (`RequestInv`), and that these are the same as long as a scan is there, since a run is
replaced only after its last scan (`RowInv`, and `wk[w].run <= run.id`). A deletion that
commits then excludes every session that waits for a call of the run, which is what keeps `CallHasConsent`. These theorems
say nothing of the calls in `stray`, and cannot: `DeletionEndsCalls` is violated. What the lock does cover is the time in which
a session waits, and `QueueImplementsGate` has the calls left behind as the exception of the promise.
Each part is shown by what a step may touch (`WorkerFrames`, `RequestFrames`,
`TimeFrames`, `CleanupFrame`), so the other workers and requests need no case analysis,
and by what the acting one establishes (`ActorHolds`, `ActorAsks`). `RowsConsistent`
needs `PlanInv`: what a creation has planned from the rows it read is still possible
when it commits, or its commit conflicts.

`AttemptsPaidFor` is not inductive either: `Lease` counts the attempt, but what pays for it happened before.
`PaidInv` asks for the pay as soon as somebody may take the job (`Takeable`: it is queued, its lease has run out, or
its owner is gone), which needs that a leased job has an owner at work on the job's run or gone (`LeaseOwned`).
A failure that the handler sees pays with the attempt that is left below the limit; a crash, an overslept lease and a
first read that raises, after which the handler does not find the job, are faults, and `_requeue` is a round. `NoOrphanLock` is the converse of `ConsentLockHeld`: every lock that is taken has a holder
past it, at the run of that lock. Together they say that a deletion which waits does so for somebody at work: the part of
`DeletionReturns` that is safety. The part of `JobSettles` is `OpenJobsGoOn`: while the job is open, somebody has a step to take that needs
nothing more. It may be an idle worker that takes the job, one that is at work, the deletion whose commit a worker waits for, or time (a retry becomes
due, a lease ages or runs out). It follows from `NoOrphanLock`, `LeaseOwned` and that only jobs which are due are leased, so that a
lease which has run out can be taken over. That each such step is taken in the end, and leads to a settled job, is fairness. TLC
checked on the instance of `workers` that `MayStep`, which states the guards, is `ENABLED` of the worker's steps.

`RoleGovernanceProofs` holds for all `Account`, `Tx` and `RequestId`, and a `Nobody` that is
no account:

| Theorem | Statement |
|---|---|
| `TypeCorrect` | `Spec => []TypeOK` |
| `CanonicalSafe`, `CanonicalKept` | `[]CanonicalIsActiveAdmin`, `CanonicalPersists` |
| `PendingUnique` | `[](NonePendingWhileAsking /\ OnePending)`: an account never has two pending requests, with any number of rows |
| `ApprovalGrants` | `ApprovalGrantsRole` |
| `SelfUnchanged`, `GrantsAssured`, `ChangesEndSessions` | `NoSelfChange`, `AssuredWhenGranted`, `AuthorityChangeEndsSessions` |

Here the strengthening is `GoverningInv`: types, and what a session under way may rely on
(`AdmissionInv`: its actor was an administrator when read, the request it decides is a row, an
account it read has not vanished), and the lock of the account (`LockInv`: one request at a time holds it, and
while one does its account has nothing pending). A step moves the accounts in one of six ways (`AcctMove`) and
the role requests in one of three (`RowsMove`), so each property is a case analysis over these.
The heart is `UnchangedWritesNothing`: an update that changes nothing in the eyes of its
session writes nothing, however the row has changed. It gives both `SelfUnchanged` and
the protection of the canonical account.

`FusionProofs` holds for every local stage, sum of weights and set of evidence:
`VerdictNeverLowers`, `MatchAlone` and `CompleteHasAll` are the three facts about `Verdict` that the
pipeline's properties state of a stored decision. `MoreSignalsNeverLower` says that the verdict grows with the rules
that match, with what enrichment adds and with the evidence that is there; `HighNeedsLocalStage` bounds what enrichment can
do: HIGH takes a local stage within 40 units of the threshold, or 60 with a match and a local signal. Weights are naturals, so a sum is at least the
local one; the thresholds are ordered, so a larger sum has no lower band.

`EnrichmentPipelineProofs` holds for all addresses, limits and local stages under the assumptions
`PublicAreAddresses`, `LimitsAreNaturals` (in `Fetcher`), `LocalStagesAreStages`, `TimeoutIsPositive` and
`QuotaIsPositive` (in `EnrichmentPipeline`):

| Theorem | Statement |
|---|---|
| `TypeSafe` | `[]TypeOK` |
| `PeersAreChecked`, `AnswersAreWhole`, `PagesAreKept` | `[]OnlyCheckedPeers`, `[]AnswerIsWhole`, `PageEvidenceKept` |
| `RiskIsNeverLowered`, `MatchesNeedLocalSignals`, `CompleteIsNeverPartial` | `[]RiskNeverLowered`, `[]MatchNeedsLocalSignal`, `[]CompleteIsWhole` |
| `FallbackNeedsRules` | `[]FallbackHighHasRule`: without a model, no stored HIGH without a local rule |
| `WorkFalls` | `WorkDecreases` |
| `WorkIsBounded` | `[](Work \in 0..(15 + 3 * MaxRedirects + Budget + ClientTimeout))` |

`IInv` adds to the types where a connection can be open and with which addresses pinned
(`PeerInv`), that a decision is made when both calls have ended (`CallInv`), what
an answer holds by the point the request has reached (`AnswerInv`), and that a decision is `Verdict` of the evidence stored with it
(`VerdictInv`). Nothing relates the two timers, and no theorem needs that one is longer.

`WorkFalls` and `WorkIsBounded` are what `CallsEnd` rests on, for every limit: `Work` counts the requests the lookup has left,
the steps of the fetcher within a hop, three more for each redirect left, the open call and the time of either timer. Each step of
either side, the death of the fetcher and a lost answer included, makes it less, and it is a natural number. That such a
step is taken at all is fairness, and stays with TLC.

`ReviewCaseProofs` holds for all transactions, analysts, keys and bounds under `NoTxIsNone`
(in `AuditChain`), `AdministratorsReview`, `KeysExist` and `EventsAreBounded` (in `ReviewCase`):

| Theorem | Statement |
|---|---|
| `TypeSafe` | `[]TypeOK` |
| `ChainAlwaysVerifies`, `KeysActOnce` | `[]ChainVerifies`, `[]ActedOnce` |
| `ClaimantsAdjudicate`, `RulingsAreFeedback`, `RulingsAreFinal` | `[]AdjudicatedByClaimant`, `[]FeedbackMatchesCase`, `AdjudicationFinal` |
| `DeletedIsNotExported`, `ExportsAreReviewed` | `[]ExportHonoursDeletion`, `[]ExportedAreReviewed` |
| `ReviewsAreAtomic` | `Spec => ImplementsCaseFile` |

`IInv` says besides: case and feedback come and go together (`PairInv`); a change between its checks
and its commit holds the row and has read what it still is, which is not adjudicated, and an adjudication is
its claimant's (`ChangeInv`); an audited
request holds the chain, and its event continues the committed head (`ChainInv`); a record counts the
commits under it (`RecordInv`); the export's process took what its state says (`ExportInv`).

For `ReviewsAreAtomic` the commits are where the acts happen. `GrantInv` says that a change
under way was allowed by the case as it was read, `ChangeInv` that the case still is what was read, and the chain gets longer by
one event in just those commits (`CommitCounts`). So a change is allowed by the case it changes.

`ConsentLocksProofs` holds for any set of runs, without an assumption. The run `locks` refutes `AccountDeletionReturns`; the
theorems say what remains of the comment in `worker.py` and how far the deadlock goes:

| Theorem | Statement |
|---|---|
| `DeletionEndsJobCalls` | when the deletion has returned no job of its runs calls out, and no further call is left behind: `[](deletion = "returned" => \A r \in Run : co[r] # "outbound") /\ [][deletion = "returned" => stray' \subseteq stray]_vars` |
| `DeadlockLasts` | `[](Deadlocked => [](deletion = "locking"))` |
| `OnlyThisDeadlock` | `[](deletion = "locking" => Deadlocked \/ DeletionMayGoOn)` |
| `OneRunIsFree` | with a single run, never `Deadlocked` |

`Deadlocked` is a job that waits for a lock of the deletion while another job, whose calls are out, holds a lock the
deletion still needs. The invariant is that the locks are held by those whose state says so, and that one job of the process at
most waits; and `NoJobCalls`, for which the look under the lock after the deletion is needed.

Every invariant and every action property of the passing runs is a theorem, and so are both refinements. Model-checked only: the liveness properties
`JobSettles`, `DeletionReturns`, `RequestsEnd` and `CallsEnd` (fairness and ENABLED are out of the prover's
reach), of which the theorems above prove the safety parts, and the six violations.

## Where code and documents differ

- `AttemptsBounded`: attempts are compared with the limit only in the exception handler;
  a worker that dies is not counted (ADR-0003 line 12, `worker.py` 66 and 222).
- `NoStrandedScan`: a creation relies on an open job that a deletion cancels before the
  creation commits; the consented scan is never enriched (ADR-0003 line 12, `scans.py` 106 and 187).
- `DeletionEndsCalls`: the comment at `worker.py` 158 says that deletion takes the lock of the outbound work before
  it can return. A lookup that raises (`providers.py` 157 and 166) ends the transaction and its lock through `gather` and the
  handler (`worker.py` 177 and 219), while the fetcher's call goes on: a deletion returns during it.
- `DecisionIsFinal`: `decide` compares PENDING a second time under its lock, but with the
  object it read before; a closed request is closed again (ADR-0007 line 30, `roles.py` 134).
- `RequesterIsRegistered`: the check under the lock uses the account as loaded before
  (`roles.py` 84 and 88).
- `AccountDeletionReturns`: the comment at `worker.py` 158 relies on deletion getting the lock when the
  outbound work is done. A worker process whose coroutine waits for a lock of an account deletion
  cannot finish the work of another coroutine, whose lock the deletion waits for (`worker.py` 160,
  `routes.py` 469). Deployments run one worker with ten jobs at a time, without a timeout of the database
  and without a liveness probe for it.

Met while reading, without a run:

- An export takes what one analyst has adjudicated, and writes `independent_adjudication_required`
  (`cli.py` 381); nothing keeps the adjudicator from being the author of the feedback (`governance.py` 182).
- An answer about reputation alone counts as usable (`fusion.py` 96): with it, and every page family missing, a result
  that would be INCONCLUSIVE is LOW. `RiskNeverLowered` holds, since LOW is the local band then.
- An export does not look at the expiry of a scan, only at its deletion (`cli.py` 348). The cleanup removes
  both.
- Two feedback requests with different keys open two cases for one scan.
- After a lookup that raises, the job is back in the queue in two seconds, and the next session may call for the same run beside the
  fetcher's call that was left behind.
- When the first read of a job raises (`worker.py` 83, a pool without a free connection, say), the handler has no owner to look for
  (220, 388): the job stays LEASED until its lease runs out, and the attempt is not compared with the limit.
- A registration answer of deeply nested JSON raises `RecursionError`, which neither `rdap.py` 97-100 nor `fetch.py` expects: the
  fetcher answers 500, and what the page has shown is lost with it.
- An audit event refers to the actor's account (`models.py` 322) and is flushed after the chain lock (`audit.py` 27, 61-62), together
  with the caller's `last_seen_at` (`auth.py` 198). An administrator who holds that account FOR UPDATE (`governance.py` 271, 375), or
  another request of the same session that has flushed before it takes the chain (`governance.py` 227), may wait for the chain
  meanwhile. PostgreSQL aborts one of the two.
- The fetcher may be at a page when its client has given up (`providers.py` 212): its budget starts when its loop gets to the request, and
  no timer stops a parser.

Two more races are in the models without a property that forbids them, as the documents
leave the moment open that counts; they are listed as hazards. A creation may write QUEUED over the status of a job that
has completed since it was read (`scans.py` 108). And an update admitted for the
canonical administrator may commit after the transfer that replaced it (`governance.py` 270,
ADR-0007 line 24).

## Not modelled

- The local model and its training: floating point. Encryption, logging, error bodies, migrations,
  manifests: no behaviour in time.
- The URL policy (`domain/url_policy.py`) and the HTML parser are functions over characters. A model would be a
  transliteration, and unit tests reach their tables.
- Guest sessions and the adoption of their scans, reauthentication, CSRF, shared links, rate
  limits: single rows with one actor. The race of an adoption with a creation of the
  same guest (`auth.py` 138) is the one worth a model.
- Experiments (`cli.py` 248) follow the pattern of exports, which are modelled.
- Frontend polling: one browser tab.
- Clocks that differ between hosts. The order of the audit chain, leases and deadlines assume that
  they agree well enough; one clock is used throughout.
- The pool of database connections, whose exhaustion ends in a failure that is modelled.

## Plan

1. Done: `EnrichmentQueue`, `RoleGovernance`, `Fusion`, `Fetcher`, `EnrichmentPipeline`, `AuditChain`,
   `ReviewCase`, `CaseFile`, `ConsentLocks` and the proofs of all of them.
2. A writer with a clock of its own in `AuditChain`, with the violation it brings; the row locks of accounts and sessions around
   the chain, and which requests PostgreSQL aborts for them.
3. `Sessions`: guests, adoption, and account deletion that ends sessions under way.
4. An abstract specification of the roles, and that `EnrichmentPipeline` implements the choice `Answer` of `EnrichmentQueue`.
