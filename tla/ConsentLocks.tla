---------------------------- MODULE ConsentLocks ----------------------------
(***************************************************************************)
(* The consent locks of several runs.  EnrichmentQueue has the lock of one *)
(* run and a process for each job.  Here the jobs of one worker process    *)
(* are coroutines of one event loop, whose database calls block the loop,  *)
(* and the deletion of an account takes the locks of all its runs in one   *)
(* transaction.  A coroutine that waits for a lock stops all the others.   *)
(***************************************************************************)
CONSTANTS
    Run     \* the runs of the account, each with a job leased by the process

VARIABLES
    co,         \* each run's job: "leased", "waiting" for its lock, "outbound", "done"
    holder,     \* holder of each run's advisory lock: "job", "deletion" or "nobody"
    deletion,   \* the request that deletes the account's scans: "idle", "locking", "returned"
    left,       \* the runs whose lock it has not taken yet
    stray       \* the runs for which a call goes on that no job waits for

vars == <<co, holder, deletion, left, stray>>

Init ==
    /\ co = [r \in Run |-> "leased"] /\ holder = [r \in Run |-> "nobody"]
    /\ deletion = "idle" /\ left = {} /\ stray = {}

\* The loop runs a coroutine unless another one sits in a call to the database.
LoopFree == \A r \in Run : co[r] # "waiting"

\* Uncommitted, the deletion is not seen: the scans still count as active.
AskLock(r) ==
    /\ LoopFree /\ co[r] = "leased"
    /\ co' = [co EXCEPT ![r] = "waiting"]
    /\ UNCHANGED <<holder, deletion, left, stray>>

\* Under the lock the scans are looked up again: without one the job is cancelled.
GetLock(r) ==
    /\ co[r] = "waiting" /\ holder[r] = "nobody"
    /\ IF deletion = "returned"
       THEN co' = [co EXCEPT ![r] = "done"] /\ UNCHANGED holder
       ELSE co' = [co EXCEPT ![r] = "outbound"] /\ holder' = [holder EXCEPT ![r] = "job"]
    /\ UNCHANGED <<deletion, left, stray>>

\* The calls have answered or timed out, the decision is committed.
Return(r) ==
    /\ LoopFree /\ co[r] = "outbound"
    /\ co' = [co EXCEPT ![r] = "done"] /\ holder' = [holder EXCEPT ![r] = "nobody"]
    /\ UNCHANGED <<deletion, left, stray>>

\* One of the calls raises: the gather does not cancel the others, the rollback frees
\* the lock all the same, and the job is given back for another lease or finalized.
CallRaises(r) ==
    /\ LoopFree /\ co[r] = "outbound"
    /\ \E next \in {"leased", "done"} : co' = [co EXCEPT ![r] = next]
    /\ holder' = [holder EXCEPT ![r] = "nobody"]
    /\ stray' \in {stray, stray \cup {r}}
    /\ UNCHANGED <<deletion, left>>

\* A call left behind ends: its answer reaches nobody.
StrayEnds ==
    /\ LoopFree
    /\ \E r \in stray : stray' = stray \ {r}
    /\ UNCHANGED <<co, holder, deletion, left>>

\* The scans are marked and flushed.
DeletionMarks ==
    /\ deletion = "idle" /\ deletion' = "locking" /\ left' = Run
    /\ UNCHANGED <<co, holder, stray>>

\* The run identifiers are a set of the program: any order.
DeletionLocks(r) ==
    /\ deletion = "locking" /\ r \in left /\ holder[r] = "nobody"
    /\ holder' = [holder EXCEPT ![r] = "deletion"] /\ left' = left \ {r}
    /\ UNCHANGED <<co, deletion, stray>>

DeletionCommits ==
    /\ deletion = "locking" /\ left = {}
    /\ deletion' = "returned"
    /\ holder' = [r \in Run |-> IF holder[r] = "deletion" THEN "nobody" ELSE holder[r]]
    /\ UNCHANGED <<co, left, stray>>

Job(r) == AskLock(r) \/ GetLock(r) \/ Return(r) \/ CallRaises(r)
Worker == (\E r \in Run : Job(r)) \/ StrayEnds
Deletion == (\E r \in Run : DeletionLocks(r)) \/ DeletionCommits

Next == Worker \/ DeletionMarks \/ Deletion

Spec == Init /\ [][Next]_vars

\* The event loop and the request run, calls end, and a lock that is freed again and
\* again is granted to the deletion in its turn: PostgreSQL queues who waits for it.
Fairness == WF_vars(Worker) /\ SF_vars(Deletion)

FairSpec == Spec /\ Fairness

----------------------------------------------------------------------------
\* "Serialize the consent boundary through outbound work. Deletion takes the same
\* transaction-scoped advisory lock before it can return." (jobs/worker.py 158-159).
\* The deletion of an account takes several of them, and must return as well.
AccountDeletionReturns == deletion = "locking" ~> deletion = "returned"
=============================================================================
