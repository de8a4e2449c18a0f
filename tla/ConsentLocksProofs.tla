------------------------- MODULE ConsentLocksProofs -------------------------
(***************************************************************************)
(* Proofs about ConsentLocks, for any number of runs: what the deletion of *)
(* an account guarantees when it returns, and exactly when it never does.  *)
(***************************************************************************)
EXTENDS ConsentLocks, TLAPS

JobStates == {"leased", "waiting", "outbound", "done"}
Holders == {"nobody", "job", "deletion"}

TypeOK ==
    /\ co \in [Run -> JobStates]
    /\ holder \in [Run -> Holders]
    /\ deletion \in {"idle", "locking", "returned"}
    /\ left \subseteq Run
    /\ stray \subseteq Run

\* A lock is the job's during its calls, and the deletion's from when it took it to its
\* commit; the event loop waits for one lock at a time.
LocksHeld ==
    /\ \A r \in Run : holder[r] = "job" <=> co[r] = "outbound"
    /\ \A r \in Run : holder[r] = "deletion" <=> deletion = "locking" /\ r \notin left
    /\ deletion # "locking" => left = {}
    /\ \A r, s \in Run : co[r] = "waiting" /\ co[s] = "waiting" => r = s

\* Under the lock the scans are looked up again: no job calls after the commit.
NoJobCalls == deletion = "returned" => \A r \in Run : co[r] # "outbound"

IInv == TypeOK /\ LocksHeld /\ NoJobCalls

\* The event loop waits for a lock the deletion holds, and the deletion for the lock of a
\* run whose calls only the loop could end.
Deadlocked ==
    /\ deletion = "locking"
    /\ \E r \in Run, s \in left :
           co[r] = "waiting" /\ holder[r] = "deletion" /\ co[s] = "outbound"

\* Some step of the worker or of the deletion is possible that brings the deletion nearer to
\* its commit: it commits, takes a lock, or a job gets or gives back one.
DeletionMayGoOn ==
    \/ left = {}
    \/ \E r \in left : holder[r] = "nobody"
    \/ \E r \in Run : co[r] = "waiting" /\ holder[r] = "nobody"
    \/ LoopFree /\ \E r \in left : co[r] = "outbound"

----------------------------------------------------------------------------
(* The inductive invariant.                                                *)

LEMMA InitInv == ASSUME Init PROVE IInv
BY DEF Init, IInv, TypeOK, JobStates, Holders, LocksHeld, NoJobCalls

LEMMA WorkerInv == ASSUME IInv, Worker PROVE IInv'
<1> USE DEF IInv, TypeOK, JobStates, Holders, LocksHeld, NoJobCalls
<1>1. CASE StrayEnds
  BY <1>1 DEF StrayEnds
<1>2. CASE \E r \in Run : AskLock(r)
  BY <1>2 DEF AskLock, LoopFree
<1>3. CASE \E r \in Run : GetLock(r)
  BY <1>3 DEF GetLock
<1>4. CASE \E r \in Run : Return(r) \/ CallRaises(r)
  <2>1. PICK r \in Run : Return(r) \/ CallRaises(r)
    BY <1>4
  <2>2. /\ co[r] = "outbound" /\ UNCHANGED <<deletion, left>>
        /\ holder' = [holder EXCEPT ![r] = "nobody"]
        /\ \E next \in {"leased", "done"} : co' = [co EXCEPT ![r] = next]
        /\ stray' \in {stray, stray \cup {r}}
    BY <2>1 DEF Return, CallRaises
  <2> QED
    BY <2>2
<1> QED
  BY <1>1, <1>2, <1>3, <1>4 DEF Worker, Job

LEMMA DeletionInv == ASSUME IInv, DeletionMarks \/ Deletion PROVE IInv'
<1> USE DEF IInv, TypeOK, JobStates, Holders, LocksHeld, NoJobCalls
<1>1. CASE DeletionMarks
  BY <1>1 DEF DeletionMarks
<1>2. CASE \E r \in Run : DeletionLocks(r)
  BY <1>2 DEF DeletionLocks
<1>3. CASE DeletionCommits
  <2>1. TypeOK'
    BY <1>3 DEF DeletionCommits
  <2>2. \A r \in Run : holder[r] = "deletion" /\ holder'[r] = "nobody" /\ co[r] # "outbound"
    BY <1>3 DEF DeletionCommits
  <2> QED
    BY <1>3, <2>1, <2>2 DEF DeletionCommits
<1> QED
  BY <1>1, <1>2, <1>3 DEF Deletion

LEMMA Inductive == Spec => []IInv
<1>1. Init => IInv
  BY InitInv
<1>2. ASSUME IInv, [Next]_vars PROVE IInv'
  <2>1. CASE Next
    BY <1>2, <2>1, WorkerInv, DeletionInv DEF Next
  <2>2. CASE UNCHANGED vars
    BY <1>2, <2>2 DEF vars, IInv, TypeOK, LocksHeld, NoJobCalls
  <2> QED
    BY <1>2, <2>1, <2>2
<1> QED
  BY <1>1, <1>2, PTL DEF Spec

----------------------------------------------------------------------------
(* The theorems.                                                           *)

\* worker.py 158-159, as far as it holds: when the deletion of the account has returned, no
\* job of any of its runs calls out or begins to, now or later, and no further call is
\* left behind.  Those left behind before may still be out: the lock does not cover them.
THEOREM DeletionEndsJobCalls ==
    Spec => [](deletion = "returned" => \A r \in Run : co[r] # "outbound")
                /\ [][deletion = "returned" => stray' \subseteq stray]_vars
<1>1. IInv => (deletion = "returned" => \A r \in Run : co[r] # "outbound")
  BY DEF IInv, NoJobCalls
<1>2. IInv /\ [Next]_vars => [deletion = "returned" => stray' \subseteq stray]_vars
  <2> SUFFICES ASSUME IInv, Next, deletion = "returned"
               PROVE  stray' \subseteq stray
    OBVIOUS
  <2>1. \A r \in Run : ~CallRaises(r)
    BY DEF IInv, NoJobCalls, CallRaises
  <2> QED
    BY <2>1 DEF Next, Worker, Job, AskLock, GetLock, Return, StrayEnds, DeletionMarks, Deletion,
                DeletionLocks, DeletionCommits
<1> QED
  BY <1>1, <1>2, Inductive, PTL DEF Spec

LEMMA DeadlockStep == ASSUME IInv, Deadlocked, [Next]_vars PROVE Deadlocked'
<1>1. PICK r \in Run, s \in left :
          co[r] = "waiting" /\ holder[r] = "deletion" /\ co[s] = "outbound"
  BY DEF Deadlocked
<1>2. /\ deletion = "locking" /\ s \in Run /\ holder[s] = "job" /\ ~LoopFree
      /\ r \notin left /\ r # s /\ left \subseteq Run
      /\ co \in [Run -> JobStates] /\ holder \in [Run -> Holders]
  BY <1>1 DEF Deadlocked, IInv, TypeOK, LocksHeld, LoopFree
<1>3. CASE Worker
  <2>1. PICK q \in Run : GetLock(q)
    <3>1. ~StrayEnds /\ \A q \in Run : ~AskLock(q) /\ ~Return(q) /\ ~CallRaises(q)
      BY <1>2 DEF AskLock, Return, CallRaises, StrayEnds
    <3> QED
      BY <1>3, <3>1 DEF Worker, Job
  <2>2. q # r /\ q # s
    BY <1>1, <1>2, <2>1 DEF GetLock
  <2> QED
    BY <1>1, <1>2, <2>1, <2>2 DEF GetLock, Deadlocked
<1>4. CASE Deletion
  <2>1. PICK q \in Run : DeletionLocks(q)
    BY <1>1, <1>4 DEF Deletion, DeletionCommits
  <2>2. q # r /\ q # s
    BY <1>1, <1>2, <2>1 DEF DeletionLocks
  <2> QED
    BY <1>1, <1>2, <2>1, <2>2 DEF DeletionLocks, Deadlocked
<1>5. CASE UNCHANGED vars
  BY <1>1, <1>2, <1>5 DEF vars, Deadlocked
<1> QED
  BY <1>2, <1>3, <1>4, <1>5 DEF Next, DeletionMarks

\* The deadlock is no matter of scheduling: once there, the deletion waits for ever, however
\* fair the loop, the request and the locks are.
THEOREM DeadlockLasts == Spec => [](Deadlocked => [](deletion = "locking"))
<1>1. IInv /\ Deadlocked /\ [Next]_vars => Deadlocked'
  BY DeadlockStep
<1>2. Deadlocked => deletion = "locking"
  BY DEF Deadlocked
<1> QED
  BY <1>1, <1>2, Inductive, PTL DEF Spec

\* And it is the only thing that keeps the deletion from returning: in every other state it
\* waits for a lock that is free or that some job is able to give back.
THEOREM OnlyThisDeadlock == Spec => [](deletion = "locking" => Deadlocked \/ DeletionMayGoOn)
<1>1. ASSUME IInv, deletion = "locking", ~DeletionMayGoOn PROVE Deadlocked
  <2>1. PICK s \in left : TRUE
    BY <1>1 DEF DeletionMayGoOn
  <2>2. s \in Run /\ co[s] = "outbound"
    BY <1>1, <2>1 DEF DeletionMayGoOn, IInv, TypeOK, Holders, LocksHeld
  <2>3. PICK r \in Run : co[r] = "waiting"
    BY <1>1, <2>1, <2>2 DEF DeletionMayGoOn, LoopFree
  <2>4. holder[r] = "deletion"
    BY <1>1, <2>3 DEF DeletionMayGoOn, IInv, TypeOK, Holders, LocksHeld
  <2> QED
    BY <1>1, <2>1, <2>2, <2>3, <2>4 DEF Deadlocked
<1>2. IInv => (deletion = "locking" => Deadlocked \/ DeletionMayGoOn)
  BY <1>1
<1> QED
  BY <1>2, Inductive, PTL

\* With a single run, as in EnrichmentQueue, the deletion is never without a way on: the
\* deadlock takes a second job of the same account in the same process.
THEOREM OneRunIsFree ==
    ASSUME \A r, s \in Run : r = s
    PROVE  Spec => [](deletion = "locking" => DeletionMayGoOn)
<1>1. ASSUME TypeOK PROVE ~Deadlocked
  BY <1>1 DEF Deadlocked, TypeOK
<1>2. IInv => TypeOK
  BY DEF IInv
<1>3. (deletion = "locking" => Deadlocked \/ DeletionMayGoOn) /\ ~Deadlocked
          => (deletion = "locking" => DeletionMayGoOn)
  OBVIOUS
<1> QED
  BY <1>1, <1>2, <1>3, Inductive, OnlyThisDeadlock, PTL
=============================================================================
