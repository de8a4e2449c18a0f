----------------------------- MODULE ReviewCase -----------------------------
(***************************************************************************)
(* What becomes of a scan after its decision: the owner gives feedback,    *)
(* which opens a review case, analysts work on the case, a research export *)
(* takes what is reviewed, and all the while the owner may delete the scan *)
(* and the cleanup remove it.  Requests are READ COMMITTED transactions:   *)
(* one that changes the case locks its row when it reads it, then records  *)
(* itself in the audit chain, then commits or rolls back.  The row of the  *)
(* case and the chain are the locks that the properties rest on; those of  *)
(* the rows of accounts and sessions are left out: where waits for them    *)
(* close a circle with the chain PostgreSQL aborts a request, and Abort    *)
(* may end any request at any point.                                       *)
(***************************************************************************)
EXTENDS AuditChain

CONSTANTS
    Analyst,        \* analysts and administrators
    Administrator,  \* those who may release a claim that is not theirs
    Nobody,         \* claimant of an open case
    Key,            \* idempotency keys
    MaxEvents       \* bound: audit events

ASSUME AdministratorsReview == Administrator \subseteq Analyst /\ Nobody \notin Analyst
ASSUME KeysExist == Key # {}
ASSUME EventsAreBounded == MaxEvents \in Nat

VARIABLES
    scan,       \* "active", "expired", "deleted", or "purged" with all that hangs on it
    feedback,   \* the feedback row: its status and the research consent given with it
    case,       \* the review_case row
    caseLock,   \* holder of its row lock
    records,    \* idempotency records of the analysts' requests
    tx,         \* requests under way and what they have read
    export,     \* the research_export row
    job,        \* the job that makes the export: where it is, what it took
    acted,      \* history: actions committed under a record that is still there
    ruling,     \* history: who adjudicated, and how
    goneFirst   \* history: the scan was deleted when the export was claimed

reviewVars == <<feedback, case, caseLock, records, tx, acted, ruling>>
exportVars == <<export, job, goneFirst>>
vars == <<chainVars, scan, reviewVars, exportVars>>

Outcomes == {"PHISHING", "LEGITIMATE"}
Statuses == {"absent", "QUARANTINED"} \cup Outcomes
Changes == {"claim", "release", "annotate", "adjudicate"}
Looks == {"read", "reveal"}
Actions == Changes \cup Looks \cup {"feedback", "export"}

Case(state, by) == [state |-> state, by |-> by]
Cases ==
    [state : {"absent", "OPEN"}, by : {Nobody}]
        \cup [state : {"CLAIMED", "ADJUDICATED"}, by : Analyst]
NoCase == Case("absent", Nobody)

Feedback(status, consent) == [status |-> status, consent |-> consent]
Feedbacks == [status : Statuses, consent : BOOLEAN]
NoFeedback == Feedback("absent", FALSE)

Record(by, key) == [by |-> by, key |-> key]
RecordRows == [by : Analyst, key : Key]

Request(pc, actor, action, key, read, event) ==
    [pc |-> pc, actor |-> actor, action |-> action, key |-> key, read |-> read, event |-> event]
SomeKey == CHOOSE key \in Key : TRUE
NoRequest == Request("idle", Nobody, "none", SomeKey, NoCase, NoEvent)
Requests == [pc : {"idle", "entered", "acting", "audited"},
             actor : Analyst \cup {Nobody}, action : Actions \cup {"none"}, key : Key,
             read : Cases, event : Events]

Rulings == [by : Analyst \cup {Nobody}, outcome : Outcomes \cup {"none"}]
Ruling(by, outcome) == [by |-> by, outcome |-> outcome]
NoRuling == Ruling(Nobody, "none")

ExportStates == {"none", "QUEUED", "RUNNING", "COMPLETE", "FAILED"}
ExportJob(at, took) == [at |-> at, took |-> took]
JobPoints == {"none", "claimed", "selected", "filtered", "written"}
NoExportJob == ExportJob("none", FALSE)

TypeOK ==
    /\ ChainTypeOK
    /\ scan \in {"active", "expired", "deleted", "purged"}
    /\ feedback \in Feedbacks
    /\ case \in Cases
    /\ caseLock \in Tx \cup {NoTx}
    /\ records \subseteq RecordRows
    /\ tx \in [Tx -> Requests]
    /\ export \in ExportStates
    /\ job \in [at : JobPoints, took : BOOLEAN]
    /\ acted \in [RecordRows -> Nat]
    /\ ruling \in Rulings
    /\ goneFirst \in BOOLEAN

Init ==
    /\ ChainInit
    /\ scan = "active"
    /\ feedback = NoFeedback /\ case = NoCase /\ caseLock = NoTx
    /\ records = {} /\ tx = [t \in Tx |-> NoRequest]
    /\ export = "none" /\ job = NoExportJob
    /\ acted = [row \in RecordRows |-> 0] /\ ruling = NoRuling /\ goneFirst = FALSE

----------------------------------------------------------------------------
(* A request of the API.                                                   *)

Busy == {t \in Tx : tx[t].pc # "idle"}
MayBegin(t) == t \notin Busy /\ Len(chain) + Cardinality(Busy) < MaxEvents

Becomes(t, request) == tx' = [tx EXCEPT ![t] = request]
Enters(t, pc, actor, action, key) == Becomes(t, Request(pc, actor, action, key, NoCase, NoEvent))

Acting(r) == Request("acting", r.actor, r.action, r.key, case, NoEvent)
Audited(r, event) == Request("audited", r.actor, r.action, r.key, r.read, event)

Ends(t) ==
    /\ Becomes(t, NoRequest)
    /\ caseLock' = IF caseLock = t THEN NoTx ELSE caseLock
    /\ ReleaseChain(t)

Unheard == UNCHANGED <<scan, feedback, case, records, acted, ruling, exportVars>>

Visible == scan = "active" /\ case # NoCase

\* review_action up to its lock: a key that has a record gets the recorded response.
Begin(t, a, action, key) ==
    /\ MayBegin(t) /\ Record(a, key) \notin records
    /\ Enters(t, "entered", a, action, key)
    /\ UNCHANGED <<chainVars, caseLock>> /\ Unheard

\* get_scan and reveal_review_case_original_url read without a lock.
Look(t, a, action) ==
    /\ MayBegin(t) /\ Visible
    /\ action = "reveal" => case.by = a
    /\ Enters(t, "acting", a, action, SomeKey)
    /\ UNCHANGED <<chainVars, caseLock>> /\ Unheard

\* create_feedback; the owner sends it again with the same key, so it is made once.
GiveFeedback(t) ==
    /\ MayBegin(t) /\ scan = "active" /\ feedback = NoFeedback
    /\ Enters(t, "acting", Nobody, "feedback", SomeKey)
    /\ UNCHANGED <<chainVars, caseLock>> /\ Unheard

RequestExport(t, a) ==
    /\ MayBegin(t) /\ export = "none"
    /\ Enters(t, "acting", a, "export", SomeKey)
    /\ UNCHANGED <<chainVars, caseLock>> /\ Unheard

\* Variant: an administrator may adjudicate for the claimant.
PermittedToAdministrators(a, action) ==
    CASE action = "claim" -> case.by \in {Nobody, a}
      [] action \in {"release", "adjudicate"} -> case.by = a \/ a \in Administrator
      [] action = "annotate" -> TRUE

Permitted(a, action) ==
    CASE action = "claim" -> case.by \in {Nobody, a}
      [] action = "release" -> case.by = a \/ a \in Administrator
      [] action = "annotate" -> TRUE
      [] action = "adjudicate" -> case.by = a

\* Variant: an adjudicated case is like any other.
MayActAgain(t) == Visible /\ Permitted(tx[t].actor, tx[t].action)

MayAct(t) == Visible /\ case.state # "ADJUDICATED" /\ Permitted(tx[t].actor, tx[t].action)

\* Variant: the row is read without FOR UPDATE.
ReadCase(t) ==
    /\ tx[t].pc = "entered" /\ MayAct(t)
    /\ Becomes(t, Acting(tx[t]))
    /\ UNCHANGED <<chainVars, caseLock>> /\ Unheard

\* The row is locked, then read; what the checks admit goes on.
LockCase(t) ==
    /\ tx[t].pc = "entered" /\ caseLock = NoTx /\ MayAct(t)
    /\ caseLock' = t
    /\ Becomes(t, Acting(tx[t]))
    /\ UNCHANGED chainVars /\ Unheard

Refuse(t) ==
    /\ tx[t].pc = "entered" /\ caseLock = NoTx /\ ~MayAct(t)
    /\ Ends(t) /\ UNCHANGED chain /\ Unheard

\* Variant: the record is added unless it is there.
NeverConflicts(t) == FALSE

\* The unique key of the idempotency records, which the flush runs into.
Conflicts(t) == tx[t].action \in Changes /\ Record(tx[t].actor, tx[t].key) \in records

\* append_audit: the lock, the head, the event; the flush writes the other rows too.
Audit(t) ==
    /\ tx[t].pc = "acting" /\ tx[t].action # "feedback" /\ ~Conflicts(t)
    /\ TakeChain(t)
    /\ \E head \in Stamps \cup {0} :
           IsHead(head) /\ Becomes(t, Audited(tx[t], AuditEvent(head + 1, head)))
    /\ UNCHANGED <<chain, caseLock>> /\ Unheard

\* Feedback refers to the scan, and is given once.
Insertable == scan # "purged" /\ feedback = NoFeedback

\* Other constraints: the scan of the feedback is gone, or the row is there.
Conflict(t) ==
    /\ \/ tx[t].pc = "acting" /\ auditor = NoTx /\ Conflicts(t)
       \/ tx[t].pc = "acting" /\ tx[t].action = "feedback" /\ ~Insertable
       \/ tx[t].pc = "audited" /\ tx[t].action = "export" /\ export # "none"
    /\ Ends(t) /\ UNCHANGED chain /\ Unheard

\* The client goes away, a constraint or the connection breaks: rollback.
Abort(t) == t \in Busy /\ Ends(t) /\ UNCHANGED chain /\ Unheard

----------------------------------------------------------------------------
(* Its commit.                                                             *)

\* Variant: a release leaves the claimant in the row.
AfterUnreset(request) ==
    CASE request.action = "claim" -> Case("CLAIMED", request.actor)
      [] request.action = "release" -> Case("OPEN", request.read.by)
      [] request.action = "adjudicate" -> Case("ADJUDICATED", request.read.by)
      [] OTHER -> request.read

After(request) ==
    CASE request.action = "claim" -> Case("CLAIMED", request.actor)
      [] request.action = "release" -> Case("OPEN", Nobody)
      [] request.action = "adjudicate" -> Case("ADJUDICATED", request.read.by)
      [] OTHER -> request.read

\* The flush writes the columns that differ from what was read.
Written(read, new, current) == IF new = read THEN current ELSE new
Flushed(request) ==
    LET new == After(request)
    IN Case(Written(request.read.state, new.state, case.state),
            Written(request.read.by, new.by, case.by))

CommitEvent(t) ==
    /\ tx[t].pc = "audited" /\ Ends(t)
    /\ chain' = Append(chain, tx[t].event)

CommitChange(t) ==
    /\ CommitEvent(t) /\ tx[t].action \in Changes
    /\ case' = Flushed(tx[t])
    /\ LET row == Record(tx[t].actor, tx[t].key)
       IN records' = records \cup {row} /\ acted' = [acted EXCEPT ![row] = @ + 1]
    /\ IF tx[t].action = "adjudicate"
       THEN \E outcome \in Outcomes :
                /\ feedback' = Feedback(outcome, feedback.consent)
                /\ ruling' = Ruling(tx[t].actor, outcome)
       ELSE UNCHANGED <<feedback, ruling>>
    /\ UNCHANGED <<scan, exportVars>>

\* Feedback opens its case; nothing of it is audited.
CommitFeedback(t) ==
    /\ tx[t].pc = "acting" /\ tx[t].action = "feedback" /\ Insertable
    /\ \E consent \in BOOLEAN : feedback' = Feedback("QUARANTINED", consent)
    /\ case' = Case("OPEN", Nobody)
    /\ Ends(t)
    /\ UNCHANGED <<chain, scan, records, acted, ruling, exportVars>>

CommitLook(t) == CommitEvent(t) /\ tx[t].action \in Looks /\ Unheard

\* Its idempotency record lasts as long as the export: a second one conflicts.
CommitExport(t) ==
    /\ CommitEvent(t) /\ tx[t].action = "export" /\ export = "none"
    /\ export' = "QUEUED"
    /\ UNCHANGED <<scan, feedback, case, records, acted, ruling, job, goneFirst>>

----------------------------------------------------------------------------
(* The scan and the passing of time.                                       *)

Expire ==
    /\ scan = "active" /\ scan' = "expired"
    /\ UNCHANGED <<chainVars, caseLock, feedback, case, records, tx, acted, ruling, exportVars>>

\* The owner deletes it; what refers to it stays until the cleanup.
Delete ==
    /\ scan = "active" /\ scan' = "deleted"
    /\ UNCHANGED <<chainVars, caseLock, feedback, case, records, tx, acted, ruling, exportVars>>

\* cleanup_expired: the delete cascades, and waits for a lock on what it removes.
Purge ==
    /\ scan \in {"expired", "deleted"} /\ caseLock = NoTx
    /\ scan' = "purged" /\ feedback' = NoFeedback /\ case' = NoCase /\ ruling' = NoRuling
    /\ UNCHANGED <<chainVars, caseLock, records, tx, acted, exportVars>>

\* A day later.  Requests of that age are none of those under way.
RecordExpires(row) ==
    /\ row \in records
    /\ \A t \in Busy : Record(tx[t].actor, tx[t].key) # row
    /\ records' = records \ {row} /\ acted' = [acted EXCEPT ![row] = 0]
    /\ UNCHANGED <<chainVars, scan, feedback, case, caseLock, tx, ruling, exportVars>>

----------------------------------------------------------------------------
(* The export, a process of its own.                                       *)

JobGoes(at, took) ==
    /\ job' = ExportJob(at, took)
    /\ UNCHANGED <<chainVars, scan, reviewVars, goneFirst>>

ClaimExport ==
    /\ export = "QUEUED" /\ export' = "RUNNING"
    /\ job' = ExportJob("claimed", FALSE)
    /\ goneFirst' = (scan \in {"deleted", "purged"})
    /\ UNCHANGED <<chainVars, scan, reviewVars>>

\* Variant: whatever was consented to is selected.
Consented == feedback.consent

\* The feedback that may leave: consented to and adjudicated.
Selected == feedback.consent /\ feedback.status \in Outcomes

Select ==
    /\ job.at = "claimed"
    /\ JobGoes(IF Selected THEN "selected" ELSE "filtered", FALSE)
    /\ UNCHANGED export

\* Variant: only the row has to be there.
StillThere == scan # "purged"

\* The scan is read after the feedback; its expiry is not looked at.
Exportable == scan \notin {"purged", "deleted"}

Filter ==
    /\ job.at = "selected"
    /\ JobGoes("filtered", Exportable)
    /\ UNCHANGED export

WriteFile ==
    /\ job.at = "filtered" /\ JobGoes("written", job.took)
    /\ UNCHANGED export

Complete ==
    /\ job.at = "written" /\ export' = "COMPLETE"
    /\ JobGoes("none", job.took)

ExportFails ==
    /\ job.at \in {"claimed", "selected", "filtered"} /\ export' = "FAILED"
    /\ JobGoes("none", FALSE)

\* The process dies: nobody claims the export again.
ExportDies ==
    /\ job.at # "none"
    /\ JobGoes("none", job.at = "written" /\ job.took)
    /\ UNCHANGED export

----------------------------------------------------------------------------

Asks(t) ==
    \/ \E a \in Analyst, key \in Key : \E action \in Changes : Begin(t, a, action, key)
    \/ \E a \in Analyst, action \in Looks : Look(t, a, action)
    \/ \E a \in Administrator : RequestExport(t, a)
    \/ GiveFeedback(t)

Locks(t) == LockCase(t) \/ Refuse(t)
Audits(t) == Audit(t) \/ Conflict(t) \/ CommitFeedback(t)
Commits(t) == CommitChange(t) \/ CommitLook(t) \/ CommitExport(t)

ScanStep == Expire \/ Delete \/ Purge
ExportStep ==
    ClaimExport \/ Select \/ Filter \/ WriteFile \/ Complete \/ ExportFails \/ ExportDies

Next ==
    \/ \E t \in Tx : Asks(t) \/ Locks(t) \/ Audits(t) \/ Commits(t) \/ Abort(t)
    \/ ScanStep \/ ExportStep
    \/ \E row \in RecordRows : RecordExpires(row)

Spec == Init /\ [][Next]_vars

\* Handlers run; the waits for a row and for an advisory lock are queues.  Whoever has the
\* chain gets to its commit: if its insert meets a circle of waits, by an abort of another
\* request or by its own, which ends it as well.
Fairness ==
    \A t \in Tx : SF_vars(Locks(t)) /\ SF_vars(Audits(t)) /\ WF_vars(Commits(t))

FairSpec == Spec /\ Fairness

----------------------------------------------------------------------------
(* Checked properties.                                                     *)

\* governance.py 165-170: what was adjudicated does not change any more, neither the
\* case nor what its feedback says, until both are removed with the scan.
AdjudicationFinal ==
    [][case.state = "ADJUDICATED" =>
           case' = NoCase \/ (case' = case /\ feedback' = feedback)]_vars

\* governance.py 171-183: an adjudicated case names the analyst who adjudicated it as its
\* claimant, although claims are released and taken over by requests side by side.
AdjudicatedByClaimant == case.state = "ADJUDICATED" => case.by = ruling.by

\* governance.py 214-218, routes.py 747-758: feedback carries an outcome exactly if its
\* case is adjudicated, and then the one that was ruled.
FeedbackMatchesCase ==
    /\ (case.state = "ADJUDICATED") <=> (feedback.status \in Outcomes)
    /\ feedback.status \in Outcomes => feedback.status = ruling.outcome

\* governance.py 162-165, 229: while its record lasts, a key acts at most once, also if
\* the same request is under way twice before the first has committed.
ActedOnce == \A row \in RecordRows : acted[row] <= 1

\* audit.py 24-63, 66-87: whatever transactions append side by side and roll back, the
\* committed events verify as one chain.
ChainVerifies == Verified

\* cli.py 336-349: an export that is claimed after the scan was deleted leaves it out.
ExportHonoursDeletion == goneFirst => ~job.took

\* cli.py 337-344: what an export took was adjudicated with consent to research, and is so
\* to this moment unless it has been removed with its scan.
ExportedAreReviewed ==
    job.took /\ scan # "purged" => feedback.consent /\ case.state = "ADJUDICATED"

----------------------------------------------------------------------------
\* The refinement: the requests take effect one at a time, each as if it had read,
\* checked, changed and audited in one step (governance.py 147-231, audit.py 24-63).
File == INSTANCE CaseFile WITH audited <- Len(chain)

ImplementsCaseFile == File!FileSpec

----------------------------------------------------------------------------
\* A request ends: no order in which requests take the row of the case and the chain keeps
\* one of them waiting (governance.py 165, 230; audit.py 27).
RequestsEnd == \A t \in Tx : t \in Busy ~> t \notin Busy
=============================================================================
