------------------------------ MODULE CaseFile ------------------------------
(***************************************************************************)
(* What PhishGuard promises about the review of one scan: analysts work on *)
(* its case one at a time, each change is allowed by the case as it is at  *)
(* that moment and audited together with it, and a ruling is the last of   *)
(* them.  ReviewCase implements this specification with requests that read,*)
(* lock, check, flush, audit and commit side by side.                      *)
(***************************************************************************)
EXTENDS Integers

CONSTANTS
    Analyst,        \* analysts and administrators
    Administrator,  \* those who may release a claim that is not theirs
    Nobody          \* claimant of an open case

VARIABLES
    case,           \* state and claimant of the case
    feedback,       \* what the owner's feedback says, and the consent given with it
    audited         \* number of audited acts

fileVars == <<case, feedback, audited>>

NoCase == [state |-> "absent", by |-> Nobody]
NoFeedback == [status |-> "absent", consent |-> FALSE]

FileInit == case = NoCase /\ feedback = NoFeedback /\ audited = 0

Workable == case.state \in {"OPEN", "CLAIMED"}

CaseBecomes(state, by) == case' = [state |-> state, by |-> by]
Audited == audited' = audited + 1

\* The owner's feedback opens the case; it is not audited.
Open ==
    /\ case = NoCase /\ CaseBecomes("OPEN", Nobody)
    /\ \E consent \in BOOLEAN :
           feedback' = [status |-> "QUARANTINED", consent |-> consent]
    /\ UNCHANGED audited

Claim(a) ==
    /\ Workable /\ case.by \in {Nobody, a}
    /\ CaseBecomes("CLAIMED", a) /\ Audited
    /\ UNCHANGED feedback

Release(a) ==
    /\ Workable /\ (case.by = a \/ a \in Administrator)
    /\ CaseBecomes("OPEN", Nobody) /\ Audited
    /\ UNCHANGED feedback

\* Only the claimant rules, and what the feedback says becomes the ruling.
Adjudicate(a) ==
    /\ case.state = "CLAIMED" /\ case.by = a
    /\ CaseBecomes("ADJUDICATED", a) /\ Audited
    /\ \E outcome \in {"PHISHING", "LEGITIMATE"} :
           feedback' = [status |-> outcome, consent |-> feedback.consent]

\* An annotation, a look at the scan, a request for an export.
Note == Audited /\ UNCHANGED <<case, feedback>>

\* The scan is removed, with all that hangs on it; that is not audited.
Remove ==
    /\ case # NoCase
    /\ case' = NoCase /\ feedback' = NoFeedback
    /\ UNCHANGED audited

FileNext ==
    \/ \E a \in Analyst : Claim(a) \/ Release(a) \/ Adjudicate(a)
    \/ Open \/ Note \/ Remove

FileSpec == FileInit /\ [][FileNext]_fileVars
=============================================================================
