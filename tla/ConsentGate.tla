---------------------------- MODULE ConsentGate ----------------------------
(***************************************************************************)
(* What PhishGuard keeps about consent, for one analysis run: a call for   *)
(* the run starts only while somebody's consent for it is in force, one    *)
(* call at a time is waited for, and no consent is withdrawn while it is:  *)
(* the withdrawal waits for the call.  A call may be left behind, when     *)
(* what waited for it is gone; no withdrawal and no later call waits for   *)
(* one of those.  EnrichmentQueue implements this specification with a job *)
(* row, a lease and a transaction-scoped advisory lock.                    *)
(***************************************************************************)
CONSTANT Scan       \* scans that ask for external enrichment

VARIABLES
    consent,        \* consent[s]: "none", "given", "lapsed" or "withdrawn"
    calling,        \* TRUE while a session waits for a call for the run
    left            \* TRUE while some call is left behind

gateVars == <<consent, calling, left>>

GateTypeOK ==
    /\ consent \in [Scan -> {"none", "given", "lapsed", "withdrawn"}]
    /\ calling \in BOOLEAN
    /\ left \in BOOLEAN

GateInit ==
    /\ consent = [s \in Scan |-> "none"]
    /\ calling = FALSE
    /\ left = FALSE

\* A scan is accepted together with its requester's consent.
Give(s) ==
    /\ consent[s] = "none"
    /\ consent' = [consent EXCEPT ![s] = "given"]
    /\ UNCHANGED <<calling, left>>

\* The retention period of the scan ends: time waits for no call.
Lapse(s) ==
    /\ consent[s] = "given"
    /\ consent' = [consent EXCEPT ![s] = "lapsed"]
    /\ UNCHANGED <<calling, left>>

\* The requester deletes the scan: never while a session waits for a call.
Withdraw(s) ==
    /\ consent[s] \in {"given", "lapsed"}
    /\ ~calling
    /\ consent' = [consent EXCEPT ![s] = "withdrawn"]
    /\ UNCHANGED <<calling, left>>

StartCall ==
    /\ ~calling
    /\ \E s \in Scan : consent[s] = "given"
    /\ calling' = TRUE
    /\ UNCHANGED <<consent, left>>

\* The wait is over; what was waited for may go on.
EndCall ==
    /\ calling
    /\ calling' = FALSE
    /\ left' \in {left, TRUE}
    /\ UNCHANGED consent

\* The last call left behind ends.
LeftEnds ==
    /\ left
    /\ left' = FALSE
    /\ UNCHANGED <<consent, calling>>

GateNext ==
    \/ \E s \in Scan : Give(s) \/ Lapse(s) \/ Withdraw(s)
    \/ StartCall
    \/ EndCall
    \/ LeftEnds

GateSpec == GateInit /\ [][GateNext]_gateVars
============================================================================
