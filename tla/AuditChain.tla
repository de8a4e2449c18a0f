----------------------------- MODULE AuditChain -----------------------------
(***************************************************************************)
(* The chain of audit events.  A transaction that records something takes  *)
(* the advisory lock of the chain, reads the latest event, stamps its own  *)
(* and keeps the lock to its end.  An event holds the stamp of the event   *)
(* before it, as it would hold its HMAC.                                   *)
(* All writers read one clock: a stamp is later than any taken before.     *)
(***************************************************************************)
EXTENDS Integers, Sequences, FiniteSets

CONSTANTS
    Tx,         \* transactions under way
    NoTx        \* holder of a free lock

ASSUME NoTxIsNone == NoTx \notin Tx

VARIABLES
    chain,      \* the committed events, in the order of their commits
    auditor     \* holder of the advisory lock of the chain

chainVars == <<chain, auditor>>

AuditEvent(at, previous) == [at |-> at, previous |-> previous]
NoEvent == AuditEvent(0, 0)
Events == [at : Nat, previous : Nat]

ChainTypeOK ==
    /\ chain \in Seq(Events)
    /\ auditor \in Tx \cup {NoTx}

ChainInit == chain = <<>> /\ auditor = NoTx

Stamps == {chain[i].at : i \in 1..Len(chain)}

\* The latest event by created_at; 0 before the first one.
IsHead(at) ==
    /\ at \in Stamps \cup {0}
    /\ \A other \in Stamps : other <= at

\* Variant: nothing is locked.
TakeNothing(t) == UNCHANGED auditor

TakeChain(t) == auditor = NoTx /\ auditor' = t

\* Variant: the lock is one of the database session, which the pool keeps.
KeepChain(t) == UNCHANGED auditor

\* Commit and rollback alike release what the transaction holds.
ReleaseChain(t) == auditor' = IF auditor = t THEN NoTx ELSE auditor

\* The events are in the order of their stamps too, and each holds the stamp of the
\* one before it.
Verified ==
    \A i \in 1..Len(chain) :
        /\ chain[i].previous = IF i = 1 THEN 0 ELSE chain[i - 1].at
        /\ chain[i].previous < chain[i].at
=============================================================================
