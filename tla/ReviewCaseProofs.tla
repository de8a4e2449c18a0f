-------------------------- MODULE ReviewCaseProofs --------------------------
(***************************************************************************)
(* Proofs about ReviewCase, for any transactions, analysts, keys and       *)
(* number of audit events.                                                 *)
(***************************************************************************)
EXTENDS ReviewCase, TLAPS

USE DEF Outcomes, Statuses, Changes, Looks, Actions, ExportStates, JobPoints

----------------------------------------------------------------------------
(* The inductive invariant.                                                *)

\* The feedback and its case are there together, until the scan is gone.
PairInv ==
    /\ case.state = "absent" => case = NoCase
    /\ feedback.status = "absent" => feedback = NoFeedback
    /\ case.state = "absent" <=> feedback.status = "absent"
    /\ scan = "purged" => feedback = NoFeedback

RulingInv == AdjudicatedByClaimant /\ FeedbackMatchesCase

\* Between its checks and its commit a change holds the row it has read.
Holds(t) ==
    /\ caseLock = t /\ tx[t].read = case
    /\ case.state \in {"OPEN", "CLAIMED"}
    /\ tx[t].action = "adjudicate" => case.by = tx[t].actor

ChangeInv ==
    \A t \in Tx :
        /\ tx[t].action \in Changes => tx[t].actor \in Analyst
        /\ tx[t].pc \in {"acting", "audited"} /\ tx[t].action \in Changes => Holds(t)

\* Whoever has read the head of the chain holds the chain.
ChainInv ==
    /\ \A i \in 1..Len(chain) : chain[i] = AuditEvent(i, i - 1)
    /\ \A t \in Tx : tx[t].pc = "audited" =>
           auditor = t /\ tx[t].event = AuditEvent(Len(chain) + 1, Len(chain))

\* The flush of a change has inserted its record, which no other commit can do any more.
RecordInv ==
    /\ \A row \in RecordRows : acted[row] = IF row \in records THEN 1 ELSE 0
    /\ \A t \in Tx : tx[t].pc = "audited" /\ tx[t].action \in Changes =>
           Record(tx[t].actor, tx[t].key) \notin records

ExportInv ==
    /\ goneFirst => scan \in {"deleted", "purged"} /\ ~job.took
    /\ (job.took \/ job.at = "selected") /\ scan # "purged" =>
           feedback.consent /\ case.state = "ADJUDICATED"

IInv == TypeOK /\ PairInv /\ RulingInv /\ ChangeInv /\ ChainInv /\ RecordInv /\ ExportInv

----------------------------------------------------------------------------
(* Requests.                                                               *)

LEMMA NothingTypes ==
    /\ NoCase \in Cases /\ NoCase.state = "absent"
    /\ NoFeedback \in Feedbacks /\ NoFeedback.status = "absent" /\ NoFeedback.consent = FALSE
    /\ NoEvent \in Events /\ SomeKey \in Key
    /\ NoRuling \in Rulings
    /\ NoRequest \in Requests /\ NoRequest.pc = "idle" /\ NoRequest.action = "none"
<1>1. NoCase \in Cases /\ NoCase.state = "absent"
  BY DEF NoCase, Case, Cases
<1>2. NoFeedback \in Feedbacks /\ NoFeedback.status = "absent" /\ NoFeedback.consent = FALSE
  BY DEF NoFeedback, Feedback, Feedbacks
<1>3. NoEvent \in Events
  BY DEF NoEvent, AuditEvent, Events
<1>4. SomeKey \in Key
  BY KeysExist DEF SomeKey
<1>5. NoRuling \in Rulings
  BY DEF NoRuling, Ruling, Rulings
<1>6. NoRequest \in Requests /\ NoRequest.pc = "idle" /\ NoRequest.action = "none"
  BY <1>1, <1>3, <1>4 DEF NoRequest, Request, Requests
<1> QED
  BY <1>1, <1>2, <1>3, <1>4, <1>5, <1>6

LEMMA TxTypes ==
    ASSUME TypeOK, NEW t \in Tx
    PROVE  /\ tx[t] \in Requests
           /\ tx[t].pc \in {"idle", "entered", "acting", "audited"}
           /\ tx[t].actor \in Analyst \cup {Nobody}
           /\ tx[t].action \in Actions \cup {"none"}
           /\ tx[t].key \in Key /\ tx[t].read \in Cases /\ tx[t].event \in Events
BY DEF TypeOK, Requests

LEMMA BecomesFacts ==
    ASSUME TypeOK, NEW t \in Tx, NEW r \in Requests, Becomes(t, r)
    PROVE  /\ tx' \in [Tx -> Requests]
           /\ tx'[t] = r
           /\ \A u \in Tx : u # t => tx'[u] = tx[u]
BY DEF TypeOK, Becomes

\* Who ends releases what it held, and nobody else's.
LEMMA EndsFacts ==
    ASSUME TypeOK, NEW t \in Tx, Ends(t)
    PROVE  /\ tx' \in [Tx -> Requests]
           /\ tx'[t].pc = "idle" /\ tx'[t].action = "none"
           /\ caseLock' \in Tx \cup {NoTx} /\ auditor' \in Tx \cup {NoTx}
           /\ \A u \in Tx : u # t => /\ tx'[u] = tx[u]
                                     /\ caseLock = u => caseLock' = u
                                     /\ auditor = u => auditor' = u
<1>1. Becomes(t, NoRequest)
  BY DEF Ends
<1>2. /\ tx' \in [Tx -> Requests] /\ tx'[t] = NoRequest
      /\ \A u \in Tx : u # t => tx'[u] = tx[u]
  BY <1>1, NothingTypes, BecomesFacts
<1>3. /\ caseLock' \in Tx \cup {NoTx} /\ auditor' \in Tx \cup {NoTx}
      /\ \A u \in Tx : u # t => (caseLock = u => caseLock' = u) /\ (auditor = u => auditor' = u)
  BY DEF Ends, ReleaseChain, TypeOK, ChainTypeOK
<1> QED
  BY <1>2, <1>3, NothingTypes

\* Nothing is committed: what the rows say is as it was.
LEMMA UnheardKeeps ==
    ASSUME PairInv, RulingInv, ExportInv, Unheard
    PROVE  PairInv' /\ RulingInv' /\ ExportInv'
BY DEF Unheard, exportVars, PairInv, RulingInv, AdjudicatedByClaimant, FeedbackMatchesCase, ExportInv

\* The rows of the tables have their types.
RowsOK ==
    /\ scan \in {"active", "expired", "deleted", "purged"}
    /\ feedback \in Feedbacks
    /\ case \in Cases
    /\ records \subseteq RecordRows
    /\ export \in ExportStates
    /\ job \in [at : JobPoints, took : BOOLEAN]
    /\ acted \in [RecordRows -> Nat]
    /\ ruling \in Rulings
    /\ goneFirst \in BOOLEAN

LEMMA UnheardRows ==
    ASSUME RowsOK, Unheard
    PROVE  RowsOK'
BY DEF Unheard, exportVars, RowsOK

LEMMA TypeParts ==
    TypeOK <=> /\ RowsOK /\ chain \in Seq(Events) /\ auditor \in Tx \cup {NoTx}
               /\ caseLock \in Tx \cup {NoTx} /\ tx \in [Tx -> Requests]
BY DEF TypeOK, ChainTypeOK, RowsOK

\* A request that ends without a commit leaves everything in order.
LEMMA RollbackInv ==
    ASSUME IInv, NEW t \in Tx, Ends(t), UNCHANGED chain, Unheard
    PROVE  IInv'
<1>1. TypeOK /\ RowsOK
  BY TypeParts DEF IInv
<1>2. /\ tx' \in [Tx -> Requests]
      /\ tx'[t].pc = "idle" /\ tx'[t].action = "none"
      /\ caseLock' \in Tx \cup {NoTx} /\ auditor' \in Tx \cup {NoTx}
      /\ \A u \in Tx : u # t => /\ tx'[u] = tx[u]
                                /\ caseLock = u => caseLock' = u
                                /\ auditor = u => auditor' = u
  BY <1>1, EndsFacts
<1>3. TypeOK'
  BY <1>1, <1>2, UnheardRows DEF TypeOK, ChainTypeOK, RowsOK
<1>4. PairInv' /\ RulingInv' /\ ExportInv'
  BY UnheardKeeps DEF IInv
<1>5. ChangeInv'
  BY <1>2 DEF IInv, ChangeInv, Holds, Unheard
<1>6. ChainInv'
  BY <1>2 DEF IInv, ChainInv
<1>7. RecordInv'
  BY <1>2 DEF IInv, RecordInv, Unheard
<1> QED
  BY <1>3, <1>4, <1>5, <1>6, <1>7 DEF IInv

----------------------------------------------------------------------------
(* Requests begin, lock and audit.                                         *)

\* A request that has changed nothing yet: it may go on if what it holds is in order.
LEMMA ProceedsInv ==
    ASSUME IInv, NEW t \in Tx, NEW r \in Requests, Becomes(t, r), Unheard, UNCHANGED chain,
           caseLock' \in Tx \cup {NoTx}, auditor' \in Tx \cup {NoTx},
           \A u \in Tx : (caseLock = u => caseLock' = u) /\ (auditor = u => auditor' = u),
           r.action \in Changes => r.actor \in Analyst,
           r.pc \in {"acting", "audited"} /\ r.action \in Changes =>
               /\ caseLock' = t /\ r.read = case /\ case.state \in {"OPEN", "CLAIMED"}
               /\ r.action = "adjudicate" => case.by = r.actor,
           r.pc = "audited" =>
               /\ auditor' = t /\ r.event = AuditEvent(Len(chain) + 1, Len(chain))
               /\ r.action \in Changes => Record(r.actor, r.key) \notin records
    PROVE  IInv'
<1>1. TypeOK /\ RowsOK
  BY TypeParts DEF IInv
<1>2. /\ tx' \in [Tx -> Requests] /\ tx'[t] = r
      /\ \A u \in Tx : u # t => tx'[u] = tx[u]
  BY <1>1, BecomesFacts
<1>3. TypeOK'
  BY <1>1, <1>2, UnheardRows DEF TypeOK, ChainTypeOK, RowsOK
<1>4. PairInv' /\ RulingInv' /\ ExportInv'
  BY UnheardKeeps DEF IInv
<1>5. ChangeInv'
  BY <1>2 DEF IInv, ChangeInv, Holds, Unheard
<1>6. ChainInv'
  BY <1>2 DEF IInv, ChainInv
<1>7. RecordInv'
  BY <1>2 DEF IInv, RecordInv, Unheard
<1> QED
  BY <1>3, <1>4, <1>5, <1>6, <1>7 DEF IInv

LEMMA AsksInv == ASSUME IInv, NEW t \in Tx, Asks(t) PROVE IInv'
<1> USE DEF Enters
<1>1. PICK pc \in {"entered", "acting"}, actor \in Analyst \cup {Nobody}, action \in Actions, key \in Key :
          /\ Becomes(t, Request(pc, actor, action, key, NoCase, NoEvent))
          /\ action \in Changes => actor \in Analyst /\ pc = "entered"
          /\ Unheard /\ UNCHANGED <<chain, auditor, caseLock>>
  <2>1. CASE \E a \in Analyst, key \in Key : \E action \in Changes : Begin(t, a, action, key)
    BY <2>1 DEF Begin, chainVars
  <2>2. CASE \E a \in Analyst, action \in Looks : Look(t, a, action)
    BY <2>2, NothingTypes DEF Look, chainVars
  <2>3. CASE \E a \in Administrator : RequestExport(t, a)
    BY <2>3, NothingTypes, AdministratorsReview DEF RequestExport, chainVars
  <2>4. CASE GiveFeedback(t)
    BY <2>4, NothingTypes DEF GiveFeedback, chainVars
  <2> QED
    BY <2>1, <2>2, <2>3, <2>4 DEF Asks
<1> DEFINE r == Request(pc, actor, action, key, NoCase, NoEvent)
<1>2. r \in Requests /\ r.pc = pc /\ r.actor = actor /\ r.action = action
  BY <1>1, NothingTypes DEF Request, Requests
<1>3. Becomes(t, r)
  BY <1>1
<1> HIDE DEF r
<1>4. caseLock \in Tx \cup {NoTx} /\ auditor \in Tx \cup {NoTx}
  BY TypeParts DEF IInv
<1> QED
  BY <1>1, <1>2, <1>3, <1>4, ProceedsInv

LEMMA LocksInv == ASSUME IInv, NEW t \in Tx, Locks(t) PROVE IInv'
<1>1. CASE Refuse(t)
  BY <1>1, RollbackInv DEF Refuse
<1>2. CASE LockCase(t)
  <2>1. TypeOK /\ caseLock = NoTx /\ caseLock' = t /\ UNCHANGED <<chain, auditor>> /\ Unheard
    BY <1>2 DEF IInv, LockCase, chainVars
  <2>2. /\ tx[t].actor \in Analyst \cup {Nobody} /\ tx[t].action \in Actions \cup {"none"}
        /\ tx[t].key \in Key /\ case \in Cases
    BY <2>1, TxTypes DEF TypeOK
  <2> DEFINE r == Acting(tx[t])
  <2>3. /\ r \in Requests /\ r.pc = "acting" /\ r.actor = tx[t].actor /\ r.action = tx[t].action
        /\ r.read = case
    BY <2>2, NothingTypes DEF Acting, Request, Requests
  <2>4. Becomes(t, r)
    BY <1>2 DEF LockCase
  <2> HIDE DEF r
  <2>5. case.state \in {"OPEN", "CLAIMED"}
    <3>1. case.state # "absent" /\ case.state # "ADJUDICATED"
      BY <1>2 DEF LockCase, MayAct, Visible, IInv, PairInv
    <3> QED
      BY <2>2, <3>1 DEF Cases
  <2>6. tx[t].action = "adjudicate" => case.by = tx[t].actor
    BY <1>2 DEF LockCase, MayAct, Permitted
  <2>7. tx[t].action \in Changes => tx[t].actor \in Analyst
    BY DEF IInv, ChangeInv
  <2>8. auditor \in Tx \cup {NoTx}
    BY <2>1, TypeParts
  <2>9. \A u \in Tx : caseLock # u
    BY <2>1, NoTxIsNone
  <2> QED
    BY <2>1, <2>3, <2>4, <2>5, <2>6, <2>7, <2>8, <2>9, ProceedsInv
<1> QED
  BY <1>1, <1>2 DEF Locks

\* The latest stamp is that of the last event.
LEMMA HeadIsLast ==
    ASSUME ChainInv, chain \in Seq(Events), NEW head \in Stamps \cup {0}, IsHead(head)
    PROVE  head = Len(chain)
<1>1. Len(chain) \in Nat /\ \A i \in 1..Len(chain) : chain[i].at = i
  <2>1. \A i : AuditEvent(i, i - 1).at = i
    BY DEF AuditEvent
  <2>2. Len(chain) \in Nat
    OBVIOUS
  <2>3. \A i \in 1..Len(chain) : chain[i] = AuditEvent(i, i - 1)
    BY DEF ChainInv
  <2> QED
    BY <2>1, <2>2, <2>3
<1>2. Stamps = 1..Len(chain)
  BY <1>1 DEF Stamps
<1> DEFINE last == Len(chain)
<1>3. /\ last \in Nat /\ head \in 0..last
      /\ \A other \in 1..last : other <= head
  BY <1>1, <1>2 DEF IsHead
<1> HIDE DEF last
<1>4. last = 0 \/ last \in 1..last
  BY <1>3
<1>5. head = last
  BY <1>3, <1>4
<1> QED
  BY <1>5 DEF last

LEMMA AuditInv == ASSUME IInv, NEW t \in Tx, Audit(t) PROVE IInv'
<1>1. TypeOK /\ auditor = NoTx /\ auditor' = t /\ tx[t].pc = "acting" /\ ~Conflicts(t)
      /\ UNCHANGED <<chain, caseLock>> /\ Unheard /\ chain \in Seq(Events) /\ Len(chain) \in Nat
  BY DEF IInv, Audit, TakeChain, TypeOK, ChainTypeOK
<1>2. Becomes(t, Audited(tx[t], AuditEvent(Len(chain) + 1, Len(chain))))
  BY <1>1, HeadIsLast DEF Audit, IInv
<1>3. /\ tx[t].actor \in Analyst \cup {Nobody} /\ tx[t].action \in Actions \cup {"none"}
      /\ tx[t].key \in Key /\ tx[t].read \in Cases
  BY <1>1, TxTypes
<1> DEFINE event == AuditEvent(Len(chain) + 1, Len(chain))
           r == Audited(tx[t], event)
<1>4. event \in Events
  BY <1>1 DEF AuditEvent, Events
<1> HIDE DEF event
<1>5. /\ r \in Requests /\ r.pc = "audited" /\ r.actor = tx[t].actor /\ r.action = tx[t].action
      /\ r.key = tx[t].key /\ r.read = tx[t].read /\ r.event = event
  BY <1>3, <1>4 DEF Audited, Request, Requests
<1>6. Becomes(t, r)
  BY <1>2 DEF event
<1> HIDE DEF r
<1>7. /\ tx[t].action \in Changes => tx[t].actor \in Analyst
      /\ tx[t].action \in Changes => Holds(t) /\ Record(tx[t].actor, tx[t].key) \notin records
  BY <1>1 DEF IInv, ChangeInv, Conflicts
<1>8. caseLock \in Tx \cup {NoTx} /\ \A u \in Tx : auditor # u
  BY <1>1, TypeParts, NoTxIsNone
<1> QED
  <2>1. r.pc = "audited" =>
            /\ auditor' = t /\ r.event = AuditEvent(Len(chain) + 1, Len(chain))
            /\ r.action \in Changes => Record(r.actor, r.key) \notin records
    BY <1>1, <1>5, <1>7 DEF event
  <2>2. r.pc \in {"acting", "audited"} /\ r.action \in Changes =>
            /\ caseLock' = t /\ r.read = case /\ case.state \in {"OPEN", "CLAIMED"}
            /\ r.action = "adjudicate" => case.by = r.actor
    BY <1>1, <1>5, <1>7 DEF Holds
  <2>3. r.action \in Changes => r.actor \in Analyst
    BY <1>5, <1>7
  <2>4. /\ caseLock' \in Tx \cup {NoTx} /\ auditor' \in Tx \cup {NoTx}
        /\ \A u \in Tx : (caseLock = u => caseLock' = u) /\ (auditor = u => auditor' = u)
    BY <1>1, <1>8
  <2> QED
    BY <1>1, <1>5, <1>6, <2>1, <2>2, <2>3, <2>4, ProceedsInv

----------------------------------------------------------------------------
(* Commits.                                                                *)

\* An event that is committed continues the chain, and nobody else has read its head.
LEMMA CommitFacts ==
    ASSUME IInv, NEW t \in Tx, CommitEvent(t)
    PROVE  /\ chain' \in Seq(Events) /\ ChainInv'
           /\ tx' \in [Tx -> Requests]
           /\ tx'[t].pc = "idle" /\ tx'[t].action = "none"
           /\ caseLock' \in Tx \cup {NoTx} /\ auditor' \in Tx \cup {NoTx}
           /\ \A u \in Tx : u # t => /\ tx'[u] = tx[u] /\ tx[u].pc # "audited"
                                     /\ caseLock = u => caseLock' = u
<1>1. TypeOK /\ Ends(t) /\ tx[t].pc = "audited" /\ chain \in Seq(Events)
      /\ chain' = Append(chain, tx[t].event)
  BY DEF IInv, CommitEvent, TypeOK, ChainTypeOK
<1>2. /\ tx' \in [Tx -> Requests]
      /\ tx'[t].pc = "idle" /\ tx'[t].action = "none"
      /\ caseLock' \in Tx \cup {NoTx} /\ auditor' \in Tx \cup {NoTx}
      /\ \A u \in Tx : u # t => tx'[u] = tx[u] /\ (caseLock = u => caseLock' = u)
  BY <1>1, EndsFacts
<1>3. auditor = t /\ tx[t].event = AuditEvent(Len(chain) + 1, Len(chain)) /\ tx[t].event \in Events
  BY <1>1, TxTypes DEF IInv, ChainInv
<1>4. \A u \in Tx : u # t => tx[u].pc # "audited"
  BY <1>3 DEF IInv, ChainInv
<1> DEFINE event == tx[t].event
<1> HIDE DEF event
<1>5. /\ chain' \in Seq(Events) /\ Len(chain') = Len(chain) + 1 /\ Len(chain) \in Nat
      /\ \A i \in 1..Len(chain) : chain'[i] = chain[i]
      /\ chain'[Len(chain) + 1] = event
  <2>1. event \in Events /\ chain' = Append(chain, event)
    BY <1>1, <1>3 DEF event
  <2> QED
    BY <1>1, <2>1
<1>6. \A i \in 1..Len(chain') : chain'[i] = AuditEvent(i, i - 1)
  <2> TAKE i \in 1..Len(chain')
  <2>1. CASE i \in 1..Len(chain)
    BY <1>5, <2>1 DEF IInv, ChainInv
  <2>2. CASE i = Len(chain) + 1
    BY <1>3, <1>5, <2>2 DEF event
  <2> QED
    BY <1>5, <2>1, <2>2
<1>7. ChainInv'
  BY <1>2, <1>4, <1>6 DEF ChainInv
<1> QED
  BY <1>2, <1>4, <1>5, <1>7

\* A commit that changes no row a review rests on.
LEMMA CommitQuietInv ==
    ASSUME IInv, NEW t \in Tx, CommitEvent(t), export' \in ExportStates,
           UNCHANGED <<scan, feedback, case, records, acted, ruling, job, goneFirst>>
    PROVE  IInv'
<1>1. TypeOK
  BY DEF IInv
<1>2. TypeOK'
  BY <1>1, CommitFacts DEF TypeOK, ChainTypeOK
<1>3. PairInv' /\ RulingInv' /\ ExportInv'
  BY DEF IInv, PairInv, RulingInv, AdjudicatedByClaimant, FeedbackMatchesCase, ExportInv
<1>4. ChangeInv'
  BY CommitFacts DEF IInv, ChangeInv, Holds
<1>5. ChainInv'
  BY CommitFacts
<1>6. RecordInv'
  BY CommitFacts DEF IInv, RecordInv
<1> QED
  BY <1>2, <1>3, <1>4, <1>5, <1>6 DEF IInv

\* What a change writes into the row it still holds.
LEMMA FlushedFacts ==
    ASSUME IInv, NEW t \in Tx, tx[t].pc = "audited", tx[t].action \in Changes
    PROVE  /\ Holds(t) /\ tx[t].actor \in Analyst
           /\ Flushed(tx[t]) \in Cases /\ Flushed(tx[t]).state # "absent"
           /\ Flushed(tx[t]).state = "ADJUDICATED" <=> tx[t].action = "adjudicate"
           /\ tx[t].action = "adjudicate" => Flushed(tx[t]).by = tx[t].actor
<1>1. Holds(t) /\ tx[t].actor \in Analyst
  BY DEF IInv, ChangeInv
<1>2. case \in Cases /\ case.state \in {"OPEN", "CLAIMED"} /\ case.by \in Analyst \cup {Nobody}
      /\ tx[t].read = case
  BY <1>1 DEF IInv, TypeOK, Cases, Holds
<1> DEFINE new == After(tx[t])
<1>3. CASE tx[t].action = "claim"
  <2>1. new = Case("CLAIMED", tx[t].actor)
    BY <1>3 DEF After
  <2> QED
    BY <1>1, <1>2, <1>3, <2>1 DEF Flushed, Written, Case, Cases
<1>4. CASE tx[t].action = "release"
  <2>1. new = Case("OPEN", Nobody)
    BY <1>4 DEF After
  <2> QED
    BY <1>1, <1>2, <1>4, <2>1 DEF Flushed, Written, Case, Cases
<1>5. CASE tx[t].action = "adjudicate"
  <2>1. new = Case("ADJUDICATED", case.by) /\ case.by = tx[t].actor
    BY <1>1, <1>2, <1>5 DEF After, Holds
  <2> QED
    BY <1>1, <1>2, <1>5, <2>1 DEF Flushed, Written, Case, Cases
<1>6. CASE tx[t].action = "annotate"
  <2>1. new = case
    BY <1>2, <1>6 DEF After
  <2> QED
    BY <1>1, <1>2, <1>6, <2>1 DEF Flushed, Written, Case, Cases
<1> QED
  BY <1>1, <1>3, <1>4, <1>5, <1>6

LEMMA CommitChangeInv == ASSUME IInv, NEW t \in Tx, CommitChange(t) PROVE IInv'
<1>1. TypeOK /\ CommitEvent(t) /\ tx[t].pc = "audited" /\ tx[t].action \in Changes
      /\ case' = Flushed(tx[t]) /\ UNCHANGED <<scan, export, job, goneFirst>>
  BY DEF IInv, CommitChange, CommitEvent, exportVars
<1> DEFINE row == Record(tx[t].actor, tx[t].key)
<1>2. row \in RecordRows /\ row \notin records /\ acted[row] = 0
      /\ records' = records \cup {row} /\ acted' = [acted EXCEPT ![row] = @ + 1]
  <2>1. row \in RecordRows
    BY <1>1, TxTypes, FlushedFacts DEF Record, RecordRows
  <2>2. row \notin records
    BY <1>1 DEF IInv, RecordInv
  <2> QED
    BY <2>1, <2>2 DEF IInv, RecordInv, CommitChange
<1> HIDE DEF row
<1>3. /\ Holds(t) /\ tx[t].actor \in Analyst
      /\ case' \in Cases /\ case'.state # "absent"
      /\ case'.state = "ADJUDICATED" <=> tx[t].action = "adjudicate"
      /\ tx[t].action = "adjudicate" => case'.by = tx[t].actor
  BY <1>1, FlushedFacts
<1>4. \/ /\ tx[t].action = "adjudicate" /\ feedback' \in Feedbacks /\ feedback'.status \in Outcomes
         /\ ruling' = Ruling(tx[t].actor, feedback'.status) /\ ruling' \in Rulings
         /\ ruling'.by = tx[t].actor /\ ruling'.outcome = feedback'.status
      \/ tx[t].action # "adjudicate" /\ UNCHANGED <<feedback, ruling>>
  <2>1. CASE tx[t].action = "adjudicate"
    <3>1. PICK outcome \in Outcomes :
              feedback' = Feedback(outcome, feedback.consent) /\ ruling' = Ruling(tx[t].actor, outcome)
      BY <2>1 DEF CommitChange
    <3>2. feedback.consent \in BOOLEAN
      BY <1>1 DEF TypeOK, Feedbacks
    <3>3. feedback' \in Feedbacks /\ feedback'.status = outcome
      BY <3>1, <3>2 DEF Feedback, Feedbacks
    <3>4. ruling' \in Rulings /\ ruling'.by = tx[t].actor /\ ruling'.outcome = outcome
      BY <1>3, <3>1 DEF Ruling, Rulings
    <3> QED
      BY <2>1, <3>1, <3>3, <3>4
  <2>2. CASE tx[t].action # "adjudicate"
    BY <2>2 DEF CommitChange
  <2> QED
    BY <2>1, <2>2
<1>5. feedback.status \notin Outcomes /\ feedback.status # "absent" /\ feedback # NoFeedback
      /\ case.state # "ADJUDICATED" /\ scan # "purged"
  BY <1>3, NothingTypes DEF Holds, IInv, PairInv, RulingInv, FeedbackMatchesCase
<1>6. TypeOK'
  <2>1. acted' \in [RecordRows -> Nat] /\ records' \subseteq RecordRows
    BY <1>1, <1>2 DEF TypeOK
  <2>2. feedback' \in Feedbacks /\ ruling' \in Rulings
    BY <1>1, <1>4 DEF TypeOK
  <2> QED
    BY <1>1, <1>3, <2>1, <2>2, CommitFacts DEF TypeOK, ChainTypeOK
<1>7. PairInv'
  BY <1>1, <1>3, <1>4, <1>5 DEF PairInv
<1>8. RulingInv'
  BY <1>3, <1>4, <1>5 DEF RulingInv, AdjudicatedByClaimant, FeedbackMatchesCase
<1>9. ChangeInv'
  <2>1. \A u \in Tx : u # t => ~(tx[u].pc \in {"acting", "audited"} /\ tx[u].action \in Changes)
    BY <1>3 DEF Holds, IInv, ChangeInv
  <2> QED
    BY <1>1, <2>1, CommitFacts DEF IInv, ChangeInv
<1>10. ChainInv'
  BY <1>1, CommitFacts
<1>11. RecordInv'
  BY <1>1, <1>2, CommitFacts DEF IInv, TypeOK, RecordInv
<1>12. ExportInv'
  BY <1>1, <1>5 DEF IInv, ExportInv
<1> QED
  BY <1>6, <1>7, <1>8, <1>9, <1>10, <1>11, <1>12 DEF IInv

LEMMA CommitFeedbackInv == ASSUME IInv, NEW t \in Tx, CommitFeedback(t) PROVE IInv'
<1>1. TypeOK /\ Ends(t) /\ scan # "purged" /\ feedback = NoFeedback
      /\ UNCHANGED <<chain, scan, records, acted, ruling, export, job, goneFirst>>
  BY DEF IInv, CommitFeedback, Insertable, exportVars
<1>2. PICK consent \in BOOLEAN : feedback' = Feedback("QUARANTINED", consent)
  BY DEF CommitFeedback
<1>3. feedback' \in Feedbacks /\ feedback'.status = "QUARANTINED"
  BY <1>2 DEF Feedback, Feedbacks
<1>4. case' \in Cases /\ case'.state = "OPEN"
  BY DEF CommitFeedback, Case, Cases
<1>5. case.state = "absent"
  BY <1>1, NothingTypes DEF IInv, PairInv
<1>6. /\ tx' \in [Tx -> Requests]
      /\ tx'[t].pc = "idle" /\ tx'[t].action = "none"
      /\ caseLock' \in Tx \cup {NoTx} /\ auditor' \in Tx \cup {NoTx}
      /\ \A u \in Tx : u # t => /\ tx'[u] = tx[u]
                                /\ auditor = u => auditor' = u
  BY <1>1, EndsFacts
<1>7. TypeOK'
  BY <1>1, <1>3, <1>4, <1>6 DEF TypeOK, ChainTypeOK
<1>8. PairInv' /\ RulingInv'
  BY <1>1, <1>3, <1>4 DEF PairInv, RulingInv, AdjudicatedByClaimant, FeedbackMatchesCase
<1>9. ChangeInv'
  <2>1. \A u \in Tx : ~(tx[u].pc \in {"acting", "audited"} /\ tx[u].action \in Changes)
    BY <1>5 DEF Holds, IInv, ChangeInv
  <2> QED
    BY <1>6, <2>1 DEF IInv, ChangeInv
<1>10. ChainInv'
  BY <1>1, <1>6 DEF IInv, ChainInv
<1>11. RecordInv'
  BY <1>1, <1>6 DEF IInv, RecordInv
<1>12. ExportInv'
  BY <1>1, <1>5 DEF IInv, ExportInv
<1> QED
  BY <1>7, <1>8, <1>9, <1>10, <1>11, <1>12 DEF IInv

LEMMA CommitsInv == ASSUME IInv, NEW t \in Tx, Commits(t) PROVE IInv'
<1>1. CASE CommitChange(t)
  BY <1>1, CommitChangeInv
<1>2. CASE CommitLook(t)
  <2>1. export \in ExportStates
    BY DEF IInv, TypeOK
  <2> QED
    BY <1>2, <2>1, CommitQuietInv DEF CommitLook, Unheard, exportVars
<1>3. CASE CommitExport(t)
  BY <1>3, CommitQuietInv DEF CommitExport
<1> QED
  BY <1>1, <1>2, <1>3 DEF Commits

LEMMA AuditsInv == ASSUME IInv, NEW t \in Tx, Audits(t) PROVE IInv'
<1>1. CASE Conflict(t)
  BY <1>1, RollbackInv DEF Conflict
<1> QED
  BY <1>1, AuditInv, CommitFeedbackInv DEF Audits

----------------------------------------------------------------------------
(* The scan, the records and the export.                                   *)

\* Steps that touch neither requests nor locks.
LEMMA AsideKeeps ==
    ASSUME IInv, UNCHANGED <<chainVars, caseLock, tx>>
    PROVE  /\ ChainInv'
           /\ UNCHANGED case => ChangeInv'
           /\ UNCHANGED <<records, acted>> => RecordInv'
           /\ RowsOK' => TypeOK'
BY DEF IInv, chainVars, ChainInv, ChangeInv, Holds, RecordInv, TypeOK, ChainTypeOK, RowsOK

LEMMA ScanInv == ASSUME IInv, ScanStep PROVE IInv'
<1>1. RowsOK /\ UNCHANGED <<chainVars, caseLock, tx, records, acted, export, job, goneFirst>>
  BY TypeParts DEF IInv, ScanStep, Expire, Delete, Purge, exportVars
<1>2. CASE Expire \/ Delete
  <2>1. UNCHANGED <<feedback, case, ruling>> /\ scan = "active" /\ scan' \in {"expired", "deleted"}
    BY <1>2 DEF Expire, Delete
  <2>2. RowsOK' /\ PairInv' /\ RulingInv' /\ ExportInv'
    BY <1>1, <2>1 DEF IInv, RowsOK, PairInv, RulingInv, AdjudicatedByClaimant, FeedbackMatchesCase,
          ExportInv
  <2> QED
    BY <1>1, <2>1, <2>2, AsideKeeps DEF IInv
<1>3. CASE Purge
  <2>1. caseLock = NoTx /\ scan' = "purged" /\ feedback' = NoFeedback /\ case' = NoCase
        /\ ruling' = NoRuling
    BY <1>3 DEF Purge
  <2>2. RowsOK' /\ PairInv' /\ RulingInv' /\ ExportInv'
    BY <1>1, <2>1, NothingTypes DEF IInv, RowsOK, PairInv, RulingInv, AdjudicatedByClaimant,
          FeedbackMatchesCase, ExportInv
  <2>3. ChangeInv'
    <3>1. \A u \in Tx : ~(tx[u].pc \in {"acting", "audited"} /\ tx[u].action \in Changes)
      BY <2>1, NoTxIsNone DEF Holds, IInv, ChangeInv
    <3> QED
      BY <1>1, <3>1 DEF IInv, ChangeInv
  <2> QED
    BY <1>1, <2>2, <2>3, AsideKeeps DEF IInv
<1> QED
  BY <1>2, <1>3 DEF ScanStep

LEMMA RecordExpiresInv == ASSUME IInv, NEW row \in RecordRows, RecordExpires(row) PROVE IInv'
<1>1. /\ RowsOK /\ UNCHANGED <<chainVars, caseLock, tx, scan, feedback, case, ruling>>
      /\ UNCHANGED <<export, job, goneFirst>>
      /\ records' = records \ {row} /\ acted' = [acted EXCEPT ![row] = 0]
  BY TypeParts DEF IInv, RecordExpires, exportVars
<1>2. RowsOK' /\ PairInv' /\ RulingInv' /\ ExportInv'
  BY <1>1 DEF IInv, RowsOK, PairInv, RulingInv, AdjudicatedByClaimant, FeedbackMatchesCase, ExportInv
<1>3. RecordInv'
  BY <1>1 DEF IInv, TypeOK, RecordInv
<1> QED
  BY <1>1, <1>2, <1>3, AsideKeeps DEF IInv

LEMMA ExportInvStep == ASSUME IInv, ExportStep PROVE IInv'
<1>1. RowsOK /\ UNCHANGED <<chainVars, scan, feedback, case, caseLock, records, tx, acted, ruling>>
  BY TypeParts DEF IInv, ExportStep, ClaimExport, Select, Filter, WriteFile, Complete, ExportFails,
        ExportDies, JobGoes, reviewVars
<1>2. PairInv' /\ RulingInv'
  BY <1>1 DEF IInv, PairInv, RulingInv, AdjudicatedByClaimant, FeedbackMatchesCase
<1>3. RowsOK' /\ ExportInv'
  <2>1. CASE ClaimExport
    <3>1. job' = ExportJob("claimed", FALSE) /\ export' = "RUNNING"
          /\ goneFirst' = (scan \in {"deleted", "purged"})
      BY <2>1 DEF ClaimExport
    <3>2. job' \in [at : JobPoints, took : BOOLEAN] /\ job'.took = FALSE /\ job'.at = "claimed"
      BY <3>1 DEF ExportJob
    <3>3. goneFirst' \in BOOLEAN /\ (goneFirst' => scan \in {"deleted", "purged"})
      <4> DEFINE gone == scan \in {"deleted", "purged"}
      <4>1. gone \in BOOLEAN /\ (gone => scan \in {"deleted", "purged"})
        OBVIOUS
      <4>2. goneFirst' = gone
        BY <3>1
      <4> HIDE DEF gone
      <4> QED
        BY <4>1, <4>2
    <3>4. RowsOK'
      BY <1>1, <3>1, <3>2, <3>3 DEF RowsOK
    <3> QED
      BY <1>1, <3>2, <3>3, <3>4 DEF ExportInv
  <2>2. CASE Select
    <3>1. job'.took = FALSE /\ job' \in [at : JobPoints, took : BOOLEAN]
          /\ UNCHANGED <<export, goneFirst>>
      BY <2>2 DEF Select, JobGoes, ExportJob
    <3>2. job'.at = "selected" => feedback.consent /\ feedback.status \in Outcomes
      BY <2>2 DEF Select, JobGoes, ExportJob, Selected
    <3> QED
      BY <1>1, <3>1, <3>2 DEF IInv, RulingInv, FeedbackMatchesCase, RowsOK, ExportInv
  <2>3. CASE Filter
    <3>1. job' = ExportJob("filtered", scan \notin {"purged", "deleted"}) /\ job.at = "selected"
          /\ UNCHANGED <<export, goneFirst>>
      BY <2>3 DEF Filter, JobGoes, Exportable
    <3>2. job' \in [at : JobPoints, took : BOOLEAN] /\ job'.at = "filtered"
          /\ job'.took = (scan \notin {"purged", "deleted"})
      BY <3>1 DEF ExportJob
    <3> QED
      BY <1>1, <3>1, <3>2 DEF IInv, RowsOK, ExportInv
  <2>4. CASE WriteFile \/ Complete \/ ExportFails \/ ExportDies
    <3>0. job.took \in BOOLEAN
      BY <1>1 DEF RowsOK
    <3> PICK at \in JobPoints \ {"selected"}, took \in BOOLEAN :
            job' = ExportJob(at, took) /\ (took => job.took)
      BY <2>4, <3>0 DEF WriteFile, Complete, ExportFails, ExportDies, JobGoes
    <3>1. job'.took => job.took
      BY DEF ExportJob
    <3>2. job' \in [at : JobPoints, took : BOOLEAN] /\ job'.at # "selected"
      BY DEF ExportJob
    <3>3. export' \in ExportStates /\ UNCHANGED goneFirst
      BY <1>1, <2>4 DEF WriteFile, Complete, ExportFails, ExportDies, JobGoes, RowsOK
    <3> QED
      BY <1>1, <3>1, <3>2, <3>3 DEF IInv, RowsOK, ExportInv
  <2> QED
    BY <2>1, <2>2, <2>3, <2>4 DEF ExportStep
<1> QED
  BY <1>1, <1>2, <1>3, AsideKeeps DEF IInv

----------------------------------------------------------------------------
(* The invariant holds.                                                    *)

LEMMA InitInv == Init => IInv
<1> SUFFICES ASSUME Init PROVE IInv
  OBVIOUS
<1>1. TypeOK
  <2>1. chain \in Seq(Events) /\ auditor = NoTx /\ caseLock = NoTx
    BY DEF Init, ChainInit
  <2>2. tx \in [Tx -> Requests] /\ acted \in [RecordRows -> Nat]
    BY NothingTypes DEF Init
  <2>3. job \in [at : JobPoints, took : BOOLEAN]
    BY DEF Init, NoExportJob, ExportJob
  <2> QED
    BY <2>1, <2>2, <2>3, NothingTypes DEF Init, TypeOK, ChainTypeOK
<1>2. PairInv /\ RulingInv /\ ExportInv
  BY NothingTypes DEF Init, PairInv, RulingInv, AdjudicatedByClaimant, FeedbackMatchesCase, ExportInv,
        NoExportJob, ExportJob
<1>3. ChangeInv /\ ChainInv /\ RecordInv
  BY NothingTypes DEF Init, ChainInit, ChangeInv, ChainInv, RecordInv
<1> QED
  BY <1>1, <1>2, <1>3 DEF IInv

LEMMA NextInv == ASSUME IInv, [Next]_vars PROVE IInv'
<1>1. ASSUME NEW t \in Tx, Asks(t) \/ Locks(t) \/ Audits(t) \/ Commits(t) \/ Abort(t) PROVE IInv'
  <2>1. CASE Abort(t)
    BY <2>1, RollbackInv DEF Abort
  <2> QED
    BY <1>1, <2>1, AsksInv, LocksInv, AuditsInv, CommitsInv
<1>2. CASE UNCHANGED vars
  <2>1. UNCHANGED <<chainVars, caseLock, tx, case, records, acted>> /\ Unheard
    BY <1>2 DEF vars, reviewVars, Unheard
  <2>2. RowsOK' /\ PairInv' /\ RulingInv' /\ ExportInv'
    BY <2>1, UnheardKeeps, UnheardRows, TypeParts DEF IInv
  <2> QED
    BY <2>1, <2>2, AsideKeeps DEF IInv
<1> QED
  BY <1>1, <1>2, ScanInv, RecordExpiresInv, ExportInvStep DEF Next

LEMMA Inductive == Spec => []IInv
<1>1. Init => IInv
  BY InitInv
<1>2. IInv /\ [Next]_vars => IInv'
  BY NextInv
<1> QED
  BY <1>1, <1>2, PTL DEF Spec

----------------------------------------------------------------------------
(* The case file.                                                          *)

\* What the checks under the lock have found of the case as it was read.
Granted(t) ==
    /\ tx[t].action = "claim" => tx[t].read.by \in {Nobody, tx[t].actor}
    /\ tx[t].action = "release" => tx[t].read.by = tx[t].actor \/ tx[t].actor \in Administrator

GrantInv ==
    \A t \in Tx : tx[t].pc \in {"acting", "audited"} /\ tx[t].action \in Changes => Granted(t)

LEMMA GrantStep ==
    ASSUME TypeOK, GrantInv, NEW t \in Tx, NEW r, Becomes(t, r),
           r.pc \in {"acting", "audited"} /\ r.action \in Changes =>
               /\ r.action = "claim" => r.read.by \in {Nobody, r.actor}
               /\ r.action = "release" => r.read.by = r.actor \/ r.actor \in Administrator
    PROVE  GrantInv'
<1>1. tx'[t] = r /\ \A u \in Tx : u # t => tx'[u] = tx[u]
  BY DEF TypeOK, Becomes
<1> QED
  BY <1>1 DEF GrantInv, Granted

LEMMA GrantsInv == ASSUME TypeOK, GrantInv, [Next]_vars PROVE GrantInv'
<1>1. ASSUME NEW t \in Tx, Asks(t) PROVE GrantInv'
  <2>1. PICK pc \in {"entered", "acting"}, actor \in Analyst \cup {Nobody}, action \in Actions, key \in Key :
            /\ Becomes(t, Request(pc, actor, action, key, NoCase, NoEvent))
            /\ action \in Changes => pc = "entered"
    BY <1>1, NothingTypes, AdministratorsReview
       DEF Asks, Begin, Look, RequestExport, GiveFeedback, Enters
  <2> DEFINE r == Request(pc, actor, action, key, NoCase, NoEvent)
  <2>2. r.pc = pc /\ r.action = action
    BY DEF Request
  <2> HIDE DEF r
  <2> QED
    BY <2>1, <2>2, GrantStep DEF r
<1>2. ASSUME NEW t \in Tx, LockCase(t) PROVE GrantInv'
  <2>1. Becomes(t, Acting(tx[t])) /\ Permitted(tx[t].actor, tx[t].action)
    BY <1>2 DEF LockCase, MayAct
  <2>2. /\ Acting(tx[t]).action = tx[t].action /\ Acting(tx[t]).actor = tx[t].actor
        /\ Acting(tx[t]).read = case
    BY DEF Acting, Request
  <2>3. /\ tx[t].action = "claim" => case.by \in {Nobody, tx[t].actor}
        /\ tx[t].action = "release" => case.by = tx[t].actor \/ tx[t].actor \in Administrator
    BY <2>1 DEF Permitted
  <2> QED
    BY <2>1, <2>2, <2>3, GrantStep
<1>3. ASSUME NEW t \in Tx, Audit(t) PROVE GrantInv'
  <2>1. PICK event : Becomes(t, Audited(tx[t], event))
    BY <1>3 DEF Audit
  <2>2. /\ Audited(tx[t], event).action = tx[t].action
        /\ Audited(tx[t], event).actor = tx[t].actor
        /\ Audited(tx[t], event).read = tx[t].read
    BY DEF Audited, Request
  <2>3. tx[t].action \in Changes => Granted(t)
    BY <1>3 DEF Audit, GrantInv
  <2> QED
    BY <2>1, <2>2, <2>3, GrantStep DEF Granted
<1>4. ASSUME NEW t \in Tx, Refuse(t) \/ Conflict(t) \/ CommitFeedback(t) \/ Commits(t) \/ Abort(t)
      PROVE  GrantInv'
  <2>1. Becomes(t, NoRequest)
    BY <1>4 DEF Refuse, Conflict, CommitFeedback, Commits, CommitChange, CommitLook, CommitExport,
          CommitEvent, Abort, Ends
  <2> QED
    BY <2>1, NothingTypes, GrantStep
<1>5. CASE ScanStep \/ ExportStep \/ (\E row \in RecordRows : RecordExpires(row)) \/ UNCHANGED vars
  <2>1. UNCHANGED tx
    BY <1>5 DEF ScanStep, Expire, Delete, Purge, ExportStep, ClaimExport, Select, Filter, WriteFile,
          Complete, ExportFails, ExportDies, JobGoes, RecordExpires, vars, reviewVars
  <2> QED
    BY <2>1 DEF GrantInv, Granted
<1> QED
  BY <1>1, <1>2, <1>3, <1>4, <1>5 DEF Next, Locks, Audits

\* A commit with an event makes the chain longer by one.
LEMMA CommitCounts ==
    ASSUME IInv, NEW t \in Tx, CommitEvent(t)
    PROVE  Len(chain') = Len(chain) + 1
<1>1. chain \in Seq(Events) /\ tx[t].event \in Events /\ chain' = Append(chain, tx[t].event)
  BY TxTypes DEF IInv, TypeOK, ChainTypeOK, CommitEvent
<1> DEFINE event == tx[t].event
<1> HIDE DEF event
<1>2. chain \in Seq(Events) /\ event \in Events /\ chain' = Append(chain, event)
  BY <1>1 DEF event
<1> QED
  BY <1>2

\* The lock makes the flush a plain assignment: what was read is still what is there.
LEMMA FlushIsAfter ==
    ASSUME IInv, NEW t \in Tx, tx[t].pc = "audited", tx[t].action \in Changes
    PROVE  /\ Holds(t) /\ case = Case(case.state, case.by)
           /\ Flushed(tx[t]) = After(tx[t])
<1>1. Holds(t) /\ tx[t].actor \in Analyst
  BY DEF IInv, ChangeInv
<1>2. case \in Cases /\ tx[t].read = case
  BY <1>1 DEF IInv, TypeOK, Holds
<1>3. case = Case(case.state, case.by)
  BY <1>2 DEF Cases, Case
<1> DEFINE new == After(tx[t])
<1>4. new = Case(new.state, new.by)
  <2>1. new \in {Case("CLAIMED", tx[t].actor), Case("OPEN", Nobody), Case("ADJUDICATED", case.by), case}
    BY <1>2 DEF After
  <2> QED
    BY <1>3, <2>1 DEF Case
<1>5. Flushed(tx[t]) = Case(new.state, new.by)
  BY <1>2 DEF Flushed, Written
<1> QED
  BY <1>1, <1>3, <1>4, <1>5

LEMMA ChangeRefines ==
    ASSUME IInv, GrantInv, NEW t \in Tx, CommitChange(t)
    PROVE  File!FileNext
<1>1. /\ CommitEvent(t) /\ tx[t].pc = "audited" /\ tx[t].action \in Changes
      /\ case' = After(tx[t])
  BY FlushIsAfter DEF CommitChange, CommitEvent
<1>2. /\ tx[t].read = case /\ case.state \in {"OPEN", "CLAIMED"} /\ tx[t].actor \in Analyst
      /\ tx[t].action = "adjudicate" => case.by = tx[t].actor
  BY <1>1, FlushIsAfter DEF Holds, IInv, ChangeInv
<1>3. File!Audited
  BY <1>1, CommitCounts DEF File!Audited
<1>4. tx[t].action # "adjudicate" => feedback' = feedback
  BY <1>1 DEF CommitChange
<1>5. Granted(t)
  BY <1>1 DEF GrantInv
<1>6. CASE tx[t].action = "claim"
  <2>1. case' = Case("CLAIMED", tx[t].actor)
    BY <1>1, <1>6 DEF After
  <2>2. File!Claim(tx[t].actor)
    BY <1>2, <1>3, <1>4, <1>5, <1>6, <2>1
       DEF Granted, Case, File!Claim, File!Workable, File!CaseBecomes
  <2> QED
    BY <1>2, <2>2 DEF File!FileNext
<1>7. CASE tx[t].action = "release"
  <2>1. case' = Case("OPEN", Nobody)
    BY <1>1, <1>7 DEF After
  <2>2. File!Release(tx[t].actor)
    BY <1>2, <1>3, <1>4, <1>5, <1>7, <2>1
       DEF Granted, Case, File!Release, File!Workable, File!CaseBecomes
  <2> QED
    BY <1>2, <2>2 DEF File!FileNext
<1>8. CASE tx[t].action = "adjudicate"
  <2>1. case' = Case("ADJUDICATED", tx[t].actor)
    BY <1>1, <1>2, <1>8 DEF After
  <2>2. case.state = "CLAIMED" /\ case.by = tx[t].actor
    BY <1>2, <1>8, AdministratorsReview DEF IInv, TypeOK, Cases
  <2>3. \E outcome \in {"PHISHING", "LEGITIMATE"} :
            feedback' = [status |-> outcome, consent |-> feedback.consent]
    BY <1>8 DEF CommitChange, Feedback
  <2>4. File!Adjudicate(tx[t].actor)
    BY <1>3, <2>1, <2>2, <2>3 DEF Case, File!Adjudicate, File!CaseBecomes
  <2> QED
    BY <1>2, <2>4 DEF File!FileNext
<1>9. CASE tx[t].action = "annotate"
  <2>1. case' = case
    BY <1>1, <1>2, <1>9 DEF After
  <2> QED
    BY <1>3, <1>4, <1>9, <2>1 DEF File!Note, File!FileNext
<1> QED
  BY <1>1, <1>6, <1>7, <1>8, <1>9

LEMMA FileStep ==
    IInv /\ GrantInv /\ [Next]_vars => [File!FileNext]_(File!fileVars)
<1> SUFFICES ASSUME IInv, GrantInv, [Next]_vars PROVE [File!FileNext]_(File!fileVars)
  OBVIOUS
<1>1. ASSUME UNCHANGED <<case, feedback, chain>> PROVE UNCHANGED File!fileVars
  BY <1>1 DEF File!fileVars
<1>2. ASSUME NEW t \in Tx, CommitFeedback(t) PROVE File!FileNext
  <2>1. case = NoCase
    BY <1>2, NothingTypes DEF CommitFeedback, Insertable, IInv, PairInv
  <2>2. PICK consent \in BOOLEAN : feedback' = Feedback("QUARANTINED", consent)
    BY <1>2 DEF CommitFeedback
  <2>3. case' = Case("OPEN", Nobody) /\ UNCHANGED chain
    BY <1>2 DEF CommitFeedback
  <2>4. File!Open
    BY <2>1, <2>2, <2>3 DEF File!Open, File!NoCase, File!CaseBecomes, NoCase, Case, Feedback
  <2> QED
    BY <2>4 DEF File!FileNext
<1>3. ASSUME NEW t \in Tx, CommitLook(t) \/ CommitExport(t) PROVE File!FileNext
  <2>1. CommitEvent(t) /\ UNCHANGED <<case, feedback>>
    BY <1>3 DEF CommitLook, CommitExport, Unheard
  <2> QED
    BY <2>1, CommitCounts DEF File!FileNext, File!Note, File!Audited
<1>4. CASE Purge
  <2>1. case' = NoCase /\ feedback' = NoFeedback /\ UNCHANGED chain
    BY <1>4 DEF Purge, chainVars
  <2>2. CASE case = NoCase
    BY <1>1, <2>1, <2>2, NothingTypes DEF IInv, PairInv
  <2>3. CASE case # NoCase
    <3>1. File!Remove
      BY <2>1, <2>3
         DEF File!Remove, File!NoCase, File!NoFeedback, NoCase, NoFeedback, Case, Feedback
    <3> QED
      BY <3>1 DEF File!FileNext
  <2> QED
    BY <2>2, <2>3
<1>5. ASSUME NEW t \in Tx, Asks(t) \/ Locks(t) \/ Audit(t) \/ Conflict(t) \/ Abort(t)
      PROVE  UNCHANGED <<case, feedback, chain>>
  BY <1>5 DEF Asks, Begin, Look, RequestExport, GiveFeedback, Locks, LockCase, Refuse, Audit, Conflict,
        Abort, Unheard, chainVars
<1>6. CASE Expire \/ Delete \/ ExportStep \/ (\E row \in RecordRows : RecordExpires(row)) \/ UNCHANGED vars
  <2>1. UNCHANGED <<case, feedback, chain>>
    BY <1>6 DEF Expire, Delete, ExportStep, ClaimExport, Select, Filter, WriteFile, Complete, ExportFails,
          ExportDies, JobGoes, RecordExpires, vars, reviewVars, chainVars
  <2> QED
    BY <1>1, <2>1
<1> QED
  BY <1>1, <1>2, <1>3, <1>4, <1>5, <1>6, ChangeRefines DEF Next, Audits, Commits, ScanStep

----------------------------------------------------------------------------
(* The theorems.                                                           *)

\* Every variable stays within its type.
THEOREM TypeSafe == Spec => []TypeOK
<1>1. IInv => TypeOK
  BY DEF IInv
<1> QED
  BY <1>1, Inductive, PTL

\* Whatever number of transactions append side by side and roll back, the audit chain
\* verifies from its first event to its last.
THEOREM ChainAlwaysVerifies == Spec => []ChainVerifies
<1>1. ASSUME IInv PROVE ChainVerifies
  <2>1. Len(chain) \in Nat /\ \A i \in 1..Len(chain) : chain[i] = AuditEvent(i, i - 1)
    BY <1>1 DEF IInv, TypeOK, ChainTypeOK, ChainInv
  <2>2. \A i : AuditEvent(i, i - 1).at = i /\ AuditEvent(i, i - 1).previous = i - 1
    BY DEF AuditEvent
  <2>3. ASSUME NEW i \in 1..Len(chain)
        PROVE  /\ chain[i].previous = IF i = 1 THEN 0 ELSE chain[i - 1].at
               /\ chain[i].previous < chain[i].at
    <3>1. chain[i].at = i /\ chain[i].previous = i - 1
      BY <2>1, <2>2
    <3>2. CASE i = 1
      BY <3>1, <3>2
    <3>3. CASE i # 1
      <4>1. i - 1 \in 1..Len(chain)
        BY <2>1, <3>3
      <4>2. chain[i - 1].at = i - 1
        BY <2>1, <2>2, <4>1
      <4> QED
        BY <3>1, <3>3, <4>2
    <3> QED
      BY <3>2, <3>3
  <2> QED
    BY <2>3 DEF ChainVerifies, Verified
<1> QED
  BY <1>1, Inductive, PTL

\* While its record lasts, an idempotency key acts once, however often and at whatever time
\* its request is repeated.
THEOREM KeysActOnce == Spec => []ActedOnce
<1>1. IInv => ActedOnce
  BY DEF IInv, RecordInv, ActedOnce
<1> QED
  BY <1>1, Inductive, PTL

\* An adjudicated case names who adjudicated it.
THEOREM ClaimantsAdjudicate == Spec => []AdjudicatedByClaimant
<1>1. IInv => AdjudicatedByClaimant
  BY DEF IInv, RulingInv
<1> QED
  BY <1>1, Inductive, PTL

\* The feedback and the case agree on whether there is a ruling, and on which.
THEOREM RulingsAreFeedback == Spec => []FeedbackMatchesCase
<1>1. IInv => FeedbackMatchesCase
  BY DEF IInv, RulingInv
<1> QED
  BY <1>1, Inductive, PTL

\* A scan that was deleted before an export was claimed is not in the export.
THEOREM DeletedIsNotExported == Spec => []ExportHonoursDeletion
<1>1. IInv => ExportHonoursDeletion
  BY DEF IInv, ExportInv, ExportHonoursDeletion
<1> QED
  BY <1>1, Inductive, PTL

\* An export takes only what was adjudicated and consented to.
THEOREM ExportsAreReviewed == Spec => []ExportedAreReviewed
<1>1. IInv => ExportedAreReviewed
  BY DEF IInv, ExportInv, ExportedAreReviewed
<1> QED
  BY <1>1, Inductive, PTL

\* Requests that read, lock, check, flush, audit and commit side by side take effect as if
\* each was one step: none is based on a case that has changed since, no change is lost,
\* and each is audited once (review_action and the audited looks).
THEOREM ReviewsAreAtomic == Spec => ImplementsCaseFile
<1>1. Init => GrantInv
  BY NothingTypes DEF Init, GrantInv
<1>2. TypeOK /\ GrantInv /\ [Next]_vars => GrantInv'
  BY GrantsInv
<1>3. Init => File!FileInit
  BY DEF Init, ChainInit, File!FileInit, File!NoCase, File!NoFeedback, NoCase, NoFeedback, Case, Feedback
<1> QED
  BY <1>1, <1>2, <1>3, FileStep, Inductive, TypeSafe, PTL DEF Spec, ImplementsCaseFile, File!FileSpec

\* No step changes what was adjudicated; it can only be removed.
THEOREM RulingsAreFinal == Spec => AdjudicationFinal
<1> DEFINE Final == case.state = "ADJUDICATED" =>
                        case' = NoCase \/ (case' = case /\ feedback' = feedback)
<1>1. ASSUME IInv, [Next]_vars, case.state = "ADJUDICATED" PROVE Final
  <2>1. ASSUME NEW t \in Tx, CommitChange(t) PROVE FALSE
    BY <1>1, <2>1 DEF CommitChange, CommitEvent, IInv, ChangeInv, Holds
  <2>2. ASSUME NEW t \in Tx, CommitFeedback(t) PROVE FALSE
    BY <1>1, <2>2, NothingTypes DEF CommitFeedback, Insertable, IInv, PairInv
  <2>3. ASSUME NEW t \in Tx, Asks(t) \/ Locks(t) \/ Audits(t) \/ Commits(t) \/ Abort(t)
        PROVE  UNCHANGED <<case, feedback>>
    BY <2>1, <2>2, <2>3 DEF Asks, Begin, Look, RequestExport, GiveFeedback, Locks, LockCase, Refuse,
          Audits, Audit, Conflict, Commits, CommitLook, CommitExport, Abort, Unheard
  <2>4. CASE Purge
    BY <2>4 DEF Purge
  <2>5. CASE Expire \/ Delete \/ ExportStep \/ (\E row \in RecordRows : RecordExpires(row)) \/ UNCHANGED vars
    BY <2>5 DEF Expire, Delete, ExportStep, ClaimExport, Select, Filter, WriteFile, Complete, ExportFails,
          ExportDies, JobGoes, RecordExpires, vars, reviewVars
  <2> QED
    BY <1>1, <2>3, <2>4, <2>5 DEF Next, ScanStep
<1>2. IInv /\ [Next]_vars => [Final]_vars
  BY <1>1
<1> QED
  BY <1>2, Inductive, PTL DEF Spec, AdjudicationFinal
=============================================================================
