------------------------ MODULE RoleGovernanceProofs ------------------------
(***************************************************************************)
(* Proofs about RoleGovernance, for any accounts, requests and number of   *)
(* requests under way.                                                     *)
(***************************************************************************)
EXTENDS RoleGovernance, TLAPS

USE DEF Requestable, Privileged, Roles, ClosedStates, RequestStates, AdminKinds, Holding, Kinds

----------------------------------------------------------------------------
(* Which rows and sessions the actions write.                              *)

LEMMA AccountTypes ==
    ASSUME TypeOK, NEW a \in Account
    PROVE  /\ acct[a] \in AccountRows \cup {NoAccount}
           /\ Exists(a) => acct[a] \in AccountRows
           /\ acct[a].role \in Roles \cup {"absent"}
           /\ acct[a].canonical \in BOOLEAN /\ acct[a].disabled \in BOOLEAN
           /\ acct[a].mfa \in BOOLEAN
           /\ Exists(a) <=> acct[a].role \in Roles
           /\ acct[a].canonical => Exists(a)
           /\ \A role \in Roles, canonical, disabled, mfa \in BOOLEAN :
                 AccountRow(role, canonical, disabled, mfa) \in AccountRows
           /\ acct[a] = AccountRow(acct[a].role, acct[a].canonical,
                                   acct[a].disabled, acct[a].mfa)
<1>1. acct[a] \in AccountRows \cup {NoAccount}
  BY DEF TypeOK
<1>2. CASE acct[a] = NoAccount
  BY <1>2 DEF NoAccount, AccountRow, AccountRows, Exists
<1>3. CASE acct[a] \in AccountRows
  BY <1>3 DEF NoAccount, AccountRow, AccountRows, Exists
<1> QED
  BY <1>1, <1>2, <1>3

LEMMA RequestTypes ==
    ASSUME TypeOK, NEW q \in RequestId
    PROVE  /\ asked[q] \in RequestRows \cup {NoRequest}
           /\ asked[q].state # "absent" <=> asked[q] \in RequestRows
           /\ asked[q].state # "absent" <=> asked[q] # NoRequest
           /\ asked[q].state \in RequestStates \cup {"absent"}
           /\ asked[q].role \in Requestable
           /\ asked[q].state # "absent" => asked[q].user \in Account
           /\ asked[q].state = "absent" => asked[q].user = Nobody
           /\ \A user \in Account, role \in Requestable, state \in RequestStates :
                 RequestRow(user, role, state) \in RequestRows
<1>1. asked[q] \in RequestRows \cup {NoRequest}
  BY DEF TypeOK
<1>2. CASE asked[q] = NoRequest
  BY <1>2 DEF NoRequest, RequestRow, RequestRows
<1>3. CASE asked[q] \in RequestRows
  BY <1>3 DEF NoRequest, RequestRow, RequestRows
<1> QED
  BY <1>1, <1>2, <1>3

LEMMA SessionTypes ==
    ASSUME TypeOK, NEW t \in Tx
    PROVE  /\ tx[t] # Idle <=> tx[t] \in Sessions
           /\ tx[t] # Idle <=> tx[t].kind \in Kinds
           /\ tx[t].kind \in Kinds => tx[t].actor \in Account
           /\ tx[t].kind \in Kinds => tx[t].read \in AccountRows \cup {NoAccount}
<1>1. tx[t] \in Sessions \cup {Idle}
  BY DEF TypeOK
<1> QED
  BY <1>1 DEF Idle, Session, Sessions

LEMMA SessionRow ==
    ASSUME NEW kind \in Kinds, NEW a \in Account,
           NEW row \in AccountRows \cup {NoAccount}, NEW q \in RequestId \cup {Nobody}
    PROVE  Session(kind, a, row, q) \in Sessions
  BY DEF Session, Sessions

\* What a sign-in or an administrator makes of a row is again a row.
LEMMA WrittenType ==
    ASSUME NEW S, NEW read, NEW new \in S, NEW current \in S
    PROVE  Written(read, new, current) \in S
  BY DEF Written

LEMMA CloseType ==
    ASSUME TypeOK, NEW q \in RequestId, NEW state \in RequestStates,
           asked[q].state # "absent", Close(q, state)
    PROVE  asked' \in [RequestId -> RequestRows \cup {NoRequest}]
<1>1. RequestRow(asked[q].user, asked[q].role, state) \in RequestRows
  BY RequestTypes
<1> QED
  BY <1>1 DEF Close, TypeOK

LEMMA InsertType ==
    ASSUME TypeOK, NEW a \in Account, Insert(a)
    PROVE  asked' \in [RequestId -> RequestRows \cup {NoRequest}]
<1>1. PICK q \in RequestId, role \in Requestable :
         asked' = [asked EXCEPT ![q] = RequestRow(a, role, "PENDING")]
  BY DEF Insert
<1>2. RequestRow(a, role, "PENDING") \in RequestRows
  BY RequestTypes
<1> QED
  BY <1>1, <1>2 DEF TypeOK

LEMMA PendingRows ==
    ASSUME TypeOK, NEW a, NEW q, q \in PendingOf(a)
    PROVE  q \in RequestId /\ asked[q].state = "PENDING" /\ asked[q].user = a
  BY DEF PendingOf

----------------------------------------------------------------------------
(* The steps of a request: the one it ends with changes no other session.  *)

Reads(t) ==
    \/ \E a \in Account :
          SignInRead(t, a) \/ AskRead(t, a) \/ CancelRead(t, a)
    \/ \E a \in Account, kind \in {"update", "revoke"} : AdminRead(t, a, kind)
    \/ \E a \in Account, q \in RequestId : DecideRead(t, a, q)

LEMMA BeginReads ==
    ASSUME NEW t \in Tx, Begin(t)
    PROVE  Reads(t)
  BY DEF Begin, Reads

LEMMA NextSteps ==
    ASSUME NEW t \in Tx, Begin(t) \/ Lock(t) \/ Finish(t) \/ Refuse(t)
    PROVE  \/ Reads(t) \/ Lock(t) \/ Refuse(t)
           \/ \E totp \in BOOLEAN : SignInCommit(t, totp)
           \/ AskCommit(t)
           \/ \E q \in RequestId : CancelCommit(t, q)
           \/ Approve(t)
           \/ Reject(t)
           \/ \E x \in Account, role \in Roles, disabled \in BOOLEAN :
                 Update(t, x, role, disabled)
           \/ \E x \in Account : Revoke(t, x)
<1>1. CASE Begin(t)
  BY <1>1, BeginReads
<1>2. CASE Finish(t)
  BY <1>2 DEF Finish
<1> QED
  BY <1>1, <1>2

\* A lock for a request is taken by the account that asks, which stays what the
\* session has read of it.
LEMMA LockTakes ==
    ASSUME TypeOK, NEW t \in Tx, Lock(t)
    PROVE  /\ UNCHANGED <<acct, asked, online>>
           /\ tx[t].kind \in Kinds /\ tx[t].actor \in Account
           /\ Free(tx[t].actor) /\ PendingOf(tx[t].actor) = {}
           /\ \E kind \in Holding :
                 /\ Session(kind, tx[t].actor, tx[t].read, Nobody) \in Sessions
                 /\ tx' = [tx EXCEPT ![t] =
                              Session(kind, tx[t].actor, tx[t].read, Nobody)]
<1>1. /\ tx[t].kind \in Kinds /\ Free(tx[t].actor) /\ PendingOf(tx[t].actor) = {}
      /\ UNCHANGED <<acct, asked, online>>
      /\ \E kind \in Holding :
            tx' = [tx EXCEPT ![t] = Session(kind, tx[t].actor, tx[t].read, Nobody)]
  BY DEF Lock, AskLock, SignInLock, LocksToAsk, MayAsk
<1>2. tx[t].actor \in Account /\ tx[t].read \in AccountRows \cup {NoAccount}
  BY <1>1, SessionTypes
<1> QED
  BY <1>1, <1>2, SessionRow

LEMMA ReadsFrame ==
    ASSUME TypeOK, NEW t \in Tx, Reads(t) \/ Lock(t) \/ Refuse(t)
    PROVE  /\ UNCHANGED <<acct, asked, online>>
           /\ tx' \in [Tx -> Sessions \cup {Idle}]
           /\ \A u \in Tx : u # t => tx'[u] = tx[u]
<1>0. CASE Lock(t)
  BY <1>0, LockTakes DEF TypeOK
<1>1. CASE Refuse(t)
  BY <1>1 DEF Refuse, Ends, TypeOK
<1>2. CASE \E a \in Account :
              SignInRead(t, a) \/ AskRead(t, a) \/ CancelRead(t, a)
  <2>1. PICK a \in Account : SignInRead(t, a) \/ AskRead(t, a) \/ CancelRead(t, a)
    BY <1>2
  <2>2. PICK kind \in Kinds, row \in AccountRows \cup {NoAccount} :
           /\ tx' = [tx EXCEPT ![t] = Session(kind, a, row, Nobody)]
           /\ UNCHANGED <<acct, asked, online>>
    BY <2>1, AccountTypes DEF SignInRead, AskRead, CancelRead
  <2>3. Session(kind, a, row, Nobody) \in Sessions
    BY SessionRow
  <2> QED
    BY <2>2, <2>3 DEF TypeOK
<1>3. CASE \E a \in Account, kind \in {"update", "revoke"} : AdminRead(t, a, kind)
  <2>1. PICK a \in Account, kind \in {"update", "revoke"} : AdminRead(t, a, kind)
    BY <1>3
  <2>2. Session(kind, a, acct[a], Nobody) \in Sessions
    BY AccountTypes, SessionRow
  <2> QED
    BY <2>1, <2>2 DEF AdminRead, TypeOK
<1>4. CASE \E a \in Account, q \in RequestId : DecideRead(t, a, q)
  <2>1. PICK a \in Account, q \in RequestId : DecideRead(t, a, q)
    BY <1>4
  <2>2. Session("decide", a, NoAccount, q) \in Sessions
    BY SessionRow
  <2> QED
    BY <2>1, <2>2 DEF DecideRead, TypeOK
<1> QED
  BY <1>0, <1>1, <1>2, <1>3, <1>4 DEF Reads

\* An administrator's session, once admitted, is one of an administrator; the
\* request it decides is a row; an account once read does not vanish.
AdmissionInv ==
    \A t \in Tx :
        /\ tx[t].kind \in Kinds /\ tx[t].read # NoAccount => Exists(tx[t].actor)
        /\ tx[t].kind \in {"update", "revoke"} => tx[t].read.role = "ADMINISTRATOR"
        /\ tx[t].kind = "decide" =>
              tx[t].request \in RequestId /\ asked[tx[t].request].state # "absent"

\* An account is locked for one request at a time, and it has none pending.
LockInv ==
    /\ NonePendingWhileAsking
    /\ \A t, u \in Tx :
          tx[t].kind \in Holding /\ tx[u].kind \in Holding
             /\ tx[t].actor = tx[u].actor => t = u

GoverningInv == TypeOK /\ AdmissionInv /\ LockInv

LEMMA EndsFrame ==
    ASSUME TypeOK, NEW t \in Tx, Ends(t)
    PROVE  /\ tx' \in [Tx -> Sessions \cup {Idle}]
           /\ \A u \in Tx : u # t => tx'[u] = tx[u]
           /\ tx'[t] = Idle
  BY DEF Ends, TypeOK

----------------------------------------------------------------------------
(* The requests' rows: what is a row stays one.                            *)

\* A step closes one request or leaves the rows alone, or else inserts one row.
Closes ==
    \/ UNCHANGED asked
    \/ \E q \in RequestId, state \in ClosedStates :
          asked[q].state # "absent" /\ Close(q, state)

RowsMove ==
    \/ Closes
    \/ \E a \in Account : PendingOf(a) = {} /\ Insert(a)

LEMMA RowsMoveFrame ==
    ASSUME TypeOK, RowsMove
    PROVE  /\ asked' \in [RequestId -> RequestRows \cup {NoRequest}]
           /\ \A p \in RequestId : asked[p].state # "absent" =>
                 /\ asked'[p].state # "absent"
                 /\ asked'[p].user = asked[p].user /\ asked'[p].role = asked[p].role
<1>1. CASE UNCHANGED asked
  BY <1>1 DEF TypeOK
<1>2. CASE \E q \in RequestId, state \in ClosedStates :
              asked[q].state # "absent" /\ Close(q, state)
  <2>1. PICK q \in RequestId, state \in ClosedStates :
           asked[q].state # "absent" /\ Close(q, state)
    BY <1>2
  <2>2. asked' = [asked EXCEPT ![q] = RequestRow(asked[q].user, asked[q].role, state)]
    BY <2>1 DEF Close
  <2>3. asked' \in [RequestId -> RequestRows \cup {NoRequest}]
    BY <2>1, CloseType
  <2> QED
    BY <2>2, <2>3 DEF RequestRow, TypeOK
<1>3. CASE \E a \in Account : PendingOf(a) = {} /\ Insert(a)
  <2>1. PICK a \in Account : Insert(a)
    BY <1>3
  <2>2. PICK q \in RequestId, role \in Requestable :
           /\ asked[q] = NoRequest
           /\ asked' = [asked EXCEPT ![q] = RequestRow(a, role, "PENDING")]
    BY <2>1 DEF Insert
  <2>3. asked' \in [RequestId -> RequestRows \cup {NoRequest}]
    BY <2>1, InsertType
  <2>4. asked[q].state = "absent"
    BY <2>2 DEF NoRequest, RequestRow
  <2> QED
    BY <2>2, <2>3, <2>4 DEF TypeOK
<1> QED
  BY <1>1, <1>2, <1>3 DEF RowsMove, Closes

\* Every commit moves the rows so, inserts only for the account it has locked,
\* and ends its own session only.
LEMMA CommitFrame ==
    ASSUME GoverningInv, NEW t \in Tx, Finish(t)
    PROVE  /\ RowsMove /\ Ends(t) /\ tx[t].kind \in Kinds
           /\ Closes \/ (tx[t].kind \in Holding /\ Insert(tx[t].actor))
<1> USE DEF GoverningInv
<1>0. tx[t].kind \in Holding => PendingOf(tx[t].actor) = {}
  BY DEF LockInv, NonePendingWhileAsking
<1>1. CASE \E totp \in BOOLEAN : SignInCommit(t, totp)
  <2>1. tx[t].kind \in Kinds /\ tx[t].actor \in Account /\ Ends(t)
    BY <1>1, SessionTypes DEF SignInCommit
  <2>2. UNCHANGED asked \/ (tx[t].kind \in Holding /\ Insert(tx[t].actor))
    BY <1>1 DEF SignInCommit
  <2> QED
    BY <1>0, <2>1, <2>2 DEF RowsMove, Closes
<1>2. CASE AskCommit(t)
  <2>1. tx[t].kind \in Holding /\ Insert(tx[t].actor) /\ Ends(t)
    BY <1>2 DEF AskCommit
  <2>2. tx[t].kind \in Kinds /\ tx[t].actor \in Account
    BY <2>1, SessionTypes
  <2> QED
    BY <1>0, <2>1, <2>2 DEF RowsMove
<1>3. CASE \E q \in RequestId : CancelCommit(t, q)
  <2>1. PICK q \in RequestId : CancelCommit(t, q)
    BY <1>3
  <2>2. asked[q].state # "absent"
    BY <2>1 DEF CancelCommit, PendingOf
  <2> QED
    BY <2>1, <2>2 DEF CancelCommit, RowsMove, Closes
<1>4. CASE Approve(t)
  <2>1. tx[t].request \in RequestId /\ asked[tx[t].request].state # "absent"
    BY <1>4 DEF Approve, AdmissionInv
  <2> QED
    BY <1>4, <2>1 DEF Approve, RowsMove, Closes
<1>5. CASE Reject(t)
  <2>1. tx[t].request \in RequestId /\ asked[tx[t].request].state # "absent"
    BY <1>5 DEF Reject, AdmissionInv
  <2> QED
    BY <1>5, <2>1 DEF Reject, RowsMove, Closes
<1>6. CASE \E x \in Account, role \in Roles, disabled \in BOOLEAN :
              Update(t, x, role, disabled)
  <2>1. PICK x \in Account, role \in Roles, disabled \in BOOLEAN :
           Update(t, x, role, disabled)
    BY <1>6
  <2>2. Closes
    BY <2>1 DEF Update, ApproveMatching, Closes, PendingOf
  <2> QED
    BY <2>1, <2>2 DEF Update, RowsMove
<1>7. CASE \E x \in Account : Revoke(t, x)
  BY <1>7 DEF Revoke, RowsMove, Closes
<1> QED
  BY <1>1, <1>2, <1>3, <1>4, <1>5, <1>6, <1>7 DEF Finish

----------------------------------------------------------------------------
(* The accounts: one row changes at a time, two in a transfer.             *)

\* What update_user writes.
Updated(t, x, role, disabled) ==
    AccountRow(Written(Row(t, x).role, role, acct[x].role), acct[x].canonical,
               Written(Row(t, x).disabled, disabled, acct[x].disabled), acct[x].mfa)

LEMMA UpdateWrites ==
    ASSUME TypeOK, NEW t \in Tx, NEW x \in Account, NEW role \in Roles,
           NEW disabled \in BOOLEAN, Update(t, x, role, disabled)
    PROVE  /\ Updated(t, x, role, disabled) \in AccountRows
           /\ acct' = [acct EXCEPT ![x] = Updated(t, x, role, disabled)]
           /\ Exists(x)
<1>1. Exists(x) /\ acct[x] \in AccountRows
  BY AccountTypes DEF Update
<1>2. Written(Row(t, x).role, role, acct[x].role) \in Roles
  BY <1>1, WrittenType DEF AccountRows
<1>3. Written(Row(t, x).disabled, disabled, acct[x].disabled) \in BOOLEAN
  BY <1>1, WrittenType DEF AccountRows
<1>4. acct[x].canonical \in BOOLEAN /\ acct[x].mfa \in BOOLEAN
  BY AccountTypes
<1>5. Updated(t, x, role, disabled) \in AccountRows
  BY <1>2, <1>3, <1>4, AccountTypes DEF Updated
<1>6. acct' = [acct EXCEPT ![x] = Updated(t, x, role, disabled)]
  BY DEF Update, Updated, TypeOK
<1> QED
  BY <1>1, <1>5, <1>6

\* A sign-in changes the flag of its last sign-in, or inserts a plain account.
SignedIn(a) ==
    /\ acct'[a].role = IF Exists(a) THEN acct[a].role ELSE "REGISTERED_USER"
    /\ acct'[a].canonical = acct[a].canonical
    /\ acct'[a].disabled = acct[a].disabled

LEMMA SignInWrites ==
    ASSUME GoverningInv, NEW t \in Tx, NEW totp \in BOOLEAN, SignInCommit(t, totp)
    PROVE  /\ tx[t].actor \in Account
           /\ acct' \in [Account -> AccountRows \cup {NoAccount}]
           /\ SignedIn(tx[t].actor)
           /\ \A b \in Account : b # tx[t].actor => acct'[b] = acct[b]
<1> DEFINE a == tx[t].actor
           flag == Written(tx[t].read.mfa, totp, acct[a].mfa)
<1> USE DEF GoverningInv
<1>1. a \in Account /\ tx[t].kind \in Kinds
  BY SessionTypes DEF SignInCommit
<1> USE DEF NewAccount
<1>2. CASE tx[t].read = NoAccount
  <2>1. acct[a] = NoAccount
    BY <1>2 DEF SignInCommit, Exists
  <2>2. acct' = [acct EXCEPT ![a] = AccountRow("REGISTERED_USER", FALSE, FALSE, totp)]
    BY <1>2 DEF SignInCommit
  <2>3. AccountRow("REGISTERED_USER", FALSE, FALSE, totp) \in AccountRows
    BY DEF AccountRow, AccountRows
  <2>4. acct'[a] = AccountRow("REGISTERED_USER", FALSE, FALSE, totp)
    BY <1>1, <2>2 DEF TypeOK
  <2>5. SignedIn(a)
    BY <2>1, <2>4 DEF SignedIn, NoAccount, AccountRow, Exists
  <2> QED
    BY <1>1, <2>2, <2>3, <2>5 DEF TypeOK
<1>3. CASE tx[t].read # NoAccount
  <2>1. Exists(a) /\ acct[a] \in AccountRows
    BY <1>1, <1>3, AccountTypes DEF AdmissionInv
  <2>2. acct' = [acct EXCEPT ![a] =
                    AccountRow(acct[a].role, acct[a].canonical, acct[a].disabled, flag)]
    BY <1>1, <1>3 DEF SignInCommit, TypeOK
  <2>3. flag \in BOOLEAN
    BY <2>1, WrittenType DEF AccountRows
  <2>4. AccountRow(acct[a].role, acct[a].canonical, acct[a].disabled, flag) \in AccountRows
    BY <2>1, <2>3 DEF AccountRow, AccountRows
  <2>5. SignedIn(a)
    BY <1>1, <2>1, <2>2 DEF SignedIn, AccountRow, TypeOK
  <2> QED
    BY <1>1, <2>2, <2>4, <2>5 DEF TypeOK
<1> QED
  BY <1>2, <1>3

\* Approve writes the role of the account that asked.
LEMMA ApproveWrites ==
    ASSUME GoverningInv, NEW t \in Tx, Approve(t)
    PROVE  LET q == tx[t].request
               x == asked[q].user
               row == AccountRow(asked[q].role, acct[x].canonical, acct[x].disabled,
                                 acct[x].mfa)
           IN  /\ q \in RequestId /\ x \in Account /\ Exists(x)
               /\ asked[q].state # "absent"
               /\ row \in AccountRows
               /\ acct' = [acct EXCEPT ![x] = row]
<1> USE DEF GoverningInv
<1> DEFINE q == tx[t].request
           x == asked[q].user
<1>1. q \in RequestId /\ asked[q].state # "absent"
  BY DEF Approve, AdmissionInv
<1>2. x \in Account /\ asked[q].role \in Requestable
  BY <1>1, RequestTypes
<1>3. acct[x].role = "REGISTERED_USER"
  BY DEF Approve, Eligible
<1>4. Exists(x) /\ acct[x] \in AccountRows
  BY <1>2, <1>3, AccountTypes
<1>5. AccountRow(asked[q].role, acct[x].canonical, acct[x].disabled, acct[x].mfa)
         \in AccountRows
  BY <1>2, <1>4 DEF AccountRow, AccountRows
<1>6. acct' = [acct EXCEPT ![x] = AccountRow(asked[q].role, acct[x].canonical,
                                             acct[x].disabled, acct[x].mfa)]
  BY <1>2 DEF Approve, TypeOK
<1> QED
  BY <1>1, <1>2, <1>4, <1>5, <1>6

LEMMA OperatorTypes ==
    ASSUME TypeOK, NEW x \in Account, Candidate(x)
    PROVE  /\ Exists(x) /\ acct[x] \in AccountRows /\ ~acct[x].disabled /\ acct[x].mfa
           /\ AccountRow("ADMINISTRATOR", TRUE, FALSE, acct[x].mfa) \in AccountRows
  BY AccountTypes DEF Candidate, AccountRows, AccountRow

LEMMA TransferWrites ==
    ASSUME TypeOK, NEW c \in Account, NEW x \in Account, TransferCanonical(c, x)
    PROVE  /\ acct' \in [Account -> AccountRows \cup {NoAccount}]
           /\ c # x /\ acct[c].canonical /\ Candidate(x) /\ Exists(c) /\ Exists(x)
           /\ acct'[c] = AccountRow("REGISTERED_USER", FALSE, TRUE, acct[c].mfa)
           /\ acct'[x] = AccountRow("ADMINISTRATOR", TRUE, FALSE, acct[x].mfa)
           /\ \A b \in Account : b \notin {c, x} => acct'[b] = acct[b]
<1>1. /\ c # x /\ acct[c].canonical /\ Candidate(x)
      /\ acct' = [acct EXCEPT
                     ![c] = AccountRow("REGISTERED_USER", FALSE, TRUE, @.mfa),
                     ![x] = Successor(@.mfa)]
  BY DEF TransferCanonical
<1>2. Exists(c) /\ acct[c].mfa \in BOOLEAN
  BY <1>1, AccountTypes
<1>3. AccountRow("REGISTERED_USER", FALSE, TRUE, acct[c].mfa) \in AccountRows
  BY <1>2 DEF AccountRow, AccountRows
<1>4. acct' = [b \in Account |->
                  IF b = x THEN AccountRow("ADMINISTRATOR", TRUE, FALSE, acct[x].mfa)
                  ELSE IF b = c THEN AccountRow("REGISTERED_USER", FALSE, TRUE, acct[c].mfa)
                  ELSE acct[b]]
  BY <1>1 DEF TypeOK, Successor
<1> QED
  BY <1>1, <1>2, <1>3, <1>4, OperatorTypes DEF TypeOK

\* What a step may do to the accounts.
AcctMove ==
    \/ UNCHANGED acct
    \/ \E t \in Tx, totp \in BOOLEAN : SignInCommit(t, totp)
    \/ \E t \in Tx : Approve(t)
    \/ \E t \in Tx, x \in Account, role \in Roles, disabled \in BOOLEAN :
          Update(t, x, role, disabled)
    \/ \E x \in Account : BootstrapCanonical(x)
    \/ \E c, x \in Account : TransferCanonical(c, x)

LEMMA StepMovesAccounts ==
    ASSUME TypeOK, [Next]_vars
    PROVE  AcctMove
<1>1. CASE \E t \in Tx : Begin(t) \/ Lock(t) \/ Finish(t) \/ Refuse(t)
  <2>1. PICK t \in Tx : Begin(t) \/ Lock(t) \/ Finish(t) \/ Refuse(t)
    BY <1>1
  <2>2. CASE Reads(t) \/ Lock(t) \/ Refuse(t)
    BY <2>2, ReadsFrame DEF AcctMove
  <2>3. CASE AskCommit(t) \/ Reject(t)
    BY <2>3 DEF AskCommit, Reject, AcctMove
  <2>4. CASE \E q \in RequestId : CancelCommit(t, q)
    BY <2>4 DEF CancelCommit, AcctMove
  <2>5. CASE \E x \in Account : Revoke(t, x)
    BY <2>5 DEF Revoke, AcctMove
  <2> QED
    BY <2>1, <2>2, <2>3, <2>4, <2>5, NextSteps DEF AcctMove
<1>2. CASE Operator
  BY <1>2 DEF Operator, AcctMove
<1>3. CASE \E a \in Account : SessionEnds(a)
  BY <1>3 DEF SessionEnds, AcctMove
<1>4. CASE UNCHANGED vars
  BY <1>4 DEF vars, AcctMove
<1> QED
  BY <1>1, <1>2, <1>3, <1>4 DEF Next

LEMMA AccountsStay ==
    ASSUME GoverningInv, AcctMove
    PROVE  /\ acct' \in [Account -> AccountRows \cup {NoAccount}]
           /\ \A a \in Account : Exists(a) => acct'[a] # NoAccount
<1> USE DEF GoverningInv
<1>0. NoAccount \notin AccountRows
  BY DEF NoAccount, AccountRow, AccountRows
<1>1. CASE UNCHANGED acct
  BY <1>1 DEF TypeOK, Exists
<1>2. CASE \E t \in Tx, totp \in BOOLEAN : SignInCommit(t, totp)
  <2>1. PICK t \in Tx, totp \in BOOLEAN : SignInCommit(t, totp)
    BY <1>2
  <2>2. /\ tx[t].actor \in Account
        /\ acct' \in [Account -> AccountRows \cup {NoAccount}]
        /\ SignedIn(tx[t].actor)
        /\ \A b \in Account : b # tx[t].actor => acct'[b] = acct[b]
    BY <2>1, SignInWrites
  <2>3. acct'[tx[t].actor].role \in Roles
    BY <2>2, AccountTypes DEF SignedIn
  <2>4. acct'[tx[t].actor] # NoAccount
    BY <2>3 DEF NoAccount, AccountRow
  <2> QED
    BY <2>2, <2>4 DEF Exists
<1>3. CASE \E t \in Tx : Approve(t)
  BY <1>0, <1>3, ApproveWrites DEF TypeOK, Exists
<1>4. CASE \E t \in Tx, x \in Account, role \in Roles, disabled \in BOOLEAN :
              Update(t, x, role, disabled)
  BY <1>0, <1>4, UpdateWrites DEF TypeOK, Exists
<1>5. CASE \E x \in Account : BootstrapCanonical(x)
  <2>1. PICK x \in Account : BootstrapCanonical(x)
    BY <1>5
  <2>2. /\ acct' = [acct EXCEPT ![x] =
                       AccountRow("ADMINISTRATOR", TRUE, FALSE, acct[x].mfa)]
        /\ Candidate(x)
    BY <2>1 DEF BootstrapCanonical, TypeOK
  <2> QED
    BY <1>0, <2>2, OperatorTypes DEF TypeOK, Exists
<1>6. CASE \E c, x \in Account : TransferCanonical(c, x)
  <2>1. PICK c \in Account, x \in Account : TransferCanonical(c, x)
    BY <1>6
  <2>2. /\ acct'[c] = AccountRow("REGISTERED_USER", FALSE, TRUE, acct[c].mfa)
        /\ acct'[x] = AccountRow("ADMINISTRATOR", TRUE, FALSE, acct[x].mfa)
    BY <2>1, TransferWrites
  <2>3. acct'[c].role = "REGISTERED_USER" /\ acct'[x].role = "ADMINISTRATOR"
    BY <2>2 DEF AccountRow
  <2>4. NoAccount.role = "absent"
    BY DEF NoAccount, AccountRow
  <2>5. acct'[c] # NoAccount /\ acct'[x] # NoAccount
    BY <2>3, <2>4
  <2> QED
    BY <2>1, <2>5, TransferWrites DEF Exists
<1> QED
  BY <1>1, <1>2, <1>3, <1>4, <1>5, <1>6 DEF AcctMove

----------------------------------------------------------------------------
(* Type correctness, together with what admission guarantees.              *)

LEMMA GoverningInit == Init => GoverningInv
<1> SUFFICES ASSUME Init PROVE GoverningInv
  OBVIOUS
<1>1. TypeOK
  BY DEF Init, TypeOK
<1>2. \A t \in Tx : tx[t].kind = "idle"
  BY DEF Init, Idle, Session
<1> QED
  BY <1>1, <1>2 DEF GoverningInv, AdmissionInv, LockInv, NonePendingWhileAsking

\* The sessions a step may open are of accounts, or of requests, it has read.
LEMMA ReadAdmits ==
    ASSUME GoverningInv, NEW t \in Tx, Reads(t)
    PROVE  /\ tx'[t].kind \in Kinds /\ tx'[t].read # NoAccount => Exists(tx'[t].actor)
           /\ tx'[t].kind \in {"update", "revoke"} => tx'[t].read.role = "ADMINISTRATOR"
           /\ tx'[t].kind = "decide" =>
                 tx'[t].request \in RequestId /\ asked[tx'[t].request].state # "absent"
<1> USE DEF GoverningInv
<1>1. CASE \E a \in Account :
              SignInRead(t, a) \/ AskRead(t, a) \/ CancelRead(t, a)
  <2>1. PICK a \in Account : SignInRead(t, a) \/ AskRead(t, a) \/ CancelRead(t, a)
    BY <1>1
  <2>2. \/ tx' = [tx EXCEPT ![t] = Session("signin", a, acct[a], Nobody)]
        \/ tx' = [tx EXCEPT ![t] = Session("ask", a, acct[a], Nobody)]
        \/ tx' = [tx EXCEPT ![t] = Session("cancel", a, NoAccount, Nobody)]
    BY <2>1 DEF SignInRead, AskRead, CancelRead
  <2>3. \/ tx'[t] = Session("signin", a, acct[a], Nobody)
        \/ tx'[t] = Session("ask", a, acct[a], Nobody)
        \/ tx'[t] = Session("cancel", a, NoAccount, Nobody)
    BY <2>2 DEF TypeOK
  <2>4. /\ tx'[t].kind \notin {"update", "revoke", "decide"}
        /\ tx'[t].actor = a /\ tx'[t].read \in {acct[a], NoAccount}
    BY <2>3 DEF Session
  <2> QED
    BY <2>4 DEF Exists
<1>2. CASE \E a \in Account, kind \in {"update", "revoke"} : AdminRead(t, a, kind)
  <2>1. PICK a \in Account, kind \in {"update", "revoke"} : AdminRead(t, a, kind)
    BY <1>2
  <2>2. /\ tx'[t] = Session(kind, a, acct[a], Nobody)
        /\ Exists(a) /\ acct[a].role = "ADMINISTRATOR"
    BY <2>1 DEF AdminRead, Admitted, TypeOK
  <2> QED
    BY <2>2 DEF Session
<1>3. CASE \E a \in Account, q \in RequestId : DecideRead(t, a, q)
  BY <1>3 DEF DecideRead, Admitted, Session, TypeOK
<1> QED
  BY <1>1, <1>2, <1>3 DEF Reads

\* The session a lock opens is of an account read before, and keeps no request.
LEMMA LockAdmits ==
    ASSUME GoverningInv, NEW t \in Tx, Lock(t)
    PROVE  /\ tx'[t].kind \in Kinds /\ tx'[t].read # NoAccount => Exists(tx'[t].actor)
           /\ tx'[t].kind \notin AdminKinds
<1>1. PICK kind \in Holding :
         tx' = [tx EXCEPT ![t] = Session(kind, tx[t].actor, tx[t].read, Nobody)]
  BY LockTakes DEF GoverningInv
<1>2. tx'[t] = Session(kind, tx[t].actor, tx[t].read, Nobody)
  BY <1>1 DEF GoverningInv, TypeOK
<1>3. tx'[t].kind = kind /\ tx'[t].actor = tx[t].actor /\ tx'[t].read = tx[t].read
  BY <1>2 DEF Session
<1>4. tx[t].kind \in Kinds
  BY LockTakes DEF GoverningInv
<1> QED
  BY <1>3, <1>4 DEF GoverningInv, AdmissionInv

LEMMA ReadHoldsNothing ==
    ASSUME TypeOK, NEW t \in Tx, Reads(t)
    PROVE  tx'[t].kind \notin Holding
  BY DEF Reads, SignInRead, AskRead, CancelRead, AdminRead, DecideRead, Session, TypeOK

LEMMA ClosesPending ==
    ASSUME TypeOK, Closes, NEW a
    PROVE  PendingOf(a)' \subseteq PendingOf(a)
<1>1. CASE UNCHANGED asked
  BY <1>1 DEF PendingOf
<1>2. CASE \E q \in RequestId, state \in ClosedStates : Close(q, state)
  <2>1. PICK q \in RequestId, state \in ClosedStates :
           asked' = [asked EXCEPT ![q] = RequestRow(asked[q].user, asked[q].role, state)]
    BY <1>2 DEF Close
  <2> QED
    BY <2>1 DEF PendingOf, RequestRow, TypeOK
<1> QED
  BY <1>1, <1>2 DEF Closes

LEMMA InsertPending ==
    ASSUME TypeOK, NEW a \in Account, Insert(a), NEW b, b # a
    PROVE  PendingOf(b)' \subseteq PendingOf(b)
<1>1. PICK q \in RequestId, role \in Requestable :
         asked' = [asked EXCEPT ![q] = RequestRow(a, role, "PENDING")]
  BY DEF Insert
<1> QED
  BY <1>1 DEF PendingOf, RequestRow, TypeOK

\* The lock excludes the others until the request is inserted, and who inserts
\* gives it up.
LEMMA LockInvNext ==
    ASSUME GoverningInv, NEW t \in Tx, Begin(t) \/ Lock(t) \/ Finish(t) \/ Refuse(t)
    PROVE  LockInv'
<1> USE DEF GoverningInv
<1>1. \A u \in Tx : u # t => tx'[u] = tx[u]
  BY BeginReads, ReadsFrame, CommitFrame, EndsFrame
<1>2. CASE Lock(t)
  <2>1. UNCHANGED asked /\ Free(tx[t].actor) /\ PendingOf(tx[t].actor) = {}
    BY <1>2, LockTakes
  <2>2. PICK kind \in Holding :
           tx' = [tx EXCEPT ![t] = Session(kind, tx[t].actor, tx[t].read, Nobody)]
    BY <1>2, LockTakes
  <2>3. tx'[t].actor = tx[t].actor
    BY <2>2 DEF Session, TypeOK
  <2>4. \A a : PendingOf(a)' = PendingOf(a)
    BY <2>1 DEF PendingOf
  <2> QED
    BY <1>1, <2>1, <2>3, <2>4 DEF Free, LockInv, NonePendingWhileAsking
<1>3. CASE tx'[t].kind \notin Holding /\ Closes
  <2>1. \A a : PendingOf(a)' \subseteq PendingOf(a)
    BY <1>3, ClosesPending
  <2> QED
    BY <1>1, <1>3, <2>1 DEF LockInv, NonePendingWhileAsking
<1>4. CASE Begin(t) \/ Refuse(t)
  <2>1. UNCHANGED asked
    BY <1>4, BeginReads, ReadsFrame
  <2>2. tx'[t].kind \notin Holding
    <3>1. CASE Begin(t)
      BY <3>1, BeginReads, ReadHoldsNothing
    <3>2. CASE Refuse(t)
      BY <3>2, EndsFrame DEF Refuse, Idle, Session
    <3> QED
      BY <1>4, <3>1, <3>2
  <2> QED
    BY <1>3, <2>1, <2>2 DEF Closes
<1>5. CASE Finish(t)
  <2>1. tx'[t].kind \notin Holding
    BY <1>5, CommitFrame, EndsFrame DEF Idle, Session
  <2>2. CASE tx[t].kind \in Holding /\ Insert(tx[t].actor)
    <3>1. tx[t].actor \in Account
      BY <2>2, SessionTypes
    <3>2. \A u \in Tx : tx'[u].kind \in Holding =>
             /\ u # t /\ tx[u].kind \in Holding /\ tx[u].actor # tx[t].actor
             /\ tx'[u].actor = tx[u].actor
      BY <1>1, <2>1, <2>2 DEF LockInv
    <3>3. \A b : b # tx[t].actor => PendingOf(b)' \subseteq PendingOf(b)
      BY <2>2, <3>1, InsertPending
    <3> QED
      BY <3>2, <3>3 DEF LockInv, NonePendingWhileAsking
  <2> QED
    BY <1>3, <1>5, <2>1, <2>2, CommitFrame
<1> QED
  BY <1>2, <1>4, <1>5

LEMMA GoverningNext == GoverningInv /\ [Next]_vars => GoverningInv'
<1> SUFFICES ASSUME GoverningInv, [Next]_vars PROVE GoverningInv'
  OBVIOUS
<1> USE DEF GoverningInv
<1>1. /\ acct' \in [Account -> AccountRows \cup {NoAccount}]
      /\ \A a \in Account : Exists(a) => acct'[a] # NoAccount
  BY StepMovesAccounts, AccountsStay
<1>2. CASE \E t \in Tx : Begin(t) \/ Lock(t) \/ Finish(t) \/ Refuse(t)
  <2>1. PICK t \in Tx : Begin(t) \/ Lock(t) \/ Finish(t) \/ Refuse(t)
    BY <1>2
  <2>2. /\ \A u \in Tx : u # t => tx'[u] = tx[u]
        /\ tx' \in [Tx -> Sessions \cup {Idle}]
        /\ tx'[t] = Idle \/ Reads(t) \/ Lock(t)
        /\ RowsMove
    <3>1. CASE Reads(t) \/ Lock(t) \/ Refuse(t)
      BY <3>1, ReadsFrame, EndsFrame DEF Refuse, RowsMove, Closes
    <3>2. CASE Finish(t)
      BY <3>2, CommitFrame, EndsFrame
    <3> QED
      BY <2>1, <3>1, <3>2, BeginReads
  <2>3. online' \in SUBSET Account
    <3>1. CASE Reads(t) \/ Lock(t) \/ Refuse(t)
      BY <3>1, ReadsFrame DEF TypeOK
    <3>2. CASE \E totp \in BOOLEAN : SignInCommit(t, totp)
      <4>1. PICK totp \in BOOLEAN : SignInCommit(t, totp)
        BY <3>2
      <4>2. tx[t].actor \in Account
        BY <4>1, SignInWrites
      <4>3. online' = online \cup {tx[t].actor}
        BY <4>1 DEF SignInCommit
      <4> QED
        BY <4>2, <4>3 DEF TypeOK
    <3>3. CASE AskCommit(t) \/ Reject(t) \/ Approve(t)
      BY <3>3 DEF AskCommit, Reject, Approve, TypeOK
    <3>4. CASE \E q \in RequestId : CancelCommit(t, q)
      BY <3>4 DEF CancelCommit, TypeOK
    <3>5. CASE \E x \in Account, role \in Roles, disabled \in BOOLEAN :
                  Update(t, x, role, disabled)
      BY <3>5 DEF Update, SessionsAfterUpdate, TypeOK
    <3>6. CASE \E x \in Account : Revoke(t, x)
      BY <3>6 DEF Revoke, TypeOK
    <3> QED
      BY <2>1, <3>1, <3>2, <3>3, <3>4, <3>5, <3>6, NextSteps
  <2>4. TypeOK'
    BY <1>1, <2>2, <2>3, RowsMoveFrame DEF TypeOK
  <2>5. \A u \in Tx : u # t =>
           /\ tx'[u].kind \in Kinds /\ tx'[u].read # NoAccount => acct'[tx'[u].actor] # NoAccount
           /\ tx'[u].kind \in {"update", "revoke"} => tx'[u].read.role = "ADMINISTRATOR"
           /\ tx'[u].kind = "decide" =>
                 tx'[u].request \in RequestId /\ asked'[tx'[u].request].state # "absent"
    BY <1>1, <2>2, RowsMoveFrame, SessionTypes DEF AdmissionInv, Exists
  <2>6. /\ tx'[t].kind \in Kinds /\ tx'[t].read # NoAccount => acct'[tx'[t].actor] # NoAccount
        /\ tx'[t].kind \in {"update", "revoke"} => tx'[t].read.role = "ADMINISTRATOR"
        /\ tx'[t].kind = "decide" =>
              tx'[t].request \in RequestId /\ asked'[tx'[t].request].state # "absent"
    <3>1. CASE Reads(t)
      <4>1. tx'[t] \in Sessions \cup {Idle}
        BY <2>2
      <4>2. tx'[t].kind \in Kinds => tx'[t].actor \in Account
        BY <4>1 DEF Sessions, Idle, Session
      <4> QED
        BY <1>1, <2>2, <3>1, <4>2, ReadAdmits, RowsMoveFrame DEF Exists
    <3>2. CASE tx'[t] = Idle
      BY <3>2 DEF Idle, Session
    <3>3. CASE Lock(t)
      <4>1. tx'[t] \in Sessions \cup {Idle}
        BY <2>2
      <4>2. tx'[t].kind \in Kinds => tx'[t].actor \in Account
        BY <4>1 DEF Sessions, Idle, Session
      <4> QED
        BY <1>1, <3>3, <4>2, LockAdmits DEF Exists
    <3> QED
      BY <2>2, <3>1, <3>2, <3>3
  <2>7. AdmissionInv'
    BY <2>5, <2>6 DEF AdmissionInv, Exists
  <2>8. LockInv'
    BY <2>1, LockInvNext
  <2> QED
    BY <2>4, <2>7, <2>8
<1>3. CASE Operator \/ (\E a \in Account : SessionEnds(a)) \/ UNCHANGED vars
  <2>1. UNCHANGED <<asked, tx>> /\ online' \in SUBSET Account
    BY <1>3 DEF Operator, BootstrapCanonical, TransferCanonical, SessionEnds, vars, TypeOK
  <2>2. TypeOK'
    BY <1>1, <2>1 DEF TypeOK
  <2>3. AdmissionInv'
    BY <1>1, <2>1, SessionTypes DEF AdmissionInv, Exists
  <2>4. LockInv'
    BY <2>1 DEF LockInv, NonePendingWhileAsking, PendingOf
  <2> QED
    BY <2>2, <2>3, <2>4
<1> QED
  BY <1>2, <1>3 DEF Next

LEMMA Governing == Spec => []GoverningInv
<1> QED
  BY GoverningInit, GoverningNext, PTL DEF Spec

\* Every row and session keeps its type (models.py: user_account, role_request).
THEOREM TypeCorrect == Spec => []TypeOK
<1>1. GoverningInv => TypeOK
  BY DEF GoverningInv
<1> QED
  BY <1>1, Governing, PTL

----------------------------------------------------------------------------
(* The canonical Administrator.                                            *)

\* An update without a change in the eyes of the session writes nothing.
LEMMA UnchangedWritesNothing ==
    ASSUME TypeOK, NEW t \in Tx, NEW x \in Account, NEW role \in Roles,
           NEW disabled \in BOOLEAN, Update(t, x, role, disabled),
           Row(t, x).role = role, Row(t, x).disabled = disabled
    PROVE  acct' = acct
<1>1. /\ Written(Row(t, x).role, role, acct[x].role) = acct[x].role
      /\ Written(Row(t, x).disabled, disabled, acct[x].disabled) = acct[x].disabled
  BY DEF Written
<1>2. Updated(t, x, role, disabled) = acct[x]
  BY <1>1, AccountTypes DEF Updated
<1> QED
  BY <1>2, UpdateWrites DEF TypeOK

LEMMA UpdateSparesActor ==
    ASSUME TypeOK, NEW t \in Tx, NEW role \in Roles, NEW disabled \in BOOLEAN,
           NEW x \in Account, Update(t, x, role, disabled), x = tx[t].actor
    PROVE  acct' = acct
<1>1. Row(t, x).role = role /\ Row(t, x).disabled = disabled
  BY DEF Update, MayUpdate
<1> QED
  BY <1>1, UnchangedWritesNothing

LEMMA UpdateSparesCanonical ==
    ASSUME TypeOK, NEW t \in Tx, NEW role \in Roles, NEW disabled \in BOOLEAN,
           NEW x \in Account, Update(t, x, role, disabled), acct[x].canonical
    PROVE  acct' = acct
<1>1. CASE x = tx[t].actor
  BY <1>1, UpdateSparesActor
<1>2. CASE x # tx[t].actor
  <2>1. Row(t, x) = acct[x]
    BY <1>2 DEF Row
  <2>2. Row(t, x).role = role /\ Row(t, x).disabled = disabled
    BY <2>1 DEF Update, MayUpdate
  <2> QED
    BY <2>2, UnchangedWritesNothing
<1> QED
  BY <1>1, <1>2

LEMMA UpdateKeepsFlags ==
    ASSUME TypeOK, NEW t \in Tx, NEW x \in Account, NEW role \in Roles,
           NEW disabled \in BOOLEAN, Update(t, x, role, disabled)
    PROVE  \A a \in Account : /\ acct'[a].canonical = acct[a].canonical
                              /\ acct'[a].mfa = acct[a].mfa
<1>1. acct' = [acct EXCEPT ![x] = Updated(t, x, role, disabled)]
  BY UpdateWrites
<1>2. /\ Updated(t, x, role, disabled).canonical = acct[x].canonical
      /\ Updated(t, x, role, disabled).mfa = acct[x].mfa
  BY DEF Updated, AccountRow
<1> QED
  BY <1>1, <1>2 DEF TypeOK

\* Unless an operator acts, the canonical account keeps all but its sign-in flag.
LEMMA CanonicalStays ==
    ASSUME GoverningInv, CanonicalIsActiveAdmin, AcctMove,
           ~ \E x \in Account : BootstrapCanonical(x),
           ~ \E c, x \in Account : TransferCanonical(c, x)
    PROVE  \A a \in Account :
              /\ acct'[a].canonical = acct[a].canonical
              /\ acct[a].canonical => /\ acct'[a].role = acct[a].role
                                      /\ acct'[a].disabled = acct[a].disabled
<1> USE DEF GoverningInv
<1>1. CASE UNCHANGED acct
  BY <1>1
<1>2. CASE \E t \in Tx, totp \in BOOLEAN : SignInCommit(t, totp)
  <2>1. PICK t \in Tx, totp \in BOOLEAN : SignInCommit(t, totp)
    BY <1>2
  <2>2. /\ SignedIn(tx[t].actor) /\ tx[t].actor \in Account
        /\ \A b \in Account : b # tx[t].actor => acct'[b] = acct[b]
    BY <2>1, SignInWrites
  <2>3. acct[tx[t].actor].canonical => Exists(tx[t].actor)
    BY <2>2, AccountTypes
  <2> QED
    BY <2>2, <2>3 DEF SignedIn
<1>3. CASE \E t \in Tx : Approve(t)
  <2>1. PICK t \in Tx : Approve(t)
    BY <1>3
  <2> DEFINE x == asked[tx[t].request].user
             row == AccountRow(asked[tx[t].request].role, acct[x].canonical,
                               acct[x].disabled, acct[x].mfa)
  <2>2. x \in Account /\ acct' = [acct EXCEPT ![x] = row]
    BY <2>1, ApproveWrites
  <2>3. acct[x].role = "REGISTERED_USER"
    BY <2>1 DEF Approve, Eligible
  <2>4. ~acct[x].canonical
    BY <2>2, <2>3 DEF CanonicalIsActiveAdmin
  <2>5. row.canonical = acct[x].canonical
    BY DEF AccountRow
  <2> QED
    BY <2>2, <2>4, <2>5 DEF TypeOK
<1>4. CASE \E t \in Tx, x \in Account, role \in Roles, disabled \in BOOLEAN :
              Update(t, x, role, disabled)
  <2>1. PICK t \in Tx, x \in Account, role \in Roles, disabled \in BOOLEAN :
           Update(t, x, role, disabled)
    BY <1>4
  <2>2. \A a \in Account : acct'[a].canonical = acct[a].canonical
    BY <2>1, UpdateKeepsFlags
  <2>3. acct[x].canonical => acct' = acct
    BY <2>1, UpdateSparesCanonical
  <2>4. \A a \in Account : a # x => acct'[a] = acct[a]
    BY <2>1, UpdateWrites DEF TypeOK
  <2> QED
    BY <2>2, <2>3, <2>4
<1> QED
  BY <1>1, <1>2, <1>3, <1>4 DEF AcctMove

LEMMA CanonicalNext ==
    ASSUME GoverningInv, CanonicalIsActiveAdmin, AcctMove
    PROVE  CanonicalIsActiveAdmin' /\ (ThereIsCanonical => ThereIsCanonical')
<1> USE DEF GoverningInv
<1>1. CASE \E x \in Account : BootstrapCanonical(x)
  <2>1. PICK x \in Account : BootstrapCanonical(x)
    BY <1>1
  <2>2. /\ acct' = [acct EXCEPT ![x] =
                       AccountRow("ADMINISTRATOR", TRUE, FALSE, acct[x].mfa)]
        /\ ~ThereIsCanonical
    BY <2>1 DEF BootstrapCanonical, TypeOK
  <2>3. \A a \in Account : a # x => ~acct'[a].canonical
    BY <2>2 DEF ThereIsCanonical, TypeOK
  <2>4. acct'[x].role = "ADMINISTRATOR" /\ ~acct'[x].disabled
    BY <2>2 DEF AccountRow, TypeOK
  <2> QED
    BY <2>2, <2>3, <2>4 DEF CanonicalIsActiveAdmin
<1>2. CASE \E c, x \in Account : TransferCanonical(c, x)
  <2>1. PICK c \in Account, x \in Account : TransferCanonical(c, x)
    BY <1>2
  <2>2. /\ c # x /\ acct[c].canonical
        /\ acct'[c] = AccountRow("REGISTERED_USER", FALSE, TRUE, acct[c].mfa)
        /\ acct'[x] = AccountRow("ADMINISTRATOR", TRUE, FALSE, acct[x].mfa)
        /\ \A b \in Account : b \notin {c, x} => acct'[b] = acct[b]
    BY <2>1, TransferWrites
  <2>3. /\ ~acct'[c].canonical /\ acct'[x].canonical
        /\ acct'[x].role = "ADMINISTRATOR" /\ ~acct'[x].disabled
    BY <2>2 DEF AccountRow
  <2>4. \A b \in Account : b # x => ~acct'[b].canonical
    BY <2>2, <2>3 DEF CanonicalIsActiveAdmin
  <2> QED
    BY <2>3, <2>4 DEF CanonicalIsActiveAdmin, ThereIsCanonical
<1>3. CASE ~(\E x \in Account : BootstrapCanonical(x))
           /\ ~(\E c, x \in Account : TransferCanonical(c, x))
  BY <1>3, CanonicalStays DEF CanonicalIsActiveAdmin, ThereIsCanonical
<1> QED
  BY <1>1, <1>2, <1>3

LEMMA CanonicalAlways == Spec => [](GoverningInv /\ CanonicalIsActiveAdmin)
<1>1. Init => CanonicalIsActiveAdmin
  BY DEF Init, CanonicalIsActiveAdmin, NoAccount, AccountRow
<1>2. GoverningInv /\ CanonicalIsActiveAdmin /\ [Next]_vars => CanonicalIsActiveAdmin'
  BY StepMovesAccounts, CanonicalNext DEF GoverningInv
<1> QED
  BY <1>1, <1>2, GoverningInit, GoverningNext, PTL DEF Spec

\* No write of the application or of an operator would break the constraints on
\* the canonical account (models.py:43-51).
THEOREM CanonicalSafe == Spec => []CanonicalIsActiveAdmin
  BY CanonicalAlways, PTL

\* Once appointed there is always a canonical Administrator (ADR-0007; cli.py:161-212).
THEOREM CanonicalKept == Spec => CanonicalPersists
<1>1. GoverningInv /\ CanonicalIsActiveAdmin /\ [Next]_vars
         => [ThereIsCanonical => ThereIsCanonical']_vars
  BY StepMovesAccounts, CanonicalNext DEF GoverningInv
<1> QED
  BY <1>1, CanonicalAlways, PTL DEF Spec, CanonicalPersists

----------------------------------------------------------------------------
(* The requests for a role.                                                *)

LEMMA StepMovesRows ==
    ASSUME GoverningInv, [Next]_vars
    PROVE  RowsMove
<1> USE DEF GoverningInv
<1>1. CASE \E t \in Tx : Begin(t) \/ Lock(t) \/ Finish(t) \/ Refuse(t)
  <2>1. PICK t \in Tx : Begin(t) \/ Lock(t) \/ Finish(t) \/ Refuse(t)
    BY <1>1
  <2> QED
    BY <2>1, BeginReads, ReadsFrame, CommitFrame DEF RowsMove, Closes
<1>2. CASE Operator \/ (\E a \in Account : SessionEnds(a)) \/ UNCHANGED vars
  BY <1>2 DEF Operator, BootstrapCanonical, TransferCanonical, SessionEnds, vars,
              RowsMove, Closes
<1> QED
  BY <1>1, <1>2 DEF Next

LEMMA PendingNext ==
    ASSUME GoverningInv, OnePending, RowsMove
    PROVE  OnePending'
<1> USE DEF GoverningInv
<1>1. CASE UNCHANGED asked
  BY <1>1 DEF OnePending, PendingOf
<1>2. CASE \E q \in RequestId, state \in ClosedStates :
              asked[q].state # "absent" /\ Close(q, state)
  <2>1. PICK q \in RequestId, state \in ClosedStates : Close(q, state)
    BY <1>2
  <2>2. asked' = [asked EXCEPT ![q] = RequestRow(asked[q].user, asked[q].role, state)]
    BY <2>1 DEF Close
  <2>3. \A a \in Account : PendingOf(a)' \subseteq PendingOf(a)
    BY <2>2 DEF PendingOf, RequestRow, TypeOK
  <2> QED
    BY <2>3 DEF OnePending
<1>3. CASE \E a \in Account : PendingOf(a) = {} /\ Insert(a)
  <2>1. PICK a \in Account : PendingOf(a) = {} /\ Insert(a)
    BY <1>3
  <2>2. PICK q \in RequestId, role \in Requestable :
           asked' = [asked EXCEPT ![q] = RequestRow(a, role, "PENDING")]
    BY <2>1 DEF Insert
  <2>3. PendingOf(a)' \subseteq {q}
    BY <2>1, <2>2 DEF PendingOf, RequestRow, TypeOK
  <2>4. \A b \in Account : b # a => PendingOf(b)' \subseteq PendingOf(b)
    BY <2>2 DEF PendingOf, RequestRow, TypeOK
  <2> QED
    BY <2>3, <2>4 DEF OnePending
<1> QED
  BY <1>1, <1>2, <1>3 DEF RowsMove, Closes

\* Between the check for a pending request and the insert no request of the
\* account becomes pending, whoever else asks for it, and so no account has two
\* of them, with or without the partial unique index (roles.py:78-104).
THEOREM PendingUnique == Spec => [](NonePendingWhileAsking /\ OnePending)
<1>1. Init => OnePending
  BY DEF Init, OnePending, PendingOf, NoRequest, RequestRow
<1>2. GoverningInv /\ OnePending /\ [Next]_vars => OnePending'
  BY StepMovesRows, PendingNext
<1>3. GoverningInv => NonePendingWhileAsking
  BY DEF GoverningInv, LockInv
<1> QED
  BY <1>1, <1>2, <1>3, Governing, PTL DEF Spec

\* What an update leaves: the row asked for, unless the actor is the target.
LEMMA UpdateResult ==
    ASSUME TypeOK, NEW t \in Tx, NEW x \in Account, NEW role \in Roles,
           NEW disabled \in BOOLEAN, Update(t, x, role, disabled), x # tx[t].actor
    PROVE  /\ Row(t, x) = acct[x]
           /\ acct'[x].role = role /\ acct'[x].disabled = disabled
           /\ \A b \in Account : b # x => acct'[b] = acct[b]
<1>1. Row(t, x) = acct[x]
  BY DEF Row
<1>2. acct' = [acct EXCEPT ![x] = Updated(t, x, role, disabled)]
  BY UpdateWrites
<1>3. /\ Written(acct[x].role, role, acct[x].role) = role
      /\ Written(acct[x].disabled, disabled, acct[x].disabled) = disabled
  BY DEF Written
<1>4. /\ Updated(t, x, role, disabled).role = role
      /\ Updated(t, x, role, disabled).disabled = disabled
  BY <1>1, <1>3 DEF Updated, AccountRow
<1> QED
  BY <1>1, <1>2, <1>4 DEF TypeOK

LEMMA ApprovalStep ==
    ASSUME GoverningInv, [Next]_vars, NEW q \in RequestId,
           asked'[q].state = "APPROVED", asked[q].state # "APPROVED"
    PROVE  acct'[asked[q].user].role = asked[q].role
<1> USE DEF GoverningInv
<1>0. asked' # asked
  OBVIOUS
<1>1. PICK t \in Tx : Finish(t)
  <2>1. CASE \E t \in Tx : Begin(t) \/ Lock(t) \/ Finish(t) \/ Refuse(t)
    BY <1>0, <2>1, BeginReads, ReadsFrame
  <2>2. CASE Operator \/ (\E a \in Account : SessionEnds(a)) \/ UNCHANGED vars
    BY <1>0, <2>2 DEF Operator, BootstrapCanonical, TransferCanonical, SessionEnds, vars
  <2> QED
    BY <2>1, <2>2 DEF Next
<1>2. \A p \in RequestId, state \in RequestStates :
         Close(p, state) => p = q /\ state = "APPROVED"
  BY DEF Close, RequestRow, TypeOK
<1>3. ~ \E a \in Account : Insert(a)
  BY DEF Insert, RequestRow, TypeOK
<1>4. CASE \E totp \in BOOLEAN : SignInCommit(t, totp)
  BY <1>0, <1>3, <1>4, SignInWrites DEF SignInCommit
<1>5. CASE AskCommit(t)
  BY <1>3, <1>5, SessionTypes DEF AskCommit
<1>6. CASE \E p \in RequestId : CancelCommit(t, p)
  BY <1>2, <1>6 DEF CancelCommit
<1>7. CASE Approve(t)
  <2> DEFINE x == asked[tx[t].request].user
             row == AccountRow(asked[tx[t].request].role, acct[x].canonical,
                               acct[x].disabled, acct[x].mfa)
  <2>1. x \in Account /\ tx[t].request \in RequestId /\ acct' = [acct EXCEPT ![x] = row]
    BY <1>7, ApproveWrites
  <2>2. tx[t].request = q
    BY <1>2, <1>7, <2>1 DEF Approve
  <2>3. acct'[x] = row
    BY <2>1 DEF TypeOK
  <2>4. row.role = asked[tx[t].request].role
    BY DEF AccountRow
  <2> QED
    BY <2>2, <2>3, <2>4
<1>8. CASE Reject(t)
  <2>1. tx[t].request \in RequestId
    BY <1>8 DEF Reject, AdmissionInv
  <2> QED
    BY <1>2, <1>8, <2>1 DEF Reject
<1>9. CASE \E x \in Account, role \in Roles, disabled \in BOOLEAN :
              Update(t, x, role, disabled)
  <2>1. PICK x \in Account, role \in Roles, disabled \in BOOLEAN :
           Update(t, x, role, disabled)
    BY <1>9
  <2>2. q \in PendingOf(x) /\ asked[q].role = role
    BY <1>0, <1>2, <2>1 DEF Update, ApproveMatching, PendingOf
  <2>3. asked[q].user = x /\ role \in Requestable
    BY <2>2, RequestTypes DEF PendingOf
  <2>4. x # tx[t].actor
    <3>1. SUFFICES ASSUME x = tx[t].actor PROVE FALSE
      OBVIOUS
    <3>2. Row(t, x).role = "ADMINISTRATOR"
      BY <2>1, <3>1 DEF Row, Update, AdmissionInv
    <3>3. Row(t, x).role = role
      BY <2>1, <3>1 DEF Update, MayUpdate
    <3> QED
      BY <2>3, <3>2, <3>3
  <2> QED
    BY <2>1, <2>2, <2>3, <2>4, UpdateResult
<1>10. CASE \E x \in Account : Revoke(t, x)
  BY <1>0, <1>10 DEF Revoke
<1> QED
  BY <1>1, <1>4, <1>5, <1>6, <1>7, <1>8, <1>9, <1>10 DEF Finish

\* Whichever way a request is approved, its account then has the role it asks for.
THEOREM ApprovalGrants == Spec => ApprovalGrantsRole
<1>1. GoverningInv /\ [Next]_vars =>
         [\A q \in RequestId :
             asked'[q].state = "APPROVED" /\ asked[q].state # "APPROVED" =>
                 acct'[asked[q].user].role = asked[q].role]_vars
  BY ApprovalStep
<1> QED
  BY <1>1, Governing, PTL DEF Spec, ApprovalGrantsRole

----------------------------------------------------------------------------
(* What a change of authority takes and leaves.                            *)

LEMMA SelfSparedStep ==
    ASSUME GoverningInv, [Next]_vars, NEW t \in Tx,
           tx[t].kind \in AdminKinds, tx'[t] # tx[t]
    PROVE  acct'[tx[t].actor] = acct[tx[t].actor]
<1> USE DEF GoverningInv
<1>1. tx[t].kind \in Kinds /\ tx[t] # Idle
  BY SessionTypes
<1>2. PICK u \in Tx : Begin(u) \/ Lock(u) \/ Finish(u) \/ Refuse(u)
  BY DEF Next, Operator, BootstrapCanonical, TransferCanonical, SessionEnds, vars
<1>3. u = t
  <2>1. \A v \in Tx : v # u => tx'[v] = tx[v]
    BY <1>2, BeginReads, ReadsFrame, CommitFrame, EndsFrame
  <2> QED
    BY <2>1
<1>4. CASE Reads(t) \/ Lock(t) \/ Refuse(t)
  BY <1>4, ReadsFrame
<1>5. CASE Approve(t)
  <2> DEFINE x == asked[tx[t].request].user
  <2>1. PICK row : acct' = [acct EXCEPT ![x] = row]
    BY <1>5, ApproveWrites
  <2>2. x # tx[t].actor
    BY <1>5 DEF Approve
  <2> QED
    BY <1>1, <2>1, <2>2, SessionTypes DEF TypeOK
<1>6. CASE \E x \in Account, role \in Roles, disabled \in BOOLEAN :
              Update(t, x, role, disabled)
  <2>1. PICK x \in Account, role \in Roles, disabled \in BOOLEAN :
           Update(t, x, role, disabled)
    BY <1>6
  <2>2. CASE x = tx[t].actor
    BY <2>1, <2>2, UpdateSparesActor
  <2>3. CASE x # tx[t].actor
    BY <1>1, <2>1, <2>3, UpdateResult, SessionTypes
  <2> QED
    BY <2>2, <2>3
<1>7. CASE Reject(t) \/ \E x \in Account : Revoke(t, x)
  BY <1>7 DEF Reject, Revoke
<1>8. ~ \E totp \in BOOLEAN : SignInCommit(t, totp)
  BY DEF SignInCommit
<1>9. ~AskCommit(t) /\ ~ \E q \in RequestId : CancelCommit(t, q)
  BY DEF AskCommit, CancelCommit
<1> QED
  BY <1>2, <1>3, <1>4, <1>5, <1>6, <1>7, <1>8, <1>9, NextSteps

\* No administrator's request changes the administrator's own account, whatever
\* became of the account since it was read (governance.py:277, roles.py:137).
THEOREM SelfUnchanged == Spec => NoSelfChange
<1>1. GoverningInv /\ [Next]_vars =>
         [\A t \in Tx :
             tx[t].kind \in AdminKinds /\ tx'[t] # tx[t] =>
                 acct'[tx[t].actor] = acct[tx[t].actor]]_vars
  BY SelfSparedStep
<1> QED
  BY <1>1, Governing, PTL DEF Spec, NoSelfChange

\* What a step that changes an account leaves of it and of its sessions.
LEMMA AuthorityStep ==
    ASSUME GoverningInv, AcctMove, NEW a \in Account
    PROVE  /\ ActivePrivileged(acct'[a]) /\ ~ActivePrivileged(acct[a]) => acct[a].mfa
           /\ Exists(a) /\ (\/ acct'[a].role # acct[a].role
                            \/ acct'[a].disabled # acct[a].disabled) =>
                 a \notin online'
<1> USE DEF GoverningInv
<1>1. CASE UNCHANGED acct
  BY <1>1
<1>2. CASE \E t \in Tx, totp \in BOOLEAN : SignInCommit(t, totp)
  <2>1. PICK t \in Tx, totp \in BOOLEAN : SignInCommit(t, totp)
    BY <1>2
  <2>2. /\ SignedIn(tx[t].actor)
        /\ \A b \in Account : b # tx[t].actor => acct'[b] = acct[b]
    BY <2>1, SignInWrites
  <2> QED
    BY <2>2 DEF SignedIn, ActivePrivileged
<1>3. CASE \E t \in Tx : Approve(t)
  <2>1. PICK t \in Tx : Approve(t)
    BY <1>3
  <2> DEFINE x == asked[tx[t].request].user
  <2>2. PICK row : acct' = [acct EXCEPT ![x] = row]
    BY <2>1, ApproveWrites
  <2>3. acct[x].mfa /\ online' = online \ {x}
    BY <2>1 DEF Approve, Eligible
  <2>4. a # x => acct'[a] = acct[a]
    BY <2>2 DEF TypeOK
  <2> QED
    BY <2>3, <2>4
<1>4. CASE \E t \in Tx, x \in Account, role \in Roles, disabled \in BOOLEAN :
              Update(t, x, role, disabled)
  <2>1. PICK t \in Tx, x \in Account, role \in Roles, disabled \in BOOLEAN :
           Update(t, x, role, disabled)
    BY <1>4
  <2>2. CASE x = tx[t].actor
    BY <2>1, <2>2, UpdateSparesActor
  <2>3. CASE x # tx[t].actor
    <3>1. /\ Row(t, x) = acct[x]
          /\ acct'[x].role = role /\ acct'[x].disabled = disabled
          /\ a # x => acct'[a] = acct[a]
      BY <2>1, <2>3, UpdateResult
    <3>2. ~disabled /\ role \in Privileged => acct[x].mfa
      BY <2>1, <3>1 DEF Update, MayUpdate
    <3>3. acct[x].role # role \/ acct[x].disabled # disabled => online' = online \ {x}
      BY <2>1, <3>1 DEF Update, SessionsAfterUpdate
    <3> QED
      BY <3>1, <3>2, <3>3 DEF ActivePrivileged
  <2> QED
    BY <2>2, <2>3
<1>5. CASE \E x \in Account : BootstrapCanonical(x)
  <2>1. PICK x \in Account : BootstrapCanonical(x)
    BY <1>5
  <2>2. acct[x].mfa /\ online' = online \ {x} /\ (a # x => acct'[a] = acct[a])
    BY <2>1 DEF BootstrapCanonical, Candidate, TypeOK
  <2> QED
    BY <2>2
<1>6. CASE \E c, x \in Account : TransferCanonical(c, x)
  <2>1. PICK c \in Account, x \in Account : TransferCanonical(c, x)
    BY <1>6
  <2>2. /\ acct[x].mfa /\ online' = online \ {c, x}
        /\ a \notin {c, x} => acct'[a] = acct[a]
    BY <2>1, TransferWrites DEF TransferCanonical, Candidate
  <2>3. ~ActivePrivileged(acct'[c])
    <3>1. acct'[c] = AccountRow("REGISTERED_USER", FALSE, TRUE, acct[c].mfa)
      BY <2>1, TransferWrites
    <3> QED
      BY <3>1 DEF AccountRow, ActivePrivileged
  <2> QED
    BY <2>2, <2>3
<1> QED
  BY <1>1, <1>2, <1>3, <1>4, <1>5, <1>6 DEF AcctMove

\* A privileged role becomes active only on an account last signed in with TOTP.
THEOREM GrantsAssured == Spec => AssuredWhenGranted
<1>1. GoverningInv /\ [Next]_vars =>
         [\A a \in Account :
             ActivePrivileged(acct'[a]) /\ ~ActivePrivileged(acct[a]) => acct[a].mfa]_vars
  BY StepMovesAccounts, AuthorityStep DEF GoverningInv
<1> QED
  BY <1>1, Governing, PTL DEF Spec, AssuredWhenGranted

\* Every change of authority ends the sessions of the account (ADR-0007).
THEOREM ChangesEndSessions == Spec => AuthorityChangeEndsSessions
<1>1. GoverningInv /\ [Next]_vars =>
         [\A a \in Account :
             Exists(a) /\ (\/ acct'[a].role # acct[a].role
                           \/ acct'[a].disabled # acct[a].disabled) =>
                 a \notin online']_vars
  BY StepMovesAccounts, AuthorityStep DEF GoverningInv
<1> QED
  BY <1>1, Governing, PTL DEF Spec, AuthorityChangeEndsSessions
=============================================================================
