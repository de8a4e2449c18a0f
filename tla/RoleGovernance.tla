--------------------------- MODULE RoleGovernance ---------------------------
(***************************************************************************)
(* Roles: accounts, the requests for Analyst and Researcher access, the    *)
(* in-application administration and the operator's commands that appoint  *)
(* and replace the one canonical Administrator.                            *)
(*                                                                         *)
(* A request of the web API is two steps.  Its first admits the caller and *)
(* reads what the handler reads without a lock; its last locks rows, reads *)
(* them, checks, writes and commits.  A request for a role has a step more *)
(* in between: it locks the account and looks for a pending request, and   *)
(* keeps the lock until it has inserted its own and committed.  All others *)
(* write, or refer to, the account's row and wait for that (Free).         *)
(*                                                                         *)
(* What the first step has read into the session is not read again: a      *)
(* SELECT ... FOR UPDATE of a row that the identity map holds locks it and *)
(* returns the object as it was (Row), and the flush writes only the       *)
(* columns that differ from it (Written).                                  *)
(***************************************************************************)

CONSTANTS
    Account,    \* identities that may sign in
    Tx,         \* requests of the API under way at once
    RequestId,  \* bound: role_request rows that may ever be inserted
    Nobody      \* no account

ASSUME NobodyIsNoAccount == Nobody \notin Account

VARIABLES
    acct,       \* the user_account row of each identity
    asked,      \* the role_request rows
    online,     \* accounts with an application_session that is not revoked
    tx          \* the requests under way and what their sessions have read

vars == <<acct, asked, online, tx>>

Requestable == {"ANALYST", "RESEARCHER"}
Privileged == Requestable \cup {"ADMINISTRATOR"}
Roles == Privileged \cup {"REGISTERED_USER"}
ClosedStates == {"APPROVED", "REJECTED", "CANCELLED"}
RequestStates == ClosedStates \cup {"PENDING"}
AdminKinds == {"decide", "update", "revoke"}
Holding == {"asking", "preferring"}  \* an ask or a sign-in that locked the account
Kinds == AdminKinds \cup Holding \cup {"signin", "ask", "cancel"}

\* email_verified is TRUE from the first sign-in on and is left out.
AccountRow(role, canonical, disabled, mfa) ==
    [role |-> role, canonical |-> canonical, disabled |-> disabled, mfa |-> mfa]
RequestRow(user, role, state) == [user |-> user, role |-> role, state |-> state]
Session(kind, actor, read, request) ==
    [kind |-> kind, actor |-> actor, read |-> read, request |-> request]

NoAccount == AccountRow("absent", FALSE, FALSE, FALSE)
NoRequest == RequestRow(Nobody, "ANALYST", "absent")
Idle == Session("idle", Nobody, NoAccount, Nobody)

AccountRows == [role : Roles, canonical : BOOLEAN, disabled : BOOLEAN, mfa : BOOLEAN]
RequestRows == [user : Account, role : Requestable, state : RequestStates]
Sessions == [kind : Kinds, actor : Account, read : AccountRows \cup {NoAccount},
             request : RequestId \cup {Nobody}]

TypeOK ==
    /\ acct \in [Account -> AccountRows \cup {NoAccount}]
    /\ asked \in [RequestId -> RequestRows \cup {NoRequest}]
    /\ online \in SUBSET Account
    /\ tx \in [Tx -> Sessions \cup {Idle}]

Init ==
    /\ acct = [a \in Account |-> NoAccount]
    /\ asked = [q \in RequestId |-> NoRequest]
    /\ online = {}
    /\ tx = [t \in Tx |-> Idle]

----------------------------------------------------------------------------
(* What a session sees and writes.                                         *)

Exists(a) == acct[a] # NoAccount

\* Nobody holds the lock of account a's row from one step to the next.
Free(a) == \A t \in Tx : tx[t].kind \in Holding => tx[t].actor # a

\* The object a handler works on when it selects account x for update.
Row(t, x) == IF x = tx[t].actor THEN tx[t].read ELSE acct[x]

\* Variant: every column is written, changed or not.
WrittenAlways(read, new, current) == new

\* The flush writes a column only if it differs from the value the session read.
Written(read, new, current) == IF new = read THEN current ELSE new

PendingOf(a) == {q \in RequestId : asked[q].user = a /\ asked[q].state = "PENDING"}

ThereIsCanonical == \E a \in Account : acct[a].canonical

\* resolve_principal: the session is live and the account may use its role.
Admitted(a) ==
    /\ a \in online
    /\ Exists(a) /\ ~acct[a].disabled
    /\ acct[a].role \in Privileged => acct[a].mfa

Close(q, state) ==
    asked' = [asked EXCEPT ![q] = RequestRow(asked[q].user, asked[q].role, state)]

Ends(t) == tx' = [tx EXCEPT ![t] = Idle]

----------------------------------------------------------------------------
(* A request of the API begins.                                            *)

\* POST /session reads the account of the verified identity, if there is one.
SignInRead(t, a) ==
    /\ tx[t] = Idle
    /\ tx' = [tx EXCEPT ![t] = Session("signin", a, acct[a], Nobody)]
    /\ UNCHANGED <<acct, asked, online>>

\* POST /account/role-requests.
AskRead(t, a) ==
    /\ tx[t] = Idle
    /\ Admitted(a)
    /\ tx' = [tx EXCEPT ![t] = Session("ask", a, acct[a], Nobody)]
    /\ UNCHANGED <<acct, asked, online>>

\* DELETE /account/role-requests/{id}: of the account only the id is used.
CancelRead(t, a) ==
    /\ tx[t] = Idle
    /\ Admitted(a)
    /\ tx' = [tx EXCEPT ![t] = Session("cancel", a, NoAccount, Nobody)]
    /\ UNCHANGED <<acct, asked, online>>

\* PUT /admin/users/{id} and POST /admin/users/{id}/revoke-sessions.
AdminRead(t, a, kind) ==
    /\ tx[t] = Idle
    /\ Admitted(a) /\ acct[a].role = "ADMINISTRATOR"
    /\ tx' = [tx EXCEPT ![t] = Session(kind, a, acct[a], Nobody)]
    /\ UNCHANGED <<acct, asked, online>>

\* POST /admin/role-requests/{id}/actions: the pending row is read, not
\* locked; of the account only the id is used.
DecideRead(t, a, q) ==
    /\ tx[t] = Idle
    /\ Admitted(a) /\ acct[a].role = "ADMINISTRATOR"
    /\ asked[q].state = "PENDING"
    /\ tx' = [tx EXCEPT ![t] = Session("decide", a, NoAccount, q)]
    /\ UNCHANGED <<acct, asked, online>>

\* An error answer, an integrity error, a deadlock: get_db rolls back.
Refuse(t) ==
    /\ tx[t] # Idle
    /\ Ends(t)
    /\ UNCHANGED <<acct, asked, online>>

----------------------------------------------------------------------------
(* ... and commits.                                                        *)

\* A request for a role by account a, which the handler sees as row.
MayAsk(a, row) ==
    /\ ~row.disabled
    /\ row.role = "REGISTERED_USER"
    /\ PendingOf(a) = {}

\* Variant: the role asked for is not restricted.
InsertAnyRole(a) ==
    \E q \in RequestId, role \in Privileged :
        /\ asked[q] = NoRequest
        /\ asked' = [asked EXCEPT ![q] = RequestRow(a, role, "PENDING")]

Insert(a) ==
    \E q \in RequestId, role \in Requestable :
        /\ asked[q] = NoRequest
        /\ asked' = [asked EXCEPT ![q] = RequestRow(a, role, "PENDING")]

\* RoleRequestService.request locks the account, and with the lock looks for a
\* pending request.
LocksToAsk(t, kind, row) ==
    /\ MayAsk(tx[t].actor, row)
    /\ tx' = [tx EXCEPT ![t] = Session(kind, tx[t].actor, tx[t].read, Nobody)]
    /\ UNCHANGED <<acct, asked, online>>

\* Variant: the SELECT of the account is not FOR UPDATE.
AskLockUnlocked(t) ==
    /\ tx[t].kind = "ask"
    /\ LocksToAsk(t, "asking", tx[t].read)

AskLock(t) ==
    /\ tx[t].kind = "ask"
    /\ Free(tx[t].actor)
    /\ LocksToAsk(t, "asking", tx[t].read)

\* ... and with the lock still held inserts the request.
AskCommit(t) ==
    /\ tx[t].kind = "asking"
    /\ Insert(tx[t].actor)
    /\ Ends(t)
    /\ UNCHANGED <<acct, online>>

NewAccount(totp) == AccountRow("REGISTERED_USER", FALSE, FALSE, totp)

\* The role preference sent along with a sign-in is asked for likewise, by the
\* object that create_user_session found or made.
SignInLock(t) ==
    LET read == tx[t].read
    IN  /\ tx[t].kind = "signin"
        /\ Free(tx[t].actor)
        /\ read = NoAccount => ~Exists(tx[t].actor)
        /\ LocksToAsk(t, "preferring", IF read = NoAccount THEN NewAccount(FALSE) ELSE read)

\* create_user_session, and the request if the account was locked for one.  A
\* preference that is refused does not keep the sign-in from its commit.
SignInCommit(t, totp) ==
    LET a == tx[t].actor
        read == tx[t].read
    IN  /\ \/ tx[t].kind = "signin" /\ Free(a) /\ UNCHANGED asked
           \/ tx[t].kind = "preferring" /\ Insert(a)
        /\ \/ /\ read = NoAccount /\ ~Exists(a)
              /\ acct' = [acct EXCEPT ![a] = NewAccount(totp)]
           \/ /\ read # NoAccount
              /\ ~read.disabled
              /\ read.role \in Privileged => totp
              /\ acct' = [acct EXCEPT ![a] =
                             AccountRow(@.role, @.canonical, @.disabled,
                                        Written(read.mfa, totp, @.mfa))]
        /\ online' = online \cup {a}
        /\ Ends(t)

\* RoleRequestService.cancel: the row is read for the first time, under its lock.
CancelCommit(t, q) ==
    /\ tx[t].kind = "cancel"
    /\ Free(tx[t].actor)
    /\ q \in PendingOf(tx[t].actor)
    /\ Close(q, "CANCELLED")
    /\ Ends(t)
    /\ UNCHANGED <<acct, online>>

\* Variant: the assurance of the account is not looked at again.
EligibleByRole(row) == ~row.disabled /\ row.role = "REGISTERED_USER"

Eligible(row) ==
    /\ ~row.disabled
    /\ row.role = "REGISTERED_USER"
    /\ row.mfa

\* RoleRequestService.decide: the account is read under its lock, the request
\* row is still the object of DecideRead, PENDING.  The audit event refers to
\* the actor's account, and a foreign key waits for its lock too (so below).
Approve(t) ==
    LET q == tx[t].request
        x == asked[q].user
    IN  /\ tx[t].kind = "decide"
        /\ Free(x) /\ Free(tx[t].actor)
        /\ x # tx[t].actor
        /\ Eligible(acct[x])
        /\ acct' = [acct EXCEPT ![x] =
                       AccountRow(asked[q].role, @.canonical, @.disabled, @.mfa)]
        /\ online' = online \ {x}
        /\ Close(q, "APPROVED")
        /\ Ends(t)

Reject(t) ==
    /\ tx[t].kind = "decide"
    /\ Free(asked[tx[t].request].user) /\ Free(tx[t].actor)
    /\ asked[tx[t].request].user # tx[t].actor
    /\ Close(tx[t].request, "REJECTED")
    /\ Ends(t)
    /\ UNCHANGED <<acct, online>>

\* Variant: as MayUpdate, without the protection of the canonical account.
MayUpdateAny(actor, self, row, role, disabled) ==
    LET changed == row.role # role \/ row.disabled # disabled
    IN  /\ changed => ~self
        /\ changed /\ row.role = "ADMINISTRATOR" => actor.canonical
        /\ role = "ADMINISTRATOR" /\ row.role # "ADMINISTRATOR" =>
              ThereIsCanonical /\ ~disabled /\ ~row.disabled
        /\ ~disabled /\ role \in Privileged => row.mfa

\* What update_user lets an actor make of an account.
MayUpdate(actor, self, row, role, disabled) ==
    LET changed == row.role # role \/ row.disabled # disabled
    IN  /\ changed => ~self /\ ~row.canonical
        /\ changed /\ row.role = "ADMINISTRATOR" => actor.canonical
        /\ role = "ADMINISTRATOR" /\ row.role # "ADMINISTRATOR" =>
              ThereIsCanonical /\ ~disabled /\ ~row.disabled
        /\ ~disabled /\ role \in Privileged => row.mfa

\* Variant: any pending request of the account counts as granted.
ApprovePending(x, role) ==
    IF PendingOf(x) = {} THEN UNCHANGED asked
    ELSE \E q \in PendingOf(x) : Close(q, "APPROVED")

\* approve_matching_pending: the request is read for the first time, locked.
ApproveMatching(x, role) ==
    LET matching == {q \in PendingOf(x) : asked[q].role = role}
    IN  IF matching = {} THEN UNCHANGED asked
        ELSE \E q \in matching : Close(q, "APPROVED")

\* Variant: the sessions stay as they are.
SessionsAfterUpdateKept(x, changed) == online

\* The sessions left when an administrator has updated x.
SessionsAfterUpdate(x, changed) == IF changed THEN online \ {x} ELSE online

\* update_user, with the account's row locked.
Update(t, x, role, disabled) ==
    LET row == Row(t, x)
    IN  /\ tx[t].kind = "update"
        /\ Free(x) /\ Free(tx[t].actor)
        /\ Exists(x)
        /\ MayUpdate(tx[t].read, x = tx[t].actor, row, role, disabled)
        /\ acct' = [acct EXCEPT ![x] =
                       AccountRow(Written(row.role, role, @.role), @.canonical,
                                  Written(row.disabled, disabled, @.disabled), @.mfa)]
        /\ online' = SessionsAfterUpdate(x, row.role # role \/ row.disabled # disabled)
        /\ ApproveMatching(x, role)
        /\ Ends(t)

\* revoke_user_sessions, with the account's row locked.
Revoke(t, x) ==
    /\ tx[t].kind = "revoke"
    /\ Free(x) /\ Free(tx[t].actor)
    /\ Exists(x)
    /\ ~Row(t, x).canonical
    /\ Row(t, x).role = "ADMINISTRATOR" => tx[t].read.canonical
    /\ online' = online \ {x}
    /\ Ends(t)
    /\ UNCHANGED <<acct, asked>>

----------------------------------------------------------------------------
(* The operator's commands, one at a time by an advisory lock.             *)

\* _require_canonical_candidate.
Candidate(x) == Exists(x) /\ ~acct[x].disabled /\ acct[x].mfa

BootstrapCanonical(x) ==
    /\ Free(x)
    /\ ~ThereIsCanonical
    /\ Candidate(x)
    /\ acct' = [acct EXCEPT ![x] = AccountRow("ADMINISTRATOR", TRUE, FALSE, @.mfa)]
    /\ online' = online \ {x}
    /\ UNCHANGED <<asked, tx>>

\* Variant: the successor is appointed but not made canonical.
SuccessorAdministrator(mfa) == AccountRow("ADMINISTRATOR", FALSE, FALSE, mfa)

Successor(mfa) == AccountRow("ADMINISTRATOR", TRUE, FALSE, mfa)

TransferCanonical(c, x) ==
    /\ c # x /\ Free(c) /\ Free(x)
    /\ acct[c].canonical
    /\ Candidate(x)
    /\ acct' = [acct EXCEPT
                   ![c] = AccountRow("REGISTERED_USER", FALSE, TRUE, @.mfa),
                   ![x] = Successor(@.mfa)]
    /\ online' = online \ {c, x}
    /\ UNCHANGED <<asked, tx>>

\* DELETE /session, the end of its eight hours or of 30 idle minutes.
SessionEnds(a) ==
    /\ a \in online
    /\ online' = online \ {a}
    /\ UNCHANGED <<acct, asked, tx>>

----------------------------------------------------------------------------

Begin(t) ==
    \E a \in Account :
        \/ SignInRead(t, a)
        \/ AskRead(t, a)
        \/ CancelRead(t, a)
        \/ \E kind \in {"update", "revoke"} : AdminRead(t, a, kind)
        \/ \E q \in RequestId : DecideRead(t, a, q)

Lock(t) == AskLock(t) \/ SignInLock(t)

Finish(t) ==
    \/ \E totp \in BOOLEAN : SignInCommit(t, totp)
    \/ AskCommit(t)
    \/ \E q \in RequestId : CancelCommit(t, q)
    \/ Approve(t)
    \/ Reject(t)
    \/ \E x \in Account, role \in Roles, disabled \in BOOLEAN : Update(t, x, role, disabled)
    \/ \E x \in Account : Revoke(t, x)

Operator ==
    \/ \E x \in Account : BootstrapCanonical(x)
    \/ \E c, x \in Account : TransferCanonical(c, x)

Next ==
    \/ \E t \in Tx : Begin(t) \/ Lock(t) \/ Finish(t) \/ Refuse(t)
    \/ Operator
    \/ \E a \in Account : SessionEnds(a)

Spec == Init /\ [][Next]_vars

----------------------------------------------------------------------------
(* Correctness.                                                            *)

\* Nothing the code writes would break the constraints of user_account, which
\* the model does not enforce: the canonical account is an active administrator
\* and there is one at most (models.py:43-51).
CanonicalIsActiveAdmin ==
    \A a \in Account : acct[a].canonical =>
        /\ acct[a].role = "ADMINISTRATOR" /\ ~acct[a].disabled
        /\ \A b \in Account : acct[b].canonical => b = a

\* Nor the partial unique index of role_request: of an account's requests one at
\* most is pending.
OnePending == \A a \in Account : \A p, q \in PendingOf(a) : p = q

\* What keeps it so: from the check for a pending request to the insert others
\* ask, sign in with a preference, cancel and decide, and none of them makes a
\* request of the same account pending ("Locking the account serializes the
\* pending-row check with creation", roles.py:78-104).
NonePendingWhileAsking ==
    \A t \in Tx : tx[t].kind \in Holding => PendingOf(tx[t].actor) = {}

\* Once an operator has appointed a canonical administrator there is always
\* one, whatever requests are under way (ADR-0007, "exactly one").
CanonicalPersists == [][ThereIsCanonical => ThereIsCanonical']_vars

\* No request of an administrator changes the administrator's own account, even
\* one that read it before another administrator changed it (governance.py:277).
NoSelfChange ==
    [][\A t \in Tx :
          tx[t].kind \in AdminKinds /\ tx'[t] # tx[t] =>
              acct'[tx[t].actor] = acct[tx[t].actor]]_vars

\* An account becomes an active one with a privileged role only while its last
\* sign-in was with TOTP: checks and sign-ins may overlap, but the flag is read
\* under the lock (governance.py:312-322, roles.py:149-158, cli.py:418-424).
ActivePrivileged(row) == row.role \in Privileged /\ ~row.disabled
AssuredWhenGranted ==
    [][\A a \in Account :
          ActivePrivileged(acct'[a]) /\ ~ActivePrivileged(acct[a]) => acct[a].mfa]_vars

\* A request that becomes APPROVED leaves its account with the role it asks
\* for, by whichever of the two ways it is approved (roles.py:159, 173-187).
ApprovalGrantsRole ==
    [][\A q \in RequestId :
          asked'[q].state = "APPROVED" /\ asked[q].state # "APPROVED" =>
              acct'[asked[q].user].role = asked[q].role]_vars

\* A change of role, a disabling or an enabling leaves no session of the
\* account alive (ADR-0007, "target-session revocation when authority changes").
AuthorityChangeEndsSessions ==
    [][\A a \in Account :
          Exists(a) /\ (\/ acct'[a].role # acct[a].role
                        \/ acct'[a].disabled # acct[a].disabled) =>
              a \notin online']_vars

(* Two sentences the code does not keep when requests overlap.             *)

\* "A request follows the closed states PENDING, APPROVED, REJECTED, and
\* CANCELLED": once closed a request stays as it is (ADR-0007; roles.py:134-136).
DecisionIsFinal ==
    [][\A q \in RequestId :
          asked[q].state \in ClosedStates => asked'[q] = asked[q]]_vars

\* "Only an active Registered User may submit a role request" (roles.py:88): the
\* check reads the object loaded before the lock.
RequesterIsRegistered ==
    [][\A q \in RequestId :
          asked[q] = NoRequest /\ asked'[q] # NoRequest =>
              LET row == acct'[asked'[q].user]
              IN  row.role = "REGISTERED_USER" /\ ~row.disabled]_vars
=============================================================================
