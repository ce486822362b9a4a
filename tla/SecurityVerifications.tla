----------------------- MODULE SecurityVerifications -----------------------
(***************************************************************************)
(* The emailed codes that authorize deleting an organization               *)
(* (security-verifications.service.ts): requesting a code, verifying it,   *)
(* and consuming the authorization inside the sensitive operation.         *)
(*                                                                         *)
(* One scope (user, organization, purpose) is modelled: the organization's *)
(* OWNER, the only user who passes assertCanUsePurpose.                    *)
(*                                                                         *)
(* Each of the three is a READ COMMITTED transaction of PostgreSQL.  ver   *)
(* holds the committed rows.  What a transaction has written and not       *)
(* committed stays in its own record, where it also acts as a row lock.    *)
(* An UPDATE is two actions: it picks the rows that match in the snapshot  *)
(* taken when the statement starts, and, once nobody else holds them,      *)
(* writes those that still match.                                          *)
(*                                                                         *)
(* The one sensitive operation there is, the deletion of the organization, *)
(* locks the organization's row before it consumes an authorization        *)
(* (organization-deletion.service.ts:163-182), and the INSERT of a request *)
(* needs a key share of that row for its foreign key.  What the deletion   *)
(* removes is module OrganizationDeletion; here a scope outlives it, so    *)
(* that an authorization that was usable twice would show.                 *)
(***************************************************************************)
EXTENDS Naturals

CONSTANTS
  Rows,         \* the verification rows that may ever be inserted (a bound)
  Txs,          \* the transactions that may be open at the same time
  MaxAttempts,  \* SECURITY_VERIFICATION_MAX_ATTEMPTS
  Cooldown,     \* SECURITY_VERIFICATION_RESEND_COOLDOWN_MS
  CodeTtl,      \* SECURITY_VERIFICATION_CODE_TTL_MS
  AuthTtl,      \* SECURITY_VERIFICATION_AUTHORIZATION_TTL_MS
  MaxClock      \* the bound of the clock

ASSUME VerificationConstants ==
  /\ {MaxAttempts, Cooldown, CodeTtl, AuthTtl, MaxClock} \subseteq Nat
  /\ MaxAttempts > 0

VARIABLES
  clock,     \* the time of the application server
  ver,       \* ver[v]: the committed row v; status NoRow before its INSERT
  tx,        \* tx[t]: where transaction t is, what it read and wrote
  sent,      \* the rows whose code the mail provider accepted
  wrong,     \* wrong[v]: the wrong codes compared with row v so far
  executed   \* executed[v]: the sensitive operations committed thanks to v

vars == <<clock, ver, tx, sent, wrong, executed>>
history == <<sent, wrong, executed>>

NoRow == "NONE"
Open == {"PENDING", "VERIFIED"}
Closed == {"CONSUMED", "SUPERSEDED", "EXPIRED", "LOCKED"}

Instants == 0 .. MaxClock

\* expires_at is createdAt + CodeTtl and authorization_expires_at is
\* verifiedAt + AuthTtl.
RowRecords ==
  [status : Open \cup Closed \cup {NoRow}, createdAt : Instants,
   verifiedAt : Instants, failed : 0 .. MaxAttempts]

\* pc names the statement the transaction is at; now is its new Date(); wait
\* the rows its running UPDATE picked; expire, supersede and consume the rows
\* it has written; row the one it inserted or locked, seen what it read of it.
TxRecords ==
  [pc : {"idle", "latestRead", "expiring", "expired", "superseding",
         "superseded", "inserted", "mailed",
         "locked", "organizationLocked", "consuming", "consumed"},
   now : Instants, wait : SUBSET Rows, expire : SUBSET Rows,
   supersede : SUBSET Rows, consume : SUBSET Rows,
   row : SUBSET Rows, seen : RowRecords]

VerificationTypeOK ==
  /\ clock \in Instants
  /\ ver \in [Rows -> RowRecords]
  /\ tx \in [Txs -> TxRecords]
  /\ sent \subseteq Rows
  /\ wrong \in [Rows -> 0 .. MaxAttempts]
  /\ executed \in [Rows -> 0 .. 1]

Blank == [status |-> NoRow, createdAt |-> 0, verifiedAt |-> 0, failed |-> 0]

NoTx == [pc |-> "idle", now |-> 0, wait |-> {}, expire |-> {}, supersede |-> {},
         consume |-> {}, row |-> {}, seen |-> Blank]

Init ==
  /\ clock = 0
  /\ ver = [v \in Rows |-> Blank]
  /\ tx = [t \in Txs |-> NoTx]
  /\ sent = {}
  /\ wrong = [v \in Rows |-> 0]
  /\ executed = [v \in Rows |-> 0]

-----------------------------------------------------------------------------
Tick == clock < MaxClock /\ clock' = clock + 1 /\ UNCHANGED <<ver, tx, history>>

Written(t) == tx[t].expire \cup tx[t].supersede \cup tx[t].consume

\* A row written or locked FOR UPDATE by an open transaction.
LockedBy(t) == Written(t) \cup IF tx[t].pc = "locked" THEN tx[t].row ELSE {}

Available(t, rows) == \A s \in Txs \ {t} : LockedBy(s) \cap rows = {}

\* The operation holds the organization FOR UPDATE, up to its end.
HoldsOrganization(t) == tx[t].pc \in {"organizationLocked", "consuming", "consumed"}

\* The INSERT is done: its row is in the unique index, and its foreign key holds
\* the key share of the organization.
Inserting(t) == tx[t].pc \in {"inserted", "mailed"}

Continue(t, state) == tx' = [tx EXCEPT ![t] = state]

\* The transaction is gone: rolled back, or its writes are in ver'.
End(t) == Continue(t, NoTx)

CodeExpired(v, now) == ver[v].createdAt + CodeTtl <= now
AuthorizationExpired(v, now) == ver[v].verifiedAt + AuthTtl <= now

-----------------------------------------------------------------------------
(* requestVerification                                                     *)

Requested == {v \in Rows : ver[v].status # NoRow}

\* The latest row, by createdAt, is older than the cooldown.
CooldownOver(now) == \A v \in Requested : ver[v].createdAt + Cooldown <= now

ReadLatest(t) ==
  /\ tx[t].pc = "idle"
  /\ CooldownOver(clock)
  /\ Continue(t, [NoTx EXCEPT !.pc = "latestRead", !.now = clock])
  /\ UNCHANGED <<clock, ver, history>>

\* closeOpenVerifications, first UPDATE: open rows past their expiry.
Outdated(t) ==
  {v \in Rows : \/ ver[v].status = "PENDING" /\ CodeExpired(v, tx[t].now)
                \/ ver[v].status = "VERIFIED" /\ AuthorizationExpired(v, tx[t].now)}

StartExpire(t) ==
  /\ tx[t].pc = "latestRead"
  /\ Continue(t, [tx[t] EXCEPT !.pc = "expiring", !.wait = Outdated(t)])
  /\ UNCHANGED <<clock, ver, history>>

FinishExpire(t) ==
  /\ tx[t].pc = "expiring"
  /\ Available(t, tx[t].wait)
  /\ Continue(t, [tx[t] EXCEPT !.pc = "expired", !.wait = {},
                               !.expire = tx[t].wait \cap Outdated(t)])
  /\ UNCHANGED <<clock, ver, history>>

\* Second UPDATE: the rows that are still open, in a snapshot of its own.
StillOpen(t) == {v \in Rows : ver[v].status \in Open} \ tx[t].expire

StartSupersede(t) ==
  /\ tx[t].pc = "expired"
  /\ Continue(t, [tx[t] EXCEPT !.pc = "superseding", !.wait = StillOpen(t)])
  /\ UNCHANGED <<clock, ver, history>>

FinishSupersede(t) ==
  /\ tx[t].pc = "superseding"
  /\ Available(t, tx[t].wait)
  /\ Continue(t, [tx[t] EXCEPT !.pc = "superseded", !.wait = {},
                               !.supersede = tx[t].wait \cap StillOpen(t)])
  /\ UNCHANGED <<clock, ver, history>>

\* Bug model: there is no partial unique index.
OpenScopeConflictIgnored(t) == FALSE

\* uq_security_verifications_open_scope refuses a second open row.
OpenScopeConflict(t) == StillOpen(t) \ tx[t].supersede # {}

\* The INSERT waits for a transaction that inserted, or is closing, the row it
\* would collide with, and fails with 23505 (429, rollback) if it collides.
Collides(t, s) == Inserting(s) \/ Written(s) \cap StillOpen(t) # {}

\* It also waits for an operation that holds the organization.  PostgreSQL looks
\* at the index first and at the foreign key afterwards; nobody who holds the
\* organization meets the entry in between.
InsertAwaits(t, s) == Collides(t, s) \/ HoldsOrganization(s)

InsertMustWait(t) == \E s \in Txs \ {t} : InsertAwaits(t, s)

\* Ids are random and never used twice.  When the bound Rows is exhausted the
\* request ends like one that failed.
FreshRows == Rows \ (Requested \cup sent)

Insert(t) ==
  /\ tx[t].pc = "superseded"
  /\ ~InsertMustWait(t)
  /\ IF OpenScopeConflict(t)
     THEN End(t)
     ELSE \/ FreshRows = {} /\ End(t)
          \/ \E v \in FreshRows :
               Continue(t, [tx[t] EXCEPT !.pc = "inserted", !.row = {v}])
  /\ UNCHANGED <<clock, ver, history>>

\* The mail provider accepts the message.
SendMail(t) ==
  /\ tx[t].pc = "inserted"
  /\ Continue(t, [tx[t] EXCEPT !.pc = "mailed"])
  /\ sent' = sent \cup tx[t].row
  /\ UNCHANGED <<clock, ver, wrong, executed>>

\* The committed rows once t's closings and its new row are among them.
AfterRequest(t) ==
  [v \in Rows |->
     CASE v \in tx[t].row -> [Blank EXCEPT !.status = "PENDING", !.createdAt = tx[t].now]
       [] v \in tx[t].expire -> [ver[v] EXCEPT !.status = "EXPIRED"]
       [] v \in tx[t].supersede -> [ver[v] EXCEPT !.status = "SUPERSEDED"]
       [] OTHER -> ver[v]]

CommitRequest(t) ==
  /\ tx[t].pc = "mailed"
  /\ ver' = AfterRequest(t)
  /\ End(t)
  /\ UNCHANGED <<clock, history>>

\* Bug model: a mail failure is only logged, and the transaction commits.
FailedMailCommits(t) == ver' = AfterRequest(t)

\* A failed mail rolls everything back: neither the new row nor the closings
\* of the earlier ones remain.
FailedMail(t) == UNCHANGED ver

\* The provider refuses the message, or cannot be reached: 503.
MailRejected(t) ==
  /\ tx[t].pc = "inserted"
  /\ FailedMail(t)
  /\ End(t)
  /\ UNCHANGED <<clock, history>>

\* Bug model: the call to the provider has no time limit.
NoMailTimeout(t) == FALSE

\* MAIL_REQUEST_TIMEOUT_MS bounds the call to the provider.
MailTimeout(t) == tx[t].pc = "inserted"

\* The provider does not answer in time, which is a failure for the service;
\* the message may have left all the same.
MailTimesOut(t) ==
  /\ MailTimeout(t)
  /\ FailedMail(t)
  /\ End(t)
  /\ sent' \in {sent, sent \cup tx[t].row}
  /\ UNCHANGED <<clock, wrong, executed>>

-----------------------------------------------------------------------------
(* verifyCode                                                              *)

\* Bug model: the row is read without FOR UPDATE.
MayLockAlways(t, v) == TRUE

\* SELECT ... FOR UPDATE waits for whoever holds the row.
MayLock(t, v) == Available(t, {v})

LockVerification(t, v) ==
  /\ tx[t].pc = "idle"
  /\ v \in Requested
  /\ MayLock(t, v)
  /\ Continue(t, [NoTx EXCEPT !.pc = "locked", !.row = {v}, !.seen = ver[v]])
  /\ UNCHANGED <<clock, ver, history>>

\* Bug model: the row is locked one attempt too late.
AfterWrongCodeLate(v, seen) ==
  [ver[v] EXCEPT !.failed = seen.failed + 1,
                 !.status = IF seen.failed >= MaxAttempts THEN "LOCKED" ELSE @]

\* The row after a wrong code: the count goes on from what was read, and the
\* status is written only to lock the row.
AfterWrongCode(v, seen) ==
  [ver[v] EXCEPT !.failed = seen.failed + 1,
                 !.status = IF seen.failed + 1 >= MaxAttempts THEN "LOCKED" ELSE @]

AfterRightCode(v) == [ver[v] EXCEPT !.status = "VERIFIED", !.verifiedAt = clock]

\* The rest of verifyCode: its one UPDATE filters by id and the commit follows.
DecideCode(t, v, right) ==
  /\ tx[t].pc = "locked" /\ tx[t].row = {v}
  /\ LET seen == tx[t].seen
         expired == seen.createdAt + CodeTtl <= clock
         compared == seen.status = "PENDING" /\ ~expired
     IN /\ ver' = [ver EXCEPT ![v] =
                     CASE seen.status # "PENDING" -> @
                       [] seen.status = "PENDING" /\ expired -> [@ EXCEPT !.status = "EXPIRED"]
                       [] compared /\ ~right -> AfterWrongCode(v, seen)
                       [] compared /\ right -> AfterRightCode(v)]
        /\ wrong' = IF compared /\ ~right THEN [wrong EXCEPT ![v] = @ + 1] ELSE wrong
  /\ End(t)
  /\ UNCHANGED <<clock, sent, executed>>

-----------------------------------------------------------------------------
(* The sensitive operation: it locks the organization, and then calls      *)
(* consumeAuthorization in its transaction.                                *)

\* FOR UPDATE of the organization waits for another operation and for the key
\* shares of the INSERTs.
OrganizationFree(t) == \A s \in Txs \ {t} : ~HoldsOrganization(s) /\ ~Inserting(s)

LockOrganization(t) ==
  /\ tx[t].pc = "idle"
  /\ OrganizationFree(t)
  /\ Continue(t, [NoTx EXCEPT !.pc = "organizationLocked"])
  /\ UNCHANGED <<clock, ver, history>>

\* Bug model: an already consumed authorization matches as well.
UsableAgain(v, now) ==
  ver[v].status \in {"VERIFIED", "CONSUMED"} /\ ~AuthorizationExpired(v, now)

\* WHERE status = VERIFIED AND authorization_expires_at > now
Usable(v, now) == ver[v].status = "VERIFIED" /\ ~AuthorizationExpired(v, now)

UsableRows(now) == {v \in Rows : Usable(v, now)}

\* Without a usable authorization the operation is refused: 403, rollback.
StartConsume(t) ==
  /\ tx[t].pc = "organizationLocked"
  /\ IF UsableRows(clock) = {} THEN End(t)
     ELSE Continue(t, [NoTx EXCEPT !.pc = "consuming", !.now = clock,
                                   !.wait = UsableRows(clock)])
  /\ UNCHANGED <<clock, ver, history>>

FinishConsume(t) ==
  /\ tx[t].pc = "consuming"
  /\ Available(t, tx[t].wait)
  /\ LET affected == tx[t].wait \cap UsableRows(tx[t].now)
     IN IF affected = {} THEN End(t)
        ELSE Continue(t, [tx[t] EXCEPT !.pc = "consumed", !.wait = {}, !.consume = affected])
  /\ UNCHANGED <<clock, ver, history>>

CommitOperation(t) ==
  /\ tx[t].pc = "consumed"
  /\ ver' = [v \in Rows |-> IF v \in tx[t].consume
                            THEN [ver[v] EXCEPT !.status = "CONSUMED"] ELSE ver[v]]
  /\ executed' = [v \in Rows |-> IF v \in tx[t].consume
                                 THEN executed[v] + 1 ELSE executed[v]]
  /\ End(t)
  /\ UNCHANGED <<clock, sent, wrong>>

-----------------------------------------------------------------------------
\* An error after BEGIN, a lost connection or the death of the server process:
\* PostgreSQL rolls the transaction back.
Abort(t) ==
  /\ tx[t].pc # "idle"
  /\ End(t)
  /\ UNCHANGED <<clock, ver, history>>

\* Operation t waits for the row that request s has closed, and the INSERT of s
\* for the organization that t holds.
Deadlock(t, s) ==
  /\ tx[t].pc = "consuming" /\ LockedBy(s) \cap tx[t].wait # {}
  /\ tx[s].pc = "superseded"

\* PostgreSQL rolls one of the two back with 40P01.  The deletion answers 409
\* (organization-deletion.service.ts:130-132); a request knows nothing of that
\* error and answers 500.
BreakDeadlock == \E t, s \in Txs : Deadlock(t, s) /\ (Abort(t) \/ Abort(s))

RequestStep(t) ==
  \/ StartExpire(t) \/ FinishExpire(t)
  \/ StartSupersede(t) \/ FinishSupersede(t)
  \/ Insert(t) \/ MailTimesOut(t) \/ CommitRequest(t)

VerifyStep(t) == \E v \in Rows, right \in BOOLEAN : DecideCode(t, v, right)

OperationStep(t) == StartConsume(t) \/ FinishConsume(t) \/ CommitOperation(t)

Advance(t) == RequestStep(t) \/ VerifyStep(t) \/ OperationStep(t)

Begin(t) == ReadLatest(t) \/ (\E v \in Rows : LockVerification(t, v)) \/ LockOrganization(t)

Next ==
  \/ Tick
  \/ \E t \in Txs : Begin(t) \/ Advance(t) \/ SendMail(t) \/ MailRejected(t) \/ Abort(t)
  \/ BreakDeadlock

Spec == Init /\ [][Next]_vars

\* A statement whose locks are free is executed, and an open transaction that
\* waits is not passed by others for ever (hence strong fairness).  The rows and
\* the organization it waits for are held in exclusive modes, and PostgreSQL lets
\* no exclusive locker of a row pass a waiter; that the INSERT is not always late
\* for the unique index, whose waiters are not ordered, is assumed.  The wait
\* that compatible lockers can pass, the FOR UPDATE of LockOrganization among key
\* shares, begins a transaction, and nothing here forces it.  The call to the
\* mail provider ends by its timeout at the latest, and the deadlock detector
\* runs.  Nothing forces a transaction to begin or to abort otherwise, the
\* provider to answer, or the clock to advance.
FairSpec ==
  /\ Spec
  /\ \A t \in Txs : SF_vars(Advance(t))
  /\ WF_vars(BreakDeadlock)

-----------------------------------------------------------------------------
(* Properties.                                                             *)

\* At most one code or authorization is usable at any time, however requests,
\* verifications and operations interleave
\* (security-verification.entity.ts:24-27, service lines 362-366).
OneOpenVerification ==
  \A v, w \in Rows : (ver[v].status \in Open /\ ver[w].status \in Open) => v = w

\* Parallel attempts are all counted: as many wrong codes were compared with a
\* row as its failed_attempts says, and a row that had MaxAttempts of them is
\* LOCKED (service lines 199-200, 231-249).
AttemptsAreCounted ==
  \A v \in Rows : /\ wrong[v] = ver[v].failed
                  /\ wrong[v] >= MaxAttempts => ver[v].status = "LOCKED"

\* One verified code authorizes at most one operation, and the rows that did
\* are exactly the CONSUMED ones, also when operations race or roll back
\* (service lines 317-323).
OneOperationPerCode ==
  \A v \in Rows : executed[v] = IF ver[v].status = "CONSUMED" THEN 1 ELSE 0

\* A closed verification stays closed and a VERIFIED one never asks for a code
\* again: no verification that was under way revives a code that a newer
\* request replaced (service lines 178-258, 362-366).
ClosedIsFinal ==
  [][\A v \in Rows :
       /\ ver[v].status \in Closed => ver'[v].status = ver[v].status
       /\ ver[v].status = "VERIFIED" => ver'[v].status # "PENDING"]_vars

\* No row is committed whose code was never handed to the mail provider
\* (service lines 155-158).
CodeWasSent == Requested \subseteq sent

\* Transaction t cannot go on before s ends: s holds a row that t's running
\* UPDATE picked, or something that t's INSERT needs.
Awaits(t, s) ==
  \/ LockedBy(s) \cap tx[t].wait # {}
  \/ tx[t].pc = "superseded" /\ InsertAwaits(t, s)

\* Transactions that wait for one another in a cycle are, whatever their number,
\* there because of one deletion of the organization: it waits for the row that
\* a request has closed, and that request for the organization.  No UPDATE waits
\* for two rows, so no two of them lock rows in opposite orders, and requests
\* and verifications alone never deadlock: the 40P01 that the deletion handles
\* has no other source among these three (service lines 130-170, 362-406;
\* organization-deletion.service.ts:130-132, 163-182;
\* docs/workspace-endpoints.md:1307).
OnlyTheDeletionDeadlocks ==
  /\ \A t \in Txs : \A v, w \in tx[t].wait : v = w
  /\ \A waiting \in SUBSET Txs :
       /\ waiting # {}
       /\ \A t \in waiting : \E s \in waiting \ {t} : Awaits(t, s)
       => \E t, s \in waiting : Deadlock(t, s)

\* The refinement mapping: a row before its INSERT commits is no code yet, and
\* a transaction changes codes only when it commits.
Phase(v) ==
  CASE ver[v].status = NoRow -> "none"
    [] ver[v].status = "PENDING" -> "pending"
    [] ver[v].status = "VERIFIED" -> "verified"
    [] ver[v].status \in Closed -> "closed"

Code == INSTANCE OneTimeCode WITH
  Codes <- Rows,
  MaxFailures <- MaxAttempts,
  phase <- [v \in Rows |-> Phase(v)],
  failures <- wrong,
  uses <- executed

\* Whatever the transactions in flight, each commit is one step of the life of
\* one code: the new code replaces the open one in the same step, and a use
\* consumes exactly one verified code (service lines 130-170, 199-258, 306-323,
\* 362-406).
ImplementsOneTimeCode == Code!CodeSpec

\* Every open transaction ends: nothing it waits for, row, unique index or
\* foreign key, stays taken, the cycle with a deletion is broken, and nobody
\* waits forever for a row that others keep taking (service lines 130-170,
\* 362-406; organization-deletion.service.ts:130-132).
TransactionsEnd == \A t \in Txs : tx[t].pc # "idle" ~> tx[t].pc = "idle"

\* Two codes of one scope are created at least the cooldown apart
\* (service lines 118-119; workspace-endpoints.md, "Concurrencia").  Violated:
\* a request that read the latest row before another one committed supersedes
\* the new row of that one instead of colliding with it.
CooldownRespected ==
  \A v, w \in Requested :
    v # w => \/ ver[v].createdAt + Cooldown <= ver[w].createdAt
             \/ ver[w].createdAt + Cooldown <= ver[v].createdAt

=============================================================================
