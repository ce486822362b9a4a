------------------------ MODULE OrganizationDeletion ------------------------
(***************************************************************************)
(* DELETE /organizations/:id (organization-deletion.service.ts) among the  *)
(* requests it has to exclude: uploads and deletions of attachments        *)
(* (Attachments), and the transactions that create a discussion, request a *)
(* security code or accept an invitation.                                  *)
(*                                                                         *)
(* Of those transactions only the locks matter here, statement by          *)
(* statement: the rows they write, and the key-share lock on the           *)
(* organization that every INSERT with a foreign key to it takes.          *)
(* PostgreSQL ends a wait cycle by rolling one of its members back; the    *)
(* deletion answers 409 to that.                                           *)
(***************************************************************************)
EXTENDS Attachments, Naturals

CONSTANTS
  Deletions,  \* the deletion requests that may be in flight
  Others      \* the other transactions that may be open

VARIABLES
  organization,  \* BOOLEAN: the organization's row exists
  authorized,    \* BOOLEAN: a usable VERIFIED security verification exists
  deletion,      \* deletion[x]: where deletion x is and what it has to clean up
  other          \* other[o]: where transaction o is

vars == <<messageVars, organization, authorized, deletion, other>>
deletionVars == <<organization, authorized, deletion, other>>

\* pc names the last statement that deletion is past; assets is the list of
\* external attachments.
DeletionRecords ==
  [pc : {"idle", "allowed", "organizationLocked", "consumed", "discussionsLocked",
         "assetsListed", "messagesDeleted", "discussionsDeleted",
         "invitationsDeleted", "membershipsDeleted", "committed"},
   assets : SUBSET Messages]

\* creating: the discussion is inserted.  closing: the request for a code has
\* closed the usable verification.  requested: its new row is inserted.
\* accepting: the acceptance has updated the invitation; joined: it has then
\* inserted a membership; rejoined: it has updated a membership that was LEFT.
\* None of this is committed.
OtherRecords ==
  [pc : {"idle", "creating", "closing", "requested", "accepting", "joined", "rejoined"},
   discussion : Discussions \cup {"none"}]

DeletionTypeOK ==
  /\ AttachmentTypeOK
  /\ organization \in BOOLEAN /\ authorized \in BOOLEAN
  /\ deletion \in [Deletions -> DeletionRecords]
  /\ other \in [Others -> OtherRecords]

NoDeletion == [pc |-> "idle", assets |-> {}]
NoOther == [pc |-> "idle", discussion |-> "none"]

DeletionInit ==
  /\ AttachmentInit
  /\ organization = TRUE
  /\ authorized \in BOOLEAN
  /\ deletion = [x \in Deletions |-> NoDeletion]
  /\ other = [o \in Others |-> NoOther]

-----------------------------------------------------------------------------
(* Locks.                                                                  *)

\* The statements of the transaction in their order; 0 outside of it.
Rank == [idle |-> 0, allowed |-> 0, organizationLocked |-> 1, consumed |-> 2,
         discussionsLocked |-> 3, assetsListed |-> 4, messagesDeleted |-> 5,
         discussionsDeleted |-> 6, invitationsDeleted |-> 7,
         membershipsDeleted |-> 8, committed |-> 0]

\* The deletions whose transaction is past the statement pc.
Past(pc) == {x \in Deletions : Rank[deletion[x].pc] >= Rank[pc]}

Open(pcs) == {o \in Others : other[o].pc \in pcs}

KeySharing == {"creating", "requested", "joined"}

KeyShared == Open(KeySharing) # {}

OrganizationLocked == Past("organizationLocked") # {}

-----------------------------------------------------------------------------
(* The deletion.                                                           *)

Move(x, pc) == deletion' = [deletion EXCEPT ![x].pc = pc]

End(x) == deletion' = [deletion EXCEPT ![x] = NoDeletion]

\* The requester is an ACTIVE OWNER, so the organization exists.
Allow(x) ==
  /\ deletion[x].pc = "idle"
  /\ organization
  /\ Move(x, "allowed")
  /\ UNCHANGED <<messageVars, organization, authorized, other>>

\* Bug model: the organization is read without FOR UPDATE.
MayLockOrganizationAlways == TRUE

MayLockOrganization == ~OrganizationLocked /\ ~KeyShared

\* SELECT ... FOR UPDATE; 403 when another deletion was faster.
LockOrganization(x) ==
  /\ deletion[x].pc = "allowed"
  /\ MayLockOrganization
  /\ IF organization THEN Move(x, "organizationLocked") ELSE End(x)
  /\ UNCHANGED <<messageVars, organization, authorized, other>>

VerificationFree == Open({"closing", "requested"}) = {}

\* Bug model: a refused deletion leaves its transaction open.
ConsumeWithoutRollback(x) ==
  /\ deletion[x].pc = "organizationLocked"
  /\ authorized
  /\ VerificationFree
  /\ Move(x, "consumed")
  /\ UNCHANGED <<messageVars, organization, authorized, other>>

\* Bug model: the refusal of consumeAuthorization is not awaited.
ConsumeUnchecked(x) ==
  /\ deletion[x].pc = "organizationLocked"
  /\ authorized => VerificationFree
  /\ Move(x, "consumed")
  /\ UNCHANGED <<messageVars, organization, authorized, other>>

\* consumeAuthorization waits for a request that is closing the usable row.
Consume(x) ==
  /\ deletion[x].pc = "organizationLocked"
  /\ authorized => VerificationFree
  /\ IF authorized THEN Move(x, "consumed") ELSE End(x)
  /\ UNCHANGED <<messageVars, organization, authorized, other>>

\* Bug model: the discussions are not locked.
FreezeNothing == UNCHANGED frozen

\* FOR UPDATE waits for the transactions that hold a key-share lock.
Freeze == InHand({"inserted"}) = {} /\ frozen' = frozen \cup discussions

LockDiscussions(x) ==
  /\ deletion[x].pc = "consumed"
  /\ Freeze
  /\ Move(x, "discussionsLocked")
  /\ UNCHANGED <<discussions, row, asset, unsettled, call, organization, authorized, other>>

\* findExternalAttachments, in a snapshot of its own.
ListAssets(x) ==
  /\ deletion[x].pc = "discussionsLocked"
  /\ deletion' = [deletion EXCEPT ![x] = [pc |-> "assetsListed", assets |-> Present]]
  /\ UNCHANGED <<messageVars, organization, authorized, other>>

DeleteMessages(x) ==
  /\ deletion[x].pc = "assetsListed"
  /\ frozen' = frozen \cup Present
  /\ Move(x, "messagesDeleted")
  /\ UNCHANGED <<discussions, row, asset, unsettled, call, organization, authorized, other>>

\* The discussions with what else hangs from them, and the catalog.
DeleteDiscussions(x) ==
  /\ deletion[x].pc = "messagesDeleted"
  /\ InHand({"inserted"}) = {}
  /\ frozen' = frozen \cup discussions
  /\ Move(x, "discussionsDeleted")
  /\ UNCHANGED <<discussions, row, asset, unsettled, call, organization, authorized, other>>

DeleteInvitations(x) ==
  /\ deletion[x].pc = "discussionsDeleted"
  /\ Open({"accepting"}) = {}
  /\ Move(x, "invitationsDeleted")
  /\ UNCHANGED <<messageVars, organization, authorized, other>>

DeleteMemberships(x) ==
  /\ deletion[x].pc = "invitationsDeleted"
  /\ Open({"rejoined"}) = {}
  /\ Move(x, "membershipsDeleted")
  /\ UNCHANGED <<messageVars, organization, authorized, other>>

\* The last two DELETEs and the commit.  Whatever still referred to the
\* organization would go with it (ON DELETE CASCADE).
CommitDeletion(x) ==
  /\ deletion[x].pc = "membershipsDeleted"
  /\ ~KeyShared
  /\ organization' = FALSE
  /\ authorized' = FALSE
  /\ discussions' = {}
  /\ row' = [m \in Messages |-> IF m \in Present THEN "removed" ELSE row[m]]
  /\ frozen' = {}
  /\ Move(x, "committed")
  /\ UNCHANGED <<asset, unsettled, call, other>>

\* Bug model: the attachments are deleted in a finally clause.
RollbackThenCleanUp(x) ==
  /\ deletion[x].pc \notin {"idle", "committed"}
  /\ frozen' = IF x \in Past("organizationLocked") THEN {} ELSE frozen
  /\ Move(x, "committed")
  /\ UNCHANGED <<discussions, row, asset, unsettled, call, organization, authorized, other>>

\* Any error before the commit; 40P01 becomes a 409.
Rollback(x) ==
  /\ deletion[x].pc \notin {"idle", "committed"}
  /\ frozen' = IF x \in Past("organizationLocked") THEN {} ELSE frozen
  /\ End(x)
  /\ UNCHANGED <<discussions, row, asset, unsettled, call, organization, authorized, other>>

-----------------------------------------------------------------------------
(* deleteExternalAttachments, after the answer.                            *)

\* A failure is logged, and there is no retry.
CleanUp(x, m) ==
  /\ deletion[x].pc = "committed"
  /\ m \in deletion[x].assets
  /\ MaybeDeleted(m)
  /\ deletion' = [deletion EXCEPT ![x].assets = @ \ {m}]
  /\ GiveUp({n \in {m} : asset'[n] = "stored"})
  /\ UNCHANGED <<discussions, frozen, row, call, organization, authorized, other>>

EndCleanUp(x) ==
  /\ deletion[x].pc = "committed"
  /\ deletion[x].assets = {}
  /\ End(x)
  /\ UNCHANGED <<messageVars, organization, authorized, other>>

-----------------------------------------------------------------------------
(* The other transactions.                                                 *)

Begin(o, pc) == other' = [other EXCEPT ![o].pc = pc]

EndOther(o) == other' = [other EXCEPT ![o] = NoOther]

\* An INSERT that refers to the organization: it waits for a deletion, and
\* fails (the transaction rolls back) when that one has committed.
InsertReferring(o, inserted) ==
  /\ ~OrganizationLocked
  /\ IF organization THEN other' = [other EXCEPT ![o] = inserted] ELSE EndOther(o)
  /\ UNCHANGED <<messageVars, organization, authorized, deletion>>

\* createDiscussion
InsertDiscussion(o, d) ==
  /\ other[o].pc = "idle"
  /\ d \notin discussions /\ \A p \in Others : other[p].discussion # d
  /\ InsertReferring(o, [pc |-> "creating", discussion |-> d])

CommitDiscussion(o) ==
  /\ other[o].pc = "creating"
  /\ discussions' = discussions \cup {other[o].discussion}
  /\ EndOther(o)
  /\ UNCHANGED <<frozen, row, asset, unsettled, call, organization, authorized, deletion>>

\* requestVerification: closeOpenVerifications locks the open row, if any.
CloseVerification(o) ==
  /\ other[o].pc = "idle"
  /\ organization
  /\ VerificationFree /\ Past("consumed") = {}
  /\ Begin(o, "closing")
  /\ UNCHANGED <<messageVars, organization, authorized, deletion>>

InsertVerification(o) ==
  /\ other[o].pc = "closing"
  /\ InsertReferring(o, [pc |-> "requested", discussion |-> "none"])

CommitVerification(o) ==
  /\ other[o].pc = "requested"
  /\ authorized' = FALSE
  /\ EndOther(o)
  /\ UNCHANGED <<messageVars, organization, deletion>>

\* verifyCode of the code that was requested.
VerifyCode ==
  /\ organization /\ ~authorized /\ VerificationFree
  /\ authorized' = TRUE
  /\ UNCHANGED <<messageVars, organization, deletion, other>>

\* acceptInvitation of somebody new saves the invitation and then inserts the
\* membership.
UpdateInvitation(o) ==
  /\ other[o].pc = "idle"
  /\ organization
  /\ Past("invitationsDeleted") = {}
  /\ Begin(o, "accepting")
  /\ UNCHANGED <<messageVars, organization, authorized, deletion>>

InsertMembership(o) ==
  /\ other[o].pc = "accepting"
  /\ InsertReferring(o, [pc |-> "joined", discussion |-> "none"])

CommitMembership(o) ==
  /\ other[o].pc = "joined"
  /\ EndOther(o)
  /\ UNCHANGED <<messageVars, organization, authorized, deletion>>

\* acceptInvitation of somebody who left updates the membership and then saves
\* the invitation.
UpdateMembership(o) ==
  /\ other[o].pc = "idle"
  /\ organization
  /\ Past("membershipsDeleted") = {}
  /\ Begin(o, "rejoined")
  /\ UNCHANGED <<messageVars, organization, authorized, deletion>>

SaveInvitation(o) ==
  /\ other[o].pc = "rejoined"
  /\ Past("invitationsDeleted") = {}
  /\ EndOther(o)
  /\ UNCHANGED <<messageVars, organization, authorized, deletion>>

RollbackOther(o) ==
  /\ other[o].pc # "idle"
  /\ EndOther(o)
  /\ UNCHANGED <<messageVars, organization, authorized, deletion>>

-----------------------------------------------------------------------------
\* The next statement of deletion x waits for a row of o.
DeletionAwaits(x, o) ==
  \/ deletion[x].pc \in {"allowed", "membershipsDeleted"} /\ o \in Open(KeySharing)
  \/ deletion[x].pc = "organizationLocked" /\ authorized /\ o \in Open({"closing", "requested"})
  \/ deletion[x].pc = "discussionsDeleted" /\ o \in Open({"accepting"})
  \/ deletion[x].pc = "invitationsDeleted" /\ o \in Open({"rejoined"})

\* The next statement of o waits for a row of x.
OtherAwaits(o, x) ==
  \/ o \in Open({"closing", "accepting"}) /\ x \in Past("organizationLocked")
  \/ o \in Open({"rejoined"}) /\ x \in Past("invitationsDeleted")

WaitCycle(x, o) == DeletionAwaits(x, o) /\ OtherAwaits(o, x)

\* PostgreSQL rolls back one member of a wait cycle.
BreakCycle ==
  \E x \in Deletions, o \in Others : WaitCycle(x, o) /\ (Rollback(x) \/ RollbackOther(o))

\* The uploads whose row may still fail, and what committed deletions have
\* still to delete.
Uploading == {"uploaded", "inserted", "undo"}

ToCleanUp == UNION {deletion[x].assets : x \in {y \in Deletions : deletion[y].pc = "committed"}}

\* The server process stops: requests and cleanups are gone, and PostgreSQL
\* rolls the open transactions back.
ServerStops ==
  /\ GiveUp((InHand(Uploading) \ Present) \cup (InHand({"assetGone"}) \cap Present) \cup ToCleanUp)
  /\ call' = [c \in Calls |-> NoCall]
  /\ deletion' = [x \in Deletions |-> NoDeletion]
  /\ other' = [o \in Others |-> NoOther]
  /\ frozen' = {}
  /\ UNCHANGED <<discussions, row, asset, organization, authorized>>

DeletionAdvances(x) ==
  \/ LockOrganization(x) \/ Consume(x) \/ LockDiscussions(x) \/ ListAssets(x)
  \/ DeleteMessages(x) \/ DeleteDiscussions(x) \/ DeleteInvitations(x)
  \/ DeleteMemberships(x) \/ CommitDeletion(x)
  \/ \E m \in Messages : CleanUp(x, m)
  \/ EndCleanUp(x)

OtherAdvances(o) ==
  \/ CommitDiscussion(o) \/ InsertVerification(o) \/ CommitVerification(o)
  \/ InsertMembership(o) \/ CommitMembership(o) \/ SaveInvitation(o)

OtherBegins(o) ==
  \/ \E d \in Discussions : InsertDiscussion(o, d)
  \/ CloseVerification(o) \/ UpdateInvitation(o) \/ UpdateMembership(o)

DeletionNext ==
  \/ \E c \in Calls : CallStep(c) /\ UNCHANGED deletionVars
  \/ \E x \in Deletions : Allow(x) \/ DeletionAdvances(x) \/ Rollback(x)
  \/ \E o \in Others : OtherBegins(o) \/ OtherAdvances(o) \/ RollbackOther(o)
  \/ VerifyCode
  \/ BreakCycle
  \/ ServerStops

DeletionSpec == DeletionInit /\ [][DeletionNext]_vars

\* PostgreSQL runs a statement whose locks are free, and lets nobody who wants
\* a row for himself pass a waiter (hence strong fairness: of two deletions each
\* has its turn); transactions that hold locks go on to their commit, and the
\* deadlock detector runs.  Nothing makes a request begin or fail, or the server
\* stop.  Nothing makes the INSERTs leave a gap either: a key share is compatible
\* with those that are held, so it passes a FOR UPDATE that waits for them, and
\* while MayLockOrganization stays FALSE strong fairness promises nothing.
FairDeletionSpec ==
  /\ DeletionSpec
  /\ \A x \in Deletions : SF_vars(DeletionAdvances(x))
  /\ \A o \in Others : SF_vars(OtherAdvances(o))
  /\ \A c \in Calls : WF_vars(CallAdvances(c) /\ UNCHANGED deletionVars)
  /\ WF_vars(BreakCycle)

-----------------------------------------------------------------------------
(* Properties.                                                             *)

\* No asset is forgotten: one that no message row names any more is being
\* dealt with by an upload, waits in the cleanup of a committed deletion, or
\* belongs to a request that failed half way.  No attachment uploaded in
\* parallel escapes the list of the deletion
\* (organization-deletion.service.ts:190-192, 137-139).
AssetsAccountedFor ==
  \A m \in Messages :
    asset[m] = "stored" => m \in Present \cup unsettled \cup InHand(Uploading) \cup ToCleanUp

\* The explicit DELETEs leave nothing to ON DELETE CASCADE: once they have
\* run, every message and discussion that exists is among the deleted ones, in
\* spite of the requests that create them
\* (organization-deletion.service.ts:39-47, 159-162).
NothingLeftForCascade ==
  /\ Past("messagesDeleted") # {} => Present \subseteq frozen
  /\ Past("discussionsDeleted") # {} => discussions \subseteq frozen

Atomic == INSTANCE AtomicDeletion

\* The deletion is atomic and authorized, although it is ten statements among
\* requests that create, authorize and accept: its commit takes everything away
\* at once, it still holds the authorization it consumed, and no request that
\* was under way leaves a discussion, a message or an authorization in an
\* organization that is gone (organization-deletion.service.ts:36-76, 83-140).
ImplementsAtomicDeletion == Atomic!AtomicSpec

\* At some time the requests for a discussion, a code or a membership pause.
\* Those that are open by then go on, wait and deadlock as before.  (Those for
\* messages, whose key shares LockDiscussions waits for, end with Messages.)
OthersPause == <>[][\A o \in Others : ~OtherBegins(o)]_vars

\* Every deletion ends, cleanup included, once no further transactions begin
\* beside it: neither those that are open, nor another deletion, nor deadlocks
\* with requests for a code and with acceptances, nor a failing Cloudinary keep
\* it open (organization-deletion.service.ts:130-135, 251-262).  Without the
\* pause this is not so: INSERTs that overlap keep the organization key-shared,
\* and neither a lock_timeout nor anything else in the code ends the wait at
\* :163-169.
DeletionEnds ==
  OthersPause => \A x \in Deletions : deletion[x].pc # "idle" ~> deletion[x].pc = "idle"

=============================================================================
