---------------------------- MODULE Invitations ----------------------------
(***************************************************************************)
(* The invitations of the organization (organization-invitations.service)  *)
(* running beside the membership requests of module Memberships, whose     *)
(* rows they read and, when an invitation is accepted, write.              *)
(*                                                                         *)
(* Creating, listing and cancelling are sequences of separate database     *)
(* calls, one action each.  Accepting is a READ COMMITTED transaction that *)
(* takes no lock before its first write: its two reads are actions of their *)
(* own, and its writes are one action, because the rows they lock stay     *)
(* locked, and the new values invisible, until the commit.                 *)
(***************************************************************************)
EXTENDS Memberships, Naturals, FiniteSets

CONSTANTS
  InvitationIds,  \* the invitation rows that may ever be created (a bound)
  Calls,          \* the invitation requests that may be in flight
  InvitedRoles    \* the roles the bodies of create requests ask for

ASSUME InvitedRolesAreRoles == InvitedRoles \subseteq Roles

VARIABLES
  inv,      \* inv[i]: the row of invitation i; status NoRow before it exists
  overdue,  \* the invitations whose expires_at has passed
  call      \* call[c]: where invitation request c is and what it holds

invitationVars == <<inv, overdue, call>>
allVars == <<role, status, req, inv, overdue, call>>

InvitationStatuses == {"PENDING", "ACCEPTED", "CANCELLED", "EXPIRED"}

\* invitedUserId, or the owner of the email in rows that only have an email.
InvitationRows ==
  [status : InvitationStatuses \cup {NoRow}, user : Users, role : Roles]

\* pc names the last await the request is past; user is the requester until a
\* create request has found its invitee.
CallState ==
  [pc : {"idle", "mayInvite", "inviteeChecked", "outdatedExpired", "insert",
         "mayCancel", "cancelExpired", "cancel",
         "invitationRead", "accept"},
   user : Users, role : Roles, inv : InvitationIds \cup {NoRow}, hasRow : BOOLEAN]

InvitationTypeOK ==
  /\ TypeOK
  /\ inv \in [InvitationIds -> InvitationRows]
  /\ overdue \subseteq InvitationIds
  /\ call \in [Calls -> CallState]

NoCall == [pc |-> "idle", user |-> Owner, role |-> "MEMBER",
           inv |-> NoRow, hasRow |-> FALSE]

InvitationInit ==
  /\ Init
  /\ inv = [i \in InvitationIds |-> [status |-> NoRow, user |-> Owner, role |-> "MEMBER"]]
  /\ overdue = {}
  /\ call = [c \in Calls |-> NoCall]

-----------------------------------------------------------------------------
Goto(c, state) == call' = [call EXCEPT ![c] = state]

Answer(c) == Goto(c, NoCall)

\* A PENDING row with expires_at > now.
Live(i) == inv[i].status = "PENDING" /\ i \notin overdue

\* buildExpireOutdatedInvitationsQuery over the rows in scope.
ExpireOutdated(scope) ==
  inv' = [i \in InvitationIds |->
            IF i \in scope /\ inv[i].status = "PENDING" /\ i \in overdue
            THEN [inv[i] EXCEPT !.status = "EXPIRED"]
            ELSE inv[i]]

InvitationsOf(u) == {i \in InvitationIds : inv[i].user = u}

\* Seven days go by for invitation i.  Only a PENDING row is ever compared
\* with the clock.
TimePasses(i) ==
  /\ Live(i)
  /\ overdue' = overdue \cup {i}
  /\ UNCHANGED <<vars, inv, call>>

-----------------------------------------------------------------------------
(* createInvitation                                                        *)

\* requireActiveMembership, assertCanInvite / assertCanManageInvitations.
AuthorizeInviter(c, u) ==
  /\ call[c].pc = "idle"
  /\ ActiveOwnerOrAdmin(role[u], status[u])
  /\ Goto(c, [NoCall EXCEPT !.pc = "mayInvite", !.user = u])
  /\ UNCHANGED <<vars, inv, overdue>>

\* Bug model: the OWNER role can be granted by an invitation.
InvitableAnyRole(requester, u, r) ==
  u # requester /\ status[u] \in {NoRow, "LEFT"}

\* The role, the invitee and its membership, if any, of a create request.
Invitable(requester, u, r) ==
  /\ r # "OWNER"
  /\ u # requester
  /\ status[u] \in {NoRow, "LEFT"}

CheckInvitee(c, u, r) ==
  /\ call[c].pc = "mayInvite"
  /\ IF Invitable(call[c].user, u, r)
     THEN Goto(c, [NoCall EXCEPT !.pc = "inviteeChecked", !.user = u, !.role = r])
     ELSE Answer(c)
  /\ UNCHANGED <<vars, inv, overdue>>

ExpireForInvitee(c) ==
  /\ call[c].pc = "inviteeChecked"
  /\ ExpireOutdated(InvitationsOf(call[c].user))
  /\ Goto(c, [call[c] EXCEPT !.pc = "outdatedExpired"])
  /\ UNCHANGED <<vars, overdue>>

LiveInvitations(u) == {i \in InvitationsOf(u) : Live(i)}

\* Bug model: a pending invitation does not stop another one.
NoLiveInvitationUnchecked(u) == TRUE

NoLiveInvitation(u) == LiveInvitations(u) = {}

CheckPending(c) ==
  /\ call[c].pc = "outdatedExpired"
  /\ IF NoLiveInvitation(call[c].user)
     THEN Goto(c, [call[c] EXCEPT !.pc = "insert"])
     ELSE Answer(c)
  /\ UNCHANGED <<vars, inv, overdue>>

\* INSERT: no constraint besides the random token.
InsertInvitation(c, i) ==
  /\ call[c].pc = "insert"
  /\ inv[i].status = NoRow
  /\ inv' = [inv EXCEPT ![i] = [status |-> "PENDING", user |-> call[c].user,
                                role |-> call[c].role]]
  /\ Answer(c)
  /\ UNCHANGED <<vars, overdue>>

-----------------------------------------------------------------------------
(* listInvitationsForOrganization, listPendingInvitationsForUser and       *)
(* cancelInvitation: each expires what is overdue before it reads.         *)

AuthorizeManager(c, u) ==
  /\ call[c].pc = "idle"
  /\ ActiveOwnerOrAdmin(role[u], status[u])
  /\ Goto(c, [NoCall EXCEPT !.pc = "mayCancel", !.user = u])
  /\ UNCHANGED <<vars, inv, overdue>>

\* A list request answers after this with what it reads; a cancel request
\* goes on with the invitation it is about.
ExpireForOrganization(c) ==
  /\ call[c].pc = "mayCancel"
  /\ ExpireOutdated(InvitationIds)
  /\ \/ Goto(c, [call[c] EXCEPT !.pc = "cancelExpired"])
     \/ Answer(c)
  /\ UNCHANGED <<vars, overdue>>

\* listPendingInvitationsForUser, open to any user.
ExpireForUser(c, u) ==
  /\ call[c].pc = "idle"
  /\ ExpireOutdated(InvitationsOf(u))
  /\ UNCHANGED <<vars, overdue, call>>

ReadForCancel(c, i) ==
  /\ call[c].pc = "cancelExpired"
  /\ IF inv[i].status = "PENDING"
     THEN Goto(c, [call[c] EXCEPT !.pc = "cancel", !.inv = i])
     ELSE Answer(c)
  /\ UNCHANGED <<vars, inv, overdue>>

\* Bug model: the UPDATE of a cancellation filters by id alone.
CancelWhereById(i) == TRUE

\* WHERE id, status = PENDING
CancelWhere(i) == inv[i].status = "PENDING"

UpdateCancelled(c) ==
  /\ call[c].pc = "cancel"
  /\ inv' = IF CancelWhere(call[c].inv)
            THEN [inv EXCEPT ![call[c].inv].status = "CANCELLED"]
            ELSE inv
  /\ Answer(c)
  /\ UNCHANGED <<vars, overdue>>

-----------------------------------------------------------------------------
(* acceptInvitation                                                        *)

Acceptable(i, u) == Live(i) /\ inv[i].user = u

\* First read of the transaction: the invitation.  The role it grants is
\* taken from this read.
ReadInvitation(c, u, i) ==
  /\ call[c].pc = "idle"
  /\ Acceptable(i, u)
  /\ Goto(c, [NoCall EXCEPT !.pc = "invitationRead", !.user = u, !.inv = i,
                            !.role = inv[i].role])
  /\ UNCHANGED <<vars, inv, overdue>>

\* Second read: the membership of the user, which must be absent or LEFT.
ReadMembership(c) ==
  /\ call[c].pc = "invitationRead"
  /\ IF status[call[c].user] \in {NoRow, "LEFT"}
     THEN Goto(c, [call[c] EXCEPT !.pc = "accept",
                                  !.hasRow = (status[call[c].user] = "LEFT")])
     ELSE Answer(c)
  /\ UNCHANGED <<vars, inv, overdue>>

\* Bug model: the rejoining UPDATE filters by id alone.
JoinWhereById(u, hasRow) == hasRow \/ status[u] = NoRow

\* UPDATE ... WHERE id, status = LEFT, or the INSERT, which the unique index
\* on (user, organization) makes conditional on the row's absence.
JoinWhere(u, hasRow) == status[u] = IF hasRow THEN "LEFT" ELSE NoRow

\* save(invitation) writes ACCEPTED whatever the row holds by now.
MarkAccepted(i) == inv' = [inv EXCEPT ![i].status = "ACCEPTED"]

\* Bug model: the invitation is saved outside the transaction, and stays
\* ACCEPTED when the membership could not be written.
AcceptWritesSeparately(c) ==
  /\ IF JoinWhere(call[c].user, call[c].hasRow)
     THEN /\ role' = [role EXCEPT ![call[c].user] = call[c].role]
          /\ status' = [status EXCEPT ![call[c].user] = "ACTIVE"]
     ELSE UNCHANGED memberVars
  /\ MarkAccepted(call[c].inv)

\* The writes of the transaction: both rows, or neither after the rollback.
AcceptWrites(c) ==
  IF JoinWhere(call[c].user, call[c].hasRow)
  THEN /\ role' = [role EXCEPT ![call[c].user] = call[c].role]
       /\ status' = [status EXCEPT ![call[c].user] = "ACTIVE"]
       /\ MarkAccepted(call[c].inv)
  ELSE UNCHANGED <<memberVars, inv>>

CommitAccept(c) ==
  /\ call[c].pc = "accept"
  /\ AcceptWrites(c)
  /\ Answer(c)
  /\ UNCHANGED <<req, overdue>>

-----------------------------------------------------------------------------
CallStep(c) ==
  \/ \E u \in Users : AuthorizeInviter(c, u)
  \/ \E u \in Users, r \in InvitedRoles : CheckInvitee(c, u, r)
  \/ ExpireForInvitee(c)
  \/ CheckPending(c)
  \/ \E i \in InvitationIds : InsertInvitation(c, i)
  \/ \E u \in Users : AuthorizeManager(c, u)
  \/ ExpireForOrganization(c)
  \/ \E u \in Users : ExpireForUser(c, u)
  \/ \E i \in InvitationIds : ReadForCancel(c, i)
  \/ UpdateCancelled(c)
  \/ \E u \in Users, i \in InvitationIds : ReadInvitation(c, u, i)
  \/ ReadMembership(c)
  \/ CommitAccept(c)

InvitationNext ==
  \/ Next /\ UNCHANGED invitationVars
  \/ \E c \in Calls : CallStep(c)
  \/ \E i \in InvitationIds : TimePasses(i)

InvitationSpec == InvitationInit /\ [][InvitationNext]_allVars

-----------------------------------------------------------------------------
(* Properties.                                                             *)

\* The membership of u starts or starts again in this step.
Joins(u) == status[u] \in {NoRow, "LEFT"} /\ status'[u] = "ACTIVE"

JoinsWithInvitation(u) ==
  Joins(u) => \E i \in InvitationsOf(u) : /\ inv'[i].status = "ACCEPTED"
                                          /\ role'[u] = inv[i].role

AcceptedWithJoin(i) ==
  (inv[i].status # "ACCEPTED" /\ inv'[i].status = "ACCEPTED") => Joins(inv[i].user)

\* A user joins only in a step that leaves one of their invitations ACCEPTED,
\* and with the role that invitation grants; and no invitation turns ACCEPTED
\* without its user joining in the same step: when the membership was changed
\* by a concurrent request, nothing is written
\* (organization-invitations.service.ts:373-391, 403-412).
JoinsAreAcceptances ==
  [][/\ \A u \in Users : JoinsWithInvitation(u)
     /\ \A i \in InvitationIds : AcceptedWithJoin(i)]_allVars

\* Request c accepts invitation i in this step.
Accepts(c, i) == call[c].pc = "accept" /\ call[c].inv = i /\ call'[c].pc = "idle"

StaysEnded(i) ==
  (inv[i].status \in {"ACCEPTED", "CANCELLED", "EXPIRED"} /\ inv'[i].status # inv[i].status) =>
    /\ inv[i].status # "ACCEPTED" /\ inv'[i].status = "ACCEPTED"
    /\ Joins(inv[i].user)
    /\ \E c \in Calls : Accepts(c, i)

\* A cancellation or an expiration racing an acceptance never takes an
\* ACCEPTED invitation back, and all that becomes of a CANCELLED or EXPIRED
\* one is that an acceptance that read it while it was PENDING still completes
\* (organization-invitations.service.ts:306-314, 391).
EndedInvitations == [][\A i \in InvitationIds : StaysEnded(i)]_allVars

EndsByReactivation(u) ==
  (status[u] = "SUSPENDED" /\ status'[u] # "SUSPENDED") =>
    /\ status'[u] = "ACTIVE" /\ role'[u] = role[u]
    /\ \E r \in Requests : /\ Commits(r) /\ req[r].op = "reactivate"
                           /\ req[r].target = u /\ req[r].actor # u

\* A suspended member never comes back through an invitation, not even one
\* whose acceptance began before the suspension: only the UPDATE of another
\* user's reactivation ends a suspension
\* (organization-invitations.service.ts:364-368).
SuspensionEndsByReactivation == [][\A u \in Users : EndsByReactivation(u)]_allVars

\* An invitation that was cancelled or expired stays so (the manager was told
\* it is CANCELLED; workspace-endpoints.md:1171, 1528).  Violated: the
\* acceptance saves ACCEPTED without looking at the row again.
ClosedIsFinal ==
  [][\A i \in InvitationIds :
       inv[i].status \in {"CANCELLED", "EXPIRED"} => inv'[i].status = inv[i].status]_allVars

\* There are never two live PENDING invitations for one user
\* (workspace-endpoints.md:1095).  Violated: the check and the INSERT are
\* separate calls and no unique index backs them.
OneLiveInvitation ==
  \A i, j \in InvitationIds :
    (Live(i) /\ Live(j) /\ inv[i].user = inv[j].user) => i = j

\* The create requests that have found no live invitation for u and are about
\* to insert one.
Inserting(u) == {c \in Calls : call[c].pc = "insert" /\ call[c].user = u}

\* What the check does guarantee: a user never has more live invitations than
\* there are requests in flight at the same time, those about to insert one
\* more included (organization-invitations.service.ts:190-227).
LiveInvitationsBounded ==
  \A u \in Users :
    Cardinality(LiveInvitations(u)) + Cardinality(Inserting(u)) <= Cardinality(Calls)

=============================================================================
