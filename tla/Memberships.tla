---------------------------- MODULE Memberships ----------------------------
(***************************************************************************)
(* The members of one organization and the requests that administer them:  *)
(* role change, suspension, reactivation and voluntary departure           *)
(* (memberships.service.ts, called by organizations.service.ts).           *)
(*                                                                         *)
(* The service keeps no state between requests.  A request is a sequence   *)
(* of database calls and every await between them lets other requests run, *)
(* so each database call, with the checks that follow it, is one action:   *)
(*                                                                         *)
(*   idle --Authorize--> authorized --ReadTarget...--> update --...--> idle *)
(*   idle --ReadOwnMembership--> update --UpdateLeft--> idle               *)
(*                                                                         *)
(* A check that fails answers an error: the request is idle again and no   *)
(* row has changed.  The final write is one conditional UPDATE, atomic in  *)
(* PostgreSQL; a request whose WHERE matches no row answers 409.           *)
(***************************************************************************)
EXTENDS OrganizationRoles

CONSTANTS
  Users,     \* the registered users
  Owner,     \* the user who created the organization
  Requests   \* the requests that may be in flight at the same time

ASSUME OwnerIsUser == Owner \in Users

VARIABLES
  role,      \* role[u]: role column of u's membership row, or NoRow
  status,    \* status[u]: status column of that row, or NoRow
  req        \* req[r]: where request r is and the values it read

memberVars == <<role, status>>
vars == <<role, status, req>>

Ops == {"changeRole", "suspend", "reactivate", "leave"}

\* No request: the fields besides pc carry no meaning.
Idle == [pc |-> "idle", op |-> "leave", actor |-> Owner, actorRole |-> "OWNER",
         target |-> Owner, seenRole |-> "OWNER", newRole |-> "OWNER"]

\* What a request holds in local variables: its requester with the role read
\* for it, and the membership it is about with the role read for that one.
RequestState ==
  [pc : {"idle", "authorized", "update"}, op : Ops,
   actor : Users, actorRole : Roles,
   target : Users, seenRole : Roles, newRole : Roles]

TypeOK ==
  /\ role \in [Users -> Roles \cup {NoRow}]
  /\ status \in [Users -> Statuses \cup {NoRow}]
  /\ \A u \in Users : role[u] = NoRow <=> status[u] = NoRow
  /\ req \in [Requests -> RequestState]

-----------------------------------------------------------------------------
(* The organization right after createOrganization has the creator's row   *)
(* alone (both rows are written in one transaction); the other users may   *)
(* have any history that never made them OWNER.                            *)
Init ==
  /\ role \in {f \in [Users -> Roles \cup {NoRow}] :
                 \A u \in Users : f[u] = "OWNER" <=> u = Owner}
  /\ status \in {f \in [Users -> Statuses \cup {NoRow}] :
                 /\ f[Owner] = "ACTIVE"
                 /\ \A u \in Users : f[u] = NoRow <=> role[u] = NoRow}
  /\ req = [r \in Requests |-> Idle]

Finish(r) == req' = [req EXCEPT ![r] = Idle]

-----------------------------------------------------------------------------
(* Administrative requests: requester, then target, then UPDATE.           *)

\* requireActiveMembership and assertCanManageMember{Roles,Status}.
Authorize(r, u, op) ==
  /\ req[r].pc = "idle"
  /\ ActiveOwnerOrAdmin(role[u], status[u])
  /\ req' = [req EXCEPT ![r] = [Idle EXCEPT !.pc = "authorized", !.op = op,
                                            !.actor = u, !.actorRole = role[u]]]
  /\ UNCHANGED memberVars

\* The checks of changeMembershipRole on the row it read for m; asking for
\* the role m already has answers 200 without writing.
MayChangeRole(q, m, newRole) ==
  /\ newRole # "OWNER"
  /\ status[m] = "ACTIVE"
  /\ role[m] # "OWNER"
  /\ {role[m], newRole} \subseteq RoleScope(q.actorRole)
  /\ role[m] # newRole

\* MEMBERSHIP_STATUS_TRANSITIONS: the status each operation starts from.
ExpectedStatus(op) == IF op = "suspend" THEN "ACTIVE" ELSE "SUSPENDED"
NewStatus(op) == IF op = "suspend" THEN "SUSPENDED" ELSE "ACTIVE"

\* Bug model: assertNotOwnMembership is missing.
MayChangeStatusOfOwn(q, m) ==
  /\ role[m] # "OWNER"
  /\ role[m] \in RoleScope(q.actorRole)
  /\ status[m] = ExpectedStatus(q.op)

\* The checks of changeMembershipStatus on the row it read for m.
MayChangeStatus(q, m) ==
  /\ m # q.actor
  /\ role[m] # "OWNER"
  /\ role[m] \in RoleScope(q.actorRole)
  /\ status[m] = ExpectedStatus(q.op)

ReadTargetForRole(r, m, newRole) ==
  /\ req[r].pc = "authorized" /\ req[r].op = "changeRole"
  /\ MayChangeRole(req[r], m, newRole)
  /\ req' = [req EXCEPT ![r] = [@ EXCEPT !.pc = "update", !.target = m,
                                         !.seenRole = role[m], !.newRole = newRole]]
  /\ UNCHANGED memberVars

ReadTargetForStatus(r, m) ==
  /\ req[r].pc = "authorized" /\ req[r].op \in {"suspend", "reactivate"}
  /\ MayChangeStatus(req[r], m)
  /\ req' = [req EXCEPT ![r] = [@ EXCEPT !.pc = "update", !.target = m,
                                         !.seenRole = role[m]]]
  /\ UNCHANGED memberVars

\* The target does not exist or does not pass the checks: 4xx, or the 200
\* without a write.
RefuseTarget(r) ==
  /\ req[r].pc = "authorized"
  /\ \E m \in Users, newRole \in Roles :
       IF req[r].op = "changeRole" THEN ~MayChangeRole(req[r], m, newRole)
                                   ELSE ~MayChangeStatus(req[r], m)
  /\ Finish(r)
  /\ UNCHANGED memberVars

\* Bug models: a WHERE clause that forgets one of its columns.
RoleWhereWithoutRole(m, seenRole) == status[m] = "ACTIVE"
RoleWhereWithoutStatus(m, seenRole) == role[m] = seenRole

\* WHERE id, role = <role read>, status = ACTIVE
RoleWhere(m, seenRole) == role[m] = seenRole /\ status[m] = "ACTIVE"

UpdateRole(r) ==
  /\ req[r].pc = "update" /\ req[r].op = "changeRole"
  /\ role' = IF RoleWhere(req[r].target, req[r].seenRole)
             THEN [role EXCEPT ![req[r].target] = req[r].newRole]
             ELSE role
  /\ Finish(r)
  /\ UNCHANGED status

\* WHERE id, status = <expected status>: the role is not part of it.
StatusWhere(m, op) == status[m] = ExpectedStatus(op)

UpdateStatus(r) ==
  /\ req[r].pc = "update" /\ req[r].op \in {"suspend", "reactivate"}
  /\ status' = IF StatusWhere(req[r].target, req[r].op)
               THEN [status EXCEPT ![req[r].target] = NewStatus(req[r].op)]
               ELSE status
  /\ Finish(r)
  /\ UNCHANGED role

-----------------------------------------------------------------------------
(* leaveOrganization: the requester's own row, then UPDATE.                *)

MayLeave(u) == status[u] = "ACTIVE" /\ role[u] # "OWNER"

ReadOwnMembership(r, u) ==
  /\ req[r].pc = "idle"
  /\ MayLeave(u)
  /\ req' = [req EXCEPT ![r] = [Idle EXCEPT !.pc = "update", !.op = "leave",
                                            !.actor = u, !.actorRole = role[u],
                                            !.target = u, !.seenRole = role[u]]]
  /\ UNCHANGED memberVars

\* WHERE id, role = <role read>, status = ACTIVE
LeaveWhere(m, seenRole) == role[m] = seenRole /\ status[m] = "ACTIVE"

\* Bug model: leaving clears the status column.
StatusAfterLeaveCleared == NoRow

\* Leaving keeps the row and its role; only the status changes.
StatusAfterLeave == "LEFT"

UpdateLeft(r) ==
  /\ req[r].pc = "update" /\ req[r].op = "leave"
  /\ status' = IF LeaveWhere(req[r].target, req[r].seenRole)
               THEN [status EXCEPT ![req[r].target] = StatusAfterLeave]
               ELSE status
  /\ Finish(r)
  /\ UNCHANGED role

-----------------------------------------------------------------------------
RequestStep(r) ==
  \/ \E u \in Users, op \in {"changeRole", "suspend", "reactivate"} : Authorize(r, u, op)
  \/ \E m \in Users, newRole \in Roles : ReadTargetForRole(r, m, newRole)
  \/ \E m \in Users : ReadTargetForStatus(r, m)
  \/ RefuseTarget(r)
  \/ UpdateRole(r)
  \/ UpdateStatus(r)
  \/ \E u \in Users : ReadOwnMembership(r, u)
  \/ UpdateLeft(r)

Next == \E r \in Requests : RequestStep(r)

Spec == Init /\ [][Next]_vars

-----------------------------------------------------------------------------
(* Properties.                                                             *)

\* The organization always has exactly one OWNER, its creator, and that row
\* is ACTIVE: no interleaving of the requests demotes, suspends or removes it
\* (memberships.service.ts:371-375, 422-427, 481-487).
OneActiveOwner ==
  /\ \A u \in Users : role[u] = "OWNER" <=> u = Owner
  /\ status[Owner] = "ACTIVE"

\* The request whose UPDATE this step is.
Commits(r) == req[r].pc = "update" /\ req'[r].pc = "idle"

RoleChangedInScope(m) ==
  role'[m] # role[m] =>
    \E r \in Requests : /\ Commits(r) /\ req[r].target = m
                        /\ role[m] \in RoleScope(req[r].actorRole)
                        /\ role'[m] \in RoleScope(req[r].actorRole)

\* When a role is overwritten, the role being overwritten and the new one are
\* both in the scope of the requester that overwrites it, also when the target
\* was promoted after the request checked it (memberships.service.ts:384-391).
RoleChangeWithinScope == [][\A m \in Users : RoleChangedInScope(m)]_vars

AdminChangedByOwner(m) ==
  (role'[m] # role[m] /\ "ADMIN" \in {role[m], role'[m]}) =>
    \E r \in Requests : Commits(r) /\ req[r].target = m /\ req[r].actor = Owner

\* Whoever interleaves with whom, only a request of the owner ever makes a
\* member ADMIN or takes that role away (memberships.service.ts:16-29).
AdminOnlyByOwner == [][\A m \in Users : AdminChangedByOwner(m)]_vars

StatusManagedFromAbove(m) ==
  (status'[m] # status[m] /\ status'[m] # "LEFT") =>
    \E r \in Requests :
      /\ Commits(r) /\ req[r].target = m /\ req[r].actor # m
      /\ req[r].seenRole \in RoleScope(req[r].actorRole)
      /\ role[m] \in RoleScope(req[r].actorRole) \cup {"ADMIN"}

\* Nobody lifts or imposes their own suspension, and whoever changes a status
\* had read a role in their scope for that member, whatever happened to either
\* role between the reads and the write: what StatusChangeWithinScope misses
\* are members promoted to ADMIN meanwhile, and nobody else
\* (memberships.service.ts:284-300).
StatusManagement == [][\A m \in Users : StatusManagedFromAbove(m)]_vars

\* A suspension or reactivation only hits a row whose role, at the moment of
\* the write, is in the requester's scope, as memberships.service.ts:267-269
\* states.  The UPDATE does not look at the role, so this one is violated.
StatusChangeWithinScope ==
  [][\A m \in Users :
       (status'[m] # status[m] /\ status'[m] # "LEFT") =>
         \E r \in Requests : /\ Commits(r) /\ req[r].target = m
                             /\ role[m] \in RoleScope(req[r].actorRole)]_vars

\* The rows go through the life MembershipLifecycle describes: a suspended row
\* keeps its role and is never left, a row that was left is not touched by any
\* administrative request.
Lifecycle == INSTANCE MembershipLifecycle WITH
  Users <- Users, Owner <- Owner, role <- role, status <- status
ImplementsLifecycle == Lifecycle!Spec

=============================================================================
