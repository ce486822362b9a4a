------------------------- MODULE MembershipsProofs -------------------------
(***************************************************************************)
(* Theorems of module Memberships for any set of users and of requests.    *)
(*                                                                         *)
(* The safety properties talk about rows; why they hold is in what the     *)
(* requests in flight remember.  A request that is about to write can no   *)
(* longer look at the rows, so the invariant says what its checks left     *)
(* behind: its target is not the owner, and the role it will overwrite and *)
(* the one it will write were in its requester's scope.  Together with the *)
(* WHERE clause of its UPDATE this survives every other request's step.    *)
(***************************************************************************)
EXTENDS Memberships, TLAPS

\* What the checks of a request guarantee about its local variables.
Checked(q) ==
  /\ q.actorRole = "OWNER" => q.actor = Owner
  /\ q.pc = "authorized" => q.op # "leave"
  /\ q.pc = "update" =>
       /\ q.target # Owner
       /\ q.op = "changeRole" => /\ q.seenRole \in RoleScope(q.actorRole)
                                 /\ q.newRole \in RoleScope(q.actorRole)
       /\ q.op \in {"suspend", "reactivate"} => /\ q.target # q.actor
                                                /\ q.seenRole \in RoleScope(q.actorRole)

RequestsChecked == \A r \in Requests : Checked(req[r])

MembershipInv == TypeOK /\ OneActiveOwner /\ RequestsChecked

-----------------------------------------------------------------------------
\* A scope never contains OWNER, and only the OWNER's scope contains ADMIN.
LEMMA ScopeFacts ==
  ASSUME NEW r \in Roles
  PROVE  /\ RoleScope(r) \subseteq GrantableRoles
         /\ "ADMIN" \in RoleScope(r) => r = "OWNER"
  BY DEF RoleScope, GrantableRoles, Roles

LEMMA IdleTyped == Idle \in RequestState /\ Checked(Idle) /\ Idle.pc = "idle"
  BY OwnerIsUser DEF Idle, RequestState, Checked, Ops, Roles

\* The initial rows and requests satisfy the invariant.
LEMMA InitInv == Init => MembershipInv
<1> SUFFICES ASSUME Init PROVE MembershipInv
  OBVIOUS
<1>1. /\ role \in [Users -> Roles \cup {NoRow}]
      /\ \A u \in Users : role[u] = "OWNER" <=> u = Owner
      /\ status \in [Users -> Statuses \cup {NoRow}]
      /\ status[Owner] = "ACTIVE"
      /\ \A u \in Users : status[u] = NoRow <=> role[u] = NoRow
  BY Zenon DEF Init
<1>2. req = [r \in Requests |-> Idle]
  BY DEF Init
<1>3. TypeOK
  BY <1>1, <1>2, IdleTyped DEF TypeOK
<1>4. OneActiveOwner
  BY <1>1 DEF OneActiveOwner
<1>5. RequestsChecked
  BY <1>2, IdleTyped DEF RequestsChecked
<1>6. QED
  BY <1>3, <1>4, <1>5 DEF MembershipInv

\* A step that moves one request to a checked state and leaves the rows alone.
LEMMA RequestMoves ==
  ASSUME MembershipInv, NEW r \in Requests, NEW q \in RequestState, Checked(q),
         req' = [req EXCEPT ![r] = q], UNCHANGED memberVars
  PROVE  MembershipInv'
<1>1. TypeOK'
  BY DEF MembershipInv, TypeOK, memberVars
<1>2. OneActiveOwner'
  BY DEF MembershipInv, OneActiveOwner, memberVars
<1>3. RequestsChecked'
  BY DEF MembershipInv, RequestsChecked, TypeOK, Checked
<1>4. QED
  BY <1>1, <1>2, <1>3 DEF MembershipInv

\* A request whose write leaves the rows as the invariant wants them is done.
LEMMA RequestWrites ==
  ASSUME MembershipInv, NEW r \in Requests, Finish(r),
         role' \in [Users -> Roles \cup {NoRow}],
         status' \in [Users -> Statuses \cup {NoRow}],
         \A u \in Users : role'[u] = NoRow <=> status'[u] = NoRow,
         OneActiveOwner'
  PROVE  MembershipInv'
<1>1. TypeOK'
  BY IdleTyped DEF MembershipInv, TypeOK, Finish
<1>2. RequestsChecked'
  BY IdleTyped DEF MembershipInv, RequestsChecked, TypeOK, Checked, Finish
<1>3. QED
  BY <1>1, <1>2 DEF MembershipInv

\* What each UPDATE of a request leaves behind, as facts about the rows.
LEMMA RoleUpdateInv ==
  ASSUME MembershipInv, NEW r \in Requests, UpdateRole(r)
  PROVE  MembershipInv'
<1> DEFINE q == req[r]
<1>1. q \in RequestState /\ Checked(q) /\ q.pc = "update" /\ q.op = "changeRole"
  BY DEF MembershipInv, TypeOK, RequestsChecked, UpdateRole
<1>2. /\ q.target \in Users \ {Owner}
      /\ q.newRole \in GrantableRoles
  BY <1>1, ScopeFacts DEF Checked, RequestState
<1>3. CASE RoleWhere(q.target, q.seenRole)
  <2>1. /\ role' = [role EXCEPT ![q.target] = q.newRole]
        /\ UNCHANGED status
        /\ Finish(r)
    BY <1>3 DEF UpdateRole
  <2>2. role[q.target] \in Roles
    BY <1>1, <1>3 DEF RoleWhere, RequestState
  <2>3. role' \in [Users -> Roles \cup {NoRow}]
    BY <1>2, <2>1 DEF MembershipInv, TypeOK, GrantableRoles
  <2>4. \A u \in Users : role'[u] = NoRow <=> status'[u] = NoRow
    BY <1>2, <2>1, <2>2 DEF MembershipInv, TypeOK, GrantableRoles, Roles, NoRow
  <2>5. OneActiveOwner'
    BY <1>2, <2>1, OwnerIsUser DEF MembershipInv, TypeOK, OneActiveOwner, GrantableRoles
  <2>6. QED
    BY <2>1, <2>3, <2>4, <2>5, RequestWrites DEF MembershipInv, TypeOK
<1>4. CASE ~RoleWhere(q.target, q.seenRole)
  <2>1. UNCHANGED memberVars /\ Finish(r)
    BY <1>4 DEF UpdateRole, memberVars
  <2>2. QED
    BY <2>1, IdleTyped, RequestMoves DEF Finish
<1>5. QED
  BY <1>3, <1>4

LEMMA StatusWriteInv ==
  ASSUME MembershipInv, NEW r \in Requests, Finish(r), UNCHANGED role,
         NEW m \in Users \ {Owner}, NEW s \in Statuses, status[m] \in Statuses,
         status' = [status EXCEPT ![m] = s]
  PROVE  MembershipInv'
<1>1. status' \in [Users -> Statuses \cup {NoRow}]
  BY DEF MembershipInv, TypeOK
<1>2. \A u \in Users : role'[u] = NoRow <=> status'[u] = NoRow
  BY DEF MembershipInv, TypeOK, Statuses, NoRow
<1>3. OneActiveOwner'
  BY OwnerIsUser DEF MembershipInv, TypeOK, OneActiveOwner
<1>4. QED
  BY <1>1, <1>2, <1>3, RequestWrites DEF MembershipInv, TypeOK

LEMMA StatusUpdateInv ==
  ASSUME MembershipInv, NEW r \in Requests, UpdateStatus(r)
  PROVE  MembershipInv'
<1> DEFINE q == req[r]
<1>1. q \in RequestState /\ q.target \in Users \ {Owner}
  BY DEF MembershipInv, TypeOK, RequestsChecked, Checked, UpdateStatus, RequestState
<1>2. CASE StatusWhere(q.target, q.op)
  <2>1. /\ status[q.target] \in Statuses
        /\ NewStatus(q.op) \in Statuses
    BY <1>2 DEF StatusWhere, ExpectedStatus, NewStatus, Statuses
  <2>2. /\ status' = [status EXCEPT ![q.target] = NewStatus(q.op)]
        /\ UNCHANGED role
        /\ Finish(r)
    BY <1>2 DEF UpdateStatus
  <2>3. QED
    BY <1>1, <2>1, <2>2, StatusWriteInv
<1>3. CASE ~StatusWhere(q.target, q.op)
  <2>1. UNCHANGED memberVars /\ Finish(r)
    BY <1>3 DEF UpdateStatus, memberVars
  <2>2. QED
    BY <2>1, IdleTyped, RequestMoves DEF Finish
<1>4. QED
  BY <1>2, <1>3

LEMMA LeaveUpdateInv ==
  ASSUME MembershipInv, NEW r \in Requests, UpdateLeft(r)
  PROVE  MembershipInv'
<1> DEFINE q == req[r]
<1>1. q \in RequestState /\ q.target \in Users \ {Owner}
  BY DEF MembershipInv, TypeOK, RequestsChecked, Checked, UpdateLeft, RequestState
<1>2. CASE LeaveWhere(q.target, q.seenRole)
  <2>1. /\ status[q.target] \in Statuses
        /\ StatusAfterLeave \in Statuses
    BY <1>2 DEF LeaveWhere, StatusAfterLeave, Statuses
  <2>2. /\ status' = [status EXCEPT ![q.target] = StatusAfterLeave]
        /\ UNCHANGED role
        /\ Finish(r)
    BY <1>2 DEF UpdateLeft
  <2>3. QED
    BY <1>1, <2>1, <2>2, StatusWriteInv
<1>3. CASE ~LeaveWhere(q.target, q.seenRole)
  <2>1. UNCHANGED memberVars /\ Finish(r)
    BY <1>3 DEF UpdateLeft, memberVars
  <2>2. QED
    BY <2>1, IdleTyped, RequestMoves DEF Finish
<1>4. QED
  BY <1>2, <1>3

-----------------------------------------------------------------------------
\* Every step of a request preserves the invariant.
LEMMA RequestStepInv ==
  ASSUME MembershipInv, NEW r \in Requests, RequestStep(r)
  PROVE  MembershipInv'
<1> DEFINE q == req[r]
<1>q. q \in RequestState /\ Checked(q)
  BY DEF MembershipInv, TypeOK, RequestsChecked
<1>1. ASSUME NEW u \in Users, NEW op \in {"changeRole", "suspend", "reactivate"},
             Authorize(r, u, op)
      PROVE  MembershipInv'
  <2> DEFINE next == [Idle EXCEPT !.pc = "authorized", !.op = op,
                                  !.actor = u, !.actorRole = role[u]]
  <2>1. role[u] \in Roles /\ (role[u] = "OWNER" => u = Owner)
    BY <1>1 DEF Authorize, ActiveOwnerOrAdmin, Roles, MembershipInv, OneActiveOwner
  <2>2. next \in RequestState /\ Checked(next)
    BY <2>1, IdleTyped DEF RequestState, Checked, Idle, Ops, Roles
  <2>3. QED
    BY <1>1, <2>2, RequestMoves DEF Authorize
<1>2. ASSUME NEW m \in Users, NEW newRole \in Roles, ReadTargetForRole(r, m, newRole)
      PROVE  MembershipInv'
  <2> DEFINE next == [q EXCEPT !.pc = "update", !.target = m,
                               !.seenRole = role[m], !.newRole = newRole]
  <2>1. /\ q.op = "changeRole"
        /\ role[m] \in RoleScope(q.actorRole)
        /\ newRole \in RoleScope(q.actorRole)
        /\ role[m] # "OWNER"
    BY <1>2 DEF ReadTargetForRole, MayChangeRole
  <2>2. role[m] \in Roles /\ m # Owner
    BY <1>q, <2>1, ScopeFacts DEF MembershipInv, OneActiveOwner, GrantableRoles, RequestState
  <2>3. next \in RequestState /\ Checked(next)
    BY <1>q, <2>1, <2>2 DEF RequestState, Checked
  <2>4. QED
    BY <1>2, <2>3, RequestMoves DEF ReadTargetForRole
<1>3. ASSUME NEW m \in Users, ReadTargetForStatus(r, m)
      PROVE  MembershipInv'
  <2> DEFINE next == [q EXCEPT !.pc = "update", !.target = m, !.seenRole = role[m]]
  <2>1. /\ q.op \in {"suspend", "reactivate"}
        /\ role[m] \in RoleScope(q.actorRole)
        /\ role[m] # "OWNER"
        /\ m # q.actor
    BY <1>3 DEF ReadTargetForStatus, MayChangeStatus
  <2>2. role[m] \in Roles /\ m # Owner
    BY <1>q, <2>1, ScopeFacts DEF MembershipInv, OneActiveOwner, GrantableRoles, RequestState
  <2>3. next \in RequestState /\ Checked(next)
    BY <1>q, <2>1, <2>2 DEF RequestState, Checked
  <2>4. QED
    BY <1>3, <2>3, RequestMoves DEF ReadTargetForStatus
<1>4. CASE RefuseTarget(r)
  BY <1>4, IdleTyped, RequestMoves DEF RefuseTarget, Finish
<1>5. CASE UpdateRole(r)
  BY <1>5, RoleUpdateInv
<1>6. CASE UpdateStatus(r)
  BY <1>6, StatusUpdateInv
<1>7. ASSUME NEW u \in Users, ReadOwnMembership(r, u)
      PROVE  MembershipInv'
  <2> DEFINE next == [Idle EXCEPT !.pc = "update", !.op = "leave",
                                  !.actor = u, !.actorRole = role[u],
                                  !.target = u, !.seenRole = role[u]]
  <2>1. status[u] = "ACTIVE" /\ role[u] # "OWNER"
    BY <1>7 DEF ReadOwnMembership, MayLeave
  <2>2. role[u] \in Roles /\ u # Owner
    BY <2>1 DEF MembershipInv, TypeOK, OneActiveOwner, NoRow
  <2>3. next \in RequestState /\ Checked(next)
    BY <2>1, <2>2, IdleTyped DEF RequestState, Checked, Idle, Ops, Roles
  <2>4. QED
    BY <1>7, <2>3, RequestMoves DEF ReadOwnMembership
<1>8. CASE UpdateLeft(r)
  BY <1>8, LeaveUpdateInv
<1>9. QED
  BY <1>1, <1>2, <1>3, <1>4, <1>5, <1>6, <1>7, <1>8 DEF RequestStep

LEMMA NextInv == MembershipInv /\ [Next]_vars => MembershipInv'
<1> SUFFICES ASSUME MembershipInv, [Next]_vars PROVE MembershipInv'
  OBVIOUS
<1>1. CASE Next
  BY <1>1, RequestStepInv DEF Next
<1>2. CASE UNCHANGED vars
  BY <1>2 DEF vars, MembershipInv, TypeOK, OneActiveOwner, RequestsChecked, Checked
<1>3. QED
  BY <1>1, <1>2

\* The invariant holds in every reachable state, for any users and requests.
THEOREM MembershipInvariant == Spec => []MembershipInv
  BY InitInv, NextInv, PTL DEF Spec

\* Type correctness: rows and requests keep their shapes, and a user has a role
\* exactly when they have a status.
THEOREM TypeCorrect == Spec => []TypeOK
<1>1. MembershipInv => TypeOK
  BY DEF MembershipInv
<1>2. QED
  BY <1>1, MembershipInvariant, PTL

\* The creator stays the only OWNER, and ACTIVE, under any interleaving.
THEOREM OwnerIsProtected == Spec => []OneActiveOwner
<1>1. MembershipInv => OneActiveOwner
  BY DEF MembershipInv
<1>2. QED
  BY <1>1, MembershipInvariant, PTL

-----------------------------------------------------------------------------
(* Action properties.                                                      *)

\* Only the UPDATE of a role change writes a role ...
LEMMA RoleWriter ==
  ASSUME NEW r \in Requests, RequestStep(r), role' # role
  PROVE  UpdateRole(r) /\ RoleWhere(req[r].target, req[r].seenRole)
<1>1. UpdateRole(r)
  BY DEF RequestStep, Authorize, ReadTargetForRole, ReadTargetForStatus, RefuseTarget,
         UpdateStatus, ReadOwnMembership, UpdateLeft, memberVars
<1>2. QED
  BY <1>1 DEF UpdateRole

\* ... and only the UPDATEs of suspend, reactivate and leave write a status.
LEMMA StatusWriter ==
  ASSUME NEW r \in Requests, RequestStep(r), status' # status
  PROVE  \/ UpdateStatus(r) /\ StatusWhere(req[r].target, req[r].op)
         \/ UpdateLeft(r) /\ LeaveWhere(req[r].target, req[r].seenRole)
<1>1. UpdateStatus(r) \/ UpdateLeft(r)
  BY DEF RequestStep, Authorize, ReadTargetForRole, ReadTargetForStatus, RefuseTarget,
         UpdateRole, ReadOwnMembership, memberVars
<1>2. QED
  BY <1>1 DEF UpdateStatus, UpdateLeft

LEMMA CommitOf ==
  ASSUME MembershipInv, NEW r \in Requests, req[r].pc = "update", Finish(r)
  PROVE  Commits(r)
  BY IdleTyped DEF MembershipInv, TypeOK, Finish, Commits

\* The request behind a changed role, and what its checks had established.
LEMMA RoleChangeFacts ==
  ASSUME MembershipInv, [Next]_vars, NEW m \in Users, role'[m] # role[m]
  PROVE  \E r \in Requests : /\ Commits(r) /\ req[r].target = m
                             /\ req[r] \in RequestState /\ Checked(req[r])
                             /\ role[m] \in RoleScope(req[r].actorRole)
                             /\ role'[m] \in RoleScope(req[r].actorRole)
                             /\ status[m] = "ACTIVE" /\ UNCHANGED status
                             /\ role' = [role EXCEPT ![m] = req[r].newRole]
<1>1. PICK r \in Requests : RequestStep(r)
  BY DEF Next, vars
<1>2. UpdateRole(r) /\ RoleWhere(req[r].target, req[r].seenRole)
  BY <1>1, RoleWriter
<1>3. /\ req[r] \in RequestState /\ Checked(req[r])
      /\ req[r].pc = "update" /\ req[r].op = "changeRole"
  BY <1>2 DEF MembershipInv, TypeOK, RequestsChecked, UpdateRole
<1>4. role' = [role EXCEPT ![req[r].target] = req[r].newRole]
  BY <1>2 DEF UpdateRole
<1>5. req[r].target = m /\ role'[m] = req[r].newRole
  BY <1>3, <1>4 DEF MembershipInv, TypeOK, RequestState
<1>6. Commits(r)
  BY <1>2, <1>3, CommitOf DEF UpdateRole
<1>7. QED
  BY <1>2, <1>3, <1>4, <1>5, <1>6 DEF Checked, RoleWhere, UpdateRole

\* The request behind a changed status.
LEMMA StatusChangeFacts ==
  ASSUME MembershipInv, [Next]_vars, NEW m \in Users, status'[m] # status[m]
  PROVE  \E r \in Requests :
           /\ Commits(r) /\ req[r].target = m /\ m # Owner /\ UNCHANGED role
           /\ \/ /\ req[r].op \in {"suspend", "reactivate"} /\ req[r].actor # m
                 /\ req[r].actorRole \in Roles /\ req[r].seenRole \in RoleScope(req[r].actorRole)
                 /\ status[m] = ExpectedStatus(req[r].op)
                 /\ status' = [status EXCEPT ![m] = NewStatus(req[r].op)]
              \/ /\ status[m] = "ACTIVE"
                 /\ status' = [status EXCEPT ![m] = "LEFT"]
<1>1. PICK r \in Requests : RequestStep(r)
  BY DEF Next, vars
<1> DEFINE q == req[r]
<1>2. q \in RequestState /\ Checked(q)
  BY DEF MembershipInv, TypeOK, RequestsChecked
<1>3. CASE UpdateStatus(r) /\ StatusWhere(q.target, q.op)
  <2>1. /\ status' = [status EXCEPT ![q.target] = NewStatus(q.op)]
        /\ q.pc = "update" /\ q.op \in {"suspend", "reactivate"}
        /\ Finish(r) /\ UNCHANGED role
    BY <1>3 DEF UpdateStatus
  <2>2. q.target = m
    BY <1>2, <2>1 DEF MembershipInv, TypeOK, RequestState
  <2>3. QED
    BY <1>2, <1>3, <2>1, <2>2, CommitOf DEF Checked, StatusWhere, RequestState
<1>4. CASE UpdateLeft(r) /\ LeaveWhere(q.target, q.seenRole)
  <2>1. /\ status' = [status EXCEPT ![q.target] = "LEFT"]
        /\ q.pc = "update"
        /\ Finish(r) /\ UNCHANGED role
    BY <1>4 DEF UpdateLeft, StatusAfterLeave
  <2>2. q.target = m
    BY <1>2, <2>1 DEF MembershipInv, TypeOK, RequestState
  <2>3. QED
    BY <1>2, <1>4, <2>1, <2>2, CommitOf DEF Checked, LeaveWhere
<1>5. QED
  BY <1>1, <1>3, <1>4, StatusWriter

\* No role is overwritten outside the requester's scope, even if the target was
\* promoted between the check and the UPDATE.
THEOREM RoleChangesInScope == Spec => RoleChangeWithinScope
<1>1. MembershipInv /\ [Next]_vars => [\A m \in Users : RoleChangedInScope(m)]_vars
  BY RoleChangeFacts DEF RoleChangedInScope
<1>2. QED
  BY <1>1, MembershipInvariant, PTL DEF Spec, RoleChangeWithinScope

\* ADMIN is given and taken away by the owner alone.
THEOREM AdminsChosenByOwner == Spec => AdminOnlyByOwner
<1>1. ASSUME MembershipInv, [Next]_vars, NEW m \in Users
      PROVE  AdminChangedByOwner(m)
  <2> SUFFICES ASSUME role'[m] # role[m], "ADMIN" \in {role[m], role'[m]}
               PROVE  \E r \in Requests : Commits(r) /\ req[r].target = m
                                          /\ req[r].actor = Owner
    BY DEF AdminChangedByOwner
  <2>1. PICK r \in Requests : /\ Commits(r) /\ req[r].target = m
                              /\ req[r] \in RequestState /\ Checked(req[r])
                              /\ "ADMIN" \in RoleScope(req[r].actorRole)
    BY <1>1, RoleChangeFacts
  <2>2. req[r].actorRole = "OWNER"
    BY <2>1, ScopeFacts DEF RequestState
  <2>3. QED
    BY <2>1, <2>2 DEF Checked
<1>2. MembershipInv /\ [Next]_vars => [\A m \in Users : AdminChangedByOwner(m)]_vars
  BY <1>1
<1>3. QED
  BY <1>2, MembershipInvariant, PTL DEF Spec, AdminOnlyByOwner

\* A scope that is not empty misses ADMIN at most.
LEMMA ScopeMissesAdmins ==
  ASSUME NEW r \in Roles, RoleScope(r) # {}
  PROVE  GrantableRoles \subseteq RoleScope(r) \cup {"ADMIN"}
  BY DEF RoleScope, GrantableRoles, Roles

\* Nobody suspends or reactivates themselves, nor a member whose role was out
\* of their reach when they read it.
THEOREM StatusesAreManaged == Spec => StatusManagement
<1>1. ASSUME MembershipInv, [Next]_vars, NEW m \in Users
      PROVE  StatusManagedFromAbove(m)
  <2> SUFFICES ASSUME status'[m] # status[m], status'[m] # "LEFT"
               PROVE  \E r \in Requests :
                        /\ Commits(r) /\ req[r].target = m /\ req[r].actor # m
                        /\ req[r].seenRole \in RoleScope(req[r].actorRole)
                        /\ role[m] \in RoleScope(req[r].actorRole) \cup {"ADMIN"}
    BY DEF StatusManagedFromAbove
  <2>1. status \in [Users -> Statuses \cup {NoRow}]
    BY <1>1 DEF MembershipInv, TypeOK
  <2>2. PICK r \in Requests :
           /\ Commits(r) /\ req[r].target = m /\ m # Owner /\ req[r].actor # m
           /\ req[r].actorRole \in Roles /\ req[r].seenRole \in RoleScope(req[r].actorRole)
           /\ status[m] = ExpectedStatus(req[r].op)
    BY <1>1, <2>1, StatusChangeFacts
  <2>3. role[m] \in GrantableRoles
    <3>1. status[m] # NoRow
      BY <2>2 DEF ExpectedStatus, NoRow
    <3>. QED
      BY <1>1, <2>2, <3>1 DEF MembershipInv, TypeOK, OneActiveOwner, GrantableRoles
  <2>4. role[m] \in RoleScope(req[r].actorRole) \cup {"ADMIN"}
    BY <2>2, <2>3, ScopeMissesAdmins
  <2>. QED
    BY <2>2, <2>4
<1>2. MembershipInv /\ [Next]_vars => [\A m \in Users : StatusManagedFromAbove(m)]_vars
  BY <1>1
<1>3. QED
  BY <1>2, MembershipInvariant, PTL DEF Spec, StatusManagement

-----------------------------------------------------------------------------
(* Refinement.                                                             *)

LEMMA InitLifecycle == Init => Lifecycle!Init
<1>1. /\ Lifecycle!Roles = Roles /\ Lifecycle!Statuses = Statuses
      /\ Lifecycle!NoRow = NoRow
  BY DEF Roles, Lifecycle!Roles, Statuses, Lifecycle!Statuses, NoRow, Lifecycle!NoRow
<1>2. QED
  BY <1>1 DEF Init, Lifecycle!Init

\* Every step of the requests is a step, or no step, of a membership's life.
LEMMA NextLifecycle ==
  MembershipInv /\ [Next]_vars => [Lifecycle!Next]_<<role, status>>
<1> SUFFICES ASSUME MembershipInv, [Next]_vars, ~UNCHANGED <<role, status>>
             PROVE  Lifecycle!Next
  OBVIOUS
<1>1. /\ role \in [Users -> Roles \cup {NoRow}] /\ status \in [Users -> Statuses \cup {NoRow}]
      /\ role' \in [Users -> Roles \cup {NoRow}] /\ status' \in [Users -> Statuses \cup {NoRow}]
  BY NextInv DEF MembershipInv, TypeOK
<1>2. CASE \E m \in Users : role'[m] # role[m]
  <2>1. PICK m \in Users : role'[m] # role[m]
    BY <1>2
  <2>2. PICK r \in Requests : /\ Commits(r) /\ req[r].target = m
                              /\ req[r] \in RequestState /\ Checked(req[r])
                              /\ role'[m] \in RoleScope(req[r].actorRole)
                              /\ status[m] = "ACTIVE" /\ UNCHANGED status
                              /\ role' = [role EXCEPT ![m] = req[r].newRole]
    BY <2>1, RoleChangeFacts
  <2>3. m # Owner
    BY <2>2 DEF Checked, Commits
  <2>4. req[r].newRole \in GrantableRoles
    BY <1>1, <2>2, ScopeFacts DEF RequestState
  <2>5. Lifecycle!ChangeRole(m, req[r].newRole)
    BY <2>2 DEF Lifecycle!ChangeRole
  <2>6. QED
    BY <2>3, <2>4, <2>5 DEF Lifecycle!Next, Lifecycle!Others, GrantableRoles, Roles,
                            Lifecycle!GrantableRoles, Lifecycle!Roles
<1>3. CASE \E m \in Users : status'[m] # status[m]
  <2>1. PICK m \in Users : status'[m] # status[m]
    BY <1>3
  <2>2. PICK r \in Requests :
           /\ m # Owner /\ UNCHANGED role
           /\ \/ /\ req[r].op \in {"suspend", "reactivate"}
                 /\ status[m] = ExpectedStatus(req[r].op)
                 /\ status' = [status EXCEPT ![m] = NewStatus(req[r].op)]
              \/ /\ status[m] = "ACTIVE"
                 /\ status' = [status EXCEPT ![m] = "LEFT"]
    BY <2>1, StatusChangeFacts
  <2>3. Lifecycle!Suspend(m) \/ Lifecycle!Reactivate(m) \/ Lifecycle!Leave(m)
    BY <2>2 DEF Lifecycle!Suspend, Lifecycle!Reactivate, Lifecycle!Leave, Lifecycle!Move,
                ExpectedStatus, NewStatus
  <2>4. QED
    BY <2>2, <2>3 DEF Lifecycle!Next, Lifecycle!Others
<1>4. QED
  BY <1>1, <1>2, <1>3

\* The requests implement the life of a membership row.
THEOREM MembershipsRefine == Spec => ImplementsLifecycle
  BY InitLifecycle, NextLifecycle, MembershipInvariant, PTL
     DEF Spec, ImplementsLifecycle, Lifecycle!Spec

=============================================================================
