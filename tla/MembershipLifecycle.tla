------------------------ MODULE MembershipLifecycle ------------------------
(***************************************************************************)
(* What the memberships of an organization promise, without requests,      *)
(* reads or races: the life of each membership row.  A row is created or   *)
(* revived by joining, suspended and reactivated with its role untouched,  *)
(* left only while ACTIVE, and revived after LEFT only by joining again.   *)
(* The owner's row never changes.  Memberships and Invitations implement   *)
(* this specification.                                                     *)
(***************************************************************************)
EXTENDS OrganizationRoles

CONSTANTS Users, Owner

VARIABLES role, status

Others == Users \ {Owner}

Init ==
  /\ role \in {f \in [Users -> Roles \cup {NoRow}] :
                 \A u \in Users : f[u] = "OWNER" <=> u = Owner}
  /\ status \in {f \in [Users -> Statuses \cup {NoRow}] :
                 /\ f[Owner] = "ACTIVE"
                 /\ \A u \in Users : f[u] = NoRow <=> role[u] = NoRow}

Join(u, r) ==
  /\ status[u] \in {NoRow, "LEFT"}
  /\ role' = [role EXCEPT ![u] = r]
  /\ status' = [status EXCEPT ![u] = "ACTIVE"]

ChangeRole(u, r) ==
  /\ status[u] = "ACTIVE"
  /\ role' = [role EXCEPT ![u] = r]
  /\ UNCHANGED status

Move(u, from, to) ==
  /\ status[u] = from
  /\ status' = [status EXCEPT ![u] = to]
  /\ UNCHANGED role

Suspend(u) == Move(u, "ACTIVE", "SUSPENDED")

Reactivate(u) == Move(u, "SUSPENDED", "ACTIVE")

Leave(u) == Move(u, "ACTIVE", "LEFT")

Next ==
  \E u \in Others :
    \/ \E r \in GrantableRoles : Join(u, r) \/ ChangeRole(u, r)
    \/ Suspend(u)
    \/ Reactivate(u)
    \/ Leave(u)

Spec == Init /\ [][Next]_<<role, status>>

=============================================================================
