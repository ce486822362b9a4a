------------------------- MODULE OrganizationRoles -------------------------
(***************************************************************************)
(* The enumerations and the role policy every other module refers to:      *)
(* organization-role.enum.ts, membership-status.enum.ts and the tables and *)
(* asserts at the top of memberships.service.ts.  A user without a         *)
(* membership row has role and status "NONE".                              *)
(***************************************************************************)

Roles == {"OWNER", "ADMIN", "DEVELOPER", "MEMBER"}

\* Roles a request may ask for: both the role endpoint and the invitation
\* endpoint refuse OWNER with a 400.
GrantableRoles == Roles \ {"OWNER"}

Statuses == {"ACTIVE", "SUSPENDED", "LEFT"}

NoRow == "NONE"

\* Bug model: ADMIN may also manage other ADMINs.
RoleScopeOwnLevel(r) ==
  CASE r = "OWNER" -> {"ADMIN", "DEVELOPER", "MEMBER"}
    [] r = "ADMIN" -> {"ADMIN", "DEVELOPER", "MEMBER"}
    [] OTHER -> {}

\* ROLE_SCOPE_BY_REQUESTER_ROLE: the roles a requester of role r may manage,
\* and the roles it may assign.
RoleScope(r) ==
  CASE r = "OWNER" -> {"ADMIN", "DEVELOPER", "MEMBER"}
    [] r = "ADMIN" -> {"DEVELOPER", "MEMBER"}
    [] OTHER -> {}

\* assertActiveOwnerOrAdmin, over the role and the status that were read.
ActiveOwnerOrAdmin(r, s) == s = "ACTIVE" /\ r \in {"OWNER", "ADMIN"}

=============================================================================
