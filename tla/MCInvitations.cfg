CONSTANTS
  Users = {owner, u1}
  Owner = owner
  Requests = {r1}
  InvitationIds = {i1, i2}
  Calls = {c1, c2}
  InvitedRoles = {"ADMIN", "MEMBER", "OWNER"}
SPECIFICATION InvitationSpec
SYMMETRY Symmetry
INVARIANT InvitationTypeOK
INVARIANT OneActiveOwner
INVARIANT LiveInvitationsBounded
PROPERTY JoinsAreAcceptances
PROPERTY EndedInvitations
PROPERTY SuspensionEndsByReactivation
PROPERTY ImplementsLifecycle
