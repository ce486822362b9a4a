CONSTANTS
  Users = {owner, u1}
  Owner = owner
  Requests = {r1}
  InvitationIds = {i1, i2}
  Calls = {c1, c2}
  InvitedRoles = {"MEMBER"}
SPECIFICATION InvitationSpec
SYMMETRY Symmetry
INVARIANT OneLiveInvitation
