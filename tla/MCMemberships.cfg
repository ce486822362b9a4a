CONSTANTS
  Users = {owner, u1, u2}
  Owner = owner
  Requests = {r1, r2, r3}
SPECIFICATION Spec
SYMMETRY Symmetry
INVARIANT TypeOK
PROPERTY RoleChangeWithinScope
PROPERTY AdminOnlyByOwner
PROPERTY StatusManagement
PROPERTY ImplementsLifecycle
