CONSTANTS
  Users = {owner, u1, u2}
  Owner = owner
  Requests = {r1, r2}
SPECIFICATION Spec
SYMMETRY Symmetry
PROPERTY StatusChangeWithinScope
