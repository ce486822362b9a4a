CONSTANTS
  Users = {u1, u2}
  Items = {i1}
  Values = {v1}
  NewStatus = v1
  Requests = {r1, r2}
  MaxEdits = 2
SPECIFICATION Spec
SYMMETRY Symmetry
PROPERTY AdditionsOnlyAdd
