CONSTANTS
  Messages = {m1, m2}
  Discussions = {d1, d2}
  Calls = {c1, c2}
  Deletions = {x1, x2}
  Others = {o1, o2}
SPECIFICATION DeletionSpec
SYMMETRY Symmetry
INVARIANT DeletionTypeOK
INVARIANT RowsHaveAssets
INVARIANT AssetsAccountedFor
INVARIANT NothingLeftForCascade
PROPERTY ImplementsAtomicDeletion
