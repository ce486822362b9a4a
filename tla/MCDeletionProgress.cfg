CONSTANTS
  Messages = {m1}
  Discussions = {d1}
  Calls = {c1}
  Deletions = {x1, x2}
  Others = {o1, o2}
SPECIFICATION FairDeletionSpec
PROPERTY DeletionEnds
