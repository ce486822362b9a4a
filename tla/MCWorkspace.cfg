\* The parts share no variables: they also share model values, which keeps the
\* symmetry group small.
CONSTANTS
  Users = {n1, n2}
  Items = {i1}
  Values = {v1, v2}
  NewStatus = v1
  Requests = {r1, r2, r3}
  MaxEdits = 3
  Members = {n1, n2}
  Posts = {p1}
  Writers = {c1, c2}
  MaxTime = 5
  Owners = {n1, n2}
  Tokens = {t1}
  DeviceRows = {r1, r2, r3}
  DeviceCalls = {c1, c2}
  Dispatches = {d1}
  MulticastLimit = 1
  CatalogEntries = {n1, n2}
  Words = {w1, w2}
  Wildcards = {w2}
  Editors = {c1, c2}
  BaseSlugs <- AcmeSlugs
  Creations = {c1, c2}
  MaxOrganizations = 3
SPECIFICATION WorkspaceSpec
SYMMETRY Symmetry
INVARIANT AssignedWereManagers
INVARIANT WorkspaceTypeOK
INVARIANT AuthorsHaveReadTheirOwn
INVARIANT UnseenIsUnread
INVARIANT PushesReachTheMembers
INVARIANT TagsAreDistinct
PROPERTY UnloadedRelationsKept
PROPERTY UndisturbedEditsAreExact
PROPERTY ReadMarksNeverGoBack
PROPERTY RegisteredUnlessOvertaken
PROPERTY RowsEndForCause
PROPERTY DuplicatesAreRaced
PROPERTY SlugRefusedOnlyIfRaced
