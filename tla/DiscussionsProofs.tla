------------------------- MODULE DiscussionsProofs -------------------------
(***************************************************************************)
(* Theorems about Discussions: types, who is assigned, and which relations *)
(* a save leaves alone, for any users, items and requests.                 *)
(***************************************************************************)
EXTENDS Discussions, TLAPS

Holding == {"read", "changed", "reloaded"}

\* Relations of the kinds that op loads, with users that were managers and items.
KnownRelations(op, f) ==
  /\ "assignedDevelopers" \in Loaded(op) => f["assignedDevelopers"] \subseteq wereManagers
  /\ "context" \in Loaded(op) => f["context"] \subseteq Items

\* What a request would save, and what it would insert.
Known(q) ==
  /\ q.pc \in Holding => KnownRelations(q.op, q.entity.relation)
  /\ q.pc = "reloaded" => KnownRelations(q.op, q.diff.insert)

DiscussionInv ==
  /\ TypeOK
  /\ managers \subseteq wereManagers
  /\ AssignedWereManagers
  /\ \A r \in Requests : Known(req[r])

-----------------------------------------------------------------------------
\* Reading the discussion gives a request an entity of the right type.
LEMMA ReadEntityType ==
  ASSUME TypeOK, NEW op \in Operations
  PROVE  ReadEntity(op) \in Entities(op)
  BY DEF TypeOK, ReadEntity, Entities, Entries, Loaded, Relations

\* Replacing one relation of an entity keeps its type.
LEMMA WithRelationType ==
  ASSUME NEW op \in Operations, NEW entity \in Entities(op), NEW k \in Relations,
         NEW entries \in SUBSET Entries
  PROVE  /\ WithRelation(entity, k, entries) \in Entities(op)
         /\ WithRelation(entity, k, entries).column = entity.column
         /\ \A n \in Loaded(op) : WithRelation(entity, k, entries).relation[n] =
               IF n = k THEN entries ELSE entity.relation[n]
  BY DEF WithRelation, Entities

\* What a request in flight holds, field by field.
LEMMA HoldingType ==
  ASSUME TypeOK, NEW r \in Requests, req[r].pc \in Holding
  PROVE  /\ req[r].op \in Operations
         /\ req[r].entity \in Entities(req[r].op)
         /\ req[r].stale \in BOOLEAN
         /\ req[r].pc = "reloaded" => req[r].diff \in Differences(req[r].op)
         /\ req[r].pc \in {"read", "changed"} => req[r] \in Reading(req[r].op)
         /\ req[r].pc = "reloaded" => req[r] \in Saving(req[r].op)
<1>1. RequestOK(r)
  BY DEF TypeOK
<1>2. CASE req[r] = NoRequest
  BY <1>2 DEF NoRequest, Holding
<1>3. CASE req[r] \in Authorized
  BY <1>3 DEF Authorized, Holding
<1>4. CASE \E op \in Operations : req[r] \in Reading(op) \cup Saving(op)
  <2>1. PICK op \in Operations : req[r] \in Reading(op) \cup Saving(op)
    BY <1>4
  <2>2. CASE req[r] \in Reading(op)
    BY <2>2 DEF Reading
  <2>3. CASE req[r] \in Saving(op)
    BY <2>3 DEF Saving
  <2>. QED
    BY <2>1, <2>2, <2>3
<1>. QED
  BY <1>1, <1>2, <1>3, <1>4 DEF RequestOK

-----------------------------------------------------------------------------
\* A step of one request that leaves the rest alone keeps the invariant, if
\* what the request holds afterwards is well typed and known.
LEMMA RequestMoves ==
  ASSUME DiscussionInv, NEW r \in Requests, NEW q,
         req' = [req EXCEPT ![r] = q],
         \/ q = NoRequest
         \/ q \in Authorized
         \/ \E op \in Operations : q \in Reading(op) \cup Saving(op),
         Known(q),
         UNCHANGED <<rowVars, memberVars>>, edits' \in 0..MaxEdits
  PROVE  DiscussionInv'
<1>1. req'[r] = q /\ \A p \in Requests \ {r} : req'[p] = req[p]
  BY DEF DiscussionInv, TypeOK
<1>2. DOMAIN req' = Requests
  BY DEF DiscussionInv, TypeOK
<1>3. ASSUME NEW p \in Requests PROVE RequestOK(p)'
  BY <1>1 DEF DiscussionInv, TypeOK, RequestOK
<1>4. TypeOK'
  BY <1>2, <1>3 DEF DiscussionInv, TypeOK, rowVars, memberVars
<1>5. wereManagers' = wereManagers
  BY DEF memberVars
<1>6. ASSUME NEW p \in Requests PROVE Known(req[p])'
  <2>1. Known(req'[p])
    BY <1>1 DEF DiscussionInv
  <2>. QED
    BY <2>1, <1>5 DEF Known, KnownRelations
<1>7. (managers \subseteq wereManagers)' /\ AssignedWereManagers'
  BY DEF DiscussionInv, AssignedWereManagers, rowVars, memberVars
<1>. QED
  BY <1>4, <1>6, <1>7 DEF DiscussionInv

LEMMA RequestEnds ==
  ASSUME DiscussionInv, NEW r \in Requests, Answer(r), UNCHANGED <<rowVars, memberVars, edits>>
  PROVE  DiscussionInv'
<1>1. Known(NoRequest)
  BY DEF Known, NoRequest, Holding
<1>. QED
  BY <1>1, RequestMoves DEF Answer, DiscussionInv, TypeOK

\* The reads: an entity of the right type and with known relations.
LEMMA EntityIsFound ==
  ASSUME DiscussionInv, NEW r \in Requests, NEW op \in Operations, req[r].op = op,
         NEW pc \in {"read", "changed"}, NEW entity \in Entities(op),
         KnownRelations(op, entity.relation), Found(r, pc, entity)
  PROVE  DiscussionInv'
<1> DEFINE q == [pc |-> pc, op |-> req[r].op, entity |-> entity, stale |-> FALSE]
<1>1. q \in Reading(op)
  BY DEF Reading
<1>2. Known(q)
  BY DEF Known
<1>3. req' = [req EXCEPT ![r] = q] /\ UNCHANGED <<rowVars, memberVars, edits>>
  BY DEF Found
<1> HIDE DEF q
<1>. QED
  BY <1>1, <1>2, <1>3, RequestMoves DEF DiscussionInv, TypeOK

LEMMA ReadEntityKnown ==
  ASSUME DiscussionInv, NEW op \in Operations
  PROVE  /\ ReadEntity(op) \in Entities(op)
         /\ KnownRelations(op, ReadEntity(op).relation)
<1>1. ReadEntity(op) \in Entities(op)
  BY ReadEntityType DEF DiscussionInv
<1>2. \A k \in Loaded(op) : ReadEntity(op).relation[k] = relation[k]
  BY DEF ReadEntity
<1>. QED
  BY <1>1, <1>2 DEF KnownRelations, DiscussionInv, AssignedWereManagers, TypeOK

\* The same with one relation replaced.
LEMMA ChangedEntityKnown ==
  ASSUME DiscussionInv, NEW op \in Operations, NEW entity \in Entities(op),
         KnownRelations(op, entity.relation), NEW k \in Relations, NEW entries,
         \/ k = "assignedDevelopers" /\ entries \subseteq wereManagers
         \/ k = "context" /\ entries \subseteq Items
  PROVE  /\ WithRelation(entity, k, entries) \in Entities(op)
         /\ KnownRelations(op, WithRelation(entity, k, entries).relation)
<1>1. entries \in SUBSET Entries
  BY DEF DiscussionInv, TypeOK, Entries
<1>. QED
  BY <1>1, WithRelationType DEF KnownRelations

-----------------------------------------------------------------------------
LEMMA ReadForUpdateKeeps ==
  ASSUME DiscussionInv, NEW r \in Requests, ReadForUpdate(r)
  PROVE  DiscussionInv'
<1>1. PICK title \in Values, context \in SUBSET Items :
        /\ Asked(r, "update")
        /\ Found(r, "changed",
                 WithRelation([ReadEntity("update") EXCEPT !.column["title"] = title],
                              "context", context))
  BY DEF ReadForUpdate
<1> DEFINE read == [ReadEntity("update") EXCEPT !.column["title"] = title]
<1>2. "update" \in Operations /\ "context" \in Relations
  BY DEF Operations, Relations
<1>3. read \in Entities("update") /\ KnownRelations("update", read.relation)
  BY <1>2, ReadEntityKnown DEF Entities, Columns, KnownRelations
<1> HIDE DEF read
<1>4. /\ WithRelation(read, "context", context) \in Entities("update")
      /\ KnownRelations("update", WithRelation(read, "context", context).relation)
  BY <1>2, <1>3, ChangedEntityKnown
<1>. QED
  BY <1>1, <1>2, <1>4, EntityIsFound DEF Asked, read

LEMMA ReadForRetitleKeeps ==
  ASSUME DiscussionInv, NEW r \in Requests, ReadForRetitle(r)
  PROVE  DiscussionInv'
<1>1. PICK title \in Values :
        /\ Asked(r, "retitle")
        /\ Found(r, "changed", [ReadEntity("retitle") EXCEPT !.column["title"] = title])
  BY DEF ReadForRetitle
<1> DEFINE read == [ReadEntity("retitle") EXCEPT !.column["title"] = title]
<1>2. "retitle" \in Operations
  BY DEF Operations
<1>3. read \in Entities("retitle") /\ KnownRelations("retitle", read.relation)
  BY <1>2, ReadEntityKnown DEF Entities, Columns, KnownRelations
<1>. QED
  BY <1>1, <1>2, <1>3, EntityIsFound DEF Asked

LEMMA ReadForStatusKeeps ==
  ASSUME DiscussionInv, NEW r \in Requests, ReadForStatus(r)
  PROVE  DiscussionInv'
<1>1. PICK status \in Values :
        /\ Asked(r, "status")
        /\ Found(r, "changed", [ReadEntity("status") EXCEPT !.column["status"] = status])
  BY DEF ReadForStatus
<1> DEFINE read == [ReadEntity("status") EXCEPT !.column["status"] = status]
<1>2. "status" \in Operations
  BY DEF Operations
<1>3. read \in Entities("status") /\ KnownRelations("status", read.relation)
  BY <1>2, ReadEntityKnown DEF Entities, Columns, KnownRelations
<1>. QED
  BY <1>1, <1>2, <1>3, EntityIsFound DEF Asked

LEMMA ReadForAssignmentKeeps ==
  ASSUME DiscussionInv, NEW r \in Requests, ReadForAssignment(r)
  PROVE  DiscussionInv'
<1>1. req[r].op \in Operations /\ Found(r, "read", ReadEntity(req[r].op))
  BY DEF ReadForAssignment, Operations
<1>. QED
  BY <1>1, ReadEntityKnown, EntityIsFound

\* unassign, relate and unrelate take one entry of what is there away or add
\* one.
LEMMA ReadForOneKeeps ==
  ASSUME DiscussionInv, NEW r \in Requests,
         ReadForUnassign(r) \/ ReadForRelate(r) \/ ReadForUnrelate(r)
  PROVE  DiscussionInv'
<1>1. /\ {"unassign", "relate", "unrelate"} \subseteq Operations
      /\ Relations = {"assignedDevelopers", "context"}
  BY DEF Operations, Relations
<1>2. /\ relation["assignedDevelopers"] \subseteq wereManagers
      /\ relation["context"] \subseteq Items
  BY DEF DiscussionInv, AssignedWereManagers, TypeOK
<1>3. CASE ReadForUnassign(r)
  <2>1. PICK entries \in SUBSET wereManagers :
          /\ Asked(r, "unassign")
          /\ Found(r, "changed",
                   WithRelation(ReadEntity("unassign"), "assignedDevelopers", entries))
    BY <1>2, <1>3 DEF ReadForUnassign
  <2>. QED
    BY <1>1, <2>1, ReadEntityKnown, ChangedEntityKnown, EntityIsFound DEF Asked
<1>4. CASE ReadForRelate(r)
  <2>1. PICK entries \in SUBSET Items :
          /\ Asked(r, "relate")
          /\ Found(r, "changed", WithRelation(ReadEntity("relate"), "context", entries))
    BY <1>2, <1>4 DEF ReadForRelate
  <2>. QED
    BY <1>1, <2>1, ReadEntityKnown, ChangedEntityKnown, EntityIsFound DEF Asked
<1>5. CASE ReadForUnrelate(r)
  <2>1. PICK entries \in SUBSET Items :
          /\ Asked(r, "unrelate")
          /\ Found(r, "changed", WithRelation(ReadEntity("unrelate"), "context", entries))
    BY <1>2, <1>5 DEF ReadForUnrelate
  <2>. QED
    BY <1>1, <2>1, ReadEntityKnown, ChangedEntityKnown, EntityIsFound DEF Asked
<1>. QED
  BY <1>3, <1>4, <1>5

\* Only managers are resolved, and wereManagers has them all.
LEMMA ResolveDevelopersKeeps ==
  ASSUME DiscussionInv, NEW r \in Requests, ResolveDevelopers(r)
  PROVE  DiscussionInv'
<1> DEFINE op == req[r].op
           entity == req[r].entity
<1>1. PICK developers \in SUBSET Users :
        /\ req[r].pc = "read"
        /\ \A u \in developers : Assignable(u)
        /\ req' = [req EXCEPT ![r] =
             [pc |-> "changed", op |-> op, stale |-> req[r].stale,
              entity |-> WithRelation(entity, "assignedDevelopers",
                                      KeptDevelopers(r) \cup developers)]]
        /\ UNCHANGED <<rowVars, memberVars, edits>>
  BY DEF ResolveDevelopers
<1> DEFINE changed == WithRelation(entity, "assignedDevelopers", KeptDevelopers(r) \cup developers)
           q == [pc |-> "changed", op |-> op, stale |-> req[r].stale, entity |-> changed]
<1>2. op \in Operations /\ entity \in Entities(op) /\ req[r] \in Reading(op)
  BY <1>1, HoldingType DEF DiscussionInv, Holding
<1>3. KnownRelations(op, entity.relation)
  BY <1>1 DEF DiscussionInv, Known, Holding
<1>4. KeptDevelopers(r) \subseteq wereManagers
  <2>1. CASE op = "assign"
    <3>1. "assignedDevelopers" \in Loaded("assign")
      BY DEF Loaded, Relations
    <3>. QED
      BY <1>3, <2>1, <3>1 DEF KeptDevelopers, KnownRelations
  <2>2. CASE op # "assign"
    BY <2>2 DEF KeptDevelopers
  <2>. QED
    BY <2>1, <2>2
<1>5. developers \subseteq wereManagers
  BY <1>1 DEF Assignable, DiscussionInv
<1>6. changed \in Entities(op) /\ KnownRelations(op, changed.relation)
  BY <1>2, <1>3, <1>4, <1>5, ChangedEntityKnown DEF Relations
<1>7. req' = [req EXCEPT ![r] = q]
  BY <1>1
<1> HIDE DEF changed
<1>8. q \in Reading(op) /\ q.pc = "changed" /\ q.op = op /\ q.entity = changed
  BY <1>1, <1>2, <1>6, HoldingType DEF Reading, Holding, DiscussionInv
<1>9. Known(q)
  BY <1>6, <1>8 DEF Known
<1> HIDE DEF q
<1>. QED
  BY <1>1, <1>2, <1>7, <1>8, <1>9, RequestMoves DEF DiscussionInv, TypeOK

\* What save would insert it takes from the entity.
LEMMA ReloadKeeps ==
  ASSUME DiscussionInv, NEW r \in Requests, Reload(r)
  PROVE  DiscussionInv'
<1> DEFINE op == req[r].op
           entity == req[r].entity
           diff == [columns |-> {k \in Columns : entity.column[k] # column[k]},
                    insert |-> [k \in Loaded(op) |-> entity.relation[k] \ relation[k]],
                    delete |-> [k \in Loaded(op) |-> relation[k] \ entity.relation[k]]]
           q == [pc |-> "reloaded", op |-> op, entity |-> entity, stale |-> req[r].stale,
                 diff |-> diff]
<1>1. req[r].pc = "changed" /\ req' = [req EXCEPT ![r] = q]
  BY DEF Reload
<1>2. op \in Operations /\ entity \in Entities(op) /\ req[r].stale \in BOOLEAN
  BY <1>1, HoldingType DEF DiscussionInv, Holding
<1>3. KnownRelations(op, entity.relation)
  BY <1>1 DEF DiscussionInv, Known, Holding
<1>4. Loaded(op) \subseteq Relations
  BY <1>2 DEF Loaded, Relations
<1>5. /\ diff.insert \in [Loaded(op) -> SUBSET Entries]
      /\ diff.delete \in [Loaded(op) -> SUBSET Entries]
  BY <1>2, <1>4 DEF Entities, DiscussionInv, TypeOK
<1>6. diff \in Differences(op)
  BY <1>5 DEF Differences
<1>7. KnownRelations(op, diff.insert)
  BY <1>3 DEF KnownRelations
<1> HIDE DEF diff
<1>8. q \in Saving(op)
  BY <1>2, <1>6 DEF Saving
<1>9. Known(q)
  BY <1>3, <1>7 DEF Known
<1> HIDE DEF q
<1>. QED
  BY <1>1, <1>2, <1>8, <1>9, RequestMoves DEF Reload, DiscussionInv, TypeOK

\* A row inserted is one the request was known to insert; the requests that
\* become stale hold what they held.
LEMMA WriteKeeps ==
  ASSUME DiscussionInv, NEW r \in Requests, Write(r)
  PROVE  DiscussionInv'
<1> DEFINE op == req[r].op
           entity == req[r].entity
           diff == req[r].diff
<1>1. req[r].pc = "reloaded"
  BY DEF Write
<1>2. op \in Operations /\ entity \in Entities(op) /\ diff \in Differences(op)
  BY <1>1, HoldingType DEF DiscussionInv, Holding
<1>3. KnownRelations(op, diff.insert)
  BY <1>1 DEF DiscussionInv, Known
<1>4. Loaded(op) \subseteq Relations
  BY <1>2 DEF Loaded, Relations
<1>5. column' \in [Columns -> Values]
  BY <1>2 DEF Write, Entities, DiscussionInv, TypeOK
<1>6. \A k \in Relations : RelationAfter(r, k) \in SUBSET Entries
  BY <1>2 DEF RelationAfter, Differences, DiscussionInv, TypeOK
<1>7. relation' = [k \in Relations |-> RelationAfter(r, k)]
  BY DEF Write
<1>8. /\ relation' \in [Relations -> SUBSET Entries]
      /\ relation'["assignedDevelopers"] \subseteq wereManagers
      /\ relation'["context"] \subseteq Items
  <2>1. RelationAfter(r, "assignedDevelopers") \subseteq wereManagers
    BY <1>3 DEF RelationAfter, KnownRelations, DiscussionInv, AssignedWereManagers
  <2>2. RelationAfter(r, "context") \subseteq Items
    BY <1>3 DEF RelationAfter, KnownRelations, DiscussionInv, TypeOK
  <2>. QED
    BY <1>6, <1>7, <2>1, <2>2 DEF Relations
<1>9. UNCHANGED <<managers, wereManagers, edits>>
  BY DEF Write, memberVars
<1>10. DOMAIN req' = Requests
  BY DEF Write
<1>11. ASSUME NEW p \in Requests PROVE RequestOK(p)' /\ Known(req[p])'
  <2>1. CASE req'[p] = NoRequest
    BY <2>1 DEF RequestOK, Known, NoRequest, Holding
  <2>2. CASE req'[p] = req[p]
    <3>1. RequestOK(p)'
      BY <2>2 DEF DiscussionInv, TypeOK, RequestOK
    <3>2. Known(req'[p])
      BY <2>2 DEF DiscussionInv
    <3>. QED
      BY <1>9, <3>1, <3>2 DEF Known, KnownRelations
  <2>3. CASE req[p].pc \in Holding /\ req'[p] = [req[p] EXCEPT !.stale = TRUE]
    <3>1. \/ req[p] \in Reading(req[p].op)
          \/ req[p] \in Saving(req[p].op)
      BY <2>3, HoldingType DEF DiscussionInv, Holding
    <3>2. req[p].op \in Operations
      BY <2>3, HoldingType DEF DiscussionInv
    <3>3. \/ req'[p] \in Reading(req[p].op)
          \/ req'[p] \in Saving(req[p].op)
      BY <2>3, <3>1 DEF Reading, Saving
    <3>4. RequestOK(p)'
      BY <3>2, <3>3 DEF RequestOK
    <3>5. /\ req'[p].pc = req[p].pc /\ req'[p].op = req[p].op
          /\ req'[p].entity = req[p].entity
          /\ req[p].pc = "reloaded" => req'[p].diff = req[p].diff
      BY <2>3, <3>1 DEF Reading, Saving
    <3>6. Known(req[p])
      BY DEF DiscussionInv
    <3>. QED
      BY <1>9, <3>4, <3>5, <3>6 DEF Known, KnownRelations
  <2>. QED
    BY <2>1, <2>2, <2>3 DEF Write, Holding
<1>12. TypeOK'
  BY <1>5, <1>8, <1>9, <1>10, <1>11 DEF DiscussionInv, TypeOK
<1>. QED
  BY <1>8, <1>9, <1>11, <1>12 DEF DiscussionInv, AssignedWereManagers

-----------------------------------------------------------------------------
LEMMA AuthorizeKeeps ==
  ASSUME DiscussionInv, NEW r \in Requests, NEW op \in Operations, Authorize(r, op)
  PROVE  DiscussionInv'
<1> DEFINE q == [pc |-> "authorized", op |-> op]
<1>1. q \in Authorized /\ Known(q)
  BY DEF Authorized, Known, Holding
<1>2. edits' \in 0..MaxEdits
  BY MaxEditsIsNat DEF Authorize, DiscussionInv, TypeOK
<1>. QED
  BY <1>1, <1>2, RequestMoves DEF Authorize

LEMMA MembershipsChangeKeeps ==
  ASSUME DiscussionInv, NEW u \in Users, MembershipsChange(u)
  PROVE  DiscussionInv'
<1>1. /\ managers' \subseteq Users /\ managers' \subseteq wereManagers'
      /\ wereManagers \subseteq wereManagers' /\ wereManagers' \subseteq Users
  BY DEF MembershipsChange, DiscussionInv, TypeOK
<1>2. UNCHANGED <<column, relation, req, edits>>
  BY DEF MembershipsChange, rowVars
<1>3. TypeOK'
  BY <1>1, <1>2 DEF DiscussionInv, TypeOK, RequestOK
<1>4. ASSUME NEW r \in Requests PROVE Known(req[r])'
  BY <1>1, <1>2 DEF DiscussionInv, Known, KnownRelations
<1>5. AssignedWereManagers'
  BY <1>1, <1>2 DEF DiscussionInv, AssignedWereManagers
<1>. QED
  BY <1>1, <1>3, <1>4, <1>5 DEF DiscussionInv

LEMMA InitEstablishes ==
  ASSUME Init
  PROVE  DiscussionInv
<1>1. TypeOK
  BY MaxEditsIsNat DEF Init, TypeOK, RequestOK, Relations, Entries
<1>2. \A r \in Requests : Known(req[r])
  BY DEF Init, Known, NoRequest, Holding
<1>. QED
  BY <1>1, <1>2 DEF Init, DiscussionInv, AssignedWereManagers

LEMMA NextKeeps ==
  ASSUME DiscussionInv, [Next]_vars
  PROVE  DiscussionInv'
<1>1. ASSUME NEW r \in Requests, RequestStep(r) PROVE DiscussionInv'
  <2>1. ASSUME NEW op \in Operations, Authorize(r, op) PROVE DiscussionInv'
    BY <2>1, AuthorizeKeeps
  <2>2. CASE Refuse(r)
    BY <2>2, RequestEnds DEF Refuse
  <2>3. CASE ReadForUpdate(r) \/ ReadForRetitle(r) \/ ReadForStatus(r)
    BY <2>3, ReadForUpdateKeeps, ReadForRetitleKeeps, ReadForStatusKeeps
  <2>4. CASE ReadForAssignment(r) \/ ResolveDevelopers(r)
    BY <2>4, ReadForAssignmentKeeps, ResolveDevelopersKeeps
  <2>5. CASE ReadForUnassign(r) \/ ReadForRelate(r) \/ ReadForUnrelate(r)
    BY <2>5, ReadForOneKeeps
  <2>6. CASE Reload(r)
    BY <2>6, ReloadKeeps
  <2>7. CASE Write(r)
    BY <2>7, WriteKeeps
  <2>8. CASE SaveFails(r)
    BY <2>8, RequestEnds DEF SaveFails
  <2>. QED
    BY <1>1, <2>1, <2>2, <2>3, <2>4, <2>5, <2>6, <2>7, <2>8 DEF RequestStep
<1>2. ASSUME NEW u \in Users, MembershipsChange(u) PROVE DiscussionInv'
  BY <1>2, MembershipsChangeKeeps
<1>3. CASE UNCHANGED vars
  BY <1>3 DEF vars, DiscussionInv, TypeOK, RequestOK, AssignedWereManagers, Known, KnownRelations
<1>. QED
  BY <1>1, <1>2, <1>3 DEF Next

\* The inductive invariant: besides the types, that everything a request holds
\* or is about to insert was a manager or is an item
\* (discussion.service.ts:279-319, 667-789).
THEOREM DiscussionInvariant == Spec => []DiscussionInv
  BY InitEstablishes, NextKeeps, PTL DEF Spec

\* The variables have their types: a request holds exactly the relations its
\* findOne loads (discussion.service.ts:543-789).
THEOREM DiscussionTypeCorrect == Spec => []TypeOK
<1>1. DiscussionInv => TypeOK
  BY DEF DiscussionInv
<1>. QED
  BY <1>1, DiscussionInvariant, PTL

\* Whoever is assigned was ACTIVE in an assignable role at some time, however
\* requests with stale entities interleave (discussion.service.ts:308-316).
THEOREM AssignmentsOfManagers == Spec => []AssignedWereManagers
<1>1. DiscussionInv => AssignedWereManagers
  BY DEF DiscussionInv
<1>. QED
  BY <1>1, DiscussionInvariant, PTL

\* Only the request that saves changes the discussion.
LEMMA SaverWrites ==
  ASSUME DiscussionInv, Next, NEW r \in Requests, Saves(r)
  PROVE  Write(r)
<1>1. PICK p \in Requests : RequestStep(p)
  BY DEF Next, Saves, MembershipsChange
<1>2. Write(p)
  BY <1>1 DEF RequestStep, Saves, Authorize, Refuse, ReadForUpdate, ReadForRetitle,
     ReadForStatus, ReadForAssignment, ResolveDevelopers, ReadForUnassign, ReadForRelate,
     ReadForUnrelate, Found, Reload, SaveFails
<1>3. p = r
  BY <1>2 DEF Write, Saves
<1>. QED
  BY <1>2, <1>3

\* A save leaves the relations alone that its findOne did not load
\* (discussion.service.ts:557-560, 645-651).
THEOREM UnloadedKept == Spec => UnloadedRelationsKept
<1>1. ASSUME DiscussionInv, Next, NEW r \in Requests, Saves(r)
      PROVE  \A k \in Relations \ Loaded(req[r].op) : relation'[k] = relation[k]
  BY <1>1, SaverWrites DEF Write, RelationAfter
<1>2. ASSUME DiscussionInv, [Next]_vars
      PROVE  [\A r \in Requests : Saves(r) =>
               /\ req[r].op = "status" => relation' = relation
               /\ req[r].op \in {"update", "retitle"} =>
                    relation'["assignedDevelopers"] = relation["assignedDevelopers"]]_vars
  <2>1. CASE UNCHANGED vars
    BY <2>1
  <2>2. ASSUME Next, NEW r \in Requests, Saves(r)
        PROVE  /\ req[r].op = "status" => relation' = relation
               /\ req[r].op \in {"update", "retitle"} =>
                    relation'["assignedDevelopers"] = relation["assignedDevelopers"]
    <3>1. \A k \in Relations \ Loaded(req[r].op) : relation'[k] = relation[k]
      BY <1>1, <1>2, <2>2
    <3>2. relation \in [Relations -> SUBSET Entries] /\ relation' \in [Relations -> SUBSET Entries]
      BY <1>2, NextKeeps DEF DiscussionInv, TypeOK
    <3>3. /\ Loaded("status") = {}
          /\ Loaded("update") = {"context"}
          /\ Loaded("retitle") = {"context"}
      BY DEF Loaded
    <3>4. "assignedDevelopers" \in Relations
      BY DEF Relations
    <3>5. ASSUME req[r].op = "status" PROVE relation' = relation
      BY <3>1, <3>2, <3>3, <3>5
    <3>6. ASSUME req[r].op \in {"update", "retitle"}
          PROVE  relation'["assignedDevelopers"] = relation["assignedDevelopers"]
      BY <3>1, <3>3, <3>4, <3>6
    <3>. QED
      BY <3>5, <3>6
  <2>. QED
    BY <1>2, <2>1, <2>2
<1>. QED
  BY <1>2, DiscussionInvariant, PTL DEF Spec, UnloadedRelationsKept

-----------------------------------------------------------------------------
(* Edits that nobody disturbs.                                             *)

\* What an operation makes of the discussion as it is: its own change.
Edited(op, entity) ==
  /\ op \in {"update", "retitle"} => entity.column["status"] = column["status"]
  /\ op = "status" => entity.column["title"] = column["title"]
  /\ op \notin {"update", "retitle", "status"} => \A k \in Columns : entity.column[k] = column[k]
  /\ op \in {"retitle", "assign", "replace", "unassign"} =>
       entity.relation["context"] = relation["context"]
  /\ op \in {"relate", "unrelate"} =>
       entity.relation["assignedDevelopers"] = relation["assignedDevelopers"]
  /\ op = "assign" => relation["assignedDevelopers"] \subseteq entity.relation["assignedDevelopers"]
  /\ op = "unassign" => \E u \in Users :
       entity.relation["assignedDevelopers"] = relation["assignedDevelopers"] \ {u}
  /\ op = "relate" => \E i \in Items : entity.relation["context"] = relation["context"] \cup {i}
  /\ op = "unrelate" => \E i \in Items : entity.relation["context"] = relation["context"] \ {i}

\* What save would write is what the entity and the discussion differ in.
IsDifference(q) ==
  /\ q.diff.columns = {k \in Columns : q.entity.column[k] # column[k]}
  /\ \A k \in Loaded(q.op) : /\ q.diff.insert[k] = q.entity.relation[k] \ relation[k]
                             /\ q.diff.delete[k] = relation[k] \ q.entity.relation[k]

\* A request that is not stale holds the discussion as it is but for its change.
Exact(q) ==
  q.pc \in Holding /\ ~q.stale =>
    /\ q.pc = "read" => q.op \in {"assign", "replace"} /\ q.entity = ReadEntity(q.op)
    /\ q.pc \in {"changed", "reloaded"} => Edited(q.op, q.entity)
    /\ q.pc = "reloaded" => IsDifference(q)

ExactInv == \A r \in Requests : Exact(req[r])

LEMMA ExactMoves ==
  ASSUME DiscussionInv, ExactInv, NEW r \in Requests, NEW q, req' = [req EXCEPT ![r] = q], Exact(q),
         UNCHANGED rowVars
  PROVE  ExactInv'
<1>. SUFFICES ASSUME NEW p \in Requests PROVE Exact(req[p])'
  BY DEF ExactInv
<1>1. req'[p] = IF p = r THEN q ELSE req[p]
  BY DEF DiscussionInv, TypeOK
<1>2. Exact(req'[p])
  BY <1>1 DEF ExactInv
<1>. QED
  BY <1>2 DEF Exact, Edited, IsDifference, ReadEntity, rowVars

LEMMA ExactIdle ==
  ASSUME DiscussionInv, ExactInv, NEW r \in Requests,
         Refuse(r) \/ SaveFails(r) \/ \E op \in Operations : Authorize(r, op)
  PROVE  ExactInv'
<1>1. Exact(NoRequest) /\ \A op \in Operations : Exact([pc |-> "authorized", op |-> op])
  BY DEF Exact, NoRequest, Holding
<1>. QED
  BY <1>1, ExactMoves DEF Refuse, SaveFails, Authorize, Answer

\* The reads that change the entity at once.
LEMMA ExactChanged ==
  ASSUME DiscussionInv, ExactInv, NEW r \in Requests, NEW op \in Operations, Asked(r, op),
         NEW entity, Edited(op, entity), Found(r, "changed", entity)
  PROVE  ExactInv'
<1> DEFINE q == [pc |-> "changed", op |-> req[r].op, entity |-> entity, stale |-> FALSE]
<1>1. Exact(q)
  BY DEF Exact, Holding, Asked
<1>2. req' = [req EXCEPT ![r] = q] /\ UNCHANGED rowVars
  BY DEF Found
<1> HIDE DEF q
<1>. QED
  BY <1>1, <1>2, ExactMoves

LEMMA ReadEntityIs ==
  ASSUME DiscussionInv, NEW op \in Operations
  PROVE  /\ ReadEntity(op) \in Entities(op)
         /\ ReadEntity(op).column = column
         /\ \A k \in Loaded(op) : ReadEntity(op).relation[k] = relation[k]
  BY ReadEntityType DEF DiscussionInv, ReadEntity

LEMMA ExactColumnReads ==
  ASSUME DiscussionInv, ExactInv, NEW r \in Requests,
         ReadForUpdate(r) \/ ReadForRetitle(r) \/ ReadForStatus(r)
  PROVE  ExactInv'
<1>1. /\ {"update", "retitle", "status"} \subseteq Operations
      /\ Loaded("update") = {"context"} /\ Loaded("retitle") = {"context"}
      /\ "context" \in Relations
  BY DEF Operations, Loaded, Relations
<1>2. column \in [Columns -> Values] /\ "title" \in Columns /\ "status" \in Columns
  BY DEF DiscussionInv, TypeOK, Columns
<1>3. CASE ReadForUpdate(r)
  <2>1. PICK title \in Values, context \in SUBSET Items :
          /\ Asked(r, "update")
          /\ Found(r, "changed", WithRelation([ReadEntity("update") EXCEPT !.column["title"] = title],
                                              "context", context))
    BY <1>3 DEF ReadForUpdate
  <2> DEFINE read == [ReadEntity("update") EXCEPT !.column["title"] = title]
  <2>2. read \in Entities("update") /\ read.column["status"] = column["status"]
    BY <1>1, <1>2, ReadEntityIs DEF Entities
  <2>3. context \in SUBSET Entries
    BY DEF Entries
  <2> HIDE DEF read
  <2>4. WithRelation(read, "context", context).column = read.column
    BY <1>1, <2>2, <2>3, WithRelationType
  <2>5. Edited("update", WithRelation(read, "context", context))
    BY <2>2, <2>4 DEF Edited
  <2>. QED
    BY <1>1, <2>1, <2>5, ExactChanged DEF read
<1>4. CASE ReadForRetitle(r)
  <2>1. PICK title \in Values :
          /\ Asked(r, "retitle")
          /\ Found(r, "changed", [ReadEntity("retitle") EXCEPT !.column["title"] = title])
    BY <1>4 DEF ReadForRetitle
  <2> DEFINE read == [ReadEntity("retitle") EXCEPT !.column["title"] = title]
  <2>2. /\ read.column["status"] = column["status"]
        /\ read.relation["context"] = relation["context"]
    BY <1>1, <1>2, ReadEntityIs DEF Entities
  <2>3. Edited("retitle", read)
    BY <2>2 DEF Edited
  <2>. QED
    BY <1>1, <2>1, <2>3, ExactChanged
<1>5. CASE ReadForStatus(r)
  <2>1. PICK status \in Values :
          /\ Asked(r, "status")
          /\ Found(r, "changed", [ReadEntity("status") EXCEPT !.column["status"] = status])
    BY <1>5 DEF ReadForStatus
  <2> DEFINE read == [ReadEntity("status") EXCEPT !.column["status"] = status]
  <2>2. read.column["title"] = column["title"]
    BY <1>1, <1>2, ReadEntityIs DEF Entities
  <2>3. Edited("status", read)
    BY <2>2 DEF Edited
  <2>. QED
    BY <1>1, <2>1, <2>3, ExactChanged
<1>. QED
  BY <1>3, <1>4, <1>5

\* What replacing relation k leaves of an entity that was just read.
LEMMA ReadWith ==
  ASSUME DiscussionInv, NEW op \in {"assign", "replace", "unassign", "relate", "unrelate"},
         NEW k \in Relations, NEW entries \in SUBSET Entries
  PROVE  LET entity == WithRelation(ReadEntity(op), k, entries)
         IN /\ entity.column = column
            /\ \A n \in Relations : entity.relation[n] = IF n = k THEN entries ELSE relation[n]
<1>1. op \in Operations /\ Loaded(op) = Relations
  BY DEF Operations, Loaded, Relations
<1>. QED
  BY <1>1, ReadEntityIs, WithRelationType

LEMMA ExactRelationReads ==
  ASSUME DiscussionInv, ExactInv, NEW r \in Requests,
         ReadForUnassign(r) \/ ReadForRelate(r) \/ ReadForUnrelate(r)
  PROVE  ExactInv'
<1>1. /\ {"unassign", "relate", "unrelate"} \subseteq Operations
      /\ Relations = {"assignedDevelopers", "context"}
  BY DEF Operations, Relations
<1>2. relation["assignedDevelopers"] \subseteq Users /\ relation["context"] \subseteq Items
  BY DEF DiscussionInv, TypeOK
<1>3. CASE ReadForUnassign(r)
  <2>1. PICK u \in Users :
          /\ Asked(r, "unassign")
          /\ Found(r, "changed", WithRelation(ReadEntity("unassign"), "assignedDevelopers",
                                              relation["assignedDevelopers"] \ {u}))
    BY <1>2, <1>3 DEF ReadForUnassign
  <2> DEFINE entries == relation["assignedDevelopers"] \ {u}
             entity == WithRelation(ReadEntity("unassign"), "assignedDevelopers", entries)
  <2>2. entries \in SUBSET Entries
    BY <1>2 DEF Entries
  <2> HIDE DEF entries
  <2>3. /\ entity.column = column
        /\ entity.relation["assignedDevelopers"] = entries
        /\ entity.relation["context"] = relation["context"]
    BY <1>1, <2>2, ReadWith
  <2> HIDE DEF entity
  <2>4. Edited("unassign", entity)
    BY <2>3 DEF Edited, entries
  <2>. QED
    BY <1>1, <2>1, <2>4, ExactChanged DEF entity, entries
<1>4. CASE ReadForRelate(r)
  <2>1. PICK i \in Items :
          /\ Asked(r, "relate")
          /\ Found(r, "changed", WithRelation(ReadEntity("relate"), "context",
                                              relation["context"] \cup {i}))
    BY <1>4 DEF ReadForRelate
  <2> DEFINE entries == relation["context"] \cup {i}
             entity == WithRelation(ReadEntity("relate"), "context", entries)
  <2>2. entries \in SUBSET Entries
    BY <1>2 DEF Entries
  <2> HIDE DEF entries
  <2>3. /\ entity.column = column
        /\ entity.relation["context"] = entries
        /\ entity.relation["assignedDevelopers"] = relation["assignedDevelopers"]
    BY <1>1, <2>2, ReadWith
  <2> HIDE DEF entity
  <2>4. Edited("relate", entity)
    BY <2>3 DEF Edited, entries
  <2>. QED
    BY <1>1, <2>1, <2>4, ExactChanged DEF entity, entries
<1>5. CASE ReadForUnrelate(r)
  <2>1. PICK i \in Items :
          /\ Asked(r, "unrelate")
          /\ Found(r, "changed", WithRelation(ReadEntity("unrelate"), "context",
                                              relation["context"] \ {i}))
    BY <1>2, <1>5 DEF ReadForUnrelate
  <2> DEFINE entries == relation["context"] \ {i}
             entity == WithRelation(ReadEntity("unrelate"), "context", entries)
  <2>2. entries \in SUBSET Entries
    BY <1>2 DEF Entries
  <2> HIDE DEF entries
  <2>3. /\ entity.column = column
        /\ entity.relation["context"] = entries
        /\ entity.relation["assignedDevelopers"] = relation["assignedDevelopers"]
    BY <1>1, <2>2, ReadWith
  <2> HIDE DEF entity
  <2>4. Edited("unrelate", entity)
    BY <2>3 DEF Edited, entries
  <2>. QED
    BY <1>1, <2>1, <2>4, ExactChanged DEF entity, entries
<1>. QED
  BY <1>3, <1>4, <1>5

LEMMA ExactAssignmentRead ==
  ASSUME DiscussionInv, ExactInv, NEW r \in Requests, ReadForAssignment(r)
  PROVE  ExactInv'
<1> DEFINE q == [pc |-> "read", op |-> req[r].op, entity |-> ReadEntity(req[r].op), stale |-> FALSE]
<1>1. Exact(q)
  BY DEF Exact, ReadForAssignment
<1>2. req' = [req EXCEPT ![r] = q] /\ UNCHANGED rowVars
  BY DEF ReadForAssignment, Found
<1> HIDE DEF q
<1>. QED
  BY <1>1, <1>2, ExactMoves

LEMMA ExactResolve ==
  ASSUME DiscussionInv, ExactInv, NEW r \in Requests, ResolveDevelopers(r)
  PROVE  ExactInv'
<1>1. PICK developers \in SUBSET Users :
        /\ req[r].pc = "read"
        /\ req' = [req EXCEPT ![r] =
             [pc |-> "changed", op |-> req[r].op, stale |-> req[r].stale,
              entity |-> WithRelation(req[r].entity, "assignedDevelopers",
                                      KeptDevelopers(r) \cup developers)]]
        /\ UNCHANGED rowVars
  BY DEF ResolveDevelopers
<1> DEFINE entries == KeptDevelopers(r) \cup developers
           entity == WithRelation(req[r].entity, "assignedDevelopers", entries)
           q == [pc |-> "changed", op |-> req[r].op, stale |-> req[r].stale, entity |-> entity]
<1>2. ASSUME ~req[r].stale PROVE Edited(req[r].op, entity)
  <2>1. req[r].op \in {"assign", "replace"} /\ req[r].entity = ReadEntity(req[r].op)
    BY <1>1, <1>2 DEF ExactInv, Exact, Holding
  <2>2. /\ req[r].op \in Operations /\ Loaded(req[r].op) = Relations
        /\ Relations = {"assignedDevelopers", "context"}
    BY <2>1 DEF Operations, Loaded, Relations
  <2>3. req[r].entity.relation["assignedDevelopers"] = relation["assignedDevelopers"]
    BY <2>1, <2>2, ReadEntityIs
  <2>4. /\ KeptDevelopers(r) \subseteq Users
        /\ req[r].op = "assign" => relation["assignedDevelopers"] \subseteq entries
    BY <2>3 DEF KeptDevelopers, DiscussionInv, TypeOK
  <2>5. entries \in SUBSET Entries
    BY <2>4 DEF Entries
  <2> HIDE DEF entries
  <2>6. /\ entity.column = column
        /\ entity.relation["assignedDevelopers"] = entries
        /\ entity.relation["context"] = relation["context"]
    BY <2>1, <2>2, <2>5, ReadWith
  <2> HIDE DEF entity
  <2>. QED
    BY <2>1, <2>4, <2>6 DEF Edited
<1> HIDE DEF entity
<1>3. Exact(q)
  BY <1>2 DEF Exact, Holding
<1> HIDE DEF q
<1>4. req' = [req EXCEPT ![r] = q]
  BY <1>1 DEF q, entity
<1>. QED
  BY <1>1, <1>3, <1>4, ExactMoves

LEMMA ExactReload ==
  ASSUME DiscussionInv, ExactInv, NEW r \in Requests, Reload(r)
  PROVE  ExactInv'
<1> DEFINE op == req[r].op
           entity == req[r].entity
           diff == [columns |-> {k \in Columns : entity.column[k] # column[k]},
                    insert |-> [k \in Loaded(op) |-> entity.relation[k] \ relation[k]],
                    delete |-> [k \in Loaded(op) |-> relation[k] \ entity.relation[k]]]
           q == [pc |-> "reloaded", op |-> op, entity |-> entity, stale |-> req[r].stale,
                 diff |-> diff]
<1>1. req[r].pc = "changed" /\ req' = [req EXCEPT ![r] = q] /\ UNCHANGED rowVars
  BY DEF Reload
<1>2. ~req[r].stale => Edited(op, entity)
  BY <1>1 DEF ExactInv, Exact, Holding
<1>3. IsDifference(q)
  BY DEF IsDifference
<1> HIDE DEF diff
<1>4. Exact(q)
  BY <1>2, <1>3 DEF Exact
<1> HIDE DEF q
<1>. QED
  BY <1>1, <1>4, ExactMoves

\* Whoever holds the discussion while it changes becomes stale.
LEMMA ExactWrite ==
  ASSUME DiscussionInv, ExactInv, NEW r \in Requests, Write(r)
  PROVE  ExactInv'
<1>. SUFFICES ASSUME NEW p \in Requests PROVE Exact(req[p])'
  BY DEF ExactInv
<1>1. CASE req'[p].pc \notin Holding
  BY <1>1 DEF Exact
<1>2. CASE req[p].pc \in Holding /\ req'[p] = [req[p] EXCEPT !.stale = TRUE]
  <2>1. req'[p].stale
    BY <1>2, HoldingType DEF DiscussionInv, Reading, Saving, Holding
  <2>. QED
    BY <2>1 DEF Exact
<1>3. CASE req'[p] = req[p] /\ UNCHANGED rowVars
  BY <1>3 DEF ExactInv, Exact, Edited, IsDifference, ReadEntity, rowVars
<1>4. CASE req'[p] = req[p] /\ req[p].pc \notin Holding
  BY <1>4 DEF Exact
<1>5. req'[p] = IF p = r THEN NoRequest
                ELSE IF req[p].pc \in Holding /\ rowVars' # rowVars
                     THEN [req[p] EXCEPT !.stale = TRUE]
                     ELSE req[p]
  BY DEF Write, Holding
<1>. QED
  BY <1>1, <1>2, <1>3, <1>4, <1>5 DEF NoRequest, Holding

LEMMA ExactStep ==
  ASSUME DiscussionInv, ExactInv, [Next]_vars
  PROVE  ExactInv'
<1>1. ASSUME NEW r \in Requests, RequestStep(r) PROVE ExactInv'
  BY <1>1, ExactIdle, ExactColumnReads, ExactRelationReads, ExactAssignmentRead, ExactResolve,
     ExactReload, ExactWrite DEF RequestStep
<1>2. CASE UNCHANGED <<rowVars, req>>
  BY <1>2 DEF ExactInv, Exact, Edited, IsDifference, ReadEntity, rowVars
<1>. QED
  BY <1>1, <1>2 DEF Next, MembershipsChange, vars, rowVars

\* An undisturbed save turns the discussion into the entity.
LEMMA SavesEntity ==
  ASSUME DiscussionInv, ExactInv, NEW r \in Requests, Write(r), ~req[r].stale
  PROVE  /\ \A k \in Columns : column'[k] = req[r].entity.column[k]
         /\ \A k \in Relations : relation'[k] = IF k \in Loaded(req[r].op)
                                                THEN req[r].entity.relation[k] ELSE relation[k]
<1>1. req[r].pc = "reloaded" /\ IsDifference(req[r])
  BY DEF Write, ExactInv, Exact, Holding
<1>. QED
  BY <1>1 DEF Write, IsDifference, RelationAfter

\* Nothing is written but what the operation changes, unless the discussion was
\* written between its read and its save (discussion.service.ts:543-789,
\* discussion-context.service.ts:36-313).
THEOREM UndisturbedEdits == Spec => UndisturbedEditsAreExact
<1> DEFINE Does(r) ==
       \/ req[r].op = "update" /\ Keeps({"status"}, {"assignedDevelopers"})
       \/ req[r].op = "retitle" /\ Keeps({"status"}, Relations)
       \/ req[r].op = "status" /\ Keeps({"title"}, Relations)
       \/ /\ req[r].op = "assign" /\ Keeps(Columns, {"context"})
          /\ relation["assignedDevelopers"] \subseteq relation'["assignedDevelopers"]
       \/ req[r].op = "replace" /\ Keeps(Columns, {"context"})
       \/ /\ req[r].op = "unassign" /\ Keeps(Columns, {"context"})
          /\ \E u \in Users :
               relation'["assignedDevelopers"] = relation["assignedDevelopers"] \ {u}
       \/ /\ req[r].op = "relate" /\ Keeps(Columns, {"assignedDevelopers"})
          /\ \E i \in Items : relation'["context"] = relation["context"] \cup {i}
       \/ /\ req[r].op = "unrelate" /\ Keeps(Columns, {"assignedDevelopers"})
          /\ \E i \in Items : relation'["context"] = relation["context"] \ {i}
<1>1. ASSUME DiscussionInv, ExactInv, Next, NEW r \in Requests, Saves(r), ~req[r].stale
      PROVE  Does(r)
  <2>1. Write(r)
    BY <1>1, SaverWrites
  <2>2. Edited(req[r].op, req[r].entity) /\ req[r].op \in Operations
    BY <1>1, <2>1, HoldingType DEF Write, ExactInv, Exact, Holding, DiscussionInv
  <2>3. /\ \A k \in Columns : column'[k] = req[r].entity.column[k]
        /\ \A k \in Relations : relation'[k] = IF k \in Loaded(req[r].op)
                                               THEN req[r].entity.relation[k] ELSE relation[k]
    BY <1>1, <2>1, SavesEntity
  <2>4. /\ Columns = {"title", "status"}
        /\ Relations = {"assignedDevelopers", "context"}
        /\ \A op \in Operations :
             Loaded(op) = IF op = "status" THEN {}
                          ELSE IF op \in {"update", "retitle"} THEN {"context"} ELSE Relations
    BY DEF Columns, Relations, Loaded, Operations
  <2>5. CASE req[r].op \in {"update", "retitle", "status"}
    BY <2>2, <2>3, <2>4, <2>5 DEF Edited, Keeps
  <2>6. CASE req[r].op \in {"assign", "replace", "unassign"}
    <3>1. Keeps(Columns, {"context"})
      BY <2>2, <2>3, <2>4, <2>6 DEF Edited, Keeps
    <3>2. relation'["assignedDevelopers"] = req[r].entity.relation["assignedDevelopers"]
      BY <2>2, <2>3, <2>4, <2>6
    <3>. QED
      BY <2>2, <2>6, <3>1, <3>2 DEF Edited
  <2>7. CASE req[r].op \in {"relate", "unrelate"}
    <3>1. Keeps(Columns, {"assignedDevelopers"})
      BY <2>2, <2>3, <2>4, <2>7 DEF Edited, Keeps
    <3>2. relation'["context"] = req[r].entity.relation["context"]
      BY <2>2, <2>3, <2>4, <2>7
    <3>. QED
      BY <2>2, <2>7, <3>1, <3>2 DEF Edited
  <2>. QED
    BY <2>2, <2>5, <2>6, <2>7 DEF Operations
<1>2. Init => ExactInv
  BY DEF Init, ExactInv, Exact, NoRequest, Holding
<1>3. DiscussionInv /\ ExactInv /\ [Next]_vars => ExactInv'
  BY ExactStep
<1>4. DiscussionInv /\ ExactInv /\ [Next]_vars =>
        [\A r \in Requests : Saves(r) /\ ~req[r].stale => Does(r)]_vars
  BY <1>1
<1> HIDE DEF Does
<1>5. Spec => [][\A r \in Requests : Saves(r) /\ ~req[r].stale => Does(r)]_vars
  BY <1>2, <1>3, <1>4, DiscussionInvariant, PTL DEF Spec
<1>. QED
  BY <1>5 DEF UndisturbedEditsAreExact, Does

=============================================================================
