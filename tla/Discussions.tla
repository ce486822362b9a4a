---------------------------- MODULE Discussions ----------------------------
(***************************************************************************)
(* Concurrent edits of one discussion (discussion.service.ts and           *)
(* discussion-context.service.ts).  Every one of them reads the entity,    *)
(* changes it in memory and hands it whole to TypeORM's save.              *)
(*                                                                         *)
(* save reloads the row with the relations the entity has, compares, and   *)
(* writes the differences in one transaction: the columns that differ, the *)
(* join rows to insert and those to delete.  Whatever another request      *)
(* wrote between the first read and the reload counts as a difference.     *)
(*                                                                         *)
(* title stands for type too; context for the relations with work modules, *)
(* components and tags, which the code treats alike.                       *)
(***************************************************************************)
EXTENDS Naturals

CONSTANTS
  Users,     \* the users that may be assigned
  Items,     \* the work modules, components and tags of the organization
  Values,    \* the titles, and the statuses
  NewStatus, \* DiscussionStatus.NEW
  Requests,  \* the requests that may be in flight
  MaxEdits   \* a bound: how many edits are ever begun

ASSUME NewStatusIsValue == NewStatus \in Values

ASSUME MaxEditsIsNat == MaxEdits \in Nat

VARIABLES
  column,    \* column[k]: the columns of the row
  relation,  \* relation[k]: the entries of its join tables
  managers,  \* the users with an ACTIVE membership as OWNER, ADMIN or DEVELOPER
  req,       \* req[r]: where request r is
  edits,     \* the number of edits begun
  wereManagers  \* history: the users that have ever been managers

vars == <<column, relation, managers, req, edits, wereManagers>>
rowVars == <<column, relation>>
memberVars == <<managers, wereManagers>>

Columns == {"title", "status"}
Relations == {"assignedDevelopers", "context"}
Operations ==
  {"update", "retitle", "status", "assign", "replace", "unassign", "relate", "unrelate"}

\* Bug model: the status change reads the discussion as the others do.
LoadedAlways(op) == Relations

\* The relations each operation reads, and hence saves.
Loaded(op) ==
  CASE op = "status" -> {}
    [] op \in {"update", "retitle"} -> {"context"}
    [] OTHER -> Relations

Entries == Users \cup Items

Entities(op) == [column : [Columns -> Values], relation : [Loaded(op) -> SUBSET Entries]]

Differences(op) ==
  [columns : SUBSET Columns, insert : [Loaded(op) -> SUBSET Entries],
   delete : [Loaded(op) -> SUBSET Entries]]

\* stale: somebody wrote the discussion since the request read it.
Authorized == [pc : {"authorized"}, op : Operations]

Reading(op) == [pc : {"read", "changed"}, op : {op}, entity : Entities(op), stale : BOOLEAN]

Saving(op) ==
  [pc : {"reloaded"}, op : {op}, entity : Entities(op), stale : BOOLEAN, diff : Differences(op)]

NoRequest == [pc |-> "idle"]

RequestOK(r) ==
  \/ req[r] = NoRequest
  \/ req[r] \in Authorized
  \/ \E op \in Operations : req[r] \in Reading(op) \cup Saving(op)

TypeOK ==
  /\ column \in [Columns -> Values]
  /\ relation \in [Relations -> SUBSET Entries]
  /\ relation["assignedDevelopers"] \subseteq Users
  /\ relation["context"] \subseteq Items
  /\ managers \subseteq Users /\ wereManagers \subseteq Users
  /\ edits \in 0..MaxEdits
  /\ DOMAIN req = Requests
  /\ \A r \in Requests : RequestOK(r)

\* createDiscussion: NEW, nobody assigned, any context.
Init ==
  /\ column \in {c \in [Columns -> Values] : c["status"] = NewStatus}
  /\ relation \in {f \in [Relations -> SUBSET Items] : f["assignedDevelopers"] = {}}
  /\ managers \in SUBSET Users \ {{}}
  /\ wereManagers = managers
  /\ req = [r \in Requests |-> NoRequest]
  /\ edits = 0

-----------------------------------------------------------------------------
\* Roles, suspensions, departures and invitations of others.  The OWNER stays
\* (OneActiveOwner of Memberships), so there is always a manager.
MembershipsChange(u) ==
  /\ managers' \in {managers \cup {u}, managers \ {u}} \ {{}}
  /\ wereManagers' = wereManagers \cup managers'
  /\ UNCHANGED <<rowVars, req, edits>>

\* requireActiveMembership and assertCanManageDiscussion: a manager asks.  The
\* title may be changed by the creator too, whatever role that membership has.
Authorize(r, op) ==
  /\ req[r].pc = "idle"
  /\ edits < MaxEdits
  /\ op = "retitle" \/ managers # {}
  /\ req' = [req EXCEPT ![r] = [pc |-> "authorized", op |-> op]]
  /\ edits' = edits + 1
  /\ UNCHANGED <<rowVars, memberVars>>

Answer(r) == req' = [req EXCEPT ![r] = NoRequest]

\* 404, and 400 for what is related already or is not assignable.
Refuse(r) ==
  /\ req[r].pc \in {"authorized", "read"}
  /\ Answer(r)
  /\ UNCHANGED <<rowVars, memberVars, edits>>

\* What findOne returns to an operation.
ReadEntity(op) == [column |-> column, relation |-> [k \in Loaded(op) |-> relation[k]]]

Found(r, pc, entity) ==
  /\ req' = [req EXCEPT ![r] =
       [pc |-> pc, op |-> req[r].op, entity |-> entity, stale |-> FALSE]]
  /\ UNCHANGED <<rowVars, memberVars, edits>>

Asked(r, op) == req[r].pc = "authorized" /\ req[r].op = op

WithRelation(entity, k, entries) ==
  [entity EXCEPT !.relation = [n \in DOMAIN @ |-> IF n = k THEN entries ELSE @[n]]]

-----------------------------------------------------------------------------
(* updateDiscussion, updateDiscussionStatus                                *)

\* Only the parts of the body that are present are replaced; the read value
\* stands for one that is absent.
ReadForUpdate(r) ==
  \E title \in Values, context \in SUBSET Items :
    LET entity == ReadEntity("update") IN
    /\ Asked(r, "update")
    /\ Found(r, "changed",
             WithRelation([entity EXCEPT !.column["title"] = title], "context", context))

\* Without the context arrays.
ReadForRetitle(r) ==
  \E title \in Values :
    /\ Asked(r, "retitle")
    /\ Found(r, "changed", [ReadEntity("retitle") EXCEPT !.column["title"] = title])

ReadForStatus(r) ==
  \E status \in Values :
    /\ Asked(r, "status")
    /\ Found(r, "changed", [ReadEntity("status") EXCEPT !.column["status"] = status])

-----------------------------------------------------------------------------
(* The assignments.                                                        *)

ReadForAssignment(r) ==
  /\ req[r].pc = "authorized"
  /\ req[r].op \in {"assign", "replace"}
  /\ Found(r, "read", ReadEntity(req[r].op))

\* Bug model: a membership is enough, in whatever role and status.
AssignableAlways(u) == TRUE

Assignable(u) == u \in managers

\* Bug model: the added developers replace the others.
KeptDevelopersNone(r) == {}

KeptDevelopers(r) ==
  IF req[r].op = "assign" THEN req[r].entity.relation["assignedDevelopers"] ELSE {}

\* resolveAssignableDevelopersByIds reads the memberships of the users named
\* in the body.
ResolveDevelopers(r) ==
  \E developers \in SUBSET Users :
    /\ req[r].pc = "read"
    /\ \A u \in developers : Assignable(u)
    /\ req' = [req EXCEPT ![r] =
         [pc |-> "changed", op |-> @.op, stale |-> @.stale,
          entity |-> WithRelation(@.entity, "assignedDevelopers",
                                  KeptDevelopers(r) \cup developers)]]
    /\ UNCHANGED <<rowVars, memberVars, edits>>

ReadForUnassign(r) ==
  \E u \in relation["assignedDevelopers"] :
    /\ Asked(r, "unassign")
    /\ Found(r, "changed", WithRelation(ReadEntity("unassign"), "assignedDevelopers",
                                        relation["assignedDevelopers"] \ {u}))

-----------------------------------------------------------------------------
(* discussion-context.service.ts                                           *)

ReadForRelate(r) ==
  \E i \in Items \ relation["context"] :
    /\ Asked(r, "relate")
    /\ Found(r, "changed",
             WithRelation(ReadEntity("relate"), "context", relation["context"] \cup {i}))

ReadForUnrelate(r) ==
  \E i \in relation["context"] :
    /\ Asked(r, "unrelate")
    /\ Found(r, "changed",
             WithRelation(ReadEntity("unrelate"), "context", relation["context"] \ {i}))

-----------------------------------------------------------------------------
(* discussionRepository.save                                               *)

Reload(r) ==
  LET entity == req[r].entity IN
  /\ req[r].pc = "changed"
  /\ req' = [req EXCEPT ![r] =
       [pc |-> "reloaded", op |-> @.op, entity |-> @.entity, stale |-> @.stale,
        diff |-> [columns |-> {k \in Columns : entity.column[k] # column[k]},
                  insert |-> [k \in Loaded(@.op) |-> entity.relation[k] \ relation[k]],
                  delete |-> [k \in Loaded(@.op) |-> relation[k] \ entity.relation[k]]]]]
  /\ UNCHANGED <<rowVars, memberVars, edits>>

\* The primary keys of the join tables admit an entry once.
Insertable(r) ==
  \A k \in Loaded(req[r].op) : req[r].diff.insert[k] \cap relation[k] = {}

RelationAfter(r, k) ==
  IF k \in Loaded(req[r].op)
  THEN (relation[k] \cup req[r].diff.insert[k]) \ req[r].diff.delete[k]
  ELSE relation[k]

Write(r) ==
  /\ req[r].pc = "reloaded"
  /\ Insertable(r)
  /\ column' = [k \in Columns |->
       IF k \in req[r].diff.columns THEN req[r].entity.column[k] ELSE column[k]]
  /\ relation' = [k \in Relations |-> RelationAfter(r, k)]
  /\ req' = [p \in Requests |->
       IF p = r THEN NoRequest
       ELSE IF req[p].pc \in {"read", "changed", "reloaded"} /\ rowVars' # rowVars
            THEN [req[p] EXCEPT !.stale = TRUE]
            ELSE req[p]]
  /\ UNCHANGED <<memberVars, edits>>

\* 23505 on a join table, a deadlock, or any other error: a 500, and the
\* transaction of save is rolled back.
SaveFails(r) ==
  /\ req[r].pc \in {"changed", "reloaded"}
  /\ Answer(r)
  /\ UNCHANGED <<rowVars, memberVars, edits>>

-----------------------------------------------------------------------------
RequestStep(r) ==
  \/ \E op \in Operations : Authorize(r, op)
  \/ Refuse(r)
  \/ ReadForUpdate(r) \/ ReadForRetitle(r) \/ ReadForStatus(r)
  \/ ReadForAssignment(r) \/ ResolveDevelopers(r) \/ ReadForUnassign(r)
  \/ ReadForRelate(r) \/ ReadForUnrelate(r)
  \/ Reload(r) \/ Write(r) \/ SaveFails(r)

Next ==
  \/ \E r \in Requests : RequestStep(r)
  \/ \E u \in Users : MembershipsChange(u)

Spec == Init /\ [][Next]_vars

-----------------------------------------------------------------------------
(* Properties.                                                             *)

\* r saves in this step.
Saves(r) == req[r].pc = "reloaded" /\ req'[r].pc = "idle" /\ rowVars' # rowVars

\* The step leaves these columns and relations alone.
Keeps(columns, relations) ==
  /\ \A k \in columns : column'[k] = column[k]
  /\ \A k \in relations : relation'[k] = relation[k]

\* However stale the entity it saves, a change of status touches no relation
\* and an edit of the discussion no assignment: what findOne did not load is
\* not written (discussion.service.ts:557-560, 645-651).
UnloadedRelationsKept ==
  [][\A r \in Requests : Saves(r) =>
       /\ req[r].op = "status" => relation' = relation
       /\ req[r].op \in {"update", "retitle"} =>
            relation'["assignedDevelopers"] = relation["assignedDevelopers"]]_vars

\* When nobody else wrote since the request read the discussion, its save does
\* what the operation says and nothing besides: the reload and the comparison
\* never add changes of their own (discussion.service.ts:543-789,
\* discussion-context.service.ts:36-313).
UndisturbedEditsAreExact ==
  [][\A r \in Requests : Saves(r) /\ ~req[r].stale =>
       \/ req[r].op = "update" /\ Keeps({"status"}, {"assignedDevelopers"})
       \/ req[r].op = "retitle" /\ Keeps({"status"}, Relations)
       \/ req[r].op = "status" /\ Keeps({"title"}, Relations)
       \/ /\ req[r].op = "assign" /\ Keeps(Columns, {"context"})
          /\ relation["assignedDevelopers"] \subseteq relation'["assignedDevelopers"]
       \/ req[r].op = "replace" /\ Keeps(Columns, {"context"})
       \/ /\ req[r].op = "unassign" /\ Keeps(Columns, {"context"})
          /\ \E u \in Users :
               relation'["assignedDevelopers"] = relation["assignedDevelopers"] \ {u}
       \/ /\ req[r].op = "relate" /\ Keeps(Columns, {"assignedDevelopers"})
          /\ \E i \in Items : relation'["context"] = relation["context"] \cup {i}
       \/ /\ req[r].op = "unrelate" /\ Keeps(Columns, {"assignedDevelopers"})
          /\ \E i \in Items : relation'["context"] = relation["context"] \ {i}]_vars

\* Whoever is assigned was ACTIVE in an assignable role at some time, also when
\* a stale save brings an assignment back or two saves mix
\* (discussion.service.ts:308-316).
AssignedWereManagers == relation["assignedDevelopers"] \subseteq wereManagers

\* docs/workspace-endpoints.md:446 says of POST .../assignments that it adds
\* assigned developers: such a request takes no assignment away.
AdditionsOnlyAdd ==
  [][\A r \in Requests : Saves(r) /\ req[r].op = "assign" =>
       relation["assignedDevelopers"] \subseteq relation'["assignedDevelopers"]]_vars

=============================================================================
