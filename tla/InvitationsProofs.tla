------------------------- MODULE InvitationsProofs -------------------------
(***************************************************************************)
(* Theorems of the composition of memberships and invitations.  The        *)
(* membership requests keep the invariant of MembershipsProofs; what is    *)
(* added is that the one other writer of a membership row, the acceptance  *)
(* of an invitation, only ever writes the role of an invitation that       *)
(* exists, is addressed to the user, and does not grant OWNER.             *)
(***************************************************************************)
EXTENDS Invitations, MembershipsProofs, FiniteSetTheorems

\* What the reads of an invitation request guarantee about what it holds,
\* given the rows as they are now.
CallChecked(q, rows) ==
  /\ q.pc \in {"inviteeChecked", "outdatedExpired", "insert", "invitationRead", "accept"}
       => q.role # "OWNER"
  /\ q.pc \in {"cancel", "invitationRead", "accept"}
       => q.inv \in InvitationIds /\ rows[q.inv].status # NoRow
  /\ q.pc \in {"invitationRead", "accept"}
       => rows[q.inv].user = q.user /\ rows[q.inv].role = q.role

\* No invitation grants OWNER.
Grantable(rows) ==
  \A i \in InvitationIds : rows[i].status # NoRow => rows[i].role # "OWNER"

CallsChecked == \A c \in Calls : CallChecked(call[c], inv)

InvitationInv ==
  MembershipInv /\ InvitationTypeOK /\ Grantable(inv) /\ CallsChecked

\* A row that exists keeps its addressee and its role.
RowsKept ==
  \A i \in InvitationIds :
    inv[i].status # NoRow => /\ inv'[i].status # NoRow
                             /\ inv'[i].user = inv[i].user
                             /\ inv'[i].role = inv[i].role

-----------------------------------------------------------------------------
LEMMA NoCallTyped ==
  /\ NoCall \in CallState /\ NoCall.pc = "idle"
  /\ \A rows : CallChecked(NoCall, rows)
  BY OwnerIsUser DEF NoCall, CallState, CallChecked, Roles, NoRow

LEMMA InvitationInitInv == InvitationInit => InvitationInv
<1> SUFFICES ASSUME InvitationInit PROVE InvitationInv
  OBVIOUS
<1>1. MembershipInv
  BY InitInv DEF InvitationInit
<1>2. /\ inv = [i \in InvitationIds |->
                  [status |-> NoRow, user |-> Owner, role |-> "MEMBER"]]
      /\ overdue = {}
      /\ call = [c \in Calls |-> NoCall]
  BY DEF InvitationInit
<1>3. InvitationTypeOK
  BY <1>1, <1>2, NoCallTyped, OwnerIsUser
     DEF InvitationTypeOK, MembershipInv, InvitationRows, Roles
<1>4. Grantable(inv) /\ CallsChecked
  BY <1>2, NoCallTyped DEF Grantable, CallsChecked
<1>5. QED
  BY <1>1, <1>3, <1>4 DEF InvitationInv

\* A call that moves to a checked state, over rows that keep what others read.
LEMMA CallMoves ==
  ASSUME InvitationInv, MembershipInv', NEW c \in Calls, NEW q \in CallState,
         Goto(c, q), CallChecked(q, inv'), RowsKept, Grantable(inv)',
         inv' \in [InvitationIds -> InvitationRows], overdue' = overdue
  PROVE  InvitationInv'
<1>1. call' \in [Calls -> CallState]
  BY DEF InvitationInv, InvitationTypeOK, Goto
<1>2. InvitationTypeOK'
  BY <1>1 DEF InvitationInv, InvitationTypeOK, MembershipInv
<1>3. ASSUME NEW d \in Calls PROVE CallChecked(call'[d], inv')
  <2>1. CASE d = c
    BY <2>1 DEF Goto, InvitationInv, InvitationTypeOK
  <2>2. CASE d # c
    <3>1. call'[d] = call[d] /\ CallChecked(call[d], inv)
      BY <2>2 DEF Goto, InvitationInv, InvitationTypeOK, CallsChecked
    <3>2. QED
      BY <3>1 DEF CallChecked, RowsKept
  <2>3. QED
    BY <2>1, <2>2
<1>4. QED
  BY <1>2, <1>3 DEF InvitationInv, CallsChecked

LEMMA MembershipUnchanged ==
  ASSUME MembershipInv, UNCHANGED vars
  PROVE  MembershipInv'
  BY NextInv

\* Most steps of a call read, and leave every row as it is.
LEMMA CallReads ==
  ASSUME InvitationInv, NEW c \in Calls, NEW q \in CallState,
         Goto(c, q), CallChecked(q, inv), UNCHANGED <<vars, inv, overdue>>
  PROVE  InvitationInv'
<1>1. MembershipInv'
  BY MembershipUnchanged DEF InvitationInv
<1>2. RowsKept /\ Grantable(inv)' /\ inv' \in [InvitationIds -> InvitationRows]
  BY DEF RowsKept, InvitationInv, Grantable, InvitationTypeOK
<1>3. QED
  BY <1>1, <1>2, CallMoves

LEMMA AnswerInv ==
  ASSUME InvitationInv, NEW c \in Calls, Answer(c), UNCHANGED <<vars, inv, overdue>>
  PROVE  InvitationInv'
  BY NoCallTyped, CallReads DEF Answer

\* Marking outdated rows EXPIRED touches nothing but their status.
LEMMA ExpireKeeps ==
  ASSUME InvitationInv, NEW scope, ExpireOutdated(scope)
  PROVE  /\ RowsKept /\ Grantable(inv)'
         /\ inv' \in [InvitationIds -> InvitationRows]
         /\ \A i \in InvitationIds : inv[i].status = "ACCEPTED" => inv'[i] = inv[i]
         /\ \A i \in InvitationIds : inv'[i].status = "ACCEPTED" => inv'[i] = inv[i]
  BY DEF InvitationInv, InvitationTypeOK, ExpireOutdated, InvitationRows,
         InvitationStatuses, NoRow, RowsKept, Grantable

-----------------------------------------------------------------------------
(* The acceptance.                                                         *)

\* What a committing acceptance writes when its WHERE clause still matches.
LEMMA JoinFacts ==
  ASSUME InvitationInv, NEW c \in Calls, CommitAccept(c),
         JoinWhere(call[c].user, call[c].hasRow)
  PROVE  LET q == call[c] IN
         /\ q.user \in Users \ {Owner} /\ q.role \in GrantableRoles
         /\ q.inv \in InvitationIds /\ inv[q.inv].status # NoRow
         /\ inv[q.inv].user = q.user /\ inv[q.inv].role = q.role
         /\ status[q.user] \in {NoRow, "LEFT"}
         /\ role' = [role EXCEPT ![q.user] = q.role]
         /\ status' = [status EXCEPT ![q.user] = "ACTIVE"]
         /\ inv' = [inv EXCEPT ![q.inv].status = "ACCEPTED"]
         /\ UNCHANGED req
<1> DEFINE q == call[c]
<1>1. q \in CallState /\ CallChecked(q, inv) /\ q.pc = "accept"
  BY DEF InvitationInv, InvitationTypeOK, CallsChecked, CommitAccept
<1>2. status[q.user] \in {NoRow, "LEFT"}
  BY DEF JoinWhere
<1>3. q.user \in Users \ {Owner} /\ q.role \in GrantableRoles
  BY <1>1, <1>2 DEF CallState, CallChecked, GrantableRoles, InvitationInv, MembershipInv,
                    OneActiveOwner, NoRow
<1>4. /\ role' = [role EXCEPT ![q.user] = q.role]
      /\ status' = [status EXCEPT ![q.user] = "ACTIVE"]
      /\ inv' = [inv EXCEPT ![q.inv].status = "ACCEPTED"]
      /\ UNCHANGED req
  BY DEF CommitAccept, AcceptWrites, MarkAccepted
<1>5. QED
  BY <1>1, <1>2, <1>3, <1>4 DEF CallChecked

LEMMA JoinKeepsMemberships ==
  ASSUME MembershipInv, NEW u \in Users \ {Owner}, NEW r \in GrantableRoles,
         role' = [role EXCEPT ![u] = r], status' = [status EXCEPT ![u] = "ACTIVE"],
         UNCHANGED req
  PROVE  MembershipInv'
<1>1. TypeOK'
  BY DEF MembershipInv, TypeOK, GrantableRoles, Roles, Statuses, NoRow
<1>2. OneActiveOwner'
  BY OwnerIsUser DEF MembershipInv, TypeOK, OneActiveOwner, GrantableRoles
<1>3. RequestsChecked'
  BY DEF MembershipInv, RequestsChecked, Checked
<1>4. QED
  BY <1>1, <1>2, <1>3 DEF MembershipInv

LEMMA CommitAcceptInv ==
  ASSUME InvitationInv, NEW c \in Calls, CommitAccept(c)
  PROVE  InvitationInv'
<1> DEFINE q == call[c]
<1>1. CASE JoinWhere(q.user, q.hasRow)
  <2>1. MembershipInv'
    BY <1>1, JoinFacts, JoinKeepsMemberships DEF InvitationInv
  <2>2. /\ q.inv \in InvitationIds /\ inv[q.inv].status # NoRow
        /\ inv' = [inv EXCEPT ![q.inv].status = "ACCEPTED"]
    BY <1>1, JoinFacts
  <2>3. RowsKept /\ Grantable(inv)' /\ inv' \in [InvitationIds -> InvitationRows]
    BY <2>2 DEF InvitationInv, InvitationTypeOK, InvitationRows, InvitationStatuses,
                RowsKept, Grantable, NoRow
  <2>4. QED
    BY <2>1, <2>3, NoCallTyped, CallMoves DEF CommitAccept, Answer
<1>2. CASE ~JoinWhere(q.user, q.hasRow)
  <2>1. UNCHANGED <<vars, inv, overdue>>
    BY <1>2 DEF CommitAccept, AcceptWrites, memberVars, vars
  <2>2. QED
    BY <2>1, AnswerInv DEF CommitAccept
<1>3. QED
  BY <1>1, <1>2

-----------------------------------------------------------------------------
(* Inductiveness.                                                          *)

LEMMA CallStepInv ==
  ASSUME InvitationInv, NEW c \in Calls, CallStep(c)
  PROVE  InvitationInv'
<1> DEFINE q == call[c]
<1>q. q \in CallState /\ CallChecked(q, inv)
  BY DEF InvitationInv, InvitationTypeOK, CallsChecked
<1>1. ASSUME NEW u \in Users, AuthorizeInviter(c, u) PROVE InvitationInv'
  <2> DEFINE next == [NoCall EXCEPT !.pc = "mayInvite", !.user = u]
  <2>1. next \in CallState /\ CallChecked(next, inv)
    BY NoCallTyped DEF NoCall, CallState, CallChecked
  <2>2. QED
    BY <1>1, <2>1, CallReads DEF AuthorizeInviter
<1>2. ASSUME NEW u \in Users, NEW r \in InvitedRoles, CheckInvitee(c, u, r)
      PROVE  InvitationInv'
  <2> DEFINE next == [NoCall EXCEPT !.pc = "inviteeChecked", !.user = u, !.role = r]
  <2>1. CASE Invitable(q.user, u, r)
    <3>1. next \in CallState /\ CallChecked(next, inv)
      BY <2>1, NoCallTyped, InvitedRolesAreRoles DEF NoCall, CallState, CallChecked, Invitable
    <3>2. QED
      BY <1>2, <2>1, <3>1, CallReads DEF CheckInvitee
  <2>2. CASE ~Invitable(q.user, u, r)
    BY <1>2, <2>2, AnswerInv DEF CheckInvitee
  <2>3. QED
    BY <2>1, <2>2
<1>3. CASE ExpireForInvitee(c)
  <2> DEFINE next == [q EXCEPT !.pc = "outdatedExpired"]
  <2>1. next \in CallState /\ CallChecked(next, inv')
    BY <1>q, <1>3 DEF CallState, CallChecked, ExpireForInvitee
  <2>2. QED
    BY <1>3, <2>1, ExpireKeeps, MembershipUnchanged, CallMoves
       DEF ExpireForInvitee, InvitationInv
<1>4. CASE CheckPending(c)
  <2> DEFINE next == [q EXCEPT !.pc = "insert"]
  <2>1. next \in CallState /\ CallChecked(next, inv)
    BY <1>q, <1>4 DEF CallState, CallChecked, CheckPending
  <2>2. QED
    BY <1>4, <2>1, CallReads, AnswerInv DEF CheckPending
<1>5. ASSUME NEW i \in InvitationIds, InsertInvitation(c, i) PROVE InvitationInv'
  <2>1. /\ inv[i].status = NoRow /\ q.role # "OWNER"
        /\ inv' = [inv EXCEPT ![i] = [status |-> "PENDING", user |-> q.user,
                                      role |-> q.role]]
    BY <1>q, <1>5 DEF InsertInvitation, CallChecked
  <2>2. RowsKept /\ Grantable(inv)' /\ inv' \in [InvitationIds -> InvitationRows]
    BY <1>q, <2>1 DEF InvitationInv, InvitationTypeOK, InvitationRows, InvitationStatuses,
                      RowsKept, Grantable, NoRow, CallState
  <2>3. MembershipInv'
    BY <1>5, MembershipUnchanged DEF InsertInvitation, InvitationInv
  <2>4. QED
    BY <1>5, <2>2, <2>3, NoCallTyped, CallMoves DEF InsertInvitation, Answer
<1>6. ASSUME NEW u \in Users, AuthorizeManager(c, u) PROVE InvitationInv'
  <2> DEFINE next == [NoCall EXCEPT !.pc = "mayCancel", !.user = u]
  <2>1. next \in CallState /\ CallChecked(next, inv)
    BY NoCallTyped DEF NoCall, CallState, CallChecked
  <2>2. QED
    BY <1>6, <2>1, CallReads DEF AuthorizeManager
<1>7. CASE ExpireForOrganization(c)
  <2> DEFINE next == [q EXCEPT !.pc = "cancelExpired"]
  <2>1. next \in CallState /\ CallChecked(next, inv')
    BY <1>q, <1>7 DEF CallState, CallChecked, ExpireForOrganization
  <2>2. MembershipInv' /\ overdue' = overdue /\ ExpireOutdated(InvitationIds)
    BY <1>7, MembershipUnchanged DEF ExpireForOrganization, InvitationInv
  <2>3. CASE Goto(c, next)
    BY <2>1, <2>2, <2>3, ExpireKeeps, CallMoves
  <2>4. CASE Answer(c)
    BY <2>2, <2>4, NoCallTyped, ExpireKeeps, CallMoves DEF Answer
  <2>5. QED
    BY <1>7, <2>3, <2>4 DEF ExpireForOrganization
<1>8. ASSUME NEW u \in Users, ExpireForUser(c, u) PROVE InvitationInv'
  <2>1. MembershipInv' /\ ExpireOutdated(InvitationsOf(u)) /\ UNCHANGED <<overdue, call>>
    BY <1>8, MembershipUnchanged DEF ExpireForUser, InvitationInv
  <2>2. RowsKept /\ Grantable(inv)' /\ inv' \in [InvitationIds -> InvitationRows]
    BY <2>1, ExpireKeeps
  <2>3. Goto(c, q) /\ CallChecked(q, inv')
    BY <1>q, <2>1, <2>2 DEF Goto, CallChecked, RowsKept, InvitationInv, InvitationTypeOK
  <2>4. QED
    BY <1>q, <2>1, <2>2, <2>3, CallMoves
<1>9. ASSUME NEW i \in InvitationIds, ReadForCancel(c, i) PROVE InvitationInv'
  <2> DEFINE next == [q EXCEPT !.pc = "cancel", !.inv = i]
  <2>1. CASE inv[i].status = "PENDING"
    <3>1. next \in CallState /\ CallChecked(next, inv)
      BY <1>q, <2>1 DEF CallState, CallChecked, NoRow
    <3>2. QED
      BY <1>9, <2>1, <3>1, CallReads DEF ReadForCancel
  <2>2. CASE inv[i].status # "PENDING"
    BY <1>9, <2>2, AnswerInv DEF ReadForCancel
  <2>3. QED
    BY <2>1, <2>2
<1>10. CASE UpdateCancelled(c)
  <2>1. MembershipInv' /\ overdue' = overdue /\ Answer(c)
    BY <1>10, MembershipUnchanged DEF UpdateCancelled, InvitationInv
  <2>2. q.inv \in InvitationIds /\ inv[q.inv].status # NoRow
    BY <1>q, <1>10 DEF UpdateCancelled, CallChecked
  <2>3. RowsKept /\ Grantable(inv)' /\ inv' \in [InvitationIds -> InvitationRows]
    BY <1>10, <2>2 DEF UpdateCancelled, InvitationInv, InvitationTypeOK, InvitationRows,
                       InvitationStatuses, RowsKept, Grantable, NoRow
  <2>4. QED
    BY <2>1, <2>3, NoCallTyped, CallMoves DEF Answer
<1>11. ASSUME NEW u \in Users, NEW i \in InvitationIds, ReadInvitation(c, u, i)
       PROVE  InvitationInv'
  <2> DEFINE next == [NoCall EXCEPT !.pc = "invitationRead", !.user = u, !.inv = i,
                                    !.role = inv[i].role]
  <2>1. inv[i].status = "PENDING" /\ inv[i].user = u
    BY <1>11 DEF ReadInvitation, Acceptable, Live
  <2>2. inv[i].role \in Roles /\ inv[i].role # "OWNER"
    BY <2>1 DEF InvitationInv, InvitationTypeOK, InvitationRows, Grantable, NoRow
  <2>3. next \in CallState /\ CallChecked(next, inv)
    BY <2>1, <2>2, NoCallTyped DEF NoCall, CallState, CallChecked, NoRow
  <2>4. QED
    BY <1>11, <2>3, CallReads DEF ReadInvitation
<1>12. CASE ReadMembership(c)
  <2> DEFINE next == [q EXCEPT !.pc = "accept", !.hasRow = (status[q.user] = "LEFT")]
  <2>1. next \in CallState /\ CallChecked(next, inv)
    BY <1>q, <1>12 DEF CallState, CallChecked, ReadMembership
  <2>2. QED
    BY <1>12, <2>1, CallReads, AnswerInv DEF ReadMembership
<1>13. CASE CommitAccept(c)
  BY <1>13, CommitAcceptInv
<1>14. QED
  BY <1>1, <1>2, <1>3, <1>4, <1>5, <1>6, <1>7, <1>8, <1>9, <1>10, <1>11, <1>12, <1>13
     DEF CallStep

LEMMA InvitationNextInv == InvitationInv /\ [InvitationNext]_allVars => InvitationInv'
<1> SUFFICES ASSUME InvitationInv, [InvitationNext]_allVars PROVE InvitationInv'
  OBVIOUS
<1>1. CASE UNCHANGED invitationVars /\ [Next]_vars
  <2>1. MembershipInv'
    BY <1>1, NextInv DEF InvitationInv
  <2>2. InvitationTypeOK' /\ Grantable(inv)' /\ CallsChecked'
    BY <1>1, <2>1 DEF invitationVars, InvitationInv, MembershipInv, InvitationTypeOK,
                      Grantable, CallsChecked, CallChecked
  <2>3. QED
    BY <2>1, <2>2 DEF InvitationInv
<1>2. ASSUME NEW i \in InvitationIds, TimePasses(i) PROVE InvitationInv'
  <2>1. MembershipInv'
    BY <1>2, MembershipUnchanged DEF TimePasses, InvitationInv
  <2>2. InvitationTypeOK' /\ Grantable(inv)' /\ CallsChecked'
    BY <1>2, <2>1 DEF TimePasses, InvitationInv, MembershipInv, InvitationTypeOK,
                      Grantable, CallsChecked, CallChecked
  <2>3. QED
    BY <2>1, <2>2 DEF InvitationInv
<1>3. QED
  BY <1>1, <1>2, CallStepInv DEF InvitationNext, allVars, vars, invitationVars

\* The invariant of the composition, for any number of users, requests,
\* invitations and calls.
THEOREM InvitationInvariant == InvitationSpec => []InvitationInv
  BY InvitationInitInv, InvitationNextInv, PTL DEF InvitationSpec

\* The shapes of the rows and of what the calls hold.
THEOREM InvitationTypeCorrect == InvitationSpec => []InvitationTypeOK
<1>1. InvitationInv => InvitationTypeOK
  BY DEF InvitationInv
<1>2. QED
  BY <1>1, InvitationInvariant, PTL

\* Invitations do not give the organization a second OWNER.
THEOREM OwnerIsProtectedFromInvitations == InvitationSpec => []OneActiveOwner
<1>1. InvitationInv => OneActiveOwner
  BY DEF InvitationInv, MembershipInv
<1>2. QED
  BY <1>1, InvitationInvariant, PTL

-----------------------------------------------------------------------------
(* Action properties.                                                      *)

\* No step but a committing acceptance turns an invitation ACCEPTED or away
\* from ACCEPTED.
SameAccepted ==
  \A i \in InvitationIds : inv'[i].status = "ACCEPTED" <=> inv[i].status = "ACCEPTED"

JoinCommits(c) == CommitAccept(c) /\ JoinWhere(call[c].user, call[c].hasRow)

LEMMA CallEffect ==
  ASSUME InvitationInv, NEW c \in Calls, CallStep(c)
  PROVE  (UNCHANGED vars /\ SameAccepted) \/ JoinCommits(c)
<1>1. ASSUME UpdateCancelled(c) PROVE UNCHANGED vars /\ SameAccepted
  <2>1. call[c].inv \in InvitationIds
    BY <1>1 DEF UpdateCancelled, InvitationInv, CallsChecked, CallChecked
  <2>2. QED
    BY <1>1, <2>1 DEF UpdateCancelled, CancelWhere, SameAccepted, InvitationInv,
                      InvitationTypeOK, InvitationRows
<1>2. ASSUME NEW scope, ExpireOutdated(scope) PROVE SameAccepted
  BY <1>2, ExpireKeeps DEF SameAccepted
<1>3. CASE CommitAccept(c)
  BY <1>3 DEF CommitAccept, AcceptWrites, SameAccepted, JoinCommits, memberVars, vars
<1>4. ASSUME NEW i \in InvitationIds, InsertInvitation(c, i) PROVE SameAccepted
  BY <1>4 DEF InsertInvitation, SameAccepted, InvitationInv, InvitationTypeOK, NoRow
<1>5. CASE ExpireForInvitee(c)
  BY <1>2, <1>5 DEF ExpireForInvitee
<1>6. CASE ExpireForOrganization(c)
  BY <1>2, <1>6 DEF ExpireForOrganization
<1>7. ASSUME NEW u \in Users, ExpireForUser(c, u) PROVE UNCHANGED vars /\ SameAccepted
  BY <1>2, <1>7 DEF ExpireForUser
<1>8. ASSUME UNCHANGED <<vars, inv>> PROVE UNCHANGED vars /\ SameAccepted
  BY <1>8 DEF SameAccepted
<1>9. CASE CheckPending(c) \/ ReadMembership(c)
  BY <1>8, <1>9 DEF CheckPending, ReadMembership
<1>10. ASSUME NEW u \in Users, AuthorizeInviter(c, u) \/ AuthorizeManager(c, u)
       PROVE  UNCHANGED vars /\ SameAccepted
  BY <1>8, <1>10 DEF AuthorizeInviter, AuthorizeManager
<1>11. ASSUME NEW u \in Users, NEW r \in InvitedRoles, CheckInvitee(c, u, r)
       PROVE  UNCHANGED vars /\ SameAccepted
  BY <1>8, <1>11 DEF CheckInvitee
<1>12. ASSUME NEW i \in InvitationIds, ReadForCancel(c, i)
       PROVE  UNCHANGED vars /\ SameAccepted
  BY <1>8, <1>12 DEF ReadForCancel
<1>13. ASSUME NEW u \in Users, NEW i \in InvitationIds, ReadInvitation(c, u, i)
       PROVE  UNCHANGED vars /\ SameAccepted
  BY <1>8, <1>13 DEF ReadInvitation
<1>14. ASSUME NEW i \in InvitationIds, InsertInvitation(c, i)
       PROVE  UNCHANGED vars /\ SameAccepted
  BY <1>4, <1>14 DEF InsertInvitation
<1>15. QED
  BY <1>1, <1>3, <1>5, <1>6, <1>7, <1>9, <1>10, <1>11, <1>12, <1>13, <1>14
     DEF CallStep

\* Every step of the composition is one of three kinds.
LEMMA StepKinds ==
  ASSUME InvitationInv, [InvitationNext]_allVars
  PROVE  \/ MembershipInv /\ [Next]_vars /\ UNCHANGED inv
         \/ UNCHANGED vars /\ SameAccepted
         \/ \E c \in Calls : JoinCommits(c)
<1>1. MembershipInv
  BY DEF InvitationInv
<1>2. QED
  BY <1>1, CallEffect
     DEF InvitationNext, TimePasses, SameAccepted, invitationVars, allVars, vars

LEMMA JoinCommitFacts ==
  ASSUME InvitationInv, NEW c \in Calls, JoinCommits(c)
  PROVE  \E u \in Users \ {Owner}, r \in GrantableRoles, i \in InvitationIds :
           /\ inv[i].user = u /\ inv[i].role = r
           /\ status[u] \in {NoRow, "LEFT"}
           /\ role' = [role EXCEPT ![u] = r]
           /\ status' = [status EXCEPT ![u] = "ACTIVE"]
           /\ inv' = [inv EXCEPT ![i].status = "ACCEPTED"]
           /\ Accepts(c, i)
<1>1. /\ call[c].user \in Users \ {Owner} /\ call[c].role \in GrantableRoles
      /\ call[c].inv \in InvitationIds
      /\ inv[call[c].inv].user = call[c].user /\ inv[call[c].inv].role = call[c].role
      /\ status[call[c].user] \in {NoRow, "LEFT"}
      /\ role' = [role EXCEPT ![call[c].user] = call[c].role]
      /\ status' = [status EXCEPT ![call[c].user] = "ACTIVE"]
      /\ inv' = [inv EXCEPT ![call[c].inv].status = "ACCEPTED"]
  BY JoinFacts DEF JoinCommits
<1>2. Accepts(c, call[c].inv)
  BY NoCallTyped DEF JoinCommits, CommitAccept, Answer, Goto, Accepts, InvitationInv, InvitationTypeOK
<1>3. QED
  BY <1>1, <1>2, Zenon

LEMMA RowsTyped ==
  ASSUME InvitationInv
  PROVE  /\ role \in [Users -> Roles \cup {NoRow}]
         /\ status \in [Users -> Statuses \cup {NoRow}]
         /\ inv \in [InvitationIds -> InvitationRows]
  BY DEF InvitationInv, MembershipInv, TypeOK, InvitationTypeOK

\* A request never starts a membership.
LEMMA RequestsDoNotJoin ==
  ASSUME MembershipInv, [Next]_vars, NEW u \in Users
  PROVE  ~Joins(u)
<1>1. status \in [Users -> Statuses \cup {NoRow}]
  BY DEF MembershipInv, TypeOK
<1>2. QED
  BY <1>1, StatusChangeFacts DEF Joins, ExpectedStatus, NoRow

\* Joining takes an invitation, and an invitation is spent by joining.
THEOREM JoiningIsAccepting == InvitationSpec => JoinsAreAcceptances
<1>1. ASSUME InvitationInv, [InvitationNext]_allVars, NEW u \in Users
      PROVE  JoinsWithInvitation(u)
  <2>1. CASE UNCHANGED vars \/ (MembershipInv /\ [Next]_vars)
    BY <2>1, RequestsDoNotJoin DEF JoinsWithInvitation, Joins, vars, NoRow
  <2>2. ASSUME NEW c \in Calls, JoinCommits(c) PROVE JoinsWithInvitation(u)
    BY <1>1, <2>2, JoinCommitFacts, RowsTyped
       DEF JoinsWithInvitation, Joins, InvitationsOf, InvitationRows, NoRow
  <2>3. QED
    BY <1>1, <2>1, <2>2, StepKinds
<1>2. ASSUME InvitationInv, [InvitationNext]_allVars, NEW i \in InvitationIds
      PROVE  AcceptedWithJoin(i)
  <2>1. CASE SameAccepted \/ UNCHANGED inv
    BY <2>1 DEF AcceptedWithJoin, SameAccepted
  <2>2. ASSUME NEW c \in Calls, JoinCommits(c) PROVE AcceptedWithJoin(i)
    BY <1>2, <2>2, JoinCommitFacts, RowsTyped DEF AcceptedWithJoin, Joins
  <2>3. QED
    BY <1>2, <2>1, <2>2, StepKinds
<1>3. InvitationInv /\ [InvitationNext]_allVars
        => [/\ \A u \in Users : JoinsWithInvitation(u)
            /\ \A i \in InvitationIds : AcceptedWithJoin(i)]_allVars
  BY <1>1, <1>2
<1>4. QED
  BY <1>3, InvitationInvariant, PTL DEF InvitationSpec, JoinsAreAcceptances

\* Besides the acceptances only the creation, the expiration and the
\* cancellation of a row write one, and the last two only a PENDING row.
EndedKept ==
  \A i \in InvitationIds :
    inv[i].status \notin {"PENDING", NoRow} => inv'[i].status = inv[i].status

LEMMA EndedRows ==
  ASSUME InvitationInv, [InvitationNext]_allVars
  PROVE  EndedKept \/ \E c \in Calls : JoinCommits(c)
<1>1. CASE UNCHANGED inv
  BY <1>1 DEF EndedKept
<1>2. ASSUME NEW scope, ExpireOutdated(scope) PROVE EndedKept
  BY <1>2 DEF ExpireOutdated, EndedKept
<1>3. ASSUME NEW c \in Calls, CallStep(c), ~UNCHANGED inv PROVE EndedKept \/ JoinCommits(c)
  <2>1. CASE UpdateCancelled(c)
    BY <2>1 DEF UpdateCancelled, CancelWhere, EndedKept, InvitationInv, InvitationTypeOK
  <2>2. ASSUME NEW i \in InvitationIds, InsertInvitation(c, i) PROVE EndedKept
    BY <2>2 DEF InsertInvitation, EndedKept, InvitationInv, InvitationTypeOK
  <2>3. CASE CommitAccept(c)
    BY <1>3, <2>3 DEF CommitAccept, AcceptWrites, JoinCommits
  <2>4. CASE ExpireForInvitee(c) \/ ExpireForOrganization(c) \/ \E u \in Users : ExpireForUser(c, u)
    BY <1>2, <2>4 DEF ExpireForInvitee, ExpireForOrganization, ExpireForUser
  <2>. QED
    BY <1>3, <2>1, <2>2, <2>3, <2>4
       DEF CallStep, AuthorizeInviter, CheckInvitee, CheckPending, AuthorizeManager, ReadForCancel,
           ReadInvitation, ReadMembership
<1>. QED
  BY <1>1, <1>3 DEF InvitationNext, TimePasses, invitationVars, allVars

\* Nothing but the end of an acceptance that is under way changes an
\* invitation that has ended.
THEOREM EndedStayEnded == InvitationSpec => EndedInvitations
<1>1. ASSUME InvitationInv, [InvitationNext]_allVars, NEW i \in InvitationIds
      PROVE  StaysEnded(i)
  <2>1. CASE EndedKept
    BY <2>1 DEF StaysEnded, EndedKept, NoRow
  <2>2. ASSUME NEW c \in Calls, JoinCommits(c) PROVE StaysEnded(i)
    <3>1. PICK u \in Users \ {Owner}, j \in InvitationIds :
             /\ inv[j].user = u /\ status[u] \in {NoRow, "LEFT"}
             /\ status' = [status EXCEPT ![u] = "ACTIVE"]
             /\ inv' = [inv EXCEPT ![j].status = "ACCEPTED"] /\ Accepts(c, j)
      BY <1>1, <2>2, JoinCommitFacts
    <3>2. i # j => inv'[i] = inv[i]
      BY <1>1, <3>1, RowsTyped
    <3>3. Joins(u) /\ inv'[j].status = "ACCEPTED"
      BY <1>1, <3>1, RowsTyped DEF Joins, InvitationRows
    <3>. QED
      BY <3>1, <3>2, <3>3 DEF StaysEnded
  <2>3. QED
    BY <1>1, <2>1, <2>2, EndedRows
<1>2. InvitationInv /\ [InvitationNext]_allVars
        => [\A i \in InvitationIds : StaysEnded(i)]_allVars
  BY <1>1
<1>3. QED
  BY <1>2, InvitationInvariant, PTL DEF InvitationSpec, EndedInvitations

\* Only somebody else's reactivation ends a suspension.
THEOREM SuspensionLasts == InvitationSpec => SuspensionEndsByReactivation
<1>1. ASSUME MembershipInv, [Next]_vars, NEW u \in Users
      PROVE  EndsByReactivation(u)
  <2> SUFFICES ASSUME status[u] = "SUSPENDED", status'[u] # "SUSPENDED"
               PROVE  /\ status'[u] = "ACTIVE" /\ role'[u] = role[u]
                      /\ \E r \in Requests : /\ Commits(r) /\ req[r].op = "reactivate"
                                             /\ req[r].target = u /\ req[r].actor # u
    BY DEF EndsByReactivation
  <2>1. PICK r \in Requests :
           /\ Commits(r) /\ req[r].target = u /\ UNCHANGED role
           /\ req[r].op \in {"suspend", "reactivate"} /\ req[r].actor # u
           /\ status[u] = ExpectedStatus(req[r].op)
           /\ status' = [status EXCEPT ![u] = NewStatus(req[r].op)]
    BY <1>1, StatusChangeFacts
  <2>2. req[r].op = "reactivate"
    BY <2>1 DEF ExpectedStatus
  <2>3. status \in [Users -> Statuses \cup {NoRow}]
    BY <1>1 DEF MembershipInv, TypeOK
  <2>4. QED
    BY <2>1, <2>2, <2>3 DEF NewStatus
<1>2. ASSUME InvitationInv, [InvitationNext]_allVars, NEW u \in Users
      PROVE  EndsByReactivation(u)
  <2>1. CASE UNCHANGED vars
    BY <2>1 DEF vars, EndsByReactivation
  <2>2. ASSUME NEW c \in Calls, JoinCommits(c) PROVE EndsByReactivation(u)
    BY <1>2, <2>2, JoinCommitFacts, RowsTyped DEF EndsByReactivation, NoRow
  <2>3. QED
    BY <1>1, <1>2, <2>1, <2>2, StepKinds
<1>3. InvitationInv /\ [InvitationNext]_allVars
        => [\A u \in Users : EndsByReactivation(u)]_allVars
  BY <1>2
<1>4. QED
  BY <1>3, InvitationInvariant, PTL DEF InvitationSpec, SuspensionEndsByReactivation

\* With invitations the rows still go through the life of MembershipLifecycle.
THEOREM InvitationsRefine == InvitationSpec => ImplementsLifecycle
<1>1. InvitationInit => Lifecycle!Init
  BY InitLifecycle DEF InvitationInit
<1>2. ASSUME InvitationInv, [InvitationNext]_allVars
      PROVE  [Lifecycle!Next]_<<role, status>>
  <2>1. CASE MembershipInv /\ [Next]_vars
    BY <2>1, NextLifecycle
  <2>2. CASE UNCHANGED vars
    BY <2>2 DEF vars
  <2>3. ASSUME NEW c \in Calls, JoinCommits(c) PROVE Lifecycle!Next
    <3>1. PICK u \in Users \ {Owner}, r \in GrantableRoles :
             /\ status[u] \in {NoRow, "LEFT"}
             /\ role' = [role EXCEPT ![u] = r]
             /\ status' = [status EXCEPT ![u] = "ACTIVE"]
      BY <1>2, <2>3, JoinCommitFacts
    <3>2. Lifecycle!Join(u, r)
      BY <3>1 DEF Lifecycle!Join, NoRow, Lifecycle!NoRow
    <3>3. u \in Lifecycle!Others /\ r \in Lifecycle!GrantableRoles
      BY DEF Lifecycle!Others, Lifecycle!GrantableRoles, Lifecycle!Roles,
             GrantableRoles, Roles
    <3>4. QED
      BY <3>2, <3>3 DEF Lifecycle!Next
  <2>4. QED
    BY <1>2, <2>1, <2>2, <2>3, StepKinds
<1>3. QED
  BY <1>1, <1>2, InvitationInvariant, PTL
     DEF InvitationSpec, ImplementsLifecycle, Lifecycle!Spec

-----------------------------------------------------------------------------
(* Live invitations.                                                       *)

\* The steps that neither insert an invitation nor find that none is live
\* leave no user with more of either.
Fewer(u) == LiveInvitations(u)' \subseteq LiveInvitations(u) /\ Inserting(u)' \subseteq Inserting(u)

\* Request c finds no live invitation for its invitee w, or inserts i for w.
Finds(c, w) ==
  /\ \A u \in Users \ {w} : Fewer(u)
  /\ LiveInvitations(w)' = {}
  /\ Inserting(w)' \subseteq Inserting(w) \cup {c}

Inserts(c, w, i) ==
  /\ c \in Inserting(w)
  /\ \A u \in Users \ {w} : Fewer(u)
  /\ LiveInvitations(w)' \subseteq LiveInvitations(w) \cup {i}
  /\ Inserting(w)' \subseteq Inserting(w) \ {c}

LEMMA LiveKept ==
  ASSUME InvitationInv,
         \A i \in InvitationIds : inv'[i] # inv[i] => inv'[i].status # "PENDING",
         overdue \subseteq overdue', NEW u \in Users
  PROVE  LiveInvitations(u)' \subseteq LiveInvitations(u)
  BY DEF LiveInvitations, InvitationsOf, Live

LEMMA CallsMove ==
  ASSUME InvitationInv, NEW c \in Calls, NEW q, Goto(c, q)
  PROVE  call'[c] = q /\ \A d \in Calls \ {c} : call'[d] = call[d]
  BY DEF Goto, InvitationInv, InvitationTypeOK

LEMMA LiveSteps ==
  ASSUME InvitationInv, [InvitationNext]_allVars
  PROVE  \/ \A u \in Users : Fewer(u)
         \/ \E c \in Calls, w \in Users : Finds(c, w)
         \/ \E c \in Calls, w \in Users, i \in InvitationIds : Inserts(c, w, i)
<1>1. ASSUME NEW c \in Calls, NEW q, Goto(c, q), q.pc # "insert", NEW u \in Users
      PROVE  Inserting(u)' \subseteq Inserting(u)
  BY <1>1, CallsMove DEF Inserting
<1>2. ASSUME NEW c \in Calls, Answer(c), NEW u \in Users
      PROVE  Inserting(u)' \subseteq Inserting(u) \ {c}
  BY <1>2, CallsMove, NoCallTyped DEF Answer, Inserting
<1>3. ASSUME UNCHANGED <<inv, overdue>>, NEW u \in Users
      PROVE  LiveInvitations(u)' = LiveInvitations(u)
  BY <1>3 DEF LiveInvitations, InvitationsOf, Live
<1>4. ASSUME NEW scope, ExpireOutdated(scope), UNCHANGED overdue, NEW u \in Users
      PROVE  LiveInvitations(u)' \subseteq LiveInvitations(u)
  BY <1>4, LiveKept DEF ExpireOutdated, InvitationInv, InvitationTypeOK, InvitationRows
<1>5. CASE UNCHANGED invitationVars
  BY <1>5 DEF invitationVars, Fewer, LiveInvitations, InvitationsOf, Live, Inserting
<1>6. ASSUME NEW i \in InvitationIds, TimePasses(i), NEW u \in Users PROVE Fewer(u)
  <2>1. inv' = inv /\ call' = call /\ overdue \subseteq overdue'
    BY <1>6 DEF TimePasses
  <2>. QED
    BY <2>1, LiveKept DEF Fewer, Inserting
<1>7. ASSUME NEW c \in Calls, CallStep(c)
      PROVE  \/ \A u \in Users : Fewer(u)
             \/ \E w \in Users : Finds(c, w)
             \/ \E w \in Users, i \in InvitationIds : Inserts(c, w, i)
  <2> USE <1>7
  <2>1. CASE CheckPending(c)
    <3>1. PICK w \in Users : w = call[c].user
      BY DEF InvitationInv, InvitationTypeOK, CallState
    <3>2. \A u \in Users : LiveInvitations(u)' = LiveInvitations(u)
      BY <1>3, <2>1 DEF CheckPending
    <3>3. CASE Answer(c)
      BY <1>2, <3>2, <3>3 DEF Fewer
    <3>4. CASE Goto(c, [call[c] EXCEPT !.pc = "insert"]) /\ NoLiveInvitation(w)
      <4>1. /\ call'[c] = [call[c] EXCEPT !.pc = "insert"]
            /\ \A d \in Calls \ {c} : call'[d] = call[d]
        BY <3>4, CallsMove
      <4>2. call'[c].user = w
        BY <3>1, <4>1 DEF InvitationInv, InvitationTypeOK, CallState
      <4>3. \A u \in Users \ {w} : Inserting(u)' \subseteq Inserting(u)
        BY <4>1, <4>2 DEF Inserting
      <4>4. Inserting(w)' \subseteq Inserting(w) \cup {c}
        BY <4>1 DEF Inserting
      <4>. QED
        BY <3>2, <3>4, <4>3, <4>4 DEF Finds, Fewer, NoLiveInvitation
    <3>. QED
      BY <2>1, <3>1, <3>3, <3>4 DEF CheckPending
  <2>2. ASSUME NEW i \in InvitationIds, InsertInvitation(c, i)
        PROVE  \E w \in Users : Inserts(c, w, i)
    <3>1. PICK w \in Users : w = call[c].user
      BY DEF InvitationInv, InvitationTypeOK, CallState
    <3>2. /\ c \in Inserting(w) /\ UNCHANGED overdue /\ Answer(c)
          /\ inv' = [inv EXCEPT ![i] = [status |-> "PENDING", user |-> w,
                                       role |-> call[c].role]]
      BY <2>2, <3>1 DEF InsertInvitation, Inserting
    <3>3. inv'[i].user = w /\ \A j \in InvitationIds \ {i} : inv'[j] = inv[j]
      BY <3>2 DEF InvitationInv, InvitationTypeOK
    <3>4. \A u \in Users \ {w} : LiveInvitations(u)' \subseteq LiveInvitations(u)
      BY <3>2, <3>3 DEF LiveInvitations, InvitationsOf, Live
    <3>5. LiveInvitations(w)' \subseteq LiveInvitations(w) \cup {i}
      BY <3>2, <3>3 DEF LiveInvitations, InvitationsOf, Live
    <3>6. \A u \in Users : Inserting(u)' \subseteq Inserting(u) \ {c}
      BY <1>2, <3>2
    <3>. QED
      BY <3>2, <3>4, <3>5, <3>6 DEF Inserts, Fewer
  <2>3. CASE UpdateCancelled(c)
    <3>1. \A i \in InvitationIds : inv'[i] # inv[i] => inv'[i].status = "CANCELLED"
      BY <2>3 DEF UpdateCancelled, InvitationInv, InvitationTypeOK, InvitationRows
    <3>. QED
      BY <1>2, <2>3, <3>1, LiveKept DEF UpdateCancelled, Fewer
  <2>4. CASE CommitAccept(c)
    <3>1. \A i \in InvitationIds : inv'[i] # inv[i] => inv'[i].status = "ACCEPTED"
      BY <2>4 DEF CommitAccept, AcceptWrites, MarkAccepted, InvitationInv, InvitationTypeOK, InvitationRows
    <3>. QED
      BY <1>2, <2>4, <3>1, LiveKept DEF CommitAccept, Fewer
  <2>5. ASSUME NEW q, Goto(c, q), q.pc # "insert", UNCHANGED <<inv, overdue>>, NEW u \in Users
        PROVE  Fewer(u)
    BY <1>1, <1>3, <2>5 DEF Fewer
  <2>6. ASSUME Answer(c), UNCHANGED <<inv, overdue>>, NEW u \in Users PROVE Fewer(u)
    BY <1>2, <1>3, <2>6 DEF Fewer
  <2>7. CASE ExpireForInvitee(c)
    <3>1. Goto(c, [call[c] EXCEPT !.pc = "outdatedExpired"])
          /\ [call[c] EXCEPT !.pc = "outdatedExpired"].pc # "insert"
      BY <2>7 DEF ExpireForInvitee, InvitationInv, InvitationTypeOK, CallState
    <3>. QED
      BY <1>1, <1>4, <2>7, <3>1 DEF ExpireForInvitee, Fewer
  <2>8. CASE ExpireForOrganization(c)
    <3>1. [call[c] EXCEPT !.pc = "cancelExpired"].pc # "insert"
      BY DEF InvitationInv, InvitationTypeOK, CallState
    <3>. QED
      BY <1>1, <1>2, <1>4, <2>8, <3>1 DEF ExpireForOrganization, Fewer
  <2>9. ASSUME NEW v \in Users, ExpireForUser(c, v), NEW u \in Users PROVE Fewer(u)
    BY <1>4, <2>9 DEF ExpireForUser, Fewer, Inserting
  <2>10. ASSUME NEW u \in Users, AuthorizeInviter(c, u) \/ AuthorizeManager(c, u)
         PROVE  \A v \in Users : Fewer(v)
    BY <2>5, <2>10 DEF AuthorizeInviter, AuthorizeManager, NoCall
  <2>11. ASSUME NEW u \in Users, NEW r \in InvitedRoles, CheckInvitee(c, u, r)
         PROVE  \A v \in Users : Fewer(v)
    BY <2>5, <2>6, <2>11 DEF CheckInvitee, NoCall
  <2>12. ASSUME NEW i \in InvitationIds, ReadForCancel(c, i) PROVE \A v \in Users : Fewer(v)
    <3>1. [call[c] EXCEPT !.pc = "cancel", !.inv = i].pc # "insert"
      BY DEF InvitationInv, InvitationTypeOK, CallState
    <3>. QED
      BY <2>5, <2>6, <2>12, <3>1 DEF ReadForCancel
  <2>13. ASSUME NEW u \in Users, NEW i \in InvitationIds, ReadInvitation(c, u, i)
         PROVE  \A v \in Users : Fewer(v)
    BY <2>5, <2>13 DEF ReadInvitation, NoCall
  <2>14. CASE ReadMembership(c)
    <3>1. [call[c] EXCEPT !.pc = "accept", !.hasRow = (status[call[c].user] = "LEFT")].pc # "insert"
      BY DEF InvitationInv, InvitationTypeOK, CallState
    <3>. QED
      BY <2>5, <2>6, <2>14, <3>1 DEF ReadMembership
  <2>. QED
    BY <1>7, <2>1, <2>2, <2>3, <2>4, <2>7, <2>8, <2>9, <2>10, <2>11, <2>12, <2>13, <2>14 DEF CallStep
<1>. QED
  BY <1>5, <1>6, <1>7 DEF InvitationNext, allVars, invitationVars

\* What is counted is finite, and bounded.
BoundInv ==
  \A u \in Users :
    /\ IsFiniteSet(LiveInvitations(u))
    /\ Cardinality(LiveInvitations(u)) + Cardinality(Inserting(u)) <= Cardinality(Calls)

\* However creations, cancellations and acceptances interleave, duplicate
\* invitations never outnumber the requests that can be in flight
\* (organization-invitations.service.ts:190-227).
THEOREM DuplicatesAreBounded ==
  ASSUME IsFiniteSet(Calls)
  PROVE  InvitationSpec => []LiveInvitationsBounded
<1>1. ASSUME NEW u \in Users
      PROVE  IsFiniteSet(Inserting(u)) /\ Cardinality(Inserting(u)) <= Cardinality(Calls)
             /\ IsFiniteSet(Inserting(u)') /\ Cardinality(Inserting(u)') <= Cardinality(Calls)
  <2>1. Inserting(u) \subseteq Calls /\ Inserting(u)' \subseteq Calls
    BY DEF Inserting
  <2>. QED
    BY <2>1, FS_Subset
<1>2. ASSUME NEW S, IsFiniteSet(S) PROVE Cardinality(S) \in Nat
  BY <1>2, FS_CardinalityType
<1>3. Cardinality(Calls) \in Nat
  BY FS_CardinalityType
<1>4. InvitationInit => BoundInv
  <2>. SUFFICES ASSUME InvitationInit, NEW u \in Users
                PROVE  LiveInvitations(u) = {} /\ Inserting(u) = {}
    BY <1>3, FS_EmptySet DEF BoundInv
  <2>. QED
    BY NoCallTyped DEF InvitationInit, LiveInvitations, InvitationsOf, Live, Inserting, NoRow
<1>5. ASSUME InvitationInv, [InvitationNext]_allVars, BoundInv PROVE BoundInv'
  <2>1. ASSUME NEW u \in Users, Fewer(u)
        PROVE  /\ IsFiniteSet(LiveInvitations(u)')
               /\ Cardinality(LiveInvitations(u)') + Cardinality(Inserting(u)') <= Cardinality(Calls)
    <3>1. /\ IsFiniteSet(LiveInvitations(u)')
          /\ Cardinality(LiveInvitations(u)') <= Cardinality(LiveInvitations(u))
      BY <1>5, <2>1, FS_Subset DEF Fewer, BoundInv
    <3>2. Cardinality(Inserting(u)') <= Cardinality(Inserting(u))
      BY <1>1, <2>1, FS_Subset DEF Fewer
    <3>3. {Cardinality(LiveInvitations(u)), Cardinality(LiveInvitations(u)'),
           Cardinality(Inserting(u)), Cardinality(Inserting(u)')} \subseteq Nat
      BY <1>1, <1>2, <1>5, <3>1 DEF BoundInv
    <3>. QED
      BY <1>3, <1>5, <3>1, <3>2, <3>3 DEF BoundInv
  <2>2. ASSUME NEW c \in Calls, NEW w \in Users, Finds(c, w) PROVE BoundInv'
    <3>1. LiveInvitations(w)' = {} /\ Cardinality(LiveInvitations(w)') = 0
          /\ IsFiniteSet(LiveInvitations(w)')
      BY <2>2, FS_EmptySet DEF Finds
    <3>2. Cardinality(LiveInvitations(w)') + Cardinality(Inserting(w)') <= Cardinality(Calls)
      BY <1>1, <1>2, <1>3, <3>1
    <3>. QED
      BY <2>1, <2>2, <3>1, <3>2 DEF Finds, BoundInv
  <2>3. ASSUME NEW c \in Calls, NEW u \in Users, NEW i \in InvitationIds,
               Inserts(c, u, i)
        PROVE  BoundInv'
    <3>1. /\ IsFiniteSet(LiveInvitations(u)')
          /\ Cardinality(LiveInvitations(u)') + Cardinality(Inserting(u)') <= Cardinality(Calls)
      <4>1. /\ IsFiniteSet(LiveInvitations(u) \cup {i})
            /\ Cardinality(LiveInvitations(u) \cup {i}) <= Cardinality(LiveInvitations(u)) + 1
        BY <1>2, <1>5, FS_AddElement DEF BoundInv
      <4>2. /\ IsFiniteSet(LiveInvitations(u)')
            /\ Cardinality(LiveInvitations(u)') <= Cardinality(LiveInvitations(u) \cup {i})
        BY <2>3, <4>1, FS_Subset DEF Inserts
      <4>3. /\ IsFiniteSet(Inserting(u) \ {c})
            /\ Cardinality(Inserting(u) \ {c}) = Cardinality(Inserting(u)) - 1
        BY <1>1, <2>3, FS_RemoveElement DEF Inserts
      <4>4. Cardinality(Inserting(u)') <= Cardinality(Inserting(u) \ {c})
        BY <2>3, <4>3, FS_Subset DEF Inserts
      <4>5. {Cardinality(LiveInvitations(u)), Cardinality(LiveInvitations(u)'),
             Cardinality(LiveInvitations(u) \cup {i}), Cardinality(Inserting(u) \ {c}),
             Cardinality(Inserting(u)), Cardinality(Inserting(u)')} \subseteq Nat
        BY <1>1, <1>2, <1>5, <4>1, <4>2, <4>3 DEF BoundInv
      <4>. QED
        BY <1>3, <1>5, <4>1, <4>2, <4>3, <4>4, <4>5 DEF BoundInv
    <3>. QED
      BY <2>1, <2>3, <3>1 DEF Inserts, BoundInv
  <2>4. CASE \A u \in Users : Fewer(u)
    BY <2>1, <2>4 DEF BoundInv
  <2>. QED
    BY <1>5, <2>2, <2>3, <2>4, LiveSteps
<1>6. BoundInv => LiveInvitationsBounded
  BY DEF BoundInv, LiveInvitationsBounded
<1>. QED
  BY InvitationInvariant, <1>4, <1>5, <1>6, PTL DEF InvitationSpec

\* No two requests for one invitee are between the check and the INSERT.
OneInsertAtATime == \A u \in Users : \A c, d \in Inserting(u) : c = d

\* A request that is about to insert is right that no invitation is live.
SingleInv ==
  /\ OneLiveInvitation
  /\ \A u \in Users : Inserting(u) # {} => LiveInvitations(u) = {}

\* The gap between the check and the INSERT is all that ever gives a user two
\* live invitations: whoever closes it, with an index or a lock, has closed
\* the finding (organization-invitations.service.ts:190-227).
THEOREM OneLiveWithoutTheGap == InvitationSpec /\ []OneInsertAtATime => []OneLiveInvitation
<1>1. InvitationInit => SingleInv
  BY NoCallTyped
     DEF InvitationInit, SingleInv, OneLiveInvitation, LiveInvitations, InvitationsOf, Live,
         Inserting, NoRow
<1>2. ASSUME InvitationInv, InvitationInv', [InvitationNext]_allVars, OneInsertAtATime, SingleInv
      PROVE  SingleInv'
  <2> DEFINE Single(u) == /\ \A i, j \in LiveInvitations(u)' : i = j
                          /\ Inserting(u)' # {} => LiveInvitations(u)' = {}
  <2>. SUFFICES \A u \in Users : Single(u)
    BY <1>2 DEF SingleInv, OneLiveInvitation, LiveInvitations, InvitationsOf, Live,
                InvitationInv, InvitationTypeOK, InvitationRows
  <2>1. ASSUME NEW u \in Users PROVE \A i, j \in LiveInvitations(u) : i = j
    BY <1>2 DEF SingleInv, OneLiveInvitation, LiveInvitations, InvitationsOf
  <2>2. ASSUME NEW u \in Users, Fewer(u) PROVE Single(u)
    BY <1>2, <2>1, <2>2 DEF SingleInv, Fewer
  <2>3. ASSUME NEW c \in Calls, NEW w \in Users, Finds(c, w), NEW u \in Users
        PROVE  Single(u)
    BY <2>2, <2>3 DEF Finds
  <2>4. ASSUME NEW c \in Calls, NEW w \in Users, NEW i \in InvitationIds,
               Inserts(c, w, i), NEW u \in Users
        PROVE  Single(u)
    <3>1. CASE u = w
      <4>1. Inserting(u) \ {c} = {} /\ LiveInvitations(u) = {}
        BY <1>2, <2>4, <3>1 DEF Inserts, OneInsertAtATime, SingleInv
      <4>. QED
        BY <2>4, <3>1, <4>1 DEF Inserts
    <3>2. CASE u # w
      BY <2>2, <2>4, <3>2 DEF Inserts
    <3>. QED
      BY <3>1, <3>2
  <2>. QED
    BY <1>2, <2>2, <2>3, <2>4, LiveSteps
<1>3. SingleInv => OneLiveInvitation
  BY DEF SingleInv
<1>. QED
  BY InvitationInvariant, <1>1, <1>2, <1>3, PTL DEF InvitationSpec

=============================================================================
