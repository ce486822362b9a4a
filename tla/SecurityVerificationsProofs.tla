--------------------- MODULE SecurityVerificationsProofs ---------------------
(***************************************************************************)
(* Theorems about SecurityVerifications: its invariants, and that it       *)
(* implements OneTimeCode, for any rows and transactions and any limits.   *)
(*                                                                         *)
(* The argument is the one of a lock manager: the rows that two open       *)
(* transactions hold are disjoint, what a transaction recorded of a row it *)
(* holds is still what the table says, and the transaction that inserted a *)
(* row is alone and holds every row that is open.                          *)
(***************************************************************************)
EXTENDS SecurityVerifications, TLAPS

OpenRows == {v \in Rows : ver[v].status \in Open}

\* Which statements leave what behind.
Shape(t) ==
  /\ tx[t].expire # {} => tx[t].pc \in {"expired", "superseding", "superseded", "inserted", "mailed"}
  /\ tx[t].supersede # {} => tx[t].pc \in {"superseded", "inserted", "mailed"}
  /\ tx[t].consume # {} => tx[t].pc = "consumed"

\* What a transaction holds is as it was when the transaction got hold of it.
Holds(t) ==
  /\ Shape(t)
  /\ tx[t].expire \cap tx[t].supersede = {}
  /\ Written(t) \subseteq OpenRows
  /\ \A v \in tx[t].consume : ver[v].status = "VERIFIED"
  /\ tx[t].pc = "locked" => \E v \in Requested : tx[t].row = {v} /\ tx[t].seen = ver[v]
  /\ Inserting(t) =>
       /\ OpenRows \subseteq tx[t].expire \cup tx[t].supersede
       /\ \E v \in Rows : tx[t].row = {v} /\ ver[v] = Blank
  /\ tx[t].pc = "mailed" => tx[t].row \subseteq sent

HeldAsRead == \A t \in Txs : Holds(t)

Exclusive ==
  \A s, t \in Txs : s # t => LockedBy(s) \cap LockedBy(t) = {} /\ ~(Inserting(s) /\ Inserting(t))

UnusedRowsAreBlank == \A v \in Rows : ver[v].status = NoRow => ver[v] = Blank

RowsInv ==
  /\ UnusedRowsAreBlank /\ OneOpenVerification
  /\ AttemptsAreCounted /\ OneOperationPerCode /\ CodeWasSent

VerificationInv == VerificationTypeOK /\ HeldAsRead /\ Exclusive /\ RowsInv

-----------------------------------------------------------------------------
LEMMA TxFields ==
  ASSUME VerificationTypeOK, NEW t \in Txs
  PROVE  /\ tx[t] \in TxRecords
         /\ tx[t].now \in Instants /\ tx[t].wait \subseteq Rows
         /\ tx[t].expire \subseteq Rows /\ tx[t].supersede \subseteq Rows
         /\ tx[t].consume \subseteq Rows /\ tx[t].row \subseteq Rows
         /\ tx[t].seen \in RowRecords
  BY DEF VerificationTypeOK, TxRecords

LEMMA RowFields ==
  ASSUME VerificationTypeOK, NEW v \in Rows
  PROVE  /\ ver[v] \in RowRecords
         /\ ver[v].status \in Open \cup Closed \cup {NoRow}
         /\ ver[v].failed \in 0 .. MaxAttempts
         /\ ver[v].createdAt \in Instants /\ ver[v].verifiedAt \in Instants
  BY DEF VerificationTypeOK, RowRecords

LEMMA Constants ==
  /\ 0 \in Instants /\ Instants \subseteq Nat /\ MaxAttempts \in Nat /\ MaxAttempts > 0
  /\ MaxClock \in Nat
  /\ Blank \in RowRecords /\ NoTx \in TxRecords
<1>1. MaxAttempts \in Nat /\ MaxAttempts > 0 /\ MaxClock \in Nat
  BY VerificationConstants
<1>2. 0 \in Instants /\ Instants \subseteq Nat
  BY <1>1 DEF Instants
<1>3. Blank \in RowRecords
  BY <1>1, <1>2 DEF Blank, RowRecords
<1>4. NoTx \in TxRecords
  BY <1>2, <1>3 DEF NoTx, TxRecords
<1>. QED
  BY <1>1, <1>2, <1>3, <1>4

\* A step of one transaction leaves the others where they are.
LEMMA OneMoves ==
  ASSUME VerificationTypeOK, NEW t \in Txs, NEW state \in TxRecords, Continue(t, state)
  PROVE  /\ tx' \in [Txs -> TxRecords]
         /\ tx'[t] = state
         /\ \A s \in Txs \ {t} : tx'[s] = tx[s]
  BY DEF VerificationTypeOK, Continue

\* What is held is in the table, and it is not the new row of an INSERT.
LEMMA HeldRows ==
  ASSUME VerificationInv, NEW t \in Txs
  PROVE  LockedBy(t) \subseteq Requested
<1>1. Holds(t)
  BY DEF VerificationInv, HeldAsRead
<1>2. Written(t) \subseteq Requested
  BY <1>1 DEF Holds, OpenRows, Requested, Open, NoRow
<1>. QED
  BY <1>1, <1>2 DEF LockedBy, Holds

\* Of the other transactions: what they hold does not change under them.
LEMMA OthersHold ==
  ASSUME VerificationInv, NEW t \in Txs, NEW s \in Txs \ {t},
         tx'[s] = tx[s], sent \subseteq sent',
         \A v \in Rows : ver'[v] = ver[v] \/ v \in LockedBy(t) \/ (Inserting(t) /\ ver[v] = Blank),
         Inserting(t) \/ \A v \in Rows : ver'[v].status \in Open => ver[v].status \in Open
  PROVE  Holds(s)' /\ LockedBy(s)' = LockedBy(s) /\ Inserting(s)' = Inserting(s)
<1>1. Holds(s) /\ VerificationTypeOK
  BY DEF VerificationInv, HeldAsRead
<1>2. LockedBy(s)' = LockedBy(s) /\ (Inserting(s)' <=> Inserting(s)) /\ Written(s)' = Written(s)
  BY DEF LockedBy, Written, Inserting
<1>3. LockedBy(s) \cap LockedBy(t) = {} /\ ~(Inserting(s) /\ Inserting(t))
  BY DEF VerificationInv, Exclusive
<1>4. LockedBy(s) \subseteq Requested /\ LockedBy(t) \subseteq Requested
  BY HeldRows
<1>5. \A v \in Requested : v \in Rows /\ ver[v] # Blank
  BY DEF Requested, Blank, NoRow
<1>6. \A v \in LockedBy(s) : v \in Rows /\ ver'[v] = ver[v]
  BY <1>3, <1>4, <1>5
<1>7. Written(s) \subseteq LockedBy(s)
  BY DEF LockedBy
<1>8. Shape(s)'
  BY <1>1 DEF Holds, Shape
<1>9. Written(s)' \subseteq OpenRows'
  BY <1>1, <1>2, <1>6, <1>7 DEF Holds, OpenRows
<1>10. \A v \in tx'[s].consume : ver'[v].status = "VERIFIED"
  BY <1>1, <1>6, <1>7 DEF Holds, Written
<1>11. ASSUME tx'[s].pc = "locked"
       PROVE  \E v \in Requested' : tx'[s].row = {v} /\ tx'[s].seen = ver'[v]
  <2>1. PICK v \in Requested : tx[s].row = {v} /\ tx[s].seen = ver[v]
    BY <1>1, <1>11 DEF Holds
  <2>2. v \in LockedBy(s)
    BY <2>1, <1>11 DEF LockedBy
  <2>3. ver'[v] = ver[v] /\ v \in Requested'
    BY <2>2, <1>6 DEF Requested
  <2>. QED
    BY <2>1, <2>3
<1>12. ASSUME Inserting(s)
       PROVE  /\ OpenRows' \subseteq tx'[s].expire \cup tx'[s].supersede
              /\ \E v \in Rows : tx'[s].row = {v} /\ ver'[v] = Blank
  <2>1. ~Inserting(t)
    BY <1>3, <1>12
  <2>2. OpenRows' \subseteq OpenRows
    BY <2>1 DEF OpenRows
  <2>3. PICK v \in Rows : tx[s].row = {v} /\ ver[v] = Blank
    BY <1>1, <1>12 DEF Holds
  <2>4. ver'[v] = Blank
    BY <2>1, <2>3, <1>4, <1>5
  <2>. QED
    BY <2>2, <2>3, <2>4, <1>1, <1>12 DEF Holds
<1>13. tx'[s].pc = "mailed" => tx'[s].row \subseteq sent'
  BY <1>1 DEF Holds
<1>14. Holds(s)'
  BY <1>1, <1>2, <1>8, <1>9, <1>10, <1>11, <1>12, <1>13 DEF Holds
<1>. QED
  BY <1>2, <1>14 DEF Inserting

\* The locks after a step of t whose own state is in order.
LEMMA LocksAfter ==
  ASSUME VerificationInv, NEW t \in Txs, NEW state \in TxRecords, Continue(t, state),
         sent \subseteq sent', Holds(t)',
         \A s \in Txs \ {t} : LockedBy(s) \cap LockedBy(t)' = {} /\ ~(Inserting(s) /\ Inserting(t)'),
         \A v \in Rows : ver'[v] = ver[v] \/ v \in LockedBy(t) \/ (Inserting(t) /\ ver[v] = Blank),
         Inserting(t) \/ \A v \in Rows : ver'[v].status \in Open => ver[v].status \in Open
  PROVE  HeldAsRead' /\ Exclusive'
<1>1. \A s \in Txs \ {t} : tx'[s] = tx[s]
  BY OneMoves DEF VerificationInv
<1>2. \A s \in Txs \ {t} : Holds(s)' /\ LockedBy(s)' = LockedBy(s) /\ Inserting(s)' = Inserting(s)
  BY <1>1, OthersHold
<1>3. HeldAsRead'
  BY <1>2 DEF HeldAsRead
<1>4. ASSUME NEW s \in Txs, NEW r \in Txs, s # r
      PROVE  LockedBy(s)' \cap LockedBy(r)' = {} /\ ~(Inserting(s)' /\ Inserting(r)')
  <2>1. CASE s = t
    BY <2>1, <1>2, <1>4
  <2>2. CASE r = t
    BY <2>2, <1>2, <1>4
  <2>3. CASE s # t /\ r # t
    BY <2>3, <1>2, <1>4 DEF VerificationInv, Exclusive
  <2>. QED
    BY <2>1, <2>2, <2>3
<1>. QED
  BY <1>3, <1>4 DEF Exclusive

\* A step of t that changes no row.
LEMMA QuietStep ==
  ASSUME VerificationInv, NEW t \in Txs, NEW state \in TxRecords, Continue(t, state),
         UNCHANGED <<clock, ver, wrong, executed>>, sent \subseteq sent', sent' \subseteq Rows,
         Holds(t)',
         \A s \in Txs \ {t} : LockedBy(s) \cap LockedBy(t)' = {} /\ ~(Inserting(s) /\ Inserting(t)')
  PROVE  VerificationInv'
<1>1. HeldAsRead' /\ Exclusive'
  BY LocksAfter
<1>2. VerificationTypeOK'
  BY OneMoves DEF VerificationInv, VerificationTypeOK
<1>3. RowsInv'
  BY DEF VerificationInv, RowsInv, UnusedRowsAreBlank, OneOpenVerification, AttemptsAreCounted,
         OneOperationPerCode, CodeWasSent, Requested
<1>. QED
  BY <1>1, <1>2, <1>3 DEF VerificationInv

\* A transaction that ends holds nothing.
LEMMA EndHoldsNothing ==
  ASSUME VerificationTypeOK, NEW t \in Txs, End(t)
  PROVE  /\ Continue(t, NoTx) /\ NoTx \in TxRecords
         /\ Holds(t)' /\ LockedBy(t)' = {} /\ ~Inserting(t)'
<1>1. tx'[t] = NoTx /\ Continue(t, NoTx) /\ NoTx \in TxRecords
  BY OneMoves, Constants DEF End
<1>2. Written(t)' = {} /\ LockedBy(t)' = {} /\ ~Inserting(t)'
  BY <1>1 DEF Written, LockedBy, NoTx, Inserting
<1>3. Shape(t)' /\ tx'[t].consume = {} /\ tx'[t].expire = {} /\ tx'[t].pc = "idle"
  BY <1>1 DEF Shape, NoTx
<1>. QED
  BY <1>1, <1>2, <1>3 DEF Holds

LEMMA QuietEnd ==
  ASSUME VerificationInv, NEW t \in Txs, End(t),
         UNCHANGED <<clock, ver, wrong, executed>>, sent \subseteq sent', sent' \subseteq Rows
  PROVE  VerificationInv'
<1>1. VerificationTypeOK
  BY DEF VerificationInv
<1>. QED
  BY <1>1, EndHoldsNothing, QuietStep

-----------------------------------------------------------------------------
\* A state without writes, row locks or a new row, as when a statement begins.
LEMMA BareHolds ==
  ASSUME VerificationTypeOK, NEW t \in Txs, NEW state \in TxRecords, Continue(t, state),
         state.expire = {}, state.supersede = {}, state.consume = {},
         state.pc \notin {"locked", "inserted", "mailed"}
  PROVE  Holds(t)' /\ LockedBy(t)' = {} /\ ~Inserting(t)'
<1>1. tx'[t] = state
  BY OneMoves
<1>2. Written(t)' = {} /\ LockedBy(t)' = {} /\ ~Inserting(t)'
  BY <1>1 DEF Written, LockedBy, Inserting
<1>. QED
  BY <1>1, <1>2 DEF Holds, Shape

LEMMA Outdatedness ==
  ASSUME NEW t \in Txs
  PROVE  Outdated(t) \subseteq OpenRows /\ StillOpen(t) = OpenRows \ tx[t].expire
  BY DEF Outdated, OpenRows, StillOpen, Open

LEMMA BeginKeeps ==
  ASSUME VerificationInv, NEW t \in Txs,
         ReadLatest(t) \/ LockOrganization(t) \/ (StartConsume(t) /\ ~End(t))
  PROVE  VerificationInv'
<1>1. VerificationTypeOK /\ clock \in Instants
  BY DEF VerificationInv, VerificationTypeOK
<1>2. PICK state \in TxRecords :
        /\ Continue(t, state)
        /\ state.expire = {} /\ state.supersede = {} /\ state.consume = {}
        /\ state.pc \notin {"locked", "inserted", "mailed"}
  <2>1. CASE ReadLatest(t)
    <3> DEFINE state == [NoTx EXCEPT !.pc = "latestRead", !.now = clock]
    <3>1. state \in TxRecords
      BY <1>1, Constants DEF TxRecords, NoTx
    <3>2. /\ state.expire = {} /\ state.supersede = {} /\ state.consume = {}
          /\ state.pc \notin {"locked", "inserted", "mailed"}
      BY DEF NoTx
    <3>. QED
      BY <2>1, <3>1, <3>2 DEF ReadLatest
  <2>2. CASE LockOrganization(t)
    <3> DEFINE state == [NoTx EXCEPT !.pc = "organizationLocked"]
    <3>1. state \in TxRecords
      BY Constants DEF TxRecords, NoTx
    <3>2. /\ state.expire = {} /\ state.supersede = {} /\ state.consume = {}
          /\ state.pc \notin {"locked", "inserted", "mailed"}
      BY DEF NoTx
    <3>. QED
      BY <2>2, <3>1, <3>2 DEF LockOrganization
  <2>3. CASE StartConsume(t) /\ ~End(t)
    <3> DEFINE state == [NoTx EXCEPT !.pc = "consuming", !.now = clock, !.wait = UsableRows(clock)]
    <3>1. state \in TxRecords
      BY <1>1, Constants DEF TxRecords, NoTx, UsableRows
    <3>2. /\ state.expire = {} /\ state.supersede = {} /\ state.consume = {}
          /\ state.pc \notin {"locked", "inserted", "mailed"}
      BY DEF NoTx
    <3>. QED
      BY <2>3, <3>1, <3>2 DEF StartConsume
  <2>. QED
    BY <2>1, <2>2, <2>3
<1>3. Holds(t)' /\ LockedBy(t)' = {} /\ ~Inserting(t)'
  BY <1>1, <1>2, BareHolds
<1>4. UNCHANGED <<clock, ver, wrong, executed, sent>> /\ sent \subseteq Rows
  BY <1>1 DEF ReadLatest, LockOrganization, StartConsume, history, VerificationTypeOK
<1>. QED
  BY <1>2, <1>3, <1>4, QuietStep

LEMMA ExpireKeeps ==
  ASSUME VerificationInv, NEW t \in Txs, StartExpire(t) \/ FinishExpire(t)
  PROVE  VerificationInv'
<1>1. VerificationTypeOK /\ Holds(t) /\ tx[t] \in TxRecords
  BY TxFields DEF VerificationInv, HeldAsRead
<1>2. /\ tx[t].expire = {} /\ tx[t].supersede = {} /\ tx[t].consume = {}
      /\ UNCHANGED <<clock, ver, wrong, executed, sent>> /\ sent \subseteq Rows
  BY <1>1 DEF Holds, Shape, StartExpire, FinishExpire, history, VerificationTypeOK
<1>3. CASE StartExpire(t)
  <2> DEFINE state == [tx[t] EXCEPT !.pc = "expiring", !.wait = Outdated(t)]
  <2>1. state \in TxRecords /\ Continue(t, state)
    BY <1>1, <1>3 DEF TxRecords, Outdated, StartExpire
  <2>2. /\ state.expire = {} /\ state.supersede = {} /\ state.consume = {}
        /\ state.pc \notin {"locked", "inserted", "mailed"}
    BY <1>1, <1>2 DEF TxRecords
  <2>3. Holds(t)' /\ LockedBy(t)' = {} /\ ~Inserting(t)'
    BY <1>1, <2>1, <2>2, BareHolds
  <2>. QED
    BY <1>2, <2>1, <2>3, QuietStep
<1>4. CASE FinishExpire(t)
  <2> DEFINE rows == tx[t].wait \cap Outdated(t)
             state == [tx[t] EXCEPT !.pc = "expired", !.wait = {}, !.expire = rows]
  <2>1. state \in TxRecords /\ Continue(t, state)
    BY <1>1, <1>4 DEF TxRecords, Outdated, FinishExpire
  <2>2. /\ tx'[t] = state /\ state.expire = rows /\ state.supersede = {} /\ state.consume = {}
        /\ state.pc = "expired"
    BY <1>1, <1>2, <2>1, OneMoves DEF TxRecords
  <2>3. Written(t)' = rows /\ LockedBy(t)' = rows /\ ~Inserting(t)'
    BY <2>2 DEF Written, LockedBy, Inserting
  <2>4. rows \subseteq OpenRows /\ OpenRows' = OpenRows
    BY <1>2, Outdatedness DEF OpenRows
  <2>5. Shape(t)'
    BY <2>2 DEF Shape
  <2>6. Holds(t)'
    BY <2>2, <2>3, <2>4, <2>5 DEF Holds
  <2>7. \A s \in Txs \ {t} : LockedBy(s) \cap rows = {}
    BY <1>4 DEF FinishExpire, Available
  <2>. QED
    BY <1>2, <2>1, <2>3, <2>6, <2>7, QuietStep
<1>. QED
  BY <1>3, <1>4

LEMMA SupersedeKeeps ==
  ASSUME VerificationInv, NEW t \in Txs, StartSupersede(t) \/ FinishSupersede(t)
  PROVE  VerificationInv'
<1>1. VerificationTypeOK /\ Holds(t) /\ tx[t] \in TxRecords
  BY TxFields DEF VerificationInv, HeldAsRead
<1>2. /\ tx[t].supersede = {} /\ tx[t].consume = {} /\ tx[t].expire \subseteq OpenRows
      /\ UNCHANGED <<clock, ver, wrong, executed, sent>> /\ sent \subseteq Rows
      /\ ~Inserting(t)
  BY <1>1 DEF Holds, Shape, Written, StartSupersede, FinishSupersede, history, VerificationTypeOK,
              Inserting
<1> DEFINE Good(pc, wait, rows) ==
             /\ Continue(t, [tx[t] EXCEPT !.pc = pc, !.wait = wait, !.supersede = rows])
             /\ rows # {} => pc = "superseded"
             /\ \A s \in Txs \ {t} : LockedBy(s) \cap rows = {}
<1>3. \E rows \in SUBSET (OpenRows \ tx[t].expire), pc \in {"superseding", "superseded"},
         wait \in SUBSET Rows : Good(pc, wait, rows)
  <2>1. CASE StartSupersede(t)
    <3>1. [tx[t] EXCEPT !.pc = "superseding", !.wait = StillOpen(t)]
          = [tx[t] EXCEPT !.pc = "superseding", !.wait = StillOpen(t), !.supersede = {}]
      BY <1>1, <1>2 DEF TxRecords
    <3>2. Good("superseding", StillOpen(t), {})
      BY <2>1, <3>1 DEF StartSupersede
    <3>3. StillOpen(t) \in SUBSET Rows
      BY DEF StillOpen
    <3>. HIDE DEF Good
    <3>. QED
      BY <3>2, <3>3
  <2>2. CASE FinishSupersede(t)
    <3> DEFINE rows == tx[t].wait \cap StillOpen(t)
    <3>1. Good("superseded", {}, rows)
      BY <2>2 DEF FinishSupersede, Available
    <3>2. rows \in SUBSET (OpenRows \ tx[t].expire)
      BY Outdatedness
    <3>. HIDE DEF Good, rows
    <3>. QED
      BY <3>1, <3>2
  <2>. QED
    BY <2>1, <2>2
<1>4. PICK rows \in SUBSET (OpenRows \ tx[t].expire), pc \in {"superseding", "superseded"},
           wait \in SUBSET Rows : Good(pc, wait, rows)
  BY <1>3
<1> DEFINE state == [tx[t] EXCEPT !.pc = pc, !.wait = wait, !.supersede = rows]
<1>5. state \in TxRecords
  BY <1>1 DEF TxRecords, OpenRows
<1>6. /\ tx'[t] = state /\ state.expire = tx[t].expire /\ state.supersede = rows
      /\ state.consume = {} /\ state.pc = pc
  BY <1>1, <1>2, <1>4, <1>5, OneMoves DEF TxRecords
<1>7. /\ Written(t)' = tx[t].expire \cup rows
      /\ LockedBy(t)' = tx[t].expire \cup rows /\ ~Inserting(t)'
  BY <1>6 DEF Written, LockedBy, Inserting
<1>8. Shape(t)'
  BY <1>4, <1>6 DEF Shape
<1>9. OpenRows' = OpenRows
  BY <1>2 DEF OpenRows
<1>10. Holds(t)'
  BY <1>2, <1>6, <1>7, <1>8, <1>9 DEF Holds
<1>11. \A s \in Txs \ {t} : LockedBy(s) \cap LockedBy(t)' = {}
  <2>1. tx[t].expire \subseteq LockedBy(t)
    BY DEF LockedBy, Written
  <2>. QED
    BY <2>1, <1>4, <1>7 DEF VerificationInv, Exclusive
<1>. QED
  BY <1>2, <1>4, <1>5, <1>7, <1>10, <1>11, QuietStep

\* The INSERT finds nobody else inserting, and its own closings cover whatever
\* is open.
LEMMA InsertKeeps ==
  ASSUME VerificationInv, NEW t \in Txs, Insert(t)
  PROVE  VerificationInv'
<1>1. VerificationTypeOK /\ Holds(t) /\ tx[t] \in TxRecords
  BY TxFields DEF VerificationInv, HeldAsRead
<1>2. UNCHANGED <<clock, ver, wrong, executed, sent>> /\ sent \subseteq Rows
  BY <1>1 DEF Insert, history, VerificationTypeOK
<1>3. CASE End(t)
  BY <1>2, <1>3, QuietEnd
<1>4. CASE /\ ~OpenScopeConflict(t)
           /\ \E v \in FreshRows : Continue(t, [tx[t] EXCEPT !.pc = "inserted", !.row = {v}])
  <2>1. PICK v \in FreshRows : Continue(t, [tx[t] EXCEPT !.pc = "inserted", !.row = {v}])
    BY <1>4
  <2> DEFINE state == [tx[t] EXCEPT !.pc = "inserted", !.row = {v}]
  <2>2. v \in Rows /\ ver[v] = Blank
    BY DEF FreshRows, Requested, VerificationInv, RowsInv, UnusedRowsAreBlank
  <2>3. state \in TxRecords
    BY <1>1, <2>2 DEF TxRecords
  <2>4. /\ tx'[t] = state /\ state.expire = tx[t].expire /\ state.supersede = tx[t].supersede
        /\ state.consume = tx[t].consume /\ state.row = {v} /\ state.pc = "inserted"
    BY <1>1, <2>1, <2>3, OneMoves DEF TxRecords
  <2>5. tx[t].consume = {} /\ tx[t].pc = "superseded"
    BY <1>1 DEF Insert, Holds, Shape
  <2>6. Written(t)' = Written(t) /\ LockedBy(t)' = LockedBy(t) /\ Inserting(t)'
    BY <2>4, <2>5 DEF Written, LockedBy, Inserting
  <2>7. OpenRows' = OpenRows /\ OpenRows \subseteq tx[t].expire \cup tx[t].supersede
    BY <1>2, <1>4, Outdatedness DEF OpenRows, OpenScopeConflict
  <2>8. Shape(t)'
    BY <2>4, <2>5 DEF Shape
  <2>9. Holds(t)'
    BY <1>1, <1>2, <2>2, <2>4, <2>5, <2>6, <2>7, <2>8 DEF Holds
  <2>10. \A s \in Txs \ {t} : ~Inserting(s)
    BY DEF Insert, InsertMustWait, InsertAwaits, Collides
  <2>11. \A s \in Txs \ {t} : LockedBy(s) \cap LockedBy(t)' = {}
    BY <2>6 DEF VerificationInv, Exclusive
  <2>. QED
    BY <1>2, <2>1, <2>3, <2>9, <2>10, <2>11, QuietStep
<1>. QED
  BY <1>3, <1>4 DEF Insert

LEMMA MailKeeps ==
  ASSUME VerificationInv, NEW t \in Txs, SendMail(t) \/ MailRejected(t) \/ MailTimesOut(t) \/ Abort(t)
  PROVE  VerificationInv'
<1>1. VerificationTypeOK /\ Holds(t) /\ tx[t] \in TxRecords /\ tx[t].row \subseteq Rows
  BY TxFields DEF VerificationInv, HeldAsRead
<1>2. sent \subseteq Rows
  BY <1>1 DEF VerificationTypeOK
<1>3. CASE SendMail(t)
  <2> DEFINE state == [tx[t] EXCEPT !.pc = "mailed"]
  <2>1. state \in TxRecords /\ Continue(t, state)
    BY <1>1, <1>3 DEF SendMail, TxRecords
  <2>2. /\ tx'[t] = state /\ state.expire = tx[t].expire /\ state.supersede = tx[t].supersede
        /\ state.consume = tx[t].consume /\ state.row = tx[t].row /\ state.pc = "mailed"
    BY <1>1, <2>1, OneMoves DEF TxRecords
  <2>3. tx[t].pc = "inserted" /\ Inserting(t) /\ tx[t].consume = {}
    BY <1>1, <1>3 DEF SendMail, Inserting, Holds, Shape
  <2>4. Written(t)' = Written(t) /\ LockedBy(t)' = LockedBy(t) /\ Inserting(t)'
    BY <2>2, <2>3 DEF Written, LockedBy, Inserting
  <2>5. UNCHANGED <<clock, ver, wrong, executed>> /\ sent' = sent \cup tx[t].row
    BY <1>3 DEF SendMail
  <2>6. Shape(t)' /\ OpenRows' = OpenRows
    BY <2>2, <2>3, <2>5 DEF Shape, OpenRows
  <2>7. Holds(t)'
    BY <1>1, <2>2, <2>3, <2>4, <2>5, <2>6 DEF Holds
  <2>8. \A s \in Txs \ {t} : LockedBy(s) \cap LockedBy(t)' = {} /\ ~Inserting(s)
    BY <2>3, <2>4 DEF VerificationInv, Exclusive
  <2>. QED
    BY <1>1, <1>2, <2>1, <2>5, <2>7, <2>8, QuietStep
<1>4. CASE MailRejected(t) \/ Abort(t)
  BY <1>2, <1>4, QuietEnd DEF MailRejected, Abort, FailedMail, history
<1>5. CASE MailTimesOut(t)
  BY <1>1, <1>2, <1>5, QuietEnd DEF MailTimesOut, FailedMail
<1>. QED
  BY <1>3, <1>4, <1>5

LEMMA LockKeeps ==
  ASSUME VerificationInv, NEW t \in Txs, NEW v \in Rows, LockVerification(t, v)
  PROVE  VerificationInv'
<1> DEFINE state == [NoTx EXCEPT !.pc = "locked", !.row = {v}, !.seen = ver[v]]
<1>1. VerificationTypeOK /\ ver[v] \in RowRecords
  BY RowFields DEF VerificationInv
<1>2. state \in TxRecords /\ Continue(t, state)
  BY <1>1, Constants DEF LockVerification, TxRecords, NoTx
<1>3. /\ tx'[t] = state /\ state.expire = {} /\ state.supersede = {} /\ state.consume = {}
      /\ state.row = {v} /\ state.pc = "locked" /\ state.seen = ver[v]
  BY <1>1, <1>2, OneMoves DEF NoTx
<1>4. UNCHANGED <<clock, ver, wrong, executed, sent>> /\ sent \subseteq Rows
  BY <1>1 DEF LockVerification, history, VerificationTypeOK
<1>5. Written(t)' = {} /\ LockedBy(t)' = {v} /\ ~Inserting(t)'
  BY <1>3 DEF Written, LockedBy, Inserting
<1>6. v \in Requested'
  BY <1>4 DEF LockVerification, Requested
<1>7. Shape(t)'
  BY <1>3 DEF Shape
<1>8. Holds(t)'
  BY <1>3, <1>4, <1>5, <1>6, <1>7 DEF Holds
<1>9. \A s \in Txs \ {t} : LockedBy(s) \cap {v} = {}
  BY DEF LockVerification, MayLock, Available
<1>. QED
  BY <1>2, <1>4, <1>5, <1>8, <1>9, QuietStep

LEMMA ConsumeKeeps ==
  ASSUME VerificationInv, NEW t \in Txs, FinishConsume(t)
  PROVE  VerificationInv'
<1> DEFINE rows == tx[t].wait \cap UsableRows(tx[t].now)
           state == [tx[t] EXCEPT !.pc = "consumed", !.wait = {}, !.consume = rows]
<1>1. VerificationTypeOK /\ Holds(t) /\ tx[t] \in TxRecords
  BY TxFields DEF VerificationInv, HeldAsRead
<1>2. UNCHANGED <<clock, ver, wrong, executed, sent>> /\ sent \subseteq Rows
  BY <1>1 DEF FinishConsume, history, VerificationTypeOK
<1>3. CASE End(t)
  BY <1>2, <1>3, QuietEnd
<1>4. CASE Continue(t, state)
  <2>1. tx[t].expire = {} /\ tx[t].supersede = {} /\ tx[t].pc = "consuming"
    BY <1>1 DEF FinishConsume, Holds, Shape
  <2>2. state \in TxRecords
    BY <1>1 DEF TxRecords, UsableRows
  <2>3. /\ tx'[t] = state /\ state.expire = {} /\ state.supersede = {} /\ state.consume = rows
        /\ state.pc = "consumed"
    BY <1>1, <1>4, <2>1, <2>2, OneMoves DEF TxRecords
  <2>4. Written(t)' = rows /\ LockedBy(t)' = rows /\ ~Inserting(t)'
    BY <2>3 DEF Written, LockedBy, Inserting
  <2>5. \A v \in rows : v \in Rows /\ ver[v].status = "VERIFIED"
    BY DEF UsableRows, Usable
  <2>6. rows \subseteq OpenRows'
    BY <1>2, <2>5 DEF OpenRows, Open
  <2>7. Shape(t)'
    BY <2>3 DEF Shape
  <2>8. Holds(t)'
    BY <1>2, <2>3, <2>4, <2>5, <2>6, <2>7 DEF Holds
  <2>9. \A s \in Txs \ {t} : LockedBy(s) \cap rows = {}
    BY DEF FinishConsume, Available
  <2>. QED
    BY <1>2, <1>4, <2>2, <2>4, <2>8, <2>9, QuietStep
<1>. QED
  BY <1>3, <1>4 DEF FinishConsume

-----------------------------------------------------------------------------
(* What the committing steps write.                                        *)

RequestWrites(v) ==
  /\ ver[v] = Blank /\ v \in sent
  /\ ver'[v].status = "PENDING" /\ ver'[v].failed = 0
  /\ \A w \in Rows \ {v} :
       IF w \in OpenRows
       THEN \E status \in {"EXPIRED", "SUPERSEDED"} : ver'[w] = [ver[w] EXCEPT !.status = status]
       ELSE ver'[w] = ver[w]
  /\ UNCHANGED <<sent, wrong, executed>>

CodeWrites(v, row) ==
  /\ ver[v].status = "PENDING" /\ row \in RowRecords
  /\ ver' = [ver EXCEPT ![v] = row]
  /\ UNCHANGED <<sent, executed>>
  /\ \/ /\ row.status \in {"EXPIRED", "VERIFIED"} /\ row.failed = ver[v].failed
        /\ wrong' = wrong
     \/ /\ row.failed = ver[v].failed + 1
        /\ row.status = IF row.failed >= MaxAttempts THEN "LOCKED" ELSE "PENDING"
        /\ wrong' = [wrong EXCEPT ![v] = @ + 1]

OperationWrites(v) ==
  /\ ver[v].status = "VERIFIED"
  /\ ver' = [ver EXCEPT ![v] = [@ EXCEPT !.status = "CONSUMED"]]
  /\ executed' = [executed EXCEPT ![v] = @ + 1]
  /\ UNCHANGED <<sent, wrong>>

NothingWritten == UNCHANGED <<ver, sent, wrong, executed>>

LEMMA CommitRequestWrites ==
  ASSUME VerificationInv, NEW t \in Txs, CommitRequest(t)
  PROVE  /\ \E v \in Rows : tx[t].row = {v} /\ RequestWrites(v)
         /\ VerificationTypeOK' /\ Inserting(t) /\ End(t)
<1>1. VerificationTypeOK /\ Holds(t) /\ tx[t] \in TxRecords /\ Inserting(t)
  BY TxFields DEF VerificationInv, HeldAsRead, CommitRequest, Inserting
<1>2. PICK v \in Rows : tx[t].row = {v} /\ ver[v] = Blank
  BY <1>1 DEF Holds
<1>3. v \in sent /\ tx[t].expire \cup tx[t].supersede = OpenRows
  <2>1. tx[t].expire \cup tx[t].supersede \subseteq OpenRows
    BY <1>1 DEF Holds, Written
  <2>. QED
    BY <2>1, <1>1, <1>2 DEF Holds, CommitRequest
<1>4. v \notin OpenRows
  BY <1>2 DEF OpenRows, Blank, Open, NoRow
<1>5. ver' = AfterRequest(t) /\ UNCHANGED <<clock, sent, wrong, executed>> /\ End(t)
  BY DEF CommitRequest, history
<1>6. ver'[v] = [Blank EXCEPT !.status = "PENDING", !.createdAt = tx[t].now]
  BY <1>2, <1>3, <1>4, <1>5 DEF AfterRequest
<1>7. ver'[v] \in RowRecords /\ ver'[v].status = "PENDING" /\ ver'[v].failed = 0
  BY <1>1, <1>6, Constants, TxFields DEF Blank, RowRecords, Open
<1>8. ASSUME NEW w \in Rows \ {v}
      PROVE  /\ IF w \in OpenRows
                THEN \E status \in {"EXPIRED", "SUPERSEDED"} :
                       ver'[w] = [ver[w] EXCEPT !.status = status]
                ELSE ver'[w] = ver[w]
             /\ ver'[w] \in RowRecords
  <2>1. ver[w] \in RowRecords
    BY <1>1, RowFields
  <2>2. CASE w \in tx[t].expire
    <3>1. ver'[w] = [ver[w] EXCEPT !.status = "EXPIRED"]
      BY <1>1, <1>2, <1>5, <2>2 DEF AfterRequest, Holds
    <3>. QED
      BY <3>1, <2>1, <2>2, <1>3 DEF RowRecords, Closed
  <2>3. CASE w \in tx[t].supersede /\ w \notin tx[t].expire
    <3>1. ver'[w] = [ver[w] EXCEPT !.status = "SUPERSEDED"]
      BY <1>2, <1>5, <2>3 DEF AfterRequest
    <3>. QED
      BY <3>1, <2>1, <2>3, <1>3 DEF RowRecords, Closed
  <2>4. CASE w \notin tx[t].expire /\ w \notin tx[t].supersede
    <3>1. ver'[w] = ver[w]
      BY <1>2, <1>5, <2>4 DEF AfterRequest
    <3>. QED
      BY <3>1, <2>1, <2>4, <1>3
  <2>. QED
    BY <2>2, <2>3, <2>4
<1>9. ver' \in [Rows -> RowRecords]
  BY <1>5, <1>7, <1>8 DEF AfterRequest
<1>10. VerificationTypeOK'
  <2>1. tx' \in [Txs -> TxRecords]
    BY <1>1, <1>5, Constants, OneMoves DEF End
  <2>. QED
    BY <1>1, <1>5, <1>9, <2>1 DEF VerificationTypeOK
<1>. QED
  BY <1>1, <1>2, <1>3, <1>5, <1>7, <1>8, <1>10 DEF RequestWrites

LEMMA DecideCodeWrites ==
  ASSUME VerificationInv, NEW t \in Txs, NEW v \in Rows, NEW right \in BOOLEAN,
         DecideCode(t, v, right)
  PROVE  /\ NothingWritten \/ \E row \in RowRecords : CodeWrites(v, row)
         /\ VerificationTypeOK' /\ v \in LockedBy(t) /\ End(t)
<1> DEFINE seen == tx[t].seen
           expired == seen.createdAt + CodeTtl <= clock
           compared == seen.status = "PENDING" /\ ~expired
           row == CASE seen.status # "PENDING" -> ver[v]
                    [] seen.status = "PENDING" /\ expired -> [ver[v] EXCEPT !.status = "EXPIRED"]
                    [] compared /\ ~right -> AfterWrongCode(v, seen)
                    [] compared /\ right -> AfterRightCode(v)
<1>1. VerificationTypeOK /\ Holds(t) /\ tx[t].pc = "locked" /\ tx[t].row = {v}
  BY DEF VerificationInv, HeldAsRead, DecideCode
<1>2. seen = ver[v] /\ v \in LockedBy(t)
  BY <1>1 DEF Holds, LockedBy
<1>3. /\ ver' = [ver EXCEPT ![v] = row] /\ End(t) /\ UNCHANGED <<clock, sent, executed>>
      /\ wrong' = IF compared /\ ~right THEN [wrong EXCEPT ![v] = @ + 1] ELSE wrong
  BY DEF DecideCode
<1>4. ver[v] \in RowRecords /\ ver \in [Rows -> RowRecords] /\ clock \in Instants
      /\ wrong \in [Rows -> 0 .. MaxAttempts]
  BY <1>1, RowFields DEF VerificationTypeOK
<1>5. tx' \in [Txs -> TxRecords]
  BY <1>1, <1>3, Constants, OneMoves DEF End
<1>6. CASE seen.status # "PENDING"
  <2>1. row = ver[v] /\ wrong' = wrong
    BY <1>3, <1>6
  <2>2. NothingWritten
    BY <1>3, <1>4, <2>1 DEF NothingWritten
  <2>. QED
    BY <1>1, <1>2, <1>3, <1>5, <2>2 DEF NothingWritten, VerificationTypeOK
<1>7. CASE seen.status = "PENDING"
  <2>1. /\ row \in RowRecords
        /\ \/ /\ row.status \in {"EXPIRED", "VERIFIED"} /\ row.failed = ver[v].failed
              /\ wrong' = wrong
           \/ /\ row.failed = ver[v].failed + 1
              /\ row.status = IF row.failed >= MaxAttempts THEN "LOCKED" ELSE "PENDING"
              /\ wrong' = [wrong EXCEPT ![v] = @ + 1]
    <3>1. CASE expired
      <4>1. row = [ver[v] EXCEPT !.status = "EXPIRED"] /\ wrong' = wrong
        BY <1>3, <1>7, <3>1
      <4>. QED
        BY <4>1, <1>4 DEF RowRecords, Closed
    <3>2. CASE compared /\ ~right
      <4>1. row = AfterWrongCode(v, ver[v]) /\ wrong' = [wrong EXCEPT ![v] = @ + 1]
        BY <1>2, <1>3, <1>7, <3>2
      <4>2. ver[v].failed \in Nat /\ ver[v].failed < MaxAttempts
        <5>1. wrong[v] = ver[v].failed /\ (wrong[v] >= MaxAttempts => ver[v].status = "LOCKED")
          BY DEF VerificationInv, RowsInv, AttemptsAreCounted
        <5>2. ver[v].failed \in 0 .. MaxAttempts /\ ver[v].status = "PENDING"
          BY <1>2, <1>4, <1>7 DEF RowRecords
        <5>. QED
          BY <5>1, <5>2, Constants
      <4>3. ver[v].failed + 1 \in 0 .. MaxAttempts
        BY <4>2, Constants
      <4>4. row.failed = ver[v].failed + 1
        BY <4>1, <1>4 DEF AfterWrongCode, RowRecords
      <4>5. row.status = IF ver[v].failed + 1 >= MaxAttempts THEN "LOCKED" ELSE "PENDING"
        BY <4>1, <1>2, <1>4, <1>7 DEF AfterWrongCode, RowRecords
      <4>6. row \in RowRecords
        BY <4>1, <4>3, <1>4 DEF AfterWrongCode, RowRecords, Closed
      <4>. QED
        BY <4>1, <4>4, <4>5, <4>6
    <3>3. CASE compared /\ right
      <4>1. row = AfterRightCode(v) /\ wrong' = wrong
        BY <1>2, <1>3, <1>7, <3>3
      <4>. QED
        BY <4>1, <1>4 DEF AfterRightCode, RowRecords, Open
    <3>. QED
      BY <1>7, <3>1, <3>2, <3>3
  <2>. HIDE DEF row
  <2>2. CodeWrites(v, row)
    BY <1>2, <1>3, <1>7, <2>1 DEF CodeWrites
  <2>3. ver' \in [Rows -> RowRecords]
    BY <1>3, <1>4, <2>1
  <2>4. wrong' \in [Rows -> 0 .. MaxAttempts]
    <3>1. CASE wrong' = wrong
      BY <3>1, <1>4
    <3>2. CASE row.failed = ver[v].failed + 1 /\ wrong' = [wrong EXCEPT ![v] = @ + 1]
      <4>1. wrong[v] = ver[v].failed /\ row.failed \in 0 .. MaxAttempts
        BY <2>1 DEF VerificationInv, RowsInv, AttemptsAreCounted, RowRecords
      <4>2. wrong[v] + 1 \in 0 .. MaxAttempts
        BY <3>2, <4>1
      <4>. QED
        BY <3>2, <4>2, <1>4
    <3>. QED
      BY <2>1, <3>1, <3>2
  <2>. QED
    BY <1>1, <1>2, <1>3, <1>5, <2>1, <2>2, <2>3, <2>4 DEF VerificationTypeOK
<1>. QED
  BY <1>6, <1>7

LEMMA CommitOperationWrites ==
  ASSUME VerificationInv, NEW t \in Txs, CommitOperation(t)
  PROVE  /\ NothingWritten \/ \E v \in LockedBy(t) \cap Rows : OperationWrites(v)
         /\ VerificationTypeOK' /\ End(t)
<1>1. VerificationTypeOK /\ Holds(t)
  BY DEF VerificationInv, HeldAsRead
<1>2. /\ ver' = [v \in Rows |-> IF v \in tx[t].consume
                                THEN [ver[v] EXCEPT !.status = "CONSUMED"] ELSE ver[v]]
      /\ executed' = [v \in Rows |-> IF v \in tx[t].consume
                                     THEN executed[v] + 1 ELSE executed[v]]
      /\ End(t) /\ UNCHANGED <<clock, sent, wrong>>
  BY DEF CommitOperation
<1>3. ver \in [Rows -> RowRecords] /\ executed \in [Rows -> 0 .. 1]
  BY <1>1 DEF VerificationTypeOK
<1>4. tx' \in [Txs -> TxRecords]
  BY <1>1, <1>2, Constants, OneMoves DEF End
<1>5. \A v \in tx[t].consume : v \in Rows /\ v \in LockedBy(t) /\ ver[v].status = "VERIFIED"
  BY <1>1, TxFields DEF Holds, LockedBy, Written
<1>6. CASE tx[t].consume = {}
  <2>1. NothingWritten
    BY <1>2, <1>3, <1>6 DEF NothingWritten
  <2>. QED
    BY <2>1, <1>1, <1>2, <1>4 DEF NothingWritten, VerificationTypeOK
<1>7. CASE tx[t].consume # {}
  <2>1. PICK v \in tx[t].consume : v \in Rows /\ v \in LockedBy(t) /\ ver[v].status = "VERIFIED"
    BY <1>5, <1>7
  <2>2. tx[t].consume = {v}
    BY <1>5, <2>1 DEF VerificationInv, RowsInv, OneOpenVerification, Open
  <2>3. ver' = [ver EXCEPT ![v] = [@ EXCEPT !.status = "CONSUMED"]]
    BY <1>2, <1>3, <2>1, <2>2
  <2>4. executed' = [executed EXCEPT ![v] = @ + 1]
    BY <1>2, <1>3, <2>1, <2>2
  <2>5. executed[v] = 0
    BY <2>1 DEF VerificationInv, RowsInv, OneOperationPerCode
  <2>6. executed' \in [Rows -> 0 .. 1]
    BY <1>3, <2>1, <2>4, <2>5
  <2>7. [ver[v] EXCEPT !.status = "CONSUMED"] \in RowRecords
    BY <1>3, <2>1 DEF RowRecords, Closed
  <2>8. ver' \in [Rows -> RowRecords]
    BY <1>3, <2>3, <2>7
  <2>9. OperationWrites(v)
    BY <1>2, <2>1, <2>3, <2>4 DEF OperationWrites
  <2>. QED
    BY <1>1, <1>2, <1>4, <2>1, <2>6, <2>8, <2>9 DEF VerificationTypeOK
<1>. QED
  BY <1>6, <1>7

-----------------------------------------------------------------------------
\* After a commit the facts about the rows hold again.
LEMMA WrittenRows ==
  ASSUME VerificationInv, VerificationTypeOK',
         \/ NothingWritten
         \/ \E v \in Rows : RequestWrites(v)
         \/ \E v \in Rows, row \in RowRecords : CodeWrites(v, row)
         \/ \E v \in Rows : OperationWrites(v)
  PROVE  RowsInv'
<1>1. VerificationTypeOK /\ RowsInv
  BY DEF VerificationInv
<1>2. /\ ver \in [Rows -> RowRecords]
      /\ wrong \in [Rows -> 0 .. MaxAttempts] /\ executed \in [Rows -> 0 .. 1]
  BY <1>1 DEF VerificationTypeOK
<1>3. CASE NothingWritten
  BY <1>1, <1>3 DEF NothingWritten, RowsInv, UnusedRowsAreBlank, OneOpenVerification,
     AttemptsAreCounted, OneOperationPerCode, CodeWasSent, Requested
<1>4. ASSUME NEW v \in Rows, RequestWrites(v) PROVE RowsInv'
  <2>1. /\ ver[v] = Blank /\ v \in sent /\ ver'[v].status = "PENDING" /\ ver'[v].failed = 0
        /\ UNCHANGED <<sent, wrong, executed>>
    BY <1>4 DEF RequestWrites
  <2>2. \A w \in Rows \ {v} :
          \/ /\ w \in OpenRows /\ ver'[w].failed = ver[w].failed
             /\ ver'[w].status \in {"EXPIRED", "SUPERSEDED"}
          \/ w \notin OpenRows /\ ver'[w] = ver[w]
    BY <1>2, <1>4 DEF RequestWrites, RowRecords
  <2>3. \A w \in Rows : ver'[w].status \in Open => w = v
    BY <2>2 DEF OpenRows, Open
  <2>4. OneOpenVerification'
    BY <2>3 DEF OneOpenVerification
  <2>5. UnusedRowsAreBlank'
    BY <1>1, <2>1, <2>2 DEF RowsInv, UnusedRowsAreBlank, NoRow
  <2>6. AttemptsAreCounted'
    <3>1. wrong[v] = 0
      BY <1>1, <2>1 DEF RowsInv, AttemptsAreCounted, Blank
    <3>2. ~(0 >= MaxAttempts)
      BY Constants
    <3>3. \A w \in OpenRows : ~(wrong[w] >= MaxAttempts)
      BY <1>1 DEF RowsInv, AttemptsAreCounted, OpenRows, Open
    <3>. QED
      BY <1>1, <2>1, <2>2, <3>1, <3>2, <3>3 DEF RowsInv, AttemptsAreCounted
  <2>7. OneOperationPerCode'
    <3>1. executed[v] = 0
      BY <1>1, <2>1 DEF RowsInv, OneOperationPerCode, Blank, NoRow
    <3>2. \A w \in OpenRows : executed[w] = 0
      BY <1>1 DEF RowsInv, OneOperationPerCode, OpenRows, Open
    <3>. QED
      BY <1>1, <2>1, <2>2, <3>1, <3>2 DEF RowsInv, OneOperationPerCode
  <2>8. CodeWasSent'
    <3>1. \A w \in Rows \ {v} : ver'[w].status # NoRow => ver[w].status # NoRow
      BY <2>2 DEF OpenRows, Open, NoRow
    <3>. QED
      BY <1>1, <2>1, <3>1 DEF RowsInv, CodeWasSent, Requested
  <2>. QED
    BY <2>4, <2>5, <2>6, <2>7, <2>8 DEF RowsInv
<1>5. ASSUME NEW v \in Rows, NEW row \in RowRecords, CodeWrites(v, row) PROVE RowsInv'
  <2>1. /\ ver[v].status = "PENDING" /\ ver' = [ver EXCEPT ![v] = row]
        /\ UNCHANGED <<sent, executed>>
    BY <1>5 DEF CodeWrites
  <2>2. ver'[v] = row /\ \A w \in Rows \ {v} : ver'[w] = ver[w]
    BY <1>2, <2>1
  <2>3. row.status \in {"EXPIRED", "VERIFIED", "LOCKED", "PENDING"}
    BY <1>5 DEF CodeWrites
  <2>4. OneOpenVerification'
    <3>1. \A w \in Rows : ver'[w].status \in Open => ver[w].status \in Open
      BY <2>1, <2>2 DEF Open
    <3>. QED
      BY <1>1, <3>1 DEF RowsInv, OneOpenVerification
  <2>5. UnusedRowsAreBlank'
    BY <1>1, <2>2, <2>3 DEF RowsInv, UnusedRowsAreBlank, NoRow
  <2>6. AttemptsAreCounted'
    <3>1. \A w \in Rows \ {v} : wrong'[w] = wrong[w]
      BY <1>2, <1>5 DEF CodeWrites
    <3>2. /\ wrong[v] = ver[v].failed /\ wrong[v] \in Nat
          /\ ~(wrong[v] >= MaxAttempts)
      BY <1>1, <1>2, <2>1, Constants DEF RowsInv, AttemptsAreCounted
    <3>3. wrong'[v] = row.failed /\ (wrong'[v] >= MaxAttempts => row.status = "LOCKED")
      BY <1>2, <1>5, <3>2 DEF CodeWrites
    <3>. QED
      BY <1>1, <2>2, <3>1, <3>3 DEF RowsInv, AttemptsAreCounted
  <2>7. OneOperationPerCode'
    BY <1>1, <2>1, <2>2, <2>3 DEF RowsInv, OneOperationPerCode
  <2>8. CodeWasSent'
    BY <1>1, <2>1, <2>2 DEF RowsInv, CodeWasSent, Requested, NoRow
  <2>. QED
    BY <2>4, <2>5, <2>6, <2>7, <2>8 DEF RowsInv
<1>6. ASSUME NEW v \in Rows, OperationWrites(v) PROVE RowsInv'
  <2>1. /\ ver[v].status = "VERIFIED"
        /\ ver'[v].status = "CONSUMED" /\ ver'[v].failed = ver[v].failed
        /\ \A w \in Rows \ {v} : ver'[w] = ver[w]
        /\ executed'[v] = executed[v] + 1 /\ \A w \in Rows \ {v} : executed'[w] = executed[w]
        /\ UNCHANGED <<sent, wrong>>
    BY <1>2, <1>6 DEF OperationWrites, RowRecords
  <2>2. OneOpenVerification'
    BY <1>1, <2>1 DEF RowsInv, OneOpenVerification, Open
  <2>3. UnusedRowsAreBlank'
    BY <1>1, <2>1 DEF RowsInv, UnusedRowsAreBlank, NoRow
  <2>4. AttemptsAreCounted'
    BY <1>1, <2>1 DEF RowsInv, AttemptsAreCounted
  <2>5. OneOperationPerCode'
    BY <1>1, <2>1 DEF RowsInv, OneOperationPerCode
  <2>6. CodeWasSent'
    BY <1>1, <2>1 DEF RowsInv, CodeWasSent, Requested, NoRow
  <2>. QED
    BY <2>2, <2>3, <2>4, <2>5, <2>6 DEF RowsInv
<1>. QED
  BY <1>3, <1>4, <1>5, <1>6

\* A transaction that commits ends, and writes only what it holds.
LEMMA CommitKeeps ==
  ASSUME VerificationInv, VerificationTypeOK', RowsInv', NEW t \in Txs, End(t), sent' = sent,
         \/ NothingWritten
         \/ \E v \in Rows : RequestWrites(v) /\ Inserting(t)
         \/ \E v \in LockedBy(t) \cap Rows, row \in RowRecords : CodeWrites(v, row)
         \/ \E v \in LockedBy(t) \cap Rows : OperationWrites(v)
  PROVE  VerificationInv'
<1>1. VerificationTypeOK /\ Holds(t) /\ ver \in [Rows -> RowRecords]
  BY DEF VerificationInv, HeldAsRead, VerificationTypeOK
<1>2. CASE \E v \in Rows : RequestWrites(v) /\ Inserting(t)
  <2>1. PICK v \in Rows : RequestWrites(v) /\ Inserting(t)
    BY <1>2
  <2>2. OpenRows \subseteq LockedBy(t)
    BY <1>1, <2>1 DEF Holds, LockedBy, Written
  <2>3. \A w \in Rows : ver'[w] = ver[w] \/ w \in LockedBy(t) \/ (Inserting(t) /\ ver[w] = Blank)
    BY <2>1, <2>2 DEF RequestWrites
  <2>. QED
    BY <1>1, <2>1, <2>3, EndHoldsNothing, LocksAfter DEF VerificationInv
<1>3. CASE \/ NothingWritten
           \/ \E v \in LockedBy(t) \cap Rows, row \in RowRecords : CodeWrites(v, row)
           \/ \E v \in LockedBy(t) \cap Rows : OperationWrites(v)
  <2>1. \A w \in Rows : ver'[w] = ver[w] \/ (w \in LockedBy(t) /\ ver[w].status \in Open)
    <3>1. CASE NothingWritten
      BY <3>1 DEF NothingWritten
    <3>2. ASSUME NEW v \in LockedBy(t) \cap Rows, NEW row \in RowRecords, CodeWrites(v, row)
          PROVE  \A w \in Rows : ver'[w] = ver[w] \/ (w \in LockedBy(t) /\ ver[w].status \in Open)
      BY <3>2, <1>1 DEF CodeWrites, Open
    <3>3. ASSUME NEW v \in LockedBy(t) \cap Rows, OperationWrites(v)
          PROVE  \A w \in Rows : ver'[w] = ver[w] \/ (w \in LockedBy(t) /\ ver[w].status \in Open)
      BY <3>3, <1>1 DEF OperationWrites, Open
    <3>. QED
      BY <1>3, <3>1, <3>2, <3>3
  <2>2. \A w \in Rows : ver'[w].status \in Open => ver[w].status \in Open
    BY <2>1
  <2>. QED
    BY <1>1, <2>1, <2>2, EndHoldsNothing, LocksAfter DEF VerificationInv
<1>. QED
  BY <1>2, <1>3

LEMMA TickKeeps ==
  ASSUME VerificationInv, UNCHANGED <<ver, tx, sent, wrong, executed>>, clock' \in Instants
  PROVE  VerificationInv'
<1>1. VerificationTypeOK'
  BY DEF VerificationInv, VerificationTypeOK
<1>2. \A t \in Txs : Holds(t)' = Holds(t) /\ LockedBy(t)' = LockedBy(t) /\ Inserting(t)' = Inserting(t)
  BY DEF Holds, Shape, LockedBy, Written, Inserting, OpenRows, Requested
<1>3. HeldAsRead' /\ Exclusive'
  BY <1>2 DEF VerificationInv, HeldAsRead, Exclusive
<1>4. RowsInv'
  BY DEF VerificationInv, RowsInv, UnusedRowsAreBlank, OneOpenVerification, AttemptsAreCounted,
         OneOperationPerCode, CodeWasSent, Requested
<1>. QED
  BY <1>1, <1>3, <1>4 DEF VerificationInv

\* Any step: the invariant is kept, and the step writes one of the three
\* things, or nothing but a mark of a mail that left.
LEMMA VerificationStep ==
  ASSUME VerificationInv, [Next]_vars
  PROVE  /\ VerificationInv'
         /\ \/ UNCHANGED <<ver, wrong, executed>>
            \/ \E v \in Rows : RequestWrites(v)
            \/ \E v \in Rows, row \in RowRecords : CodeWrites(v, row)
            \/ \E v \in Rows : OperationWrites(v)
<1> DEFINE Writes ==
             \/ UNCHANGED <<ver, wrong, executed>>
             \/ \E v \in Rows : RequestWrites(v)
             \/ \E v \in Rows, row \in RowRecords : CodeWrites(v, row)
             \/ \E v \in Rows : OperationWrites(v)
<1>1. CASE Tick
  <2>1. clock' \in Instants
    BY <1>1, Constants DEF Tick, VerificationInv, VerificationTypeOK, Instants
  <2>. QED
    BY <1>1, <2>1, TickKeeps DEF Tick, history
<1>2. ASSUME NEW t \in Txs, Begin(t) \/ Advance(t) \/ SendMail(t) \/ MailRejected(t) \/ Abort(t)
      PROVE  VerificationInv' /\ Writes
  <2>1. CASE ReadLatest(t) \/ LockOrganization(t) \/ (StartConsume(t) /\ ~End(t))
    BY <2>1, BeginKeeps DEF ReadLatest, LockOrganization, StartConsume, history
  <2>2. CASE \E v \in Rows : LockVerification(t, v)
    BY <2>2, LockKeeps DEF LockVerification, history
  <2>3. CASE StartExpire(t) \/ FinishExpire(t)
    BY <2>3, ExpireKeeps DEF StartExpire, FinishExpire, history
  <2>4. CASE StartSupersede(t) \/ FinishSupersede(t)
    BY <2>4, SupersedeKeeps DEF StartSupersede, FinishSupersede, history
  <2>5. CASE Insert(t)
    BY <2>5, InsertKeeps DEF Insert, history
  <2>6. CASE SendMail(t) \/ MailRejected(t) \/ MailTimesOut(t) \/ Abort(t)
    BY <2>6, MailKeeps DEF SendMail, MailRejected, MailTimesOut, Abort, FailedMail, history
  <2>7. CASE FinishConsume(t)
    BY <2>7, ConsumeKeeps DEF FinishConsume, history
  <2>8. CASE CommitRequest(t)
    <3>1. /\ \E v \in Rows : RequestWrites(v) /\ Inserting(t)
          /\ VerificationTypeOK' /\ End(t) /\ sent' = sent
      BY <2>8, CommitRequestWrites DEF CommitRequest, history
    <3>2. RowsInv'
      BY <3>1, WrittenRows
    <3>. QED
      BY <3>1, <3>2, CommitKeeps
  <2>9. CASE VerifyStep(t)
    <3>1. PICK v \in Rows, right \in BOOLEAN : DecideCode(t, v, right)
      BY <2>9 DEF VerifyStep
    <3>2. /\ NothingWritten \/ \E row \in RowRecords : CodeWrites(v, row)
          /\ VerificationTypeOK' /\ v \in LockedBy(t) /\ End(t) /\ sent' = sent
      BY <3>1, DecideCodeWrites DEF DecideCode
    <3>3. RowsInv'
      BY <3>2, WrittenRows
    <3>4. VerificationInv'
      BY <3>2, <3>3, CommitKeeps
    <3>. QED
      BY <3>2, <3>4 DEF NothingWritten
  <2>10. CASE CommitOperation(t)
    <3>1. /\ NothingWritten \/ \E v \in LockedBy(t) \cap Rows : OperationWrites(v)
          /\ VerificationTypeOK' /\ End(t) /\ sent' = sent
      BY <2>10, CommitOperationWrites DEF CommitOperation
    <3>2. RowsInv'
      BY <3>1, WrittenRows
    <3>3. VerificationInv'
      BY <3>1, <3>2, CommitKeeps
    <3>. QED
      BY <3>1, <3>3 DEF NothingWritten
  <2>11. CASE StartConsume(t) /\ End(t)
    <3>1. UNCHANGED <<clock, ver, sent, wrong, executed>> /\ sent \subseteq Rows
      BY <2>11 DEF StartConsume, history, VerificationInv, VerificationTypeOK
    <3>. QED
      BY <2>11, <3>1, QuietEnd
  <2>. QED
    BY <1>2, <2>1, <2>2, <2>3, <2>4, <2>5, <2>6, <2>7, <2>8, <2>9, <2>10, <2>11
       DEF Begin, Advance, RequestStep, OperationStep
<1>3. CASE UNCHANGED vars
  <2>1. clock' \in Instants
    BY <1>3 DEF vars, VerificationInv, VerificationTypeOK
  <2>. QED
    BY <1>3, <2>1, TickKeeps DEF vars
<1>. QED
  BY <1>1, <1>2, <1>3 DEF Next, BreakDeadlock

LEMMA InitialVerifications == Init => VerificationInv
<1>. SUFFICES ASSUME Init PROVE VerificationInv
  OBVIOUS
<1>1. VerificationTypeOK
  BY Constants DEF Init, VerificationTypeOK, Instants
<1>2. \A t \in Txs : Holds(t) /\ LockedBy(t) = {} /\ ~Inserting(t)
  <2>1. \A t \in Txs : tx[t] = NoTx
    BY DEF Init
  <2>2. \A t \in Txs : Written(t) = {} /\ LockedBy(t) = {} /\ ~Inserting(t)
    BY <2>1 DEF Written, LockedBy, Inserting, NoTx
  <2>3. \A t \in Txs : Shape(t) /\ tx[t].expire = {} /\ tx[t].consume = {} /\ tx[t].pc = "idle"
    BY <2>1 DEF Shape, NoTx
  <2>. QED
    BY <2>2, <2>3 DEF Holds
<1>3. RowsInv
  <2>1. \A v \in Rows : ver[v] = Blank /\ wrong[v] = 0 /\ executed[v] = 0
    BY DEF Init
  <2>2. Blank.status = NoRow /\ Blank.failed = 0 /\ NoRow \notin Open /\ NoRow # "CONSUMED"
    BY DEF Blank, NoRow, Open
  <2>. QED
    BY <2>1, <2>2, Constants DEF RowsInv, UnusedRowsAreBlank, OneOpenVerification, AttemptsAreCounted,
       OneOperationPerCode, CodeWasSent, Requested
<1>. QED
  BY <1>1, <1>2, <1>3 DEF VerificationInv, HeldAsRead, Exclusive

-----------------------------------------------------------------------------
\* The inductive invariant holds in every behaviour of the code, whatever the
\* interleaving, the aborts and the mails (security-verifications.service.ts).
THEOREM VerificationInvariant == Spec => []VerificationInv
<1>1. VerificationInv /\ [Next]_vars => VerificationInv'
  BY VerificationStep
<1>. QED
  BY InitialVerifications, <1>1, PTL DEF Spec

\* Rows, transactions and histories keep their types; no row ever counts more
\* failures than the maximum (security-verification.entity.ts:55-90).
THEOREM VerificationTypeCorrect == Spec => []VerificationTypeOK
<1>1. VerificationInv => VerificationTypeOK
  BY DEF VerificationInv
<1>. QED
  BY VerificationInvariant, <1>1, PTL

\* At most one code or authorization of a scope is usable at any time
\* (security-verification.entity.ts:24-27, service lines 362-406).
THEOREM OneOpen == Spec => []OneOpenVerification
<1>1. VerificationInv => OneOpenVerification
  BY DEF VerificationInv, RowsInv
<1>. QED
  BY VerificationInvariant, <1>1, PTL

\* No parallel attempt escapes the count, and the last one locks the row
\* (service lines 199-200, 231-249).
THEOREM EveryAttemptCounts == Spec => []AttemptsAreCounted
<1>1. VerificationInv => AttemptsAreCounted
  BY DEF VerificationInv, RowsInv
<1>. QED
  BY VerificationInvariant, <1>1, PTL

\* However many deletions race for it, a verified code authorizes one
\* (service lines 306-323).
THEOREM OneUse == Spec => []OneOperationPerCode
<1>1. VerificationInv => OneOperationPerCode
  BY DEF VerificationInv, RowsInv
<1>. QED
  BY VerificationInvariant, <1>1, PTL

\* Every committed row had its code accepted by the provider
\* (service lines 155-158).
THEOREM CommittedWasSent == Spec => []CodeWasSent
<1>1. VerificationInv => CodeWasSent
  BY DEF VerificationInv, RowsInv
<1>. QED
  BY VerificationInvariant, <1>1, PTL

\* No transaction under way reopens a closed row or makes a verified one ask
\* for its code again (service lines 178-258, 362-406).
THEOREM ClosedStays == Spec => ClosedIsFinal
<1> DEFINE Final ==
             \A v \in Rows :
               /\ ver[v].status \in Closed => ver'[v].status = ver[v].status
               /\ ver[v].status = "VERIFIED" => ver'[v].status # "PENDING"
<1>1. ASSUME VerificationInv, [Next]_vars PROVE Final
  <2>1. ver \in [Rows -> RowRecords]
    BY <1>1 DEF VerificationInv, VerificationTypeOK
  <2>2. CASE UNCHANGED <<ver, wrong, executed>>
    BY <2>2
  <2>3. ASSUME NEW v \in Rows, RequestWrites(v) PROVE Final
    <3>1. ver[v].status = NoRow
      BY <2>3 DEF RequestWrites, Blank
    <3>2. ASSUME NEW w \in Rows \ {v}
          PROVE  \/ w \in OpenRows /\ ver'[w].status \in {"EXPIRED", "SUPERSEDED"}
                 \/ w \notin OpenRows /\ ver'[w] = ver[w]
      BY <2>1, <2>3 DEF RequestWrites, RowRecords
    <3>. QED
      BY <3>1, <3>2 DEF OpenRows, Open, Closed, NoRow
  <2>4. ASSUME NEW v \in Rows, NEW row \in RowRecords, CodeWrites(v, row) PROVE Final
    BY <2>1, <2>4 DEF CodeWrites, Closed
  <2>5. ASSUME NEW v \in Rows, OperationWrites(v) PROVE Final
    BY <2>1, <2>5 DEF OperationWrites, Closed, RowRecords
  <2>. QED
    BY <1>1, <2>2, <2>3, <2>4, <2>5, VerificationStep
<1>2. VerificationInv /\ [Next]_vars => [Final]_vars
  BY <1>1
<1>. QED
  BY VerificationInvariant, <1>2, PTL DEF Spec, ClosedIsFinal

-----------------------------------------------------------------------------
(* Waiting.                                                                *)

\* Inductive together with VerificationInv: an UPDATE picks one row at most,
\* and the second one none at all when the first has closed a row.
PicksOneRow(t) ==
  /\ tx[t].wait # {} => tx[t].pc \in {"expiring", "superseding", "consuming"}
  /\ \A v, w \in tx[t].wait : v = w
  /\ tx[t].pc = "superseding" /\ tx[t].expire # {} => tx[t].wait = {}

WaitInv == \A t \in Txs : PicksOneRow(t)

LEMMA PicksStay ==
  ASSUME VerificationInv, WaitInv, NEW t \in Txs, NEW state \in TxRecords, Continue(t, state),
         state.wait # {} => state.pc \in {"expiring", "superseding", "consuming"},
         \A v, w \in state.wait : v = w,
         state.pc = "superseding" /\ state.expire # {} => state.wait = {}
  PROVE  WaitInv'
<1>1. tx'[t] = state /\ \A s \in Txs \ {t} : tx'[s] = tx[s]
  BY OneMoves DEF VerificationInv
<1>. QED
  BY <1>1 DEF WaitInv, PicksOneRow

\* The statements that pick rows find at most the one open row.
LEMMA PickingKeeps ==
  ASSUME VerificationInv, WaitInv, NEW t \in Txs,
         StartExpire(t) \/ StartSupersede(t) \/ (StartConsume(t) /\ ~End(t))
  PROVE  WaitInv'
<1>1. VerificationTypeOK /\ Holds(t) /\ tx[t] \in TxRecords /\ clock \in Instants
  BY TxFields DEF VerificationInv, HeldAsRead, VerificationTypeOK
<1>2. \A v, w \in OpenRows : v = w
  BY DEF VerificationInv, RowsInv, OneOpenVerification, OpenRows
<1>3. CASE StartExpire(t)
  <2> DEFINE state == [tx[t] EXCEPT !.pc = "expiring", !.wait = Outdated(t)]
  <2>1. state \in TxRecords /\ state.wait = Outdated(t) /\ state.pc = "expiring" /\ Continue(t, state)
    BY <1>1, <1>3 DEF StartExpire, TxRecords, Outdated
  <2>2. \A v, w \in state.wait : v = w
    BY <1>2, <2>1, Outdatedness
  <2>. HIDE DEF state
  <2>. QED
    BY <2>1, <2>2, PicksStay
<1>4. CASE StartSupersede(t)
  <2> DEFINE state == [tx[t] EXCEPT !.pc = "superseding", !.wait = StillOpen(t)]
  <2>1. /\ state \in TxRecords /\ Continue(t, state)
        /\ state.wait = OpenRows \ tx[t].expire /\ state.expire = tx[t].expire
        /\ state.pc = "superseding"
    BY <1>1, <1>4, Outdatedness DEF StartSupersede, TxRecords, StillOpen
  <2>2. tx[t].expire \subseteq OpenRows
    BY <1>1 DEF Holds, Written
  <2>3. /\ \A v, w \in state.wait : v = w
        /\ state.expire # {} => state.wait = {}
    BY <1>2, <2>1, <2>2
  <2>. HIDE DEF state
  <2>. QED
    BY <2>1, <2>3, PicksStay
<1>5. CASE StartConsume(t) /\ ~End(t)
  <2> DEFINE state == [NoTx EXCEPT !.pc = "consuming", !.now = clock, !.wait = UsableRows(clock)]
  <2>1. /\ state \in TxRecords /\ Continue(t, state)
        /\ state.wait = UsableRows(clock) /\ state.pc = "consuming"
    BY <1>1, <1>5, Constants DEF StartConsume, TxRecords, NoTx, UsableRows
  <2>2. UsableRows(clock) \subseteq OpenRows
    BY DEF UsableRows, Usable, OpenRows, Open
  <2>3. \A v, w \in state.wait : v = w
    BY <1>2, <2>1, <2>2
  <2>. HIDE DEF state
  <2>. QED
    BY <2>1, <2>3, PicksStay
<1>. QED
  BY <1>3, <1>4, <1>5

\* Every other step ends the transaction, leaves its picks alone, or drops them.
LEMMA WaitStep ==
  ASSUME VerificationInv, WaitInv, [Next]_vars
  PROVE  WaitInv'
<1>1. CASE UNCHANGED tx
  BY <1>1 DEF WaitInv, PicksOneRow
<1>2. ASSUME NEW t \in Txs, NEW state \in TxRecords, Continue(t, state),
             state.wait = {}
      PROVE  WaitInv'
  BY <1>2, PicksStay
<1>3. NoTx.wait = {} /\ NoTx.pc = "idle" /\ NoTx \in TxRecords
  BY Constants DEF NoTx
<1>4. ASSUME NEW t \in Txs, End(t) PROVE WaitInv'
  BY <1>2, <1>3, <1>4 DEF End
<1>5. ASSUME NEW t \in Txs, Begin(t) \/ Advance(t) \/ SendMail(t) \/ MailRejected(t) \/ Abort(t)
      PROVE  WaitInv'
  <2>1. tx[t] \in TxRecords /\ VerificationTypeOK /\ clock \in Instants
    BY TxFields DEF VerificationInv, VerificationTypeOK
  <2>2. CASE ReadLatest(t)
    <3> DEFINE state == [NoTx EXCEPT !.pc = "latestRead", !.now = clock]
    <3>1. state \in TxRecords /\ Continue(t, state) /\ state.wait = {} /\ state.pc = "latestRead"
      BY <2>1, <2>2, Constants DEF ReadLatest, TxRecords, NoTx
    <3>. HIDE DEF state
    <3>. QED
      BY <1>2, <3>1
  <2>3. ASSUME NEW v \in Rows, LockVerification(t, v) PROVE WaitInv'
    <3> DEFINE state == [NoTx EXCEPT !.pc = "locked", !.row = {v}, !.seen = ver[v]]
    <3>1. state \in TxRecords /\ Continue(t, state) /\ state.wait = {} /\ state.pc = "locked"
      BY <2>1, <2>3, Constants, RowFields DEF LockVerification, TxRecords, NoTx
    <3>. HIDE DEF state
    <3>. QED
      BY <1>2, <3>1
  <2>4. CASE StartExpire(t) \/ StartSupersede(t) \/ (StartConsume(t) /\ ~End(t))
    BY <2>4, PickingKeeps
  <2>5. CASE FinishExpire(t)
    <3> DEFINE state == [tx[t] EXCEPT !.pc = "expired", !.wait = {},
                                      !.expire = tx[t].wait \cap Outdated(t)]
    <3>1. state \in TxRecords /\ Continue(t, state) /\ state.wait = {} /\ state.pc = "expired"
      BY <2>1, <2>5 DEF FinishExpire, TxRecords, Outdated
    <3>. HIDE DEF state
    <3>. QED
      BY <1>2, <3>1
  <2>6. CASE FinishSupersede(t)
    <3> DEFINE state == [tx[t] EXCEPT !.pc = "superseded", !.wait = {},
                                      !.supersede = tx[t].wait \cap StillOpen(t)]
    <3>1. state \in TxRecords /\ Continue(t, state) /\ state.wait = {} /\ state.pc = "superseded"
      BY <2>1, <2>6 DEF FinishSupersede, TxRecords, StillOpen
    <3>. HIDE DEF state
    <3>. QED
      BY <1>2, <3>1
  <2>7. ASSUME tx[t].pc = "superseded", NEW v \in FreshRows,
               Continue(t, [tx[t] EXCEPT !.pc = "inserted", !.row = {v}])
        PROVE  WaitInv'
    <3> DEFINE state == [tx[t] EXCEPT !.pc = "inserted", !.row = {v}]
    <3>1. state \in TxRecords /\ state.wait = {}
      BY <2>1, <2>7 DEF TxRecords, FreshRows, WaitInv, PicksOneRow
    <3>. HIDE DEF state
    <3>. QED
      BY <1>2, <2>7, <3>1 DEF state
  <2>8. CASE SendMail(t)
    <3> DEFINE state == [tx[t] EXCEPT !.pc = "mailed"]
    <3>1. state \in TxRecords /\ Continue(t, state) /\ state.wait = {}
      BY <2>1, <2>8 DEF SendMail, TxRecords, WaitInv, PicksOneRow
    <3>. HIDE DEF state
    <3>. QED
      BY <1>2, <3>1
  <2>9. ASSUME Continue(t, [tx[t] EXCEPT !.pc = "consumed", !.wait = {},
                              !.consume = tx[t].wait \cap UsableRows(tx[t].now)])
        PROVE  WaitInv'
    <3> DEFINE state == [tx[t] EXCEPT !.pc = "consumed", !.wait = {},
                                      !.consume = tx[t].wait \cap UsableRows(tx[t].now)]
    <3>1. state \in TxRecords /\ state.wait = {} /\ state.pc = "consumed"
      BY <2>1 DEF TxRecords, UsableRows
    <3>. HIDE DEF state
    <3>. QED
      BY <1>2, <2>9, <3>1 DEF state
  <2>10. CASE Insert(t)
    BY <1>4, <2>7, <2>10 DEF Insert
  <2>11. CASE FinishConsume(t)
    BY <1>4, <2>9, <2>11 DEF FinishConsume
  <2>12. CASE \/ MailTimesOut(t) \/ CommitRequest(t) \/ MailRejected(t) \/ Abort(t)
              \/ VerifyStep(t) \/ CommitOperation(t)
    BY <1>4, <2>12
       DEF MailTimesOut, CommitRequest, MailRejected, Abort, VerifyStep, DecideCode, CommitOperation
  <2>13. CASE LockOrganization(t)
    <3> DEFINE state == [NoTx EXCEPT !.pc = "organizationLocked"]
    <3>1. /\ state \in TxRecords /\ Continue(t, state)
          /\ state.wait = {} /\ state.pc = "organizationLocked"
      BY <2>13, Constants DEF LockOrganization, TxRecords, NoTx
    <3>. HIDE DEF state
    <3>. QED
      BY <1>2, <3>1
  <2>. QED
    BY <1>4, <1>5, <2>2, <2>3, <2>4, <2>5, <2>6, <2>8, <2>10, <2>11, <2>12, <2>13
       DEF Begin, Advance, RequestStep, OperationStep
<1>. QED
  BY <1>1, <1>5 DEF Next, BreakDeadlock, Tick, vars

\* Who holds a row, or has inserted one, waits for nothing but the organization.
LEMMA HoldersAwaitTheOrganization ==
  ASSUME VerificationInv, WaitInv, NEW t \in Txs, LockedBy(t) # {} \/ Inserting(t),
         NEW s \in Txs \ {t}, Awaits(t, s)
  PROVE  tx[t].pc = "superseded" /\ HoldsOrganization(s)
<1>1. /\ VerificationTypeOK /\ Holds(t) /\ Holds(s) /\ PicksOneRow(t)
      /\ LockedBy(s) \cap LockedBy(t) = {}
  BY DEF VerificationInv, HeldAsRead, Exclusive, WaitInv
<1>2. Written(s) \subseteq OpenRows /\ Written(t) \subseteq OpenRows
      /\ Written(s) \subseteq LockedBy(s) /\ Written(t) \subseteq LockedBy(t)
  BY <1>1 DEF Holds, LockedBy
<1>3. \A v, w \in OpenRows : v = w
  BY DEF VerificationInv, RowsInv, OneOpenVerification, OpenRows
<1>4. tx[t].wait = {}
  <2>1. tx[t].wait # {} => tx[t].pc \in {"expiring", "superseding", "consuming"}
    BY <1>1 DEF PicksOneRow
  <2>2. tx[t].pc \in {"expiring", "consuming"} => LockedBy(t) = {} /\ ~Inserting(t)
    BY <1>1 DEF Holds, Shape, LockedBy, Written, Inserting
  <2>3. tx[t].pc = "superseding" => LockedBy(t) = tx[t].expire /\ ~Inserting(t)
    BY <1>1 DEF Holds, Shape, LockedBy, Written, Inserting
  <2>. QED
    BY <1>1, <2>1, <2>2, <2>3 DEF PicksOneRow
<1>5. tx[t].pc = "superseded" => ~Collides(t, s)
  <2>1. SUFFICES ASSUME tx[t].pc = "superseded" PROVE ~Collides(t, s)
    OBVIOUS
  <2>2. PICK v : v \in Written(t) /\ v \in OpenRows
    BY <1>2, <2>1 DEF LockedBy, Inserting
  <2>3. Written(s) = {}
    BY <1>1, <1>2, <1>3, <2>2
  <2>4. ~Inserting(s)
    BY <1>1, <2>2, <2>3 DEF Holds, Written
  <2>. QED
    BY <2>3, <2>4 DEF Collides
<1>. QED
  BY <1>4, <1>5 DEF Awaits, InsertAwaits

\* Who holds the organization waits for nothing but a row, to consume it.
LEMMA OperationsAwaitRows ==
  ASSUME WaitInv, NEW t \in Txs, HoldsOrganization(t), NEW s \in Txs, Awaits(t, s)
  PROVE  tx[t].pc = "consuming" /\ LockedBy(s) \cap tx[t].wait # {}
<1>1. LockedBy(s) \cap tx[t].wait # {}
  BY DEF Awaits, HoldsOrganization
<1>2. tx[t].pc \in {"expiring", "superseding", "consuming"}
  BY <1>1 DEF WaitInv, PicksOneRow
<1>. QED
  BY <1>1, <1>2 DEF HoldsOrganization

\* However many requests, verifications and operations there are, a cycle among
\* them is the one of a deletion that waits for a request's row and the request
\* that waits for the deletion's organization (service lines 130-170, 362-406;
\* organization-deletion.service.ts:130-132, 163-182).
THEOREM DeadlockTakesTheDeletion == Spec => []OnlyTheDeletionDeadlocks
<1>1. ASSUME VerificationInv, WaitInv PROVE OnlyTheDeletionDeadlocks
  <2>1. ASSUME NEW waiting \in SUBSET Txs, waiting # {},
               \A t \in waiting : \E s \in waiting \ {t} : Awaits(t, s)
        PROVE  \E t, s \in waiting : Deadlock(t, s)
    <3>1. ASSUME NEW t \in waiting, LockedBy(t) # {} \/ Inserting(t)
          PROVE  tx[t].pc = "superseded" /\ \E s \in waiting : HoldsOrganization(s)
      <4>1. PICK s \in waiting \ {t} : Awaits(t, s)
        BY <2>1
      <4>. QED
        BY <1>1, <3>1, <4>1, HoldersAwaitTheOrganization
    <3>2. ASSUME NEW t \in waiting, HoldsOrganization(t)
          PROVE  \E s \in waiting : Deadlock(t, s)
      <4>1. PICK s \in waiting \ {t} : Awaits(t, s)
        BY <2>1
      <4>2. tx[t].pc = "consuming" /\ LockedBy(s) \cap tx[t].wait # {}
        BY <1>1, <3>2, <4>1, OperationsAwaitRows
      <4>3. tx[s].pc = "superseded"
        BY <3>1, <4>2
      <4>. QED
        BY <4>2, <4>3 DEF Deadlock
    <3>3. \E t \in waiting : HoldsOrganization(t)
      <4>1. PICK t \in waiting, s \in waiting : Awaits(t, s)
        BY <2>1
      <4>2. LockedBy(s) # {} \/ Inserting(s) \/ HoldsOrganization(s)
        BY <4>1 DEF Awaits, InsertAwaits, Collides, LockedBy
      <4>. QED
        BY <3>1, <4>2
    <3>. QED
      BY <3>2, <3>3
  <2>. QED
    BY <1>1, <2>1 DEF OnlyTheDeletionDeadlocks, WaitInv, PicksOneRow
<1>2. Init => WaitInv
  BY DEF Init, WaitInv, PicksOneRow, NoTx
<1>3. VerificationInv /\ WaitInv /\ [Next]_vars => WaitInv'
  BY WaitStep
<1>4. VerificationInv /\ WaitInv => OnlyTheDeletionDeadlocks
  BY <1>1
<1>. QED
  BY VerificationInvariant, <1>2, <1>3, <1>4, PTL DEF Spec

-----------------------------------------------------------------------------
(* The cooldown between two codes.                                         *)

Requesting(t) ==
  tx[t].pc \in {"latestRead", "expiring", "expired", "superseding", "superseded",
                "inserted", "mailed"}

\* No request for a code begins before the one under way has ended;
\* verifications and operations may come at any time.
OneRequestAtATime == \A s, t \in Txs : Requesting(s) /\ Requesting(t) => s = t

\* What a request has read of the latest row is true until it commits.
CooldownInv ==
  /\ CooldownRespected
  /\ \A t \in Txs : Requesting(t) =>
       \A v \in Requested : ver[v].createdAt + Cooldown <= tx[t].now

\* Steps that create no row and leave the instant of every request as it is.
LEMMA CooldownStays ==
  ASSUME CooldownInv,
         \A v \in Rows : ver'[v].status # NoRow =>
           ver[v].status # NoRow /\ ver'[v].createdAt = ver[v].createdAt,
         \A t \in Txs : Requesting(t)' =>
           IF Requesting(t) THEN tx'[t].now = tx[t].now
           ELSE tx'[t].now = clock /\ CooldownOver(clock)
  PROVE  CooldownInv'
<1>1. Requested' \subseteq Requested /\ \A v \in Requested' : ver'[v].createdAt = ver[v].createdAt
  BY DEF Requested
<1>2. CooldownRespected'
  BY <1>1 DEF CooldownInv, CooldownRespected
<1>3. ASSUME NEW t \in Txs, Requesting(t)', NEW v \in Requested'
      PROVE  ver'[v].createdAt + Cooldown <= tx'[t].now
  BY <1>1, <1>3 DEF CooldownInv, CooldownOver
<1>. QED
  BY <1>2, <1>3 DEF CooldownInv

LEMMA CommitKeepsCooldown ==
  ASSUME VerificationInv, CooldownInv, OneRequestAtATime, NEW t \in Txs, CommitRequest(t)
  PROVE  CooldownInv'
<1>1. PICK v \in Rows : tx[t].row = {v} /\ RequestWrites(v)
  BY CommitRequestWrites
<1>2. VerificationTypeOK /\ Requesting(t) /\ End(t) /\ ver' = AfterRequest(t)
  BY DEF VerificationInv, CommitRequest, Requesting
<1>3. tx'[t] = NoTx /\ \A s \in Txs \ {t} : tx'[s] = tx[s]
  BY <1>2, Constants, OneMoves DEF End
<1>4. \A s \in Txs : ~Requesting(s)'
  BY <1>2, <1>3 DEF OneRequestAtATime, Requesting, NoTx
<1>5. ver'[v].createdAt = tx[t].now
  <2>1. tx[t].pc = "mailed" /\ Holds(t) /\ ver[v].status = NoRow
    BY <1>1 DEF VerificationInv, HeldAsRead, CommitRequest, RequestWrites, Blank
  <2>2. v \notin tx[t].expire \cup tx[t].supersede
    BY <2>1 DEF Holds, Written, OpenRows, Open, NoRow
  <2>3. ver'[v] = [Blank EXCEPT !.status = "PENDING", !.createdAt = tx[t].now]
    BY <1>1, <1>2, <2>2 DEF AfterRequest
  <2>. QED
    BY <2>3 DEF Blank
<1>6. ASSUME NEW w \in Requested', w # v
      PROVE  w \in Requested /\ ver'[w].createdAt = ver[w].createdAt
  <2>1. w \in Rows \ {v} /\ ver[w] \in RowRecords
    BY <1>2, <1>6, RowFields DEF Requested
  <2>2. CASE w \in OpenRows
    BY <1>1, <2>1, <2>2 DEF RequestWrites, RowRecords, OpenRows, Requested, Open, NoRow
  <2>3. CASE w \notin OpenRows
    BY <1>1, <1>6, <2>1, <2>3 DEF RequestWrites, Requested
  <2>. QED
    BY <2>2, <2>3
<1>7. \A w \in Requested' \ {v} : ver'[w].createdAt + Cooldown <= ver'[v].createdAt
  BY <1>2, <1>5, <1>6 DEF CooldownInv
<1>8. CooldownRespected'
  <2>. SUFFICES ASSUME NEW u \in Requested', NEW w \in Requested', u # w
                PROVE  \/ ver'[u].createdAt + Cooldown <= ver'[w].createdAt
                       \/ ver'[w].createdAt + Cooldown <= ver'[u].createdAt
    BY DEF CooldownRespected
  <2>1. CASE u = v \/ w = v
    BY <2>1, <1>7
  <2>2. CASE u # v /\ w # v
    BY <2>2, <1>6 DEF CooldownInv, CooldownRespected
  <2>. QED
    BY <2>1, <2>2
<1>. QED
  BY <1>4, <1>8 DEF CooldownInv

\* A verification and an operation keep the instant a code was created at.
LEMMA WritesKeepInstants ==
  ASSUME VerificationInv, NEW t \in Txs, VerifyStep(t) \/ CommitOperation(t), NEW w \in Rows
  PROVE  ver'[w].createdAt = ver[w].createdAt /\ (ver'[w].status # NoRow => ver[w].status # NoRow)
<1>1. VerificationTypeOK /\ Holds(t) /\ ver[w] \in RowRecords /\ ver \in [Rows -> RowRecords]
  BY RowFields DEF VerificationInv, HeldAsRead, VerificationTypeOK
<1>2. CASE VerifyStep(t)
  <2>1. PICK v \in Rows, right \in BOOLEAN : DecideCode(t, v, right)
    BY <1>2 DEF VerifyStep
  <2>2. tx[t].seen = ver[v] /\ v \in Requested
    BY <1>1, <2>1 DEF Holds, DecideCode
  <2>3. CASE w # v
    BY <1>1, <2>1, <2>3 DEF DecideCode
  <2>4. CASE w = v
    <3>1. ver'[v] \in {ver[v], [ver[v] EXCEPT !.status = "EXPIRED"],
                       AfterWrongCode(v, ver[v]), AfterRightCode(v)}
      BY <1>1, <2>1, <2>2 DEF DecideCode
    <3>2. ver[v] \in RowRecords
      BY <1>1
    <3>. QED
      BY <2>2, <2>4, <3>1, <3>2 DEF AfterWrongCode, AfterRightCode, RowRecords, Requested
  <2>. QED
    BY <2>3, <2>4
<1>3. CASE CommitOperation(t)
  <2>1. w \in tx[t].consume => ver[w].status = "VERIFIED"
    BY <1>1 DEF Holds
  <2>. QED
    BY <1>1, <1>3, <2>1 DEF CommitOperation, RowRecords, NoRow
<1>. QED
  BY <1>2, <1>3

\* Only the first statement of a request reads the clock, and it has read that
\* the cooldown is over.
LEMMA InstantStays ==
  ASSUME VerificationTypeOK, NEW t \in Txs,
         Begin(t) \/ Advance(t) \/ SendMail(t) \/ MailRejected(t) \/ Abort(t),
         ~CommitRequest(t)
  PROVE  /\ \A s \in Txs \ {t} : tx'[s] = tx[s]
         /\ Requesting(t)' => IF Requesting(t) THEN tx'[t].now = tx[t].now
                              ELSE tx'[t].now = clock /\ CooldownOver(clock)
<1>1. tx[t] \in TxRecords /\ tx \in [Txs -> TxRecords]
  BY TxFields DEF VerificationTypeOK
<1>2. ASSUME NEW state \in TxRecords, Continue(t, state)
      PROVE  tx'[t] = state /\ \A s \in Txs \ {t} : tx'[s] = tx[s]
  BY <1>2, OneMoves
<1>3. CASE End(t)
  BY <1>2, <1>3, Constants DEF End, Requesting, NoTx
<1>4. CASE ReadLatest(t)
  BY <1>1, <1>4 DEF ReadLatest, Continue, Requesting, NoTx
<1>5. CASE \E v \in Rows : LockVerification(t, v)
  BY <1>1, <1>5 DEF LockVerification, Continue, Requesting, NoTx
<1>6. CASE LockOrganization(t) \/ (StartConsume(t) /\ ~End(t))
  BY <1>1, <1>6 DEF LockOrganization, StartConsume, Continue, Requesting, NoTx
<1>7. CASE StartExpire(t)
  BY <1>1, <1>7 DEF StartExpire, Continue, Requesting, TxRecords
<1>8. CASE FinishExpire(t)
  BY <1>1, <1>8 DEF FinishExpire, Continue, Requesting, TxRecords
<1>9. CASE StartSupersede(t)
  BY <1>1, <1>9 DEF StartSupersede, Continue, Requesting, TxRecords
<1>10. CASE FinishSupersede(t)
  BY <1>1, <1>10 DEF FinishSupersede, Continue, Requesting, TxRecords
<1>11. CASE Insert(t) /\ ~End(t)
  BY <1>1, <1>11 DEF Insert, Continue, Requesting, TxRecords
<1>12. CASE SendMail(t)
  BY <1>1, <1>12 DEF SendMail, Continue, Requesting, TxRecords
<1>13. CASE FinishConsume(t) /\ ~End(t)
  <2>1. PICK affected : tx' = [tx EXCEPT ![t] = [tx[t] EXCEPT !.pc = "consumed", !.wait = {},
                                                              !.consume = affected]]
    BY <1>13 DEF FinishConsume, Continue
  <2>. QED
    BY <1>1, <2>1 DEF Requesting, TxRecords
<1>14. CommitOperation(t) \/ MailTimesOut(t) \/ MailRejected(t) \/ Abort(t) \/ VerifyStep(t) => End(t)
  BY DEF CommitOperation, MailTimesOut, MailRejected, Abort, VerifyStep, DecideCode
<1>. QED
  BY <1>3, <1>4, <1>5, <1>6, <1>7, <1>8, <1>9, <1>10, <1>11, <1>12, <1>13, <1>14
     DEF Begin, Advance, RequestStep, OperationStep

LEMMA CooldownStep ==
  ASSUME VerificationInv, CooldownInv, OneRequestAtATime, [Next]_vars
  PROVE  CooldownInv'
<1>1. VerificationTypeOK /\ ver \in [Rows -> RowRecords]
  BY DEF VerificationInv, VerificationTypeOK
<1>2. CASE UNCHANGED <<ver, tx>>
  BY <1>2, CooldownStays DEF Requesting
<1>3. ASSUME NEW t \in Txs, Begin(t) \/ Advance(t) \/ SendMail(t) \/ MailRejected(t) \/ Abort(t)
      PROVE  CooldownInv'
  <2>1. CASE CommitRequest(t)
    BY <2>1, CommitKeepsCooldown
  <2>2. CASE ~CommitRequest(t)
    <3>1. ASSUME NEW w \in Rows, ver'[w].status # NoRow
          PROVE  ver[w].status # NoRow /\ ver'[w].createdAt = ver[w].createdAt
      <4>1. CASE VerifyStep(t) \/ CommitOperation(t)
        BY <3>1, <4>1, WritesKeepInstants
      <4>2. CASE UNCHANGED ver
        BY <3>1, <4>2
      <4>. QED
        BY <1>3, <2>2, <4>1, <4>2
           DEF Begin, Advance, RequestStep, OperationStep, ReadLatest, LockVerification,
               LockOrganization, StartConsume, StartExpire, FinishExpire, StartSupersede, FinishSupersede, Insert, MailTimesOut,
               FinishConsume, SendMail, MailRejected, Abort, FailedMail
    <3>2. /\ \A s \in Txs \ {t} : tx'[s] = tx[s]
          /\ Requesting(t)' => IF Requesting(t) THEN tx'[t].now = tx[t].now
                               ELSE tx'[t].now = clock /\ CooldownOver(clock)
      BY <1>1, <1>3, <2>2, InstantStays
    <3>3. \A s \in Txs : Requesting(s)' =>
            IF Requesting(s) THEN tx'[s].now = tx[s].now
            ELSE tx'[s].now = clock /\ CooldownOver(clock)
      BY <3>2 DEF Requesting
    <3>. QED
      BY <3>1, <3>3, CooldownStays
  <2>. QED
    BY <2>1, <2>2
<1>. QED
  BY <1>2, <1>3 DEF Next, BreakDeadlock, Tick, vars

\* Two codes of a scope are created at least the cooldown apart as long as one
\* request is under way at a time, whatever verifications and operations run
\* beside it: overlapping requests are all that breaks it (service lines
\* 118-119, 142-143).
THEOREM CooldownOfOneRequest == Spec /\ []OneRequestAtATime => []CooldownRespected
<1>1. Init => CooldownInv
  BY DEF Init, CooldownInv, CooldownRespected, Requested, Requesting, Blank, NoTx
<1>2. VerificationInv /\ CooldownInv /\ OneRequestAtATime /\ [Next]_vars => CooldownInv'
  BY CooldownStep
<1>3. CooldownInv => CooldownRespected
  BY DEF CooldownInv
<1>. QED
  BY VerificationInvariant, <1>1, <1>2, <1>3, PTL DEF Spec

-----------------------------------------------------------------------------
(* Refinement.                                                             *)

\* The phase of each row.
LEMMA Phases ==
  ASSUME NEW v \in Rows
  PROVE  /\ ver[v].status = NoRow => Phase(v) = "none"
         /\ ver[v].status = "PENDING" => Phase(v) = "pending"
         /\ ver[v].status = "VERIFIED" => Phase(v) = "verified"
         /\ ver[v].status \in Closed => Phase(v) = "closed"
  BY DEF Phase, NoRow, Closed

\* The row of an INSERT is issued, and what was open is closed with it.
LEMMA RequestIssues ==
  ASSUME VerificationInv, VerificationInv', NEW v \in Rows, RequestWrites(v)
  PROVE  Code!Issue(v)
<1>1. ver \in [Rows -> RowRecords] /\ ver' \in [Rows -> RowRecords]
  BY DEF VerificationInv, VerificationTypeOK
<1>2. Phase(v) = "none" /\ Phase(v)' = "pending"
  <2>1. ver[v].status = NoRow /\ ver'[v].status = "PENDING"
    BY DEF RequestWrites, Blank
  <2>. QED
    BY <2>1 DEF Phase, NoRow, Closed
<1>3. ASSUME NEW w \in Rows \ {v}
      PROVE  Phase(w)' = IF Phase(w) \in {"pending", "verified"} THEN "closed" ELSE Phase(w)
  <2>1. CASE w \in OpenRows
    <3>1. ver[w].status \in Open /\ ver'[w].status \in {"EXPIRED", "SUPERSEDED"}
      BY <1>1, <2>1 DEF RequestWrites, OpenRows, RowRecords
    <3>. QED
      BY <3>1 DEF Phase, Open, Closed, NoRow
  <2>2. CASE w \notin OpenRows
    <3>1. ver'[w] = ver[w] /\ ver[w].status \in Closed \cup {NoRow}
      BY <1>1, <2>2 DEF RequestWrites, OpenRows, RowRecords
    <3>. QED
      BY <3>1 DEF Phase, Closed, NoRow
  <2>. QED
    BY <2>1, <2>2
<1>4. [w \in Rows |-> Phase(w)]' =
        [d \in Rows |-> CASE d = v -> "pending"
                          [] d # v /\ [w \in Rows |-> Phase(w)][d] \in {"pending", "verified"} -> "closed"
                          [] OTHER -> [w \in Rows |-> Phase(w)][d]]
  BY <1>2, <1>3
<1>. QED
  BY <1>2, <1>4 DEF RequestWrites, Code!Issue

\* A code that was compared or timed out moves on in its life.
LEMMA CodeMoves ==
  ASSUME VerificationInv, VerificationInv', NEW v \in Rows, NEW row \in RowRecords,
         CodeWrites(v, row)
  PROVE  Code!Fail(v) \/ Code!Verify(v) \/ Code!Lapse(v)
<1> DEFINE phase == [w \in Rows |-> Phase(w)]
<1>1. /\ ver \in [Rows -> RowRecords] /\ wrong \in [Rows -> 0 .. MaxAttempts]
      /\ ver' = [ver EXCEPT ![v] = row] /\ executed' = executed
  BY DEF VerificationInv, VerificationTypeOK, CodeWrites
<1>2. Phase(v) = "pending" /\ \A w \in Rows \ {v} : Phase(w)' = Phase(w)
  <2>1. ver[v].status = "PENDING" /\ \A w \in Rows \ {v} : ver'[w] = ver[w]
    BY <1>1 DEF CodeWrites
  <2>. QED
    BY <2>1 DEF Phase, NoRow, Closed
<1>3. ver'[v] = row
  BY <1>1
<1>4. phase' = [phase EXCEPT ![v] = Phase(v)']
  BY <1>2
<1>5. CASE row.status = "EXPIRED" /\ wrong' = wrong
  <2>1. Phase(v)' = "closed"
    BY <1>3, <1>5 DEF Phase, NoRow, Closed
  <2>. QED
    BY <1>1, <1>2, <1>4, <1>5, <2>1 DEF Code!Lapse
<1>6. CASE row.status = "VERIFIED" /\ wrong' = wrong
  <2>1. Phase(v)' = "verified"
    BY <1>3, <1>6 DEF Phase, NoRow, Closed
  <2>. QED
    BY <1>1, <1>2, <1>4, <1>6, <2>1 DEF Code!Verify
<1>7. CASE /\ row.failed = ver[v].failed + 1
           /\ row.status = IF row.failed >= MaxAttempts THEN "LOCKED" ELSE "PENDING"
           /\ wrong' = [wrong EXCEPT ![v] = @ + 1]
  <2>1. wrong'[v] = row.failed /\ row.failed \in Nat /\ MaxAttempts \in Nat
    BY <1>1, <1>7, Constants DEF VerificationInv, RowsInv, AttemptsAreCounted, RowRecords
  <2>2. Phase(v)' = IF wrong'[v] < MaxAttempts THEN "pending" ELSE "closed"
    BY <1>3, <1>7, <2>1 DEF Phase, NoRow, Closed
  <2>3. phase' = [phase EXCEPT ![v] = IF wrong'[v] < MaxAttempts THEN @ ELSE "closed"]
    BY <1>2, <1>4, <2>2
  <2>. QED
    BY <1>1, <1>2, <1>7, <2>3 DEF Code!Fail
<1>. QED
  BY <1>5, <1>6, <1>7 DEF CodeWrites

\* An operation that commits uses the code.
LEMMA OperationUses ==
  ASSUME VerificationInv, NEW v \in Rows, OperationWrites(v)
  PROVE  Code!Use(v)
<1> DEFINE phase == [w \in Rows |-> Phase(w)]
<1>1. ver \in [Rows -> RowRecords]
  BY DEF VerificationInv, VerificationTypeOK
<1>2. Phase(v) = "verified" /\ Phase(v)' = "closed" /\ \A w \in Rows \ {v} : Phase(w)' = Phase(w)
  BY <1>1 DEF OperationWrites, Phase, NoRow, Closed, RowRecords
<1>3. phase' = [phase EXCEPT ![v] = "closed"]
  BY <1>2
<1>. QED
  BY <1>2, <1>3 DEF OperationWrites, Code!Use

\* Every behaviour of the transactions, locks and mails is one of the simple
\* life of codes that OneTimeCode describes (service lines 130-170, 199-258,
\* 306-323, 362-406).
THEOREM RefinesOneTimeCode == Spec => ImplementsOneTimeCode
<1>1. Init => Code!CodeInit
  <2>. SUFFICES ASSUME Init PROVE Code!CodeInit
    OBVIOUS
  <2>1. \A v \in Rows : Phase(v) = "none"
    BY Phases DEF Init, Blank
  <2>. QED
    BY <2>1 DEF Init, Code!CodeInit
<1>2. ASSUME VerificationInv, VerificationInv', [Next]_vars
      PROVE  [Code!CodeNext]_<<[v \in Rows |-> Phase(v)], wrong, executed>>
  <2>1. CASE UNCHANGED <<ver, wrong, executed>>
    BY <2>1 DEF Phase
  <2>2. CASE \E v \in Rows : RequestWrites(v)
    BY <1>2, <2>2, RequestIssues DEF Code!CodeNext
  <2>3. CASE \E v \in Rows, row \in RowRecords : CodeWrites(v, row)
    BY <1>2, <2>3, CodeMoves DEF Code!CodeNext
  <2>4. CASE \E v \in Rows : OperationWrites(v)
    BY <1>2, <2>4, OperationUses DEF Code!CodeNext
  <2>. QED
    BY <1>2, <2>1, <2>2, <2>3, <2>4, VerificationStep
<1>. QED
  BY <1>1, <1>2, VerificationInvariant, PTL DEF Spec, ImplementsOneTimeCode, Code!CodeSpec

=============================================================================
