--------------------------- MODULE MessagesProofs ---------------------------
(***************************************************************************)
(* Theorems about Messages: read marks never go back, authors have read    *)
(* their own messages, and what a member has not seen is unread, for any   *)
(* members, messages and requests and any bound of the clock.              *)
(***************************************************************************)
EXTENDS Messages, TLAPS

CarrierStates == {"inserted", "committed", "editing", "updating", "inserting", "deleting"}

\* Request w may still write, or has just written, this row of message m.
Carries(w, m, row) ==
  writer[w].pc \in CarrierStates /\ writer[w].m = m /\ writer[w].row = row

\* The rows of message m: the committed one and those in the hands of requests.
Carried(m, row) ==
  \/ post[m] = row /\ row # NoPost
  \/ \E w \in Writers : Carries(w, m, row)

Marking(w) == writer[w].pc = "marking"

\* Row of message m is a carried one, or what a Date left of it: a message that
\* an edit brings back has lost the finer part of its created_at.
LikeCarried(m, row) ==
  \E old \in PostRows :
    /\ Carried(m, old)
    /\ old.author = row.author /\ Millis(old.createdAt) = Millis(row.createdAt)
    /\ row.createdAt <= old.createdAt

RowsAgree ==
  \A m \in Posts : \A row, other \in PostRows :
    Carried(m, row) /\ Carried(m, other) =>
      row.author = other.author /\ Millis(row.createdAt) = Millis(other.createdAt)

RowsArePast == \A m \in Posts : \A row \in PostRows : Carried(m, row) => row.createdAt <= time

\* Marks are Dates of the past.
MarksArePast ==
  /\ \A u \in Members : readAt[u] <= Millis(time)
  /\ \A w \in Writers : Marking(w) => writer[w].at <= Millis(time)

\* The mark that a post is about to write covers its message.
OwnMarks ==
  \A w \in Writers : Marking(w) =>
    \A m \in writer[w].posted :
      /\ <<writer[w].user, m>> \in seen
      /\ \A row \in PostRows : Carried(m, row) =>
           row.author = writer[w].user /\ Millis(row.createdAt) <= writer[w].at

AnsweredRead ==
  \A m \in answered : \A row \in PostRows :
    Carried(m, row) => Millis(row.createdAt) <= readAt[row.author]

\* No mark of a member, written or about to be, is later than a message that
\* the member has not seen.
UnseenLater ==
  \A m \in Posts : \A row \in PostRows : \A u \in Members :
    Carried(m, row) /\ <<u, m>> \notin seen =>
      /\ readAt[u] <= Millis(row.createdAt)
      /\ \A w \in Writers :
           Marking(w) /\ writer[w].user = u => writer[w].at <= Millis(row.createdAt)

MessageInv ==
  /\ MessageTypeOK
  /\ RowsAgree /\ RowsArePast /\ MarksArePast
  /\ OwnMarks /\ AnsweredRead /\ UnseenLater

-----------------------------------------------------------------------------
\* A Date is not later than the instant it was taken at, and order is kept.
LEMMA MillisOrder ==
  /\ \A t \in Nat : Millis(t) \in Nat /\ Millis(t) <= t
  /\ \A s, t \in Nat : s <= t => Millis(s) <= Millis(t)
  /\ \A t \in Nat : Millis(Millis(t)) = Millis(t)
  BY DEF Millis

\* What a request carries, field by field.
LEMMA WriterFields ==
  ASSUME MessageTypeOK, NEW w \in Writers
  PROVE  /\ writer[w].pc \in CarrierStates =>
              /\ writer[w] \in [pc : CarrierStates, m : Posts, row : PostRows]
              /\ writer[w].m \in Posts /\ writer[w].row \in PostRows
         /\ Marking(w) =>
              /\ writer[w] \in [pc : {"marking"}, user : Members, at : Times, posted : SUBSET Posts]
              /\ writer[w].user \in Members /\ writer[w].at \in Times
              /\ writer[w].posted \subseteq Posts
         /\ writer[w].pc \in CarrierStates \cup {"marking", "idle"}
         /\ writer[w].pc = "idle" => writer[w] = NoWriter
  BY DEF MessageTypeOK, WriterStates, CarrierStates, Marking, NoWriter

LEMMA StateTypes ==
  /\ NoWriter \in WriterStates
  /\ \A pc \in CarrierStates, m \in Posts, row \in PostRows :
       [pc |-> pc, m |-> m, row |-> row] \in WriterStates
  /\ \A u \in Members, t \in Times, posted \in SUBSET Posts :
       [pc |-> "marking", user |-> u, at |-> t, posted |-> posted] \in WriterStates
  BY DEF WriterStates, CarrierStates

\* A step of one request, as far as the types go.
LEMMA ProceedType ==
  ASSUME MessageTypeOK, NEW w \in Writers, NEW state \in WriterStates, Proceed(w, state)
  PROVE  /\ writer' \in [Writers -> WriterStates]
         /\ writer'[w] = state
         /\ \A v \in Writers \ {w} : writer'[v] = writer[v]
  BY DEF MessageTypeOK, Proceed

\* Changing the statement a carrier is at keeps what it carries.
LEMMA SameRow ==
  ASSUME MessageTypeOK, NEW w \in Writers, writer[w].pc \in CarrierStates,
         NEW pc \in CarrierStates
  PROVE  /\ [writer[w] EXCEPT !.pc = pc] \in WriterStates
         /\ [writer[w] EXCEPT !.pc = pc] = [pc |-> pc, m |-> writer[w].m, row |-> writer[w].row]
<1>1. writer[w] \in [pc : CarrierStates, m : Posts, row : PostRows]
  BY WriterFields
<1>2. [writer[w] EXCEPT !.pc = pc] = [pc |-> pc, m |-> writer[w].m, row |-> writer[w].row]
  BY <1>1
<1>. QED
  BY <1>1, <1>2, StateTypes

LEMMA BegunIsCarried ==
  ASSUME MessageTypeOK, NEW m \in Posts, NEW row \in PostRows, Carried(m, row)
  PROVE  Begun(m)
  BY WriterFields DEF Carried, Carries, Begun, CarrierStates
-----------------------------------------------------------------------------
LEMMA CarriedIsLikeCarried ==
  ASSUME NEW m \in Posts, NEW row \in PostRows, Carried(m, row)
  PROVE  LikeCarried(m, row)
  BY DEF LikeCarried, PostRows, Times

\* A step after which nothing is carried that was not, finer parts aside, and
\* no mark is begun or written, keeps the invariant.
LEMMA QuietStep ==
  ASSUME MessageInv, MessageTypeOK', time <= time',
         readAt' = readAt, answered' = answered, seen' = seen,
         \A m \in Posts : \A row \in PostRows : Carried(m, row)' => LikeCarried(m, row),
         \A w \in Writers : Marking(w)' => writer'[w] = writer[w]
  PROVE  MessageInv'
<1>. USE DEF MessageInv
<1>1. time \in Nat /\ time' \in Nat
  BY DEF MessageTypeOK, Times
<1>2. RowsAgree'
  BY DEF RowsAgree, LikeCarried
<1>3. RowsArePast'
  <2>. SUFFICES ASSUME NEW m \in Posts, NEW row \in PostRows, Carried(m, row)'
                PROVE  row.createdAt <= time'
    BY DEF RowsArePast
  <2>1. PICK old \in PostRows : Carried(m, old) /\ row.createdAt <= old.createdAt
    BY DEF LikeCarried
  <2>2. row.createdAt \in Nat /\ old.createdAt \in Nat /\ old.createdAt <= time
    BY <2>1 DEF RowsArePast, PostRows, Times
  <2>. QED
    BY <1>1, <2>1, <2>2
<1>4. MarksArePast'
  <2>. Millis(time) \in Nat /\ Millis(time') \in Nat /\ Millis(time) <= Millis(time')
    BY <1>1, MillisOrder
  <2>1. \A u \in Members : readAt'[u] <= Millis(time')
    BY DEF MarksArePast, MessageTypeOK, Times
  <2>2. ASSUME NEW w \in Writers, Marking(w)' PROVE writer'[w].at <= Millis(time')
    <3>1. Marking(w) /\ writer'[w] = writer[w]
      BY <2>2 DEF Marking
    <3>2. writer[w].at \in Nat /\ writer[w].at <= Millis(time)
      BY <3>1, WriterFields DEF MarksArePast, Times
    <3>. QED
      BY <3>1, <3>2
  <2>. QED
    BY <2>1, <2>2 DEF MarksArePast
<1>5. OwnMarks'
  <2>1. ASSUME NEW w \in Writers, Marking(w)', NEW m \in writer'[w].posted
        PROVE  /\ <<writer'[w].user, m>> \in seen'
               /\ \A row \in PostRows : Carried(m, row)' =>
                    row.author = writer'[w].user /\ Millis(row.createdAt) <= writer'[w].at
    <3>1. writer'[w] = writer[w] /\ Marking(w)
      BY <2>1 DEF Marking
    <3>2. m \in writer[w].posted /\ m \in Posts
      BY <3>1, WriterFields
    <3>3. /\ <<writer[w].user, m>> \in seen
          /\ \A row \in PostRows : Carried(m, row) =>
                row.author = writer[w].user /\ Millis(row.createdAt) <= writer[w].at
      BY <3>1, <3>2 DEF OwnMarks
    <3>. QED
      BY <3>1, <3>2, <3>3 DEF LikeCarried
  <2>. QED
    BY <2>1 DEF OwnMarks
<1>6. AnsweredRead'
  BY DEF AnsweredRead, MessageTypeOK, LikeCarried
<1>7. UnseenLater'
  BY DEF UnseenLater, Marking, LikeCarried
<1>. QED
  BY <1>2, <1>3, <1>4, <1>5, <1>6, <1>7

\* Such is a step of one request that ends it, or after which it carries what
\* it carried or what the table holds, with nothing new in the table.
LEMMA RequestMovesOn ==
  ASSUME MessageInv, NEW w \in Writers, NEW state \in WriterStates, Proceed(w, state),
         \/ state = NoWriter
         \/ \E m \in Posts, row \in PostRows : Carried(m, row) /\
              \E pc \in CarrierStates : state = [pc |-> pc, m |-> m, row |-> row],
         UNCHANGED <<time, readAt, touchedAt, answered, seen>>,
         post' \in [Posts -> PostRows \cup {NoPost}],
         \A m \in Posts : \/ post'[m] \in {post[m], NoPost}
                          \/ post'[m] \in PostRows /\ LikeCarried(m, post'[m])
  PROVE  MessageInv'
<1>1. MessageTypeOK
  BY DEF MessageInv
<1>2. /\ writer' \in [Writers -> WriterStates]
      /\ writer'[w] = state
      /\ \A v \in Writers \ {w} : writer'[v] = writer[v]
  BY <1>1, ProceedType
<1>3. MessageTypeOK'
  BY <1>1, <1>2 DEF MessageTypeOK
<1>4. state.pc # "marking"
  BY DEF NoWriter, CarrierStates
<1>5. ASSUME NEW v \in Writers, Marking(v)' PROVE writer'[v] = writer[v]
  BY <1>2, <1>4, <1>5 DEF Marking
<1>6. ASSUME NEW m \in Posts, NEW row \in PostRows, Carried(m, row)'
      PROVE  LikeCarried(m, row)
  <2>1. CASE post'[m] = row /\ row # NoPost
    BY <2>1, CarriedIsLikeCarried DEF Carried
  <2>2. CASE \E v \in Writers \ {w} : Carries(v, m, row)'
    <3>1. Carried(m, row)
      BY <2>2, <1>2 DEF Carried, Carries
    <3>. QED
      BY <3>1, CarriedIsLikeCarried
  <2>3. CASE Carries(w, m, row)'
    <3>1. state.pc \in CarrierStates /\ state.m = m /\ state.row = row
      BY <2>3, <1>2 DEF Carries
    <3>2. state # NoWriter
      BY <3>1 DEF NoWriter, CarrierStates
    <3>3. Carried(m, row)
      BY <3>1, <3>2
    <3>. QED
      BY <3>3, CarriedIsLikeCarried
  <2>. QED
    BY <1>6, <2>1, <2>2, <2>3 DEF Carried
<1>7. time <= time'
  BY <1>1 DEF MessageTypeOK, Times
<1>. QED
  BY <1>3, <1>5, <1>6, <1>7, QuietStep

-----------------------------------------------------------------------------
\* A new message: nobody carries a row of it, and no mark speaks of it.
LEMMA BeginPostKeeps ==
  ASSUME MessageInv, NEW w \in Writers, NEW u \in Members, NEW m \in Posts, BeginPost(w, u, m)
  PROVE  MessageInv'
<1> DEFINE new == [author |-> u, createdAt |-> time]
           state == [pc |-> "inserted", m |-> m, row |-> new]
<1>1. MessageTypeOK /\ time \in Nat
  BY DEF MessageInv, MessageTypeOK, Times
<1>2. new \in PostRows
  BY <1>1 DEF PostRows, MessageTypeOK
<1>3. state \in WriterStates
  BY <1>2, StateTypes DEF CarrierStates
<1>4. /\ writer' \in [Writers -> WriterStates]
      /\ writer'[w] = state
      /\ \A v \in Writers \ {w} : writer'[v] = writer[v]
  BY <1>1, <1>3, ProceedType DEF BeginPost
<1>5. UNCHANGED <<time, post, readAt, touchedAt, answered, seen>>
  BY DEF BeginPost
<1>6. MessageTypeOK'
  BY <1>1, <1>4, <1>5 DEF MessageTypeOK
<1>7. \A row \in PostRows : ~Carried(m, row)
  BY <1>1, BegunIsCarried DEF BeginPost, Fresh
<1>8. m \notin answered /\ \A v \in Members : <<v, m>> \notin seen
  BY DEF BeginPost, Fresh
<1>9. ASSUME NEW n \in Posts, NEW row \in PostRows, Carried(n, row)'
      PROVE  Carried(n, row) \/ (n = m /\ row = new)
  <2>1. CASE post'[n] = row /\ row # NoPost
    BY <2>1, <1>5 DEF Carried
  <2>2. CASE \E v \in Writers \ {w} : Carries(v, n, row)'
    BY <2>2, <1>4 DEF Carried, Carries
  <2>3. CASE Carries(w, n, row)'
    BY <2>3, <1>4 DEF Carries
  <2>. QED
    BY <1>9, <2>1, <2>2, <2>3 DEF Carried
<1>10. ASSUME NEW v \in Writers, Marking(v)' PROVE Marking(v) /\ writer'[v] = writer[v]
  BY <1>4, <1>10 DEF Marking
<1>11. RowsAgree'
  BY <1>7, <1>9 DEF RowsAgree, MessageInv
<1>12. RowsArePast'
  BY <1>1, <1>5, <1>9 DEF RowsArePast, MessageInv
<1>13. MarksArePast'
  BY <1>5, <1>10 DEF MarksArePast, MessageInv
<1>14. OwnMarks'
  <2>. SUFFICES ASSUME NEW v \in Writers, Marking(v)', NEW n \in writer'[v].posted
                PROVE  /\ <<writer'[v].user, n>> \in seen'
                       /\ \A row \in PostRows : Carried(n, row)' =>
                            row.author = writer'[v].user /\ Millis(row.createdAt) <= writer'[v].at
    BY DEF OwnMarks
  <2>1. Marking(v) /\ writer'[v] = writer[v]
    BY <1>10
  <2>2. n \in Posts /\ n \in writer[v].posted /\ writer[v].user \in Members
    BY <2>1, <1>1, WriterFields
  <2>3. /\ <<writer[v].user, n>> \in seen
        /\ \A row \in PostRows : Carried(n, row) =>
              row.author = writer[v].user /\ Millis(row.createdAt) <= writer[v].at
    BY <2>1, <2>2 DEF OwnMarks, MessageInv
  <2>4. n # m
    BY <2>2, <2>3, <1>8
  <2>. QED
    BY <2>1, <2>2, <2>3, <2>4, <1>5, <1>9
<1>15. AnsweredRead'
  BY <1>5, <1>8, <1>9 DEF AnsweredRead, MessageInv, MessageTypeOK
<1>16. UnseenLater'
  <2>. SUFFICES ASSUME NEW n \in Posts, NEW row \in PostRows, NEW v \in Members,
                       Carried(n, row)', <<v, n>> \notin seen'
                PROVE  /\ readAt'[v] <= Millis(row.createdAt)
                       /\ \A x \in Writers : (Marking(x) /\ writer[x].user = v)' =>
                            writer'[x].at <= Millis(row.createdAt)
    BY DEF UnseenLater
  <2>1. CASE Carried(n, row)
    BY <2>1, <1>5, <1>10 DEF UnseenLater, MessageInv
  <2>2. CASE row = new
    BY <2>2, <1>5, <1>10 DEF MarksArePast, MessageInv
  <2>. QED
    BY <2>1, <2>2, <1>9
<1>. QED
  BY <1>6, <1>11, <1>12, <1>13, <1>14, <1>15, <1>16 DEF MessageInv

\* A mark is taken: whatever is carried now has been seen from now on.
LEMMA TakeMarkKeeps ==
  ASSUME MessageInv, NEW w \in Writers, NEW u \in Members, NEW posted \in SUBSET Posts,
         TakeMark(w, u, posted), UNCHANGED <<time, post, readAt, touchedAt, answered>>,
         \A m \in posted : Carries(w, m, writer[w].row) /\ writer[w].row.author = u
  PROVE  MessageInv'
<1> DEFINE state == [pc |-> "marking", user |-> u, at |-> Millis(time), posted |-> posted]
<1>1. MessageTypeOK /\ time \in Nat
  BY DEF MessageInv, MessageTypeOK, Times
<1>2. Millis(time) \in Times /\ Millis(time) \in Nat /\ Millis(time) <= time
  BY <1>1, MillisOrder, MaxTimeIsNat DEF MessageTypeOK, Times
<1>3. state \in WriterStates
  BY <1>2, StateTypes
<1>4. /\ writer' \in [Writers -> WriterStates]
      /\ writer'[w] = state
      /\ \A v \in Writers \ {w} : writer'[v] = writer[v]
  BY <1>1, <1>3, ProceedType DEF TakeMark
<1>5. seen' = seen \cup {<<u, m>> : m \in {n \in Posts : Begun(n)}}
  BY DEF TakeMark
<1>6. MessageTypeOK'
  BY <1>1, <1>4, <1>5 DEF MessageTypeOK
<1>7. ASSUME NEW m \in Posts, NEW row \in PostRows, Carried(m, row)'
      PROVE  Carried(m, row) /\ <<u, m>> \in seen'
  <2>1. post'[m] = row /\ row # NoPost => Carried(m, row)
    BY DEF Carried
  <2>2. (\E v \in Writers \ {w} : Carries(v, m, row)') => Carried(m, row)
    BY <1>4 DEF Carried, Carries
  <2>3. ~Carries(w, m, row)'
    BY <1>4 DEF Carries, CarrierStates
  <2>4. Carried(m, row)
    BY <1>7, <2>1, <2>2, <2>3 DEF Carried
  <2>5. Begun(m)
    BY <2>4, <1>1, BegunIsCarried
  <2>. QED
    BY <2>4, <2>5, <1>5
<1>8. ASSUME NEW v \in Writers, Marking(v)'
      PROVE  v = w \/ (Marking(v) /\ writer'[v] = writer[v])
  BY <1>4, <1>8 DEF Marking
<1>9. RowsAgree'
  BY <1>7 DEF RowsAgree, MessageInv
<1>10. RowsArePast'
  BY <1>7 DEF RowsArePast, MessageInv
<1>11. MarksArePast'
  BY <1>2, <1>4, <1>8 DEF MarksArePast, MessageInv
<1>12. OwnMarks'
  <2>. SUFFICES ASSUME NEW v \in Writers, Marking(v)', NEW n \in writer'[v].posted
                PROVE  /\ <<writer'[v].user, n>> \in seen'
                       /\ \A row \in PostRows : Carried(n, row)' =>
                            row.author = writer'[v].user /\ Millis(row.createdAt) <= writer'[v].at
    BY DEF OwnMarks
  <2>1. CASE v # w
    <3>1. Marking(v) /\ writer'[v] = writer[v] /\ writer[v].posted \subseteq Posts
      BY <2>1, <1>8, <1>1, WriterFields
    <3>2. /\ <<writer[v].user, n>> \in seen
          /\ \A row \in PostRows : Carried(n, row) =>
                row.author = writer[v].user /\ Millis(row.createdAt) <= writer[v].at
      BY <3>1 DEF OwnMarks, MessageInv
    <3>. QED
      BY <3>1, <3>2, <1>5, <1>7
  <2>2. CASE v = w
    <3>1. n \in posted /\ n \in Posts /\ writer'[v].user = u /\ writer'[v].at = Millis(time)
      BY <2>2, <1>4
    <3>2. writer[w].row \in PostRows /\ Carried(n, writer[w].row) /\ writer[w].row.author = u
      BY <3>1, <1>1, WriterFields DEF Carried, Carries
    <3>3. <<u, n>> \in seen'
      BY <3>1, <3>2, <1>1, <1>5, BegunIsCarried
    <3>4. ASSUME NEW row \in PostRows, Carried(n, row)'
          PROVE  row.author = u /\ Millis(row.createdAt) <= Millis(time)
      <4>1. Carried(n, row)
        BY <3>1, <3>4, <1>7
      <4>2. row.author = u /\ Millis(row.createdAt) = Millis(writer[w].row.createdAt)
        BY <3>1, <3>2, <4>1 DEF RowsAgree, MessageInv
      <4>3. row.createdAt \in Nat /\ row.createdAt <= time
        BY <3>1, <4>1 DEF RowsArePast, MessageInv, PostRows, Times
      <4>. QED
        BY <4>2, <4>3, <3>2, <1>1, MillisOrder
    <3>. QED
      BY <3>1, <3>3, <3>4
  <2>. QED
    BY <2>1, <2>2
<1>13. AnsweredRead'
  BY <1>7 DEF AnsweredRead, MessageInv, MessageTypeOK
<1>14. UnseenLater'
  <2>. SUFFICES ASSUME NEW n \in Posts, NEW row \in PostRows, NEW v \in Members,
                       Carried(n, row)', <<v, n>> \notin seen'
                PROVE  /\ readAt'[v] <= Millis(row.createdAt)
                       /\ \A x \in Writers : (Marking(x) /\ writer[x].user = v)' =>
                            writer'[x].at <= Millis(row.createdAt)
    BY DEF UnseenLater
  <2>1. Carried(n, row) /\ v # u /\ <<v, n>> \notin seen
    BY <1>5, <1>7
  <2>2. \A x \in Writers : (Marking(x) /\ writer[x].user = v)' => x # w
    BY <2>1, <1>4
  <2>. QED
    BY <2>1, <2>2, <1>8 DEF UnseenLater, MessageInv
<1>. QED
  BY <1>6, <1>9, <1>10, <1>11, <1>12, <1>13, <1>14 DEF MessageInv

\* The upsert writes the later of two marks: what both of them covered, and no
\* more.
LEMMA UpsertKeeps ==
  ASSUME MessageInv, NEW w \in Writers, UpsertReadState(w)
  PROVE  MessageInv' /\ \A v \in Members : readAt[v] <= readAt'[v]
<1> DEFINE u == writer[w].user
           at == writer[w].at
<1>1. MessageTypeOK /\ Marking(w)
  BY DEF MessageInv, UpsertReadState, Marking
<1>2. u \in Members /\ at \in Times /\ writer[w].posted \subseteq Posts
  BY <1>1, WriterFields
<1>3. /\ writer' \in [Writers -> WriterStates]
      /\ writer'[w] = NoWriter
      /\ \A v \in Writers \ {w} : writer'[v] = writer[v]
  BY <1>1, StateTypes, ProceedType DEF UpsertReadState
<1>4. UNCHANGED <<time, post, touchedAt, seen>>
  BY DEF UpsertReadState
<1>5. /\ readAt' \in [Members -> Times]
      /\ \A v \in Members \ {u} : readAt'[v] = readAt[v]
      /\ readAt'[u] \in {readAt[u], at}
      /\ readAt[u] <= readAt'[u] /\ at <= readAt'[u]
  <2>1. LaterMark(readAt[u], at) \in {readAt[u], at}
    BY DEF LaterMark
  <2>2. readAt[u] <= LaterMark(readAt[u], at) /\ at <= LaterMark(readAt[u], at)
    BY <1>1, <1>2 DEF LaterMark, MessageTypeOK, Times
  <2>3. readAt' = [readAt EXCEPT ![u] = LaterMark(readAt[u], at)]
    BY DEF UpsertReadState
  <2>. QED
    BY <1>1, <1>2, <2>1, <2>2, <2>3 DEF MessageTypeOK
<1>6. answered' = answered \cup writer[w].posted
  BY DEF UpsertReadState
<1>7. \A v \in Members : readAt[v] \in Nat /\ readAt'[v] \in Nat /\ readAt[v] <= readAt'[v]
  BY <1>1, <1>2, <1>5 DEF MessageTypeOK, Times
<1>8. MessageTypeOK'
  BY <1>1, <1>2, <1>3, <1>4, <1>5, <1>6 DEF MessageTypeOK
<1>9. ASSUME NEW m \in Posts, NEW row \in PostRows, Carried(m, row)'
      PROVE  Carried(m, row)
  <2>1. ~Carries(w, m, row)'
    BY <1>3 DEF Carries, NoWriter, CarrierStates
  <2>. QED
    BY <1>3, <1>4, <1>9, <2>1 DEF Carried, Carries
<1>10. ASSUME NEW v \in Writers, Marking(v)' PROVE v # w /\ Marking(v) /\ writer'[v] = writer[v]
  <2>1. v # w
    BY <1>3, <1>10 DEF Marking, NoWriter
  <2>. QED
    BY <2>1, <1>3, <1>10 DEF Marking
<1>11. RowsAgree' /\ RowsArePast'
  BY <1>4, <1>9 DEF RowsAgree, RowsArePast, MessageInv
<1>12. MarksArePast'
  BY <1>1, <1>2, <1>4, <1>5, <1>10 DEF MarksArePast, MessageInv
<1>13. OwnMarks'
  <2>. SUFFICES ASSUME NEW v \in Writers, Marking(v)', NEW n \in writer'[v].posted
                PROVE  /\ <<writer'[v].user, n>> \in seen'
                       /\ \A row \in PostRows : Carried(n, row)' =>
                            row.author = writer'[v].user /\ Millis(row.createdAt) <= writer'[v].at
    BY DEF OwnMarks
  <2>1. Marking(v) /\ writer'[v] = writer[v] /\ writer[v].posted \subseteq Posts
    BY <1>1, <1>10, WriterFields
  <2>2. /\ <<writer[v].user, n>> \in seen
        /\ \A row \in PostRows : Carried(n, row) =>
              row.author = writer[v].user /\ Millis(row.createdAt) <= writer[v].at
    BY <2>1 DEF OwnMarks, MessageInv
  <2>. QED
    BY <2>1, <2>2, <1>4, <1>9
<1>14. AnsweredRead'
  <2>. SUFFICES ASSUME NEW m \in answered', NEW row \in PostRows, Carried(m, row)'
                PROVE  Millis(row.createdAt) <= readAt'[row.author]
    BY DEF AnsweredRead
  <2>1. m \in Posts /\ row.author \in Members /\ row.createdAt \in Nat
    BY <1>1, <1>2, <1>6 DEF MessageTypeOK, PostRows, Times
  <2>2. Carried(m, row) /\ Millis(row.createdAt) \in Nat
    BY <2>1, <1>9, MillisOrder
  <2>3. CASE m \in answered
    <3>1. Millis(row.createdAt) <= readAt[row.author]
      BY <2>2, <2>3 DEF AnsweredRead, MessageInv
    <3>. QED
      BY <3>1, <2>1, <2>2, <1>7
  <2>4. CASE m \in writer[w].posted
    <3>1. row.author = u /\ Millis(row.createdAt) <= at
      BY <1>1, <2>2, <2>4 DEF OwnMarks, MessageInv
    <3>. QED
      BY <3>1, <2>2, <1>2, <1>5, <1>7 DEF Times
  <2>. QED
    BY <1>6, <2>3, <2>4
<1>15. UnseenLater'
  <2>. SUFFICES ASSUME NEW n \in Posts, NEW row \in PostRows, NEW v \in Members,
                       Carried(n, row)', <<v, n>> \notin seen'
                PROVE  /\ readAt'[v] <= Millis(row.createdAt)
                       /\ \A x \in Writers : (Marking(x) /\ writer[x].user = v)' =>
                            writer'[x].at <= Millis(row.createdAt)
    BY DEF UnseenLater
  <2>1. /\ readAt[v] <= Millis(row.createdAt)
        /\ \A x \in Writers :
             Marking(x) /\ writer[x].user = v => writer[x].at <= Millis(row.createdAt)
    BY <1>4, <1>9 DEF UnseenLater, MessageInv
  <2>2. readAt'[v] <= Millis(row.createdAt)
    BY <2>1, <1>1, <1>5
  <2>. QED
    BY <2>1, <2>2, <1>10
<1>. QED
  BY <1>7, <1>8, <1>11, <1>12, <1>13, <1>14, <1>15 DEF MessageInv

-----------------------------------------------------------------------------
\* The other steps of a request.
LEMMA CommitKeeps ==
  ASSUME MessageInv, NEW w \in Writers,
         CommitPost(w) \/ ReloadPost(w) \/ UpdatePost(w) \/ ReinsertPost(w) \/ RemovePost(w)
  PROVE  MessageInv'
<1>1. MessageTypeOK /\ writer[w].pc \in CarrierStates
  BY DEF MessageInv, CommitPost, ReloadPost, UpdatePost, ReinsertPost, RemovePost, CarrierStates
<1>2. writer[w].m \in Posts /\ writer[w].row \in PostRows /\ Carried(writer[w].m, writer[w].row)
  BY <1>1, WriterFields DEF Carried, Carries
<1>3. \A pc \in CarrierStates :
        /\ [writer[w] EXCEPT !.pc = pc] \in WriterStates
        /\ [writer[w] EXCEPT !.pc = pc] = [pc |-> pc, m |-> writer[w].m, row |-> writer[w].row]
  BY <1>1, SameRow
<1>4. post \in [Posts -> PostRows \cup {NoPost}]
  BY <1>1 DEF MessageTypeOK
<1>5. CASE CommitPost(w)
  <2>1. Proceed(w, [writer[w] EXCEPT !.pc = "committed"]) /\ "committed" \in CarrierStates
    BY <1>5 DEF CommitPost, CarrierStates
  <2>2. post' = [post EXCEPT ![writer[w].m] = writer[w].row]
    BY <1>5 DEF CommitPost
  <2>3. post' \in [Posts -> PostRows \cup {NoPost}]
    BY <1>2, <1>4, <2>2
  <2>4. \A m \in Posts : \/ post'[m] \in {post[m], NoPost}
                         \/ post'[m] \in PostRows /\ LikeCarried(m, post'[m])
    BY <1>2, <1>4, <2>2, CarriedIsLikeCarried
  <2>5. UNCHANGED <<time, readAt, touchedAt, answered, seen>>
    BY <1>5 DEF CommitPost
  <2>. QED
    BY <1>2, <1>3, <2>1, <2>3, <2>4, <2>5, RequestMovesOn
<1>6. CASE ReloadPost(w)
  <2>1. PICK pc \in CarrierStates : Proceed(w, [writer[w] EXCEPT !.pc = pc])
    BY <1>6 DEF ReloadPost, CarrierStates
  <2>2. UNCHANGED <<time, post, readAt, touchedAt, answered, seen>>
    BY <1>6 DEF ReloadPost
  <2>. QED
    BY <1>2, <1>3, <1>4, <2>1, <2>2, RequestMovesOn
<1>7. CASE UpdatePost(w)
  BY <1>4, <1>7, StateTypes, RequestMovesOn DEF UpdatePost
<1>8. CASE ReinsertPost(w)
  <2> DEFINE row == Reinserted(w)
  <2>1. post' = [post EXCEPT ![writer[w].m] = row] /\ Proceed(w, NoWriter)
    BY <1>8 DEF ReinsertPost
  <2>2. row \in PostRows /\ LikeCarried(writer[w].m, row)
    <3>1. PICK u \in Members, t \in Times : writer[w].row = [author |-> u, createdAt |-> t]
      BY <1>2 DEF PostRows
    <3>2. row = [author |-> u, createdAt |-> Millis(t)]
      BY <3>1 DEF Reinserted
    <3>3. Millis(t) \in Times /\ Millis(t) <= t /\ Millis(Millis(t)) = Millis(t)
      BY <3>1, MillisOrder, MaxTimeIsNat DEF Times
    <3>. QED
      BY <1>2, <3>1, <3>2, <3>3 DEF LikeCarried, PostRows
  <2>3. post' \in [Posts -> PostRows \cup {NoPost}]
    BY <1>2, <1>4, <2>1, <2>2
  <2>4. \A m \in Posts : \/ post'[m] \in {post[m], NoPost}
                         \/ post'[m] \in PostRows /\ LikeCarried(m, post'[m])
    BY <1>2, <1>4, <2>1, <2>2
  <2>. QED
    BY <1>8, <2>1, <2>3, <2>4, StateTypes, RequestMovesOn DEF ReinsertPost
<1>9. CASE RemovePost(w)
  <2>1. post' = [post EXCEPT ![writer[w].m] = NoPost] /\ Proceed(w, NoWriter)
    BY <1>9 DEF RemovePost
  <2>2. post' \in [Posts -> PostRows \cup {NoPost}]
    BY <1>2, <1>4, <2>1
  <2>3. \A m \in Posts : post'[m] \in {post[m], NoPost}
    BY <1>2, <1>4, <2>1
  <2>. QED
    BY <1>9, <2>1, <2>2, <2>3, StateTypes, RequestMovesOn DEF RemovePost
<1>. QED
  BY <1>5, <1>6, <1>7, <1>8, <1>9

LEMMA FindKeeps ==
  ASSUME MessageInv, NEW w \in Writers, NEW m \in Posts, FindForEdit(w, m) \/ FindForDelete(w, m)
  PROVE  MessageInv'
<1>1. MessageTypeOK
  BY DEF MessageInv
<1>2. PICK pc \in CarrierStates : FindPost(w, m, pc)
  BY DEF FindForEdit, FindForDelete, CarrierStates
<1>3. post[m] \in PostRows /\ Carried(m, post[m])
  BY <1>1, <1>2 DEF FindPost, MessageTypeOK, Carried
<1> DEFINE state == [pc |-> pc, m |-> m, row |-> post[m]]
<1>4. state \in WriterStates /\ Proceed(w, state)
  BY <1>2, <1>3, StateTypes DEF FindPost
<1>5. UNCHANGED <<time, post, readAt, touchedAt, answered, seen>>
  BY <1>2 DEF FindPost
<1>6. post \in [Posts -> PostRows \cup {NoPost}]
  BY <1>1 DEF MessageTypeOK
<1>. QED
  BY <1>3, <1>4, <1>5, <1>6, RequestMovesOn

LEMMA FailKeeps ==
  ASSUME MessageInv, NEW w \in Writers, WriterFails(w)
  PROVE  MessageInv'
  BY StateTypes, RequestMovesOn DEF WriterFails, MessageInv, MessageTypeOK

LEMMA MarkKeeps ==
  ASSUME MessageInv, NEW w \in Writers,
         MarkOwnPost(w) \/ \E u \in Members : MarkAsRead(w, u)
  PROVE  MessageInv'
<1>1. CASE MarkOwnPost(w)
  <2>1. writer[w].pc \in CarrierStates /\ MessageTypeOK
    BY <1>1 DEF MarkOwnPost, CarrierStates, MessageInv
  <2>2. writer[w].m \in Posts /\ writer[w].row.author \in Members
    BY <2>1, WriterFields DEF PostRows
  <2>. QED
    BY <1>1, <2>1, <2>2, TakeMarkKeeps DEF MarkOwnPost, Carries
<1>2. CASE \E u \in Members : MarkAsRead(w, u)
  BY <1>2, TakeMarkKeeps DEF MarkAsRead
<1>. QED
  BY <1>1, <1>2

\* The clock, and edits of the discussion.
LEMMA OutsideKeeps ==
  ASSUME MessageInv, TimeAdvances \/ \E t \in Times : DiscussionTouched(t)
  PROVE  MessageInv'
<1>1. /\ time <= time' /\ MessageTypeOK'
      /\ UNCHANGED <<post, readAt, writer, answered, seen>>
  BY MaxTimeIsNat DEF MessageInv, MessageTypeOK, TimeAdvances, DiscussionTouched, Times
<1>2. \A m \in Posts : \A row \in PostRows : Carried(m, row)' => LikeCarried(m, row)
  BY <1>1, CarriedIsLikeCarried DEF Carried, Carries
<1>. QED
  BY <1>1, <1>2, QuietStep

-----------------------------------------------------------------------------
LEMMA InitialMessages == MessageInit => MessageInv
<1>. SUFFICES ASSUME MessageInit PROVE MessageInv
  OBVIOUS
<1>1. MessageTypeOK
  BY StateTypes, MaxTimeIsNat DEF MessageInit, MessageTypeOK, Times
<1>2. \A m \in Posts : \A row \in PostRows : ~Carried(m, row)
  BY DEF MessageInit, Carried, Carries, NoWriter, CarrierStates
<1>3. \A w \in Writers : ~Marking(w)
  BY DEF MessageInit, Marking, NoWriter
<1>4. MarksArePast /\ OwnMarks
  BY <1>3, MillisOrder DEF MarksArePast, OwnMarks, MessageInit
<1>. QED
  BY <1>1, <1>2, <1>4
     DEF MessageInv, RowsAgree, RowsArePast, AnsweredRead, UnseenLater, MessageTypeOK

\* One step: the invariant is kept and no mark goes back.
LEMMA MessageNextKeeps ==
  ASSUME MessageInv, [MessageNext]_messageVars
  PROVE  MessageInv' /\ \A u \in Members : readAt[u] <= readAt'[u]
<1>. SUFFICES /\ MessageInv'
              /\ readAt' = readAt \/ \A u \in Members : readAt[u] <= readAt'[u]
  BY DEF MessageInv, MessageTypeOK, Times
<1>1. CASE TimeAdvances \/ \E t \in Times : DiscussionTouched(t)
  BY <1>1, OutsideKeeps DEF TimeAdvances, DiscussionTouched
<1>2. ASSUME NEW w \in Writers, WriterStep(w)
      PROVE  /\ MessageInv'
             /\ readAt' = readAt \/ \A u \in Members : readAt[u] <= readAt'[u]
  <2>1. CASE \E u \in Members, m \in Posts : BeginPost(w, u, m)
    BY <2>1, BeginPostKeeps DEF BeginPost
  <2>2. CASE CommitPost(w) \/ ReloadPost(w) \/ UpdatePost(w) \/ ReinsertPost(w) \/ RemovePost(w)
    BY <2>2, CommitKeeps DEF CommitPost, ReloadPost, UpdatePost, ReinsertPost, RemovePost
  <2>3. CASE MarkOwnPost(w) \/ \E u \in Members : MarkAsRead(w, u)
    BY <2>3, MarkKeeps DEF MarkOwnPost, MarkAsRead
  <2>4. CASE UpsertReadState(w)
    BY <2>4, UpsertKeeps
  <2>5. CASE \E m \in Posts : FindForEdit(w, m) \/ FindForDelete(w, m)
    BY <2>5, FindKeeps DEF FindForEdit, FindForDelete, FindPost
  <2>6. CASE WriterFails(w)
    BY <2>6, FailKeeps DEF WriterFails
  <2>. QED
    BY <1>2, <2>1, <2>2, <2>3, <2>4, <2>5, <2>6 DEF WriterStep
<1>3. CASE UNCHANGED messageVars
  <2>1. UNCHANGED <<time, post, readAt, touchedAt, writer, answered, seen>>
    BY <1>3 DEF messageVars
  <2>2. MessageTypeOK' /\ time <= time'
    BY <2>1 DEF MessageInv, MessageTypeOK, Times
  <2>3. \A m \in Posts : \A row \in PostRows : Carried(m, row)' => LikeCarried(m, row)
    BY <2>1, CarriedIsLikeCarried DEF Carried, Carries
  <2>. QED
    BY <2>1, <2>2, <2>3, QuietStep
<1>. QED
  BY <1>1, <1>2, <1>3 DEF MessageNext

\* The inductive invariant holds in every behaviour of the code
\* (discussion-message.service.ts, discussion.service.ts:223-249, 527-541).
THEOREM MessageInvariant == MessageSpec => []MessageInv
<1>1. MessageInv /\ [MessageNext]_messageVars => MessageInv'
  BY MessageNextKeeps
<1>. QED
  BY InitialMessages, <1>1, PTL DEF MessageSpec

\* The rows, the marks and the requests in flight keep their types.
THEOREM MessageTypeCorrect == MessageSpec => []MessageTypeOK
<1>1. MessageInv => MessageTypeOK
  BY DEF MessageInv
<1>. QED
  BY MessageInvariant, <1>1, PTL

\* No order of plain marks, marks of posts and their queries moves a read mark
\* back (discussion.service.ts:242-245).
THEOREM MarksStay == MessageSpec => ReadMarksNeverGoBack
<1>1. MessageInv /\ [MessageNext]_messageVars =>
        [\A u \in Members : readAt[u] <= readAt'[u]]_messageVars
  BY MessageNextKeeps
<1>. QED
  BY MessageInvariant, <1>1, PTL DEF MessageSpec, ReadMarksNeverGoBack

\* Once a post is answered its author has read it, up to the millisecond, also
\* when an edit brings it back after its deletion
\* (discussion-message.service.ts:166-172, discussion.service.ts:242-245).
THEOREM OwnMessagesRead == MessageSpec => []AuthorsHaveReadTheirOwn
<1>1. MessageInv => AuthorsHaveReadTheirOwn
  BY DEF MessageInv, MessageTypeOK, AnsweredRead, Carried, AuthorsHaveReadTheirOwn
<1>. QED
  BY MessageInvariant, <1>1, PTL

\* A message that came after every mark a member has taken is unread for that
\* member, however late the marks are written (discussion.service.ts:157-161,
\* 533-534).
THEOREM UnseenStaysUnread == MessageSpec => []UnseenIsUnread
<1>1. ASSUME MessageInv PROVE UnseenIsUnread
  <2>. SUFFICES ASSUME NEW u \in Members, NEW m \in Posts, post[m] # NoPost, <<u, m>> \notin seen
                PROVE  Unread(u) \/ readAt[u] = post[m].createdAt
    BY DEF UnseenIsUnread
  <2>1. post[m] \in PostRows /\ Carried(m, post[m])
    BY <1>1 DEF MessageInv, MessageTypeOK, Carried
  <2>2. readAt[u] <= Millis(post[m].createdAt)
    BY <1>1, <2>1 DEF MessageInv, UnseenLater
  <2>3. readAt[u] \in Nat /\ post[m].createdAt \in Nat
    BY <1>1, <2>1 DEF MessageInv, MessageTypeOK, PostRows, Times
  <2>4. readAt[u] <= post[m].createdAt
    BY <2>2, <2>3, MillisOrder
  <2>. QED
    BY <2>3, <2>4 DEF Unread
<1>. QED
  BY MessageInvariant, <1>1, PTL

=============================================================================
