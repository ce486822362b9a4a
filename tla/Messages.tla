------------------------------ MODULE Messages ------------------------------
(***************************************************************************)
(* The TEXT messages of one discussion and who has read it                 *)
(* (discussion-message.service.ts, and the read states of                  *)
(* discussion.service.ts).                                                 *)
(*                                                                         *)
(* created_at is now() of PostgreSQL, the start of the inserting           *)
(* transaction; last_read_at is a new Date() of the server, taken before   *)
(* the query that writes it.  Both clocks are taken to agree.  A Date      *)
(* counts milliseconds, PostgreSQL finer: time advances in half            *)
(* milliseconds.  The content of messages is left out.                     *)
(***************************************************************************)
EXTENDS Naturals

CONSTANTS
  Members,  \* the members who write and read
  Posts,    \* the messages that may ever be posted (a bound)
  Writers,  \* the requests that may be in flight
  MaxTime   \* the bound of the clock

ASSUME MaxTimeIsNat == MaxTime \in Nat \ {0}

VARIABLES
  time,       \* the clock
  post,       \* post[m]: the row of message m
  readAt,     \* readAt[u]: last_read_at of u, 0 when there is no row
  touchedAt,  \* updated_at of the discussion
  writer,     \* writer[w]: where request w is
  answered,   \* history: the messages whose post wrote its author's read state
  seen        \* history: <<u, m>> when u marked the discussion while m was there

messageVars == <<time, post, readAt, touchedAt, writer, answered, seen>>

Times == 0 .. MaxTime

\* What a Date keeps of an instant.
Millis(t) == t - (t % 2)

PostRows == [author : Members, createdAt : Times]

NoPost == [author |-> "nobody", createdAt |-> 0]

NoWriter == [pc |-> "idle"]

\* A post that wrote its row carries it on; a plain mark carries no message.
WriterStates ==
  {NoWriter}
  \cup [pc : {"inserted", "committed"}, m : Posts, row : PostRows]
  \cup [pc : {"marking"}, user : Members, at : Times, posted : SUBSET Posts]
  \cup [pc : {"editing", "updating", "inserting", "deleting"}, m : Posts, row : PostRows]

MessageTypeOK ==
  /\ time \in Times \ {0}
  /\ post \in [Posts -> PostRows \cup {NoPost}]
  /\ readAt \in [Members -> Times]
  /\ touchedAt \in Times
  /\ writer \in [Writers -> WriterStates]
  /\ answered \subseteq Posts
  /\ seen \subseteq Members \X Posts

\* createDiscussion has committed.
MessageInit ==
  /\ time = 1
  /\ post = [m \in Posts |-> NoPost]
  /\ readAt = [u \in Members |-> 0]
  /\ touchedAt = 1
  /\ writer = [w \in Writers |-> NoWriter]
  /\ answered = {}
  /\ seen = {}

-----------------------------------------------------------------------------
TimeAdvances ==
  /\ time < MaxTime
  /\ time' = time + 1
  /\ UNCHANGED <<post, readAt, touchedAt, writer, answered, seen>>

\* An edit of the discussion (module Discussions) sets updated_at to the start
\* of its transaction, and commits later.
DiscussionTouched(t) ==
  /\ t \in 1 .. time
  /\ touchedAt' = t
  /\ UNCHANGED <<time, post, readAt, writer, answered, seen>>

Proceed(w, state) == writer' = [writer EXCEPT ![w] = state]

\* A message whose INSERT has begun, committed or not, is there.
Begun(m) ==
  \/ post[m] # NoPost
  \/ \E w \in Writers : writer[w].pc # "idle" /\ writer[w].pc # "marking" /\ writer[w].m = m

-----------------------------------------------------------------------------
(* createDiscussionMessage                                                 *)

Fresh(m) == ~Begun(m) /\ m \notin answered /\ \A u \in Members : <<u, m>> \notin seen

BeginPost(w, u, m) ==
  /\ writer[w] = NoWriter
  /\ Fresh(m)
  /\ Proceed(w, [pc |-> "inserted", m |-> m, row |-> [author |-> u, createdAt |-> time]])
  /\ UNCHANGED <<time, post, readAt, touchedAt, answered, seen>>

CommitPost(w) ==
  /\ writer[w].pc = "inserted"
  /\ post' = [post EXCEPT ![writer[w].m] = writer[w].row]
  /\ Proceed(w, [writer[w] EXCEPT !.pc = "committed"])
  /\ UNCHANGED <<time, readAt, touchedAt, answered, seen>>

\* lastReadAt of upsertDiscussionReadState, after the save.
TakeMark(w, u, posted) ==
  /\ Proceed(w, [pc |-> "marking", user |-> u, at |-> Millis(time), posted |-> posted])
  /\ seen' = seen \cup {<<u, m>> : m \in {n \in Posts : Begun(n)}}

\* Bug model: the read state is taken before the message is inserted.
MarkBeforePost(w) ==
  /\ writer[w].pc = "committed"
  /\ Proceed(w, [pc |-> "marking", user |-> writer[w].row.author, posted |-> {writer[w].m},
                 at |-> Millis(writer[w].row.createdAt - 1)])
  /\ UNCHANGED <<time, post, readAt, touchedAt, answered, seen>>

MarkOwnPost(w) ==
  /\ writer[w].pc = "committed"
  /\ TakeMark(w, writer[w].row.author, {writer[w].m})
  /\ UNCHANGED <<time, post, readAt, touchedAt, answered>>

-----------------------------------------------------------------------------
(* markDiscussionAsRead, and the upsert that posting shares with it         *)

MarkAsRead(w, u) ==
  /\ writer[w] = NoWriter
  /\ TakeMark(w, u, {})
  /\ UNCHANGED <<time, post, readAt, touchedAt, answered>>

\* Bug model: the last mark to be written wins.
LastMark(old, at) == at

\* Bug model: now() of the upsert in place of the time the request took.
MarkOfWriting(old, at) == IF old > Millis(time) THEN old ELSE Millis(time)

\* GREATEST(last_read_at, EXCLUDED.last_read_at)
LaterMark(old, at) == IF old > at THEN old ELSE at

UpsertReadState(w) ==
  /\ writer[w].pc = "marking"
  /\ readAt' = [readAt EXCEPT ![writer[w].user] = LaterMark(@, writer[w].at)]
  /\ answered' = answered \cup writer[w].posted
  /\ Proceed(w, NoWriter)
  /\ UNCHANGED <<time, post, touchedAt, seen>>

-----------------------------------------------------------------------------
(* updateDiscussionMessage and deleteDiscussionMessage.  Only the author's *)
(* requests get past assertIsMessageAuthor.                                *)

FindPost(w, m, pc) ==
  /\ writer[w] = NoWriter
  /\ post[m] # NoPost
  /\ Proceed(w, [pc |-> pc, m |-> m, row |-> post[m]])
  /\ UNCHANGED <<time, post, readAt, touchedAt, answered, seen>>

FindForEdit(w, m) == FindPost(w, m, "editing")

FindForDelete(w, m) == FindPost(w, m, "deleting")

\* save(message) looks for the row again: what it finds is updated, what it no
\* longer finds is inserted.
ReloadPost(w) ==
  /\ writer[w].pc = "editing"
  /\ Proceed(w, [writer[w] EXCEPT
       !.pc = IF post[writer[w].m] = NoPost THEN "inserting" ELSE "updating"])
  /\ UNCHANGED <<time, post, readAt, touchedAt, answered, seen>>

\* The UPDATE of a row that is gone by now affects nothing, without an error.
UpdatePost(w) ==
  /\ writer[w].pc = "updating"
  /\ Proceed(w, NoWriter)
  /\ UNCHANGED <<time, post, readAt, touchedAt, answered, seen>>

\* The entity holds every column.  Its created_at was read into a Date: what
\* the database kept beyond the milliseconds is lost.
Reinserted(w) == [writer[w].row EXCEPT !.createdAt = Millis(@)]

\* The deleted message is back.
ReinsertPost(w) ==
  /\ writer[w].pc = "inserting"
  /\ post[writer[w].m] = NoPost
  /\ post' = [post EXCEPT ![writer[w].m] = Reinserted(w)]
  /\ Proceed(w, NoWriter)
  /\ UNCHANGED <<time, readAt, touchedAt, answered, seen>>

RemovePost(w) ==
  /\ writer[w].pc = "deleting"
  /\ post' = [post EXCEPT ![writer[w].m] = NoPost]
  /\ Proceed(w, NoWriter)
  /\ UNCHANGED <<time, readAt, touchedAt, answered, seen>>

\* An error or the death of the process, wherever the request is.
WriterFails(w) ==
  /\ writer[w] # NoWriter
  /\ Proceed(w, NoWriter)
  /\ UNCHANGED <<time, post, readAt, touchedAt, answered, seen>>

-----------------------------------------------------------------------------
WriterStep(w) ==
  \/ \E u \in Members, m \in Posts : BeginPost(w, u, m)
  \/ CommitPost(w) \/ MarkOwnPost(w)
  \/ \E u \in Members : MarkAsRead(w, u)
  \/ UpsertReadState(w)
  \/ \E m \in Posts : FindForEdit(w, m) \/ FindForDelete(w, m)
  \/ ReloadPost(w) \/ UpdatePost(w) \/ ReinsertPost(w) \/ RemovePost(w)
  \/ WriterFails(w)

MessageNext ==
  \/ TimeAdvances
  \/ \E t \in Times : DiscussionTouched(t)
  \/ \E w \in Writers : WriterStep(w)

MessageSpec == MessageInit /\ [][MessageNext]_messageVars

-----------------------------------------------------------------------------
(* Properties.                                                             *)

\* buildUnreadConditionSql.
Unread(u) ==
  \/ readAt[u] = 0
  \/ readAt[u] < touchedAt
  \/ \E m \in Posts : post[m] # NoPost /\ readAt[u] < post[m].createdAt

\* What a member has read stays read: marks written out of order, by plain
\* marks and by posts, never move last_read_at back
\* (discussion.service.ts:242-245).
ReadMarksNeverGoBack == [][\A u \in Members : readAt[u] <= readAt'[u]]_messageVars

\* A message of one's own is not unread once posting it has been answered,
\* whatever the order in which it, older marks and edits of deleted messages
\* reach the database.  Up to the millisecond: last_read_at has no finer part
\* (discussion-message.service.ts:37-42 after 166, 246-250).
AuthorsHaveReadTheirOwn ==
  \A m \in answered :
    post[m] # NoPost => Millis(post[m].createdAt) <= readAt[post[m].author]

\* A message that was not there yet at any mark of a member is unread for that
\* member: a mark that is slow to be written covers nothing that came after it
\* was taken, except in the very same instant, which the two clocks cannot tell
\* apart.  A message whose INSERT has begun counts as there, as in seen: one that
\* commits after the mark with an earlier created_at is read although nobody saw
\* it (discussion.service.ts:157-161, 533-534).
UnseenIsUnread ==
  \A u \in Members, m \in Posts :
    post[m] # NoPost /\ <<u, m>> \notin seen => Unread(u) \/ readAt[u] = post[m].createdAt

=============================================================================
