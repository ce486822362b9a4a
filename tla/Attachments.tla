---------------------------- MODULE Attachments ----------------------------
(***************************************************************************)
(* The attachments of the organization's discussions                       *)
(* (discussion-message.service.ts): a message row in PostgreSQL that names *)
(* an asset in Cloudinary, two stores without a common transaction.        *)
(*                                                                         *)
(* An upload stores the asset, inserts the row and marks the discussion as *)
(* read; a deletion of the message destroys the asset and then the row.    *)
(* Each call to either store is one action, any of them may fail, and the  *)
(* server may stop between two of them.                                    *)
(*                                                                         *)
(* The rows that a deletion of the organization (OrganizationDeletion)     *)
(* holds are in frozen: statements that need them wait.                    *)
(***************************************************************************)

CONSTANTS
  Messages,     \* the attachment messages, each with an asset of its own
  Discussions,  \* the discussions that may ever exist (a bound)
  Calls         \* the message requests that may be in flight

ASSUME NoneIsNoMessage == "none" \notin Messages

VARIABLES
  discussions,  \* the committed discussions
  frozen,       \* the discussions and messages locked or deleted by a
                \* transaction that has not committed
  row,          \* row[m]: the message row, as far as it is committed
  asset,        \* asset[m]: the file in Cloudinary
  unsettled,    \* the messages on which a request gave up half way
  call          \* call[c]: where message request c is

messageVars == <<discussions, frozen, row, asset, unsettled, call>>

RowStates == {"none", "present", "removed"}
AssetStates == {"none", "stored", "deleted"}

\* pc names the last await the request is past.
CallRecords ==
  [pc : {"idle", "found", "uploaded", "inserted", "saved", "undo",
         "deleting", "assetGone"},
   discussion : Discussions \cup {"none"}, message : Messages \cup {"none"}]

AttachmentTypeOK ==
  /\ discussions \subseteq Discussions
  /\ frozen \subseteq Discussions \cup Messages
  /\ row \in [Messages -> RowStates]
  /\ asset \in [Messages -> AssetStates]
  /\ unsettled \subseteq Messages
  /\ call \in [Calls -> CallRecords]
  /\ \A c \in Calls : call[c].pc \in {"idle", "found"} <=> call[c].message = "none"

NoCall == [pc |-> "idle", discussion |-> "none", message |-> "none"]

AttachmentInit ==
  /\ discussions \in SUBSET Discussions
  /\ frozen = {}
  /\ row = [m \in Messages |-> "none"]
  /\ asset = [m \in Messages |-> "none"]
  /\ unsettled = {}
  /\ call = [c \in Calls |-> NoCall]

-----------------------------------------------------------------------------
Goto(c, pc) == call' = [call EXCEPT ![c].pc = pc]

\* Bug model: an answered request still refers to its message.
AnswerKeepingMessage(c) == Goto(c, "idle")

Answer(c) == call' = [call EXCEPT ![c] = NoCall]

Present == {m \in Messages : row[m] = "present"}

GiveUp(ms) == unsettled' = unsettled \cup ms

\* The request ends without another step on m, with one store or both changed.
GiveUpIfTorn(m) ==
  GiveUp({n \in {m} : (asset'[n] = "stored") # (n \in Present)})

\* The two outcomes of a call to Cloudinary that ends in an error: it may have
\* deleted the asset all the same.
MaybeDeleted(m) == asset' \in {asset, [asset EXCEPT ![m] = "deleted"]}

\* findDiscussionByIdForUser, the first read of every message request.
FindDiscussion(c, d) ==
  /\ call[c].pc = "idle"
  /\ d \in discussions
  /\ call' = [call EXCEPT ![c] = [NoCall EXCEPT !.pc = "found", !.discussion = d]]
  /\ UNCHANGED <<discussions, frozen, row, asset, unsettled>>

\* A file that is refused or cannot be uploaded, a message that does not exist
\* or belongs to somebody else.
Refuse(c) ==
  /\ call[c].pc = "found"
  /\ Answer(c)
  /\ UNCHANGED <<discussions, frozen, row, asset, unsettled>>

-----------------------------------------------------------------------------
(* createDiscussionAttachmentMessage                                       *)

Upload(c, m) ==
  /\ call[c].pc = "found"
  /\ asset[m] = "none"
  /\ asset' = [asset EXCEPT ![m] = "stored"]
  /\ call' = [call EXCEPT ![c].pc = "uploaded", ![c].message = m]
  /\ UNCHANGED <<discussions, frozen, row, unsettled>>

\* Cloudinary may have stored the file of an upload that ends in an error.
UploadFails(c, m) ==
  /\ call[c].pc = "found"
  /\ asset[m] = "none"
  /\ asset' = [asset EXCEPT ![m] = "stored"]
  /\ GiveUp({m})
  /\ Answer(c)
  /\ UNCHANGED <<discussions, frozen, row>>

\* The content is checked after the upload and before the try: a blank one
\* answers 400 and leaves the asset where it is.
RefuseContent(c) ==
  /\ call[c].pc = "uploaded"
  /\ UNCHANGED asset
  /\ GiveUpIfTorn(call[c].message)
  /\ Answer(c)
  /\ UNCHANGED <<discussions, frozen, row>>

\* The key-share lock the foreign key takes on the discussion's row.
DiscussionAvailable(d) == d \notin frozen

InsertMessage(c) ==
  /\ call[c].pc = "uploaded"
  /\ DiscussionAvailable(call[c].discussion)
  /\ Goto(c, IF call[c].discussion \in discussions THEN "inserted" ELSE "undo")
  /\ UNCHANGED <<discussions, frozen, row, asset, unsettled>>

CommitMessage(c) ==
  /\ call[c].pc = "inserted"
  /\ row' = [row EXCEPT ![call[c].message] = "present"]
  /\ Goto(c, "saved")
  /\ UNCHANGED <<discussions, frozen, asset, unsettled>>

\* upsertDiscussionReadState: without the discussion it inserts nothing.
UpsertReadState(c) ==
  /\ call[c].pc = "saved"
  /\ DiscussionAvailable(call[c].discussion)
  /\ Answer(c)
  /\ UNCHANGED <<discussions, frozen, row, asset, unsettled>>

\* An error of save, or of the read state after it, enters the catch block.
SaveFails(c) ==
  /\ call[c].pc \in {"uploaded", "inserted", "saved"}
  /\ Goto(c, "undo")
  /\ UNCHANGED <<discussions, frozen, row, asset, unsettled>>

\* The catch block deletes the asset, whether or not its row was saved.
UndoUpload(c) ==
  /\ call[c].pc = "undo"
  /\ asset' = [asset EXCEPT ![call[c].message] = "deleted"]
  /\ GiveUpIfTorn(call[c].message)
  /\ Answer(c)
  /\ UNCHANGED <<discussions, frozen, row>>

\* An error of that deletion is swallowed.
UndoFails(c) ==
  /\ call[c].pc = "undo"
  /\ MaybeDeleted(call[c].message)
  /\ GiveUpIfTorn(call[c].message)
  /\ Answer(c)
  /\ UNCHANGED <<discussions, frozen, row>>

-----------------------------------------------------------------------------
(* deleteDiscussionMessage                                                 *)

FindMessage(c, m) ==
  /\ call[c].pc = "found"
  /\ m \in Present
  /\ call' = [call EXCEPT ![c].pc = "deleting", ![c].message = m]
  /\ UNCHANGED <<discussions, frozen, row, asset, unsettled>>

\* "ok", or "not found" when it was deleted before.
DeleteAsset(c) ==
  /\ call[c].pc = "deleting"
  /\ asset' = [asset EXCEPT ![call[c].message] = "deleted"]
  /\ Goto(c, "assetGone")
  /\ UNCHANGED <<discussions, frozen, row, unsettled>>

\* An answer without a result counts as "ok".
DeleteAssetUnanswered(c) ==
  /\ call[c].pc = "deleting"
  /\ GiveUp({call[c].message})
  /\ Goto(c, "assetGone")
  /\ UNCHANGED <<discussions, frozen, row, asset>>

\* An error or another result answers 500 and the row stays.
DeleteAssetFails(c) ==
  /\ call[c].pc = "deleting"
  /\ MaybeDeleted(call[c].message)
  /\ GiveUpIfTorn(call[c].message)
  /\ Answer(c)
  /\ UNCHANGED <<discussions, frozen, row>>

\* remove(message): the DELETE waits for whoever holds the row and is no error
\* when the row is gone.
RemoveMessage(c) ==
  /\ call[c].pc = "assetGone"
  /\ call[c].message \notin frozen
  /\ row' = [row EXCEPT ![call[c].message] = "removed"]
  /\ Answer(c)
  /\ UNCHANGED <<discussions, frozen, asset, unsettled>>

RemoveFails(c) ==
  /\ call[c].pc = "assetGone"
  /\ UNCHANGED asset
  /\ GiveUpIfTorn(call[c].message)
  /\ Answer(c)
  /\ UNCHANGED <<discussions, frozen, row>>

-----------------------------------------------------------------------------
CallAdvances(c) ==
  \/ Refuse(c)
  \/ \E m \in Messages : Upload(c, m) \/ FindMessage(c, m)
  \/ RefuseContent(c) \/ InsertMessage(c) \/ CommitMessage(c) \/ UpsertReadState(c)
  \/ UndoUpload(c) \/ UndoFails(c)
  \/ DeleteAsset(c) \/ DeleteAssetFails(c) \/ RemoveMessage(c)

CallStep(c) ==
  \/ \E d \in Discussions : FindDiscussion(c, d)
  \/ CallAdvances(c)
  \/ \E m \in Messages : UploadFails(c, m)
  \/ SaveFails(c)
  \/ DeleteAssetUnanswered(c)
  \/ RemoveFails(c)

\* The messages that the requests at one of pcs are about.
InHand(pcs) == {m \in Messages : \E c \in Calls : call[c].pc \in pcs /\ call[c].message = m}

-----------------------------------------------------------------------------
(* Properties.                                                             *)

\* The asset a message row names exists, unless a request is deleting the two
\* or failed between them: no upload, deletion or interleaving of theirs takes
\* the file away from a message that stays
\* (discussion-message.service.ts:388-417).
RowsHaveAssets ==
  \A m \in Present : asset[m] = "stored" \/ m \in unsettled \cup InHand({"assetGone"})

=============================================================================
