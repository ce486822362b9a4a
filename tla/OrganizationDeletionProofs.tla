--------------------- MODULE OrganizationDeletionProofs ---------------------
(***************************************************************************)
(* Theorems about OrganizationDeletion and Attachments: rows keep their    *)
(* assets, no asset is forgotten, and nothing is left to the cascade, for  *)
(* any messages, discussions, requests, deletions and other transactions;  *)
(* and every wait cycle is one that BreakCycle breaks.                     *)
(*                                                                         *)
(* Two arguments are combined.  What concerns one message and its asset    *)
(* (Local) is kept message by message.  What concerns the locks (LocksInv) *)
(* says how far each statement of the deletion has closed the door.        *)
(***************************************************************************)
EXTENDS OrganizationDeletion, TLAPS

Mine(c, m) == call[c].message = m

\* What holds of one message, its asset, and the requests about it.
Local(m) ==
  /\ asset[m] = "none" => row[m] = "none" /\ \A c \in Calls : ~Mine(c, m)
  /\ \A c \in Calls : Mine(c, m) =>
       /\ call[c].pc \in {"uploaded", "inserted"} => row[m] = "none"
       /\ call[c].pc \in {"saved", "deleting", "assetGone"} => row[m] # "none"
       /\ call[c].pc = "assetGone" => asset[m] = "deleted" \/ m \in unsettled
       /\ call[c].pc \in Uploading /\ row[m] = "none" =>
            asset[m] = "stored" /\ \A b \in Calls \ {c} : ~Mine(b, m)
  /\ row[m] = "present" =>
       \/ asset[m] = "stored" \/ m \in unsettled
       \/ \E c \in Calls : call[c].pc = "assetGone" /\ Mine(c, m)
  /\ asset[m] = "stored" =>
       \/ row[m] = "present" \/ m \in unsettled
       \/ \E c \in Calls : call[c].pc \in Uploading /\ Mine(c, m)
       \/ \E x \in Deletions : deletion[x].pc = "committed" /\ m \in deletion[x].assets
  /\ \A x \in Deletions : m \in deletion[x].assets =>
       row[m] # "none" /\ (deletion[x].pc = "committed" => row[m] # "present")

\* The statements of the transaction from the last one on.
DiscussionsDeletedOn == {"discussionsDeleted", "invitationsDeleted", "membershipsDeleted"}
MessagesDeletedOn == DiscussionsDeletedOn \cup {"messagesDeleted"}
AssetsListedOn == MessagesDeletedOn \cup {"assetsListed"}
DiscussionsLockedOn == AssetsListedOn \cup {"discussionsLocked"}
ConsumedOn == DiscussionsLockedOn \cup {"consumed"}
OrganizationLockedOn == DiscussionsLockedOn \cup {"organizationLocked", "consumed"}

\* What the locks of a deletion exclude.
LocksInv ==
  /\ \A x, y \in Deletions :
       deletion[x].pc \in OrganizationLockedOn /\ deletion[y].pc \in OrganizationLockedOn => x = y
  /\ \A x \in Deletions :
       /\ deletion[x].pc \in OrganizationLockedOn => \A o \in Others : other[o].pc # "creating"
       /\ deletion[x].pc \in DiscussionsLockedOn =>
            discussions \subseteq frozen /\ \A c \in Calls : call[c].pc # "inserted"
       /\ deletion[x].pc \in AssetsListedOn =>
            \A m \in Messages : row[m] = "present" => m \in deletion[x].assets
       /\ deletion[x].pc \in MessagesDeletedOn =>
            \A m \in Messages : row[m] = "present" => m \in frozen

NewDiscussions == \A o \in Others : other[o].pc = "creating" => other[o].discussion \in Discussions

DeletionInv ==
  DeletionTypeOK /\ NewDiscussions /\ LocksInv /\ \A m \in Messages : Local(m)

-----------------------------------------------------------------------------
LEMMA Ranks ==
  ASSUME DeletionTypeOK, NEW x \in Deletions
  PROVE  /\ x \in Past("organizationLocked") <=> deletion[x].pc \in OrganizationLockedOn
         /\ x \in Past("consumed") <=> deletion[x].pc \in ConsumedOn
         /\ x \in Past("messagesDeleted") <=> deletion[x].pc \in MessagesDeletedOn
         /\ x \in Past("discussionsDeleted") <=> deletion[x].pc \in DiscussionsDeletedOn
<1>1. deletion[x].pc \in {"idle", "allowed", "organizationLocked", "consumed", "discussionsLocked",
         "assetsListed", "messagesDeleted", "discussionsDeleted",
         "invitationsDeleted", "membershipsDeleted", "committed"}
  BY DEF DeletionTypeOK, DeletionRecords
<1>2. /\ Rank["idle"] = 0 /\ Rank["allowed"] = 0 /\ Rank["organizationLocked"] = 1
      /\ Rank["consumed"] = 2 /\ Rank["discussionsLocked"] = 3 /\ Rank["assetsListed"] = 4
      /\ Rank["messagesDeleted"] = 5 /\ Rank["discussionsDeleted"] = 6
      /\ Rank["invitationsDeleted"] = 7 /\ Rank["membershipsDeleted"] = 8 /\ Rank["committed"] = 0
  BY DEF Rank
<1>. QED
  BY <1>1, <1>2 DEF Past, OrganizationLockedOn, ConsumedOn, DiscussionsLockedOn, AssetsListedOn,
     MessagesDeletedOn, DiscussionsDeletedOn

LEMMA CallFields ==
  ASSUME DeletionTypeOK, NEW c \in Calls
  PROVE  /\ call[c] \in CallRecords
         /\ call[c].message \in Messages \cup {"none"}
         /\ call[c].discussion \in Discussions \cup {"none"}
         /\ call[c].pc \notin {"idle", "found"} => call[c].message \in Messages
         /\ call[c].pc \in {"idle", "found"} => call[c].message = "none"
  BY DEF DeletionTypeOK, AttachmentTypeOK, CallRecords

LEMMA NoCallIsOne == NoCall \in CallRecords /\ NoCall.pc = "idle" /\ NoCall.message = "none"
  BY DEF NoCall, CallRecords

LEMMA StoreFields ==
  ASSUME DeletionTypeOK
  PROVE  /\ row \in [Messages -> RowStates] /\ asset \in [Messages -> AssetStates]
         /\ unsettled \subseteq Messages /\ call \in [Calls -> CallRecords]
  BY DEF DeletionTypeOK, AttachmentTypeOK

\* A message that nobody's request and neither store is changed for.
LEMMA LocalFrame ==
  ASSUME NEW m \in Messages, Local(m),
         row'[m] = row[m], asset'[m] = asset[m], m \in unsettled => m \in unsettled',
         \A b \in Calls : (Mine(b, m) \/ Mine(b, m)') => call'[b] = call[b],
         \A x \in Deletions : m \in deletion'[x].assets =>
            m \in deletion[x].assets /\ (deletion'[x].pc = "committed" => deletion[x].pc = "committed"),
         \A x \in Deletions : deletion[x].pc = "committed" /\ m \in deletion[x].assets =>
            deletion'[x].pc = "committed" /\ m \in deletion'[x].assets
  PROVE  Local(m)'
<1>1. \A b \in Calls : Mine(b, m)' <=> Mine(b, m)
  BY DEF Mine
<1>2. \A b \in Calls : Mine(b, m) => call'[b] = call[b]
  OBVIOUS
<1>. QED
  BY <1>1, <1>2 DEF Local, Uploading

\* A step of one request: only its own message is concerned.
LEMMA CallKeeps ==
  ASSUME DeletionInv, NEW c \in Calls, NEW m \in Messages, NEW new \in CallRecords,
         call' = [call EXCEPT ![c] = new],
         call[c].message \in {m, "none"}, new.message \in {m, "none"},
         new.pc \in {"idle", "found"} <=> new.message = "none",
         row' \in [Messages -> RowStates], asset' \in [Messages -> AssetStates],
         \A n \in Messages \ {m} : row'[n] = row[n] /\ asset'[n] = asset[n],
         unsettled \subseteq unsettled', unsettled' \subseteq Messages,
         UNCHANGED <<discussions, frozen, organization, authorized, deletion, other>>,
         new.pc = "inserted" => ~(discussions \subseteq frozen),
         row'[m] = "present" => row[m] = "present" \/ call[c].pc = "inserted",
         Local(m)'
  PROVE  DeletionInv'
<1>1. DeletionTypeOK /\ call \in [Calls -> CallRecords]
  BY DEF DeletionInv, DeletionTypeOK, AttachmentTypeOK
<1>2. call' \in [Calls -> CallRecords] /\ call'[c] = new /\ \A b \in Calls \ {c} : call'[b] = call[b]
  BY <1>1
<1>3. DeletionTypeOK'
  BY <1>1, <1>2 DEF DeletionTypeOK, AttachmentTypeOK
<1>4. ASSUME NEW n \in Messages \ {m} PROVE Local(n)'
  <2>1. \A b \in Calls : (Mine(b, n) \/ Mine(b, n)') => call'[b] = call[b]
    BY <1>2, NoneIsNoMessage DEF Mine
  <2>. QED
    BY <2>1, LocalFrame DEF DeletionInv
<1>5. LocksInv'
  <2>1. ASSUME NEW x \in Deletions, deletion[x].pc \in DiscussionsLockedOn
        PROVE  /\ \A b \in Calls : call'[b].pc # "inserted"
               /\ \A n \in Messages : row'[n] = "present" => row[n] = "present"
    <3>1. discussions \subseteq frozen /\ \A b \in Calls : call[b].pc # "inserted"
      BY <2>1 DEF DeletionInv, LocksInv
    <3>. QED
      BY <3>1, <1>2
  <2>2. AssetsListedOn \subseteq DiscussionsLockedOn /\ MessagesDeletedOn \subseteq DiscussionsLockedOn
    BY DEF AssetsListedOn, DiscussionsLockedOn
  <2>. QED
    BY <2>1, <2>2 DEF DeletionInv, LocksInv
<1>. QED
  BY <1>3, <1>4, <1>5 DEF DeletionInv, NewDiscussions

\* The same for a request without a message before and after the step.
LEMMA CallWithoutMessage ==
  ASSUME DeletionInv, NEW c \in Calls, NEW new \in CallRecords,
         call' = [call EXCEPT ![c] = new],
         call[c].message = "none", new.message = "none", new.pc \in {"idle", "found"},
         UNCHANGED <<discussions, frozen, row, asset, unsettled, deletionVars>>
  PROVE  DeletionInv'
<1>1. DeletionTypeOK /\ call \in [Calls -> CallRecords]
  BY DEF DeletionInv, DeletionTypeOK, AttachmentTypeOK
<1>2. call' \in [Calls -> CallRecords] /\ call'[c] = new /\ \A b \in Calls \ {c} : call'[b] = call[b]
  BY <1>1
<1>3. UNCHANGED <<organization, authorized, deletion, other>>
  BY DEF deletionVars
<1>4. DeletionTypeOK'
  BY <1>1, <1>2, <1>3 DEF DeletionTypeOK, AttachmentTypeOK
<1>5. ASSUME NEW n \in Messages PROVE Local(n)'
  <2>1. \A b \in Calls : (Mine(b, n) \/ Mine(b, n)') => call'[b] = call[b]
    BY <1>2, NoneIsNoMessage DEF Mine
  <2>. QED
    BY <2>1, <1>3, LocalFrame DEF DeletionInv
<1>6. LocksInv'
  BY <1>2, <1>3 DEF DeletionInv, LocksInv
<1>. QED
  BY <1>3, <1>4, <1>5, <1>6 DEF DeletionInv, NewDiscussions

\* What giving up on a torn message adds.
LEMMA Torn ==
  ASSUME NEW m \in Messages, unsettled \subseteq Messages, GiveUpIfTorn(m)
  PROVE  /\ unsettled \subseteq unsettled' /\ unsettled' \subseteq Messages
         /\ asset'[m] = "stored" /\ row[m] # "present" => m \in unsettled'
         /\ asset'[m] # "stored" /\ row[m] = "present" => m \in unsettled'
<1>1. unsettled' = unsettled \cup {n \in {m} : (asset'[n] = "stored") # (n \in Present)}
  BY DEF GiveUpIfTorn, GiveUp
<1>2. m \in Present <=> row[m] = "present"
  BY DEF Present
<1>3. unsettled \subseteq unsettled' /\ unsettled' \subseteq Messages
  BY <1>1
<1>4. CASE asset'[m] = "stored" /\ row[m] # "present"
  BY <1>1, <1>2, <1>3, <1>4
<1>5. CASE asset'[m] # "stored" /\ row[m] = "present"
  BY <1>1, <1>2, <1>3, <1>5
<1>. QED
  BY <1>3, <1>4, <1>5

LEMMA GotoIs ==
  ASSUME DeletionTypeOK, NEW c \in Calls, NEW pc, Goto(c, pc),
         pc \in {"inserted", "saved", "undo", "assetGone"}, call[c].message \in Messages
  PROVE  \E new \in CallRecords :
           /\ call' = [call EXCEPT ![c] = new] /\ call'[c] = new
           /\ \A b \in Calls \ {c} : call'[b] = call[b]
           /\ new.pc = pc /\ new.message = call[c].message
<1> DEFINE new == [call[c] EXCEPT !.pc = pc]
<1>1. call \in [Calls -> CallRecords] /\ call[c] \in CallRecords
  BY StoreFields
<1>2. new \in CallRecords /\ new.pc = pc /\ new.message = call[c].message
  BY <1>1 DEF CallRecords
<1>3. call' = [call EXCEPT ![c] = new]
  BY <1>1 DEF Goto
<1>4. call'[c] = new /\ \A b \in Calls \ {c} : call'[b] = call[b]
  BY <1>1, <1>3
<1>. QED
  BY <1>2, <1>3, <1>4

LEMMA AnswerIs ==
  ASSUME DeletionTypeOK, NEW c \in Calls, Answer(c)
  PROVE  /\ call' = [call EXCEPT ![c] = NoCall] /\ call'[c] = NoCall
         /\ \A b \in Calls \ {c} : call'[b] = call[b]
  BY StoreFields DEF Answer

\* Answers after which one of the two stores may have changed.
LEMMA AnsweringKeeps ==
  ASSUME DeletionInv, NEW c \in Calls, NEW m \in Messages, Answer(c),
         call[c].message \in {m, "none"},
         row' \in [Messages -> RowStates], asset' \in [Messages -> AssetStates],
         \A n \in Messages \ {m} : row'[n] = row[n] /\ asset'[n] = asset[n],
         unsettled \subseteq unsettled', unsettled' \subseteq Messages,
         UNCHANGED <<discussions, frozen, organization, authorized, deletion, other>>,
         row'[m] = row[m] \/ (row[m] # "none" /\ row'[m] = "removed"),
         asset'[m] = asset[m] \/ asset'[m] = "deleted" \/ (asset[m] = "none" /\ m \in unsettled'),
         asset'[m] # asset[m] => \A b \in Calls \ {c} : Mine(b, m) => row[m] # "none",
         asset'[m] = "none" => row'[m] = "none",
         \* the invariants once the request is gone
         row'[m] = "present" =>
           \/ asset'[m] = "stored" \/ m \in unsettled'
           \/ \E b \in Calls \ {c} : call[b].pc = "assetGone" /\ Mine(b, m),
         asset'[m] = "stored" =>
           \/ row'[m] = "present" \/ m \in unsettled'
           \/ \E b \in Calls \ {c} : call[b].pc \in Uploading /\ Mine(b, m)
           \/ \E x \in Deletions : deletion[x].pc = "committed" /\ m \in deletion[x].assets
  PROVE  DeletionInv'
<1>1. DeletionTypeOK /\ Local(m)
  BY DEF DeletionInv
<1>2. /\ call' = [call EXCEPT ![c] = NoCall] /\ call'[c] = NoCall
      /\ \A b \in Calls \ {c} : call'[b] = call[b]
  BY <1>1, AnswerIs
<1>3. ~Mine(c, m)' /\ \A b \in Calls \ {c} : Mine(b, m)' <=> Mine(b, m)
  BY <1>2, NoCallIsOne, NoneIsNoMessage DEF Mine
<1>4. asset[m] \in AssetStates /\ asset'[m] \in AssetStates /\ row[m] \in RowStates
  BY <1>1, StoreFields
<1>5. asset'[m] = "none" => asset[m] = "none"
  BY <1>4 DEF AssetStates
<1>6. \A b \in Calls \ {c} : Mine(b, m) => asset[m] # "none"
  BY <1>1 DEF Local
<1>7. Local(m)'
  <2>1. asset'[m] = "none" => row'[m] = "none" /\ \A b \in Calls : ~Mine(b, m)'
    BY <1>3, <1>5, <1>6
  <2>2. ASSUME NEW b \in Calls, Mine(b, m)'
        PROVE  /\ call'[b].pc \in {"uploaded", "inserted"} => row'[m] = "none"
               /\ call'[b].pc \in {"saved", "deleting", "assetGone"} => row'[m] # "none"
               /\ call'[b].pc = "assetGone" => asset'[m] = "deleted" \/ m \in unsettled'
               /\ call'[b].pc \in Uploading /\ row'[m] = "none" =>
                    asset'[m] = "stored" /\ \A a \in Calls \ {b} : ~Mine(a, m)'
    <3>1. b # c /\ Mine(b, m) /\ call'[b] = call[b] /\ asset[m] # "none"
      BY <2>2, <1>2, <1>3, <1>6
    <3>2. row'[m] = "none" <=> row[m] = "none"
      OBVIOUS
    <3>3. row[m] = "none" => asset'[m] = asset[m]
      BY <3>1
    <3>. QED
      BY <3>1, <3>2, <3>3, <1>1, <1>3 DEF Local
  <2>3. \A b \in Calls \ {c} : call'[b] = call[b] /\ (Mine(b, m)' <=> Mine(b, m))
    BY <1>2, <1>3
  <2>4. \A x \in Deletions : m \in deletion'[x].assets =>
          row'[m] # "none" /\ (deletion'[x].pc = "committed" => row'[m] # "present")
    BY <1>1 DEF Local
  <2>5. row'[m] = "present" =>
           \/ asset'[m] = "stored" \/ m \in unsettled'
           \/ \E b \in Calls : call'[b].pc = "assetGone" /\ Mine(b, m)'
    BY <2>3
  <2>6. asset'[m] = "stored" =>
           \/ row'[m] = "present" \/ m \in unsettled'
           \/ \E b \in Calls : call'[b].pc \in Uploading /\ Mine(b, m)'
           \/ \E x \in Deletions : deletion'[x].pc = "committed" /\ m \in deletion'[x].assets
    BY <2>3
  <2>. QED
    BY <2>1, <2>2, <2>4, <2>5, <2>6 DEF Local, Uploading
<1>8. row'[m] = "present" => row[m] = "present"
  OBVIOUS
<1>9. call[c].message \in {m, "none"} /\ NoCall.message \in {m, "none"}
  BY NoCallIsOne
<1>10. NoCall \in CallRecords /\ NoCall.pc = "idle" /\ NoCall.message = "none"
  BY NoCallIsOne
<1>. QED
  BY <1>2, <1>7, <1>8, <1>9, <1>10, CallKeeps

\* The requests that end.
LEMMA EndingKeeps ==
  ASSUME DeletionInv, NEW c \in Calls, UNCHANGED deletionVars,
         \/ \E m \in Messages : UploadFails(c, m)
         \/ RefuseContent(c) \/ UpsertReadState(c) \/ UndoUpload(c) \/ UndoFails(c)
         \/ DeleteAssetFails(c) \/ RemoveMessage(c) \/ RemoveFails(c)
  PROVE  DeletionInv'
<1>1. DeletionTypeOK /\ UNCHANGED <<organization, authorized, deletion, other>>
  BY DEF DeletionInv, deletionVars
<1>2. /\ row \in [Messages -> RowStates] /\ asset \in [Messages -> AssetStates]
      /\ unsettled \subseteq Messages
  BY <1>1, StoreFields
<1>3. {"stored", "deleted"} \subseteq AssetStates /\ "removed" \in RowStates
  BY DEF AssetStates, RowStates
<1>4. CASE \E m \in Messages : UploadFails(c, m)
  <2>1. PICK m \in Messages : UploadFails(c, m)
    BY <1>4
  <2>2. /\ call[c].message = "none" /\ Answer(c) /\ asset[m] = "none"
        /\ asset' = [asset EXCEPT ![m] = "stored"] /\ unsettled' = unsettled \cup {m}
        /\ UNCHANGED <<discussions, frozen, row>>
    BY <1>1, <2>1, CallFields DEF UploadFails, GiveUp
  <2>3. row[m] = "none" /\ \A b \in Calls : ~Mine(b, m)
    BY <2>2 DEF DeletionInv, Local
  <2>4. /\ asset' \in [Messages -> AssetStates] /\ asset'[m] = "stored"
        /\ \A n \in Messages \ {m} : asset'[n] = asset[n]
    BY <1>2, <1>3, <2>2
  <2>. QED
    BY <1>1, <1>2, <2>2, <2>3, <2>4, AnsweringKeeps
<1> DEFINE m == call[c].message
<1>5. ASSUME call[c].pc \notin {"idle", "found"}
      PROVE  m \in Messages /\ Local(m) /\ Mine(c, m)
  BY <1>1, <1>5, CallFields DEF DeletionInv, Mine
<1>6. CASE RefuseContent(c)
  <2>1. /\ call[c].pc = "uploaded" /\ Answer(c) /\ GiveUpIfTorn(m)
        /\ UNCHANGED <<discussions, frozen, row, asset>>
    BY <1>6 DEF RefuseContent
  <2>2. m \in Messages /\ row[m] = "none" /\ asset[m] = "stored"
    BY <1>5, <2>1 DEF Local, Uploading
  <2>3. unsettled \subseteq unsettled' /\ unsettled' \subseteq Messages /\ m \in unsettled'
    BY <1>2, <2>1, <2>2, Torn
  <2>. HIDE DEF m
  <2>. QED
    BY <1>1, <1>2, <2>1, <2>2, <2>3, AnsweringKeeps DEF m
<1>7. CASE UpsertReadState(c)
  <2>1. /\ call[c].pc = "saved" /\ Answer(c)
        /\ UNCHANGED <<discussions, frozen, row, asset, unsettled>>
    BY <1>7 DEF UpsertReadState
  <2>2. m \in Messages /\ Local(m)
    BY <1>5, <2>1
  <2>3. row[m] = "present" =>
           \/ asset[m] = "stored" \/ m \in unsettled
           \/ \E b \in Calls \ {c} : call[b].pc = "assetGone" /\ Mine(b, m)
    BY <2>1, <2>2 DEF Local
  <2>4. asset[m] = "stored" =>
           \/ row[m] = "present" \/ m \in unsettled
           \/ \E b \in Calls \ {c} : call[b].pc \in Uploading /\ Mine(b, m)
           \/ \E x \in Deletions : deletion[x].pc = "committed" /\ m \in deletion[x].assets
    BY <2>1, <2>2 DEF Local, Uploading
  <2>5. asset[m] = "none" => row[m] = "none"
    BY <2>2 DEF Local
  <2>. QED
    BY <1>1, <1>2, <2>1, <2>2, <2>3, <2>4, <2>5, AnsweringKeeps
<1>8. CASE UndoUpload(c) \/ UndoFails(c) \/ DeleteAssetFails(c)
  <2>1. /\ call[c].pc \in {"undo", "deleting"} /\ Answer(c) /\ GiveUpIfTorn(m)
        /\ asset' \in {asset, [asset EXCEPT ![m] = "deleted"]}
        /\ UNCHANGED <<discussions, frozen, row>>
    BY <1>8 DEF UndoUpload, UndoFails, DeleteAssetFails, MaybeDeleted
  <2>2. m \in Messages /\ Local(m) /\ Mine(c, m)
    BY <1>5, <2>1
  <2>3. \A b \in Calls \ {c} : Mine(b, m) => row[m] # "none"
    BY <2>1, <2>2 DEF Local, Uploading
  <2>4. asset[m] # "none"
    BY <2>2 DEF Local
  <2>5. /\ asset' \in [Messages -> AssetStates]
        /\ \A n \in Messages \ {m} : asset'[n] = asset[n]
        /\ asset'[m] \in {asset[m], "deleted"} /\ asset'[m] # "none"
    BY <1>2, <1>3, <2>1, <2>2, <2>4
  <2>6. /\ unsettled \subseteq unsettled' /\ unsettled' \subseteq Messages
        /\ asset'[m] = "stored" /\ row[m] # "present" => m \in unsettled'
        /\ asset'[m] # "stored" /\ row[m] = "present" => m \in unsettled'
    BY <1>2, <2>1, <2>2, Torn
  <2>. HIDE DEF m
  <2>. QED
    BY <1>1, <1>2, <2>1, <2>2, <2>3, <2>5, <2>6, AnsweringKeeps DEF m
<1>9. CASE RemoveMessage(c)
  <2>1. /\ call[c].pc = "assetGone" /\ Answer(c) /\ row' = [row EXCEPT ![m] = "removed"]
        /\ UNCHANGED <<discussions, frozen, asset, unsettled>>
    BY <1>9 DEF RemoveMessage
  <2>2. m \in Messages /\ Local(m) /\ Mine(c, m)
    BY <1>5, <2>1
  <2>3. row[m] # "none" /\ asset[m] # "none" /\ (asset[m] = "stored" => m \in unsettled)
    BY <2>1, <2>2 DEF Local
  <2>4. /\ row' \in [Messages -> RowStates] /\ row'[m] = "removed"
        /\ \A n \in Messages \ {m} : row'[n] = row[n]
    BY <1>2, <1>3, <2>1, <2>2
  <2>. HIDE DEF m
  <2>. QED
    BY <1>1, <1>2, <2>1, <2>2, <2>3, <2>4, AnsweringKeeps DEF m
<1>10. CASE RemoveFails(c)
  <2>1. /\ call[c].pc = "assetGone" /\ Answer(c) /\ GiveUpIfTorn(m)
        /\ UNCHANGED <<discussions, frozen, row, asset>>
    BY <1>10 DEF RemoveFails
  <2>2. m \in Messages /\ Local(m) /\ Mine(c, m)
    BY <1>5, <2>1
  <2>3. row[m] # "none" /\ asset[m] # "none"
    BY <2>1, <2>2 DEF Local
  <2>4. /\ unsettled \subseteq unsettled' /\ unsettled' \subseteq Messages
        /\ asset'[m] = "stored" /\ row[m] # "present" => m \in unsettled'
        /\ asset'[m] # "stored" /\ row[m] = "present" => m \in unsettled'
    BY <1>2, <2>1, <2>2, Torn
  <2>. HIDE DEF m
  <2>. QED
    BY <1>1, <1>2, <2>1, <2>2, <2>3, <2>4, AnsweringKeeps DEF m
<1>. QED
  BY <1>4, <1>6, <1>7, <1>8, <1>9, <1>10

\* The requests that go on.
LEMMA GoingOnKeeps ==
  ASSUME DeletionInv, NEW c \in Calls, UNCHANGED deletionVars,
         \/ InsertMessage(c) \/ CommitMessage(c) \/ SaveFails(c)
         \/ DeleteAsset(c) \/ DeleteAssetUnanswered(c)
  PROVE  DeletionInv'
<1>1. DeletionTypeOK /\ UNCHANGED <<organization, authorized, deletion, other>>
  BY DEF DeletionInv, deletionVars
<1>2. /\ row \in [Messages -> RowStates] /\ asset \in [Messages -> AssetStates]
      /\ unsettled \subseteq Messages
  BY <1>1, StoreFields
<1>3. call[c].pc \notin {"idle", "found"} /\ UNCHANGED <<discussions, frozen>>
  BY DEF InsertMessage, CommitMessage, SaveFails, DeleteAsset, DeleteAssetUnanswered
<1>4. PICK m \in Messages : m = call[c].message /\ Local(m) /\ Mine(c, m)
  BY <1>1, <1>3, CallFields DEF DeletionInv, Mine
<1>5. asset[m] # "none"
  BY <1>4 DEF Local
<1>6. CASE InsertMessage(c) \/ SaveFails(c)
  <2>1. PICK pc \in {"inserted", "undo"} :
          /\ Goto(c, pc)
          /\ pc = "inserted" => call[c].pc = "uploaded" /\ ~(discussions \subseteq frozen)
          /\ call[c].pc \in {"uploaded", "inserted", "saved"}
          /\ UNCHANGED <<row, asset, unsettled>>
    BY <1>4, <1>6 DEF InsertMessage, SaveFails, DiscussionAvailable
  <2>2. PICK new \in CallRecords :
           /\ call' = [call EXCEPT ![c] = new] /\ call'[c] = new
           /\ \A b \in Calls \ {c} : call'[b] = call[b]
           /\ new.pc = pc /\ new.message = m
    BY <1>1, <1>4, <2>1, GotoIs
  <2>3. \A b \in Calls : Mine(b, m)' <=> Mine(b, m)
    BY <1>4, <2>2 DEF Mine
  <2>4. Local(m)'
    BY <1>1, <1>4, <1>5, <2>1, <2>2, <2>3 DEF Local, Uploading
  <2>. QED
    BY <1>1, <1>2, <1>3, <1>4, <2>1, <2>2, <2>4, CallKeeps, NoneIsNoMessage
<1>7. CASE CommitMessage(c)
  <2>1. /\ Goto(c, "saved") /\ call[c].pc = "inserted"
        /\ row' = [row EXCEPT ![m] = "present"] /\ UNCHANGED <<asset, unsettled>>
    BY <1>4, <1>7 DEF CommitMessage
  <2>2. PICK new \in CallRecords :
           /\ call' = [call EXCEPT ![c] = new] /\ call'[c] = new
           /\ \A b \in Calls \ {c} : call'[b] = call[b]
           /\ new.pc = "saved" /\ new.message = m
    BY <1>1, <1>4, <2>1, GotoIs
  <2>3. /\ row' \in [Messages -> RowStates] /\ row'[m] = "present"
        /\ \A n \in Messages \ {m} : row'[n] = row[n]
    BY <1>2, <1>4, <2>1 DEF RowStates
  <2>4. \A b \in Calls : Mine(b, m)' <=> Mine(b, m)
    BY <1>4, <2>2 DEF Mine
  <2>5. /\ asset[m] = "stored" /\ row[m] = "none"
        /\ \A b \in Calls \ {c} : ~Mine(b, m)
        /\ \A x \in Deletions : m \notin deletion[x].assets
    BY <1>4, <2>1 DEF Local, Uploading
  <2>6. Local(m)'
    BY <1>1, <1>4, <2>1, <2>2, <2>3, <2>4, <2>5 DEF Local, Uploading
  <2>. QED
    BY <1>1, <1>2, <1>3, <1>4, <2>1, <2>2, <2>3, <2>6, CallKeeps, NoneIsNoMessage
<1>8. CASE DeleteAsset(c) \/ DeleteAssetUnanswered(c)
  <2>1. /\ Goto(c, "assetGone") /\ call[c].pc = "deleting"
        /\ \/ asset' = [asset EXCEPT ![m] = "deleted"] /\ unsettled' = unsettled
           \/ asset' = asset /\ unsettled' = unsettled \cup {m}
        /\ UNCHANGED row
    BY <1>4, <1>8 DEF DeleteAsset, DeleteAssetUnanswered, GiveUp
  <2>2. PICK new \in CallRecords :
           /\ call' = [call EXCEPT ![c] = new] /\ call'[c] = new
           /\ \A b \in Calls \ {c} : call'[b] = call[b]
           /\ new.pc = "assetGone" /\ new.message = m
    BY <1>1, <1>4, <2>1, GotoIs
  <2>3. /\ asset' \in [Messages -> AssetStates]
        /\ \A n \in Messages \ {m} : asset'[n] = asset[n]
        /\ asset'[m] = "deleted" \/ (asset'[m] = asset[m] /\ m \in unsettled')
    BY <1>2, <1>4, <2>1 DEF AssetStates
  <2>4. unsettled \subseteq unsettled' /\ unsettled' \subseteq Messages
    BY <1>2, <1>4, <2>1
  <2>5. \A b \in Calls : Mine(b, m)' <=> Mine(b, m)
    BY <1>4, <2>2 DEF Mine
  <2>6. row[m] # "none"
    BY <1>4, <2>1 DEF Local
  <2>7. Local(m)'
    <3>1. \A b \in Calls : Mine(b, m)' =>
            /\ call'[b].pc \in {"uploaded", "inserted"} => row'[m] = "none"
            /\ call'[b].pc \in {"saved", "deleting", "assetGone"} => row'[m] # "none"
            /\ call'[b].pc = "assetGone" => asset'[m] = "deleted" \/ m \in unsettled'
            /\ ~(call'[b].pc \in Uploading /\ row'[m] = "none")
      BY <1>4, <2>1, <2>2, <2>3, <2>4, <2>5, <2>6 DEF Local
    <3>2. asset'[m] # "none" /\ (asset'[m] = "stored" => m \in unsettled')
      BY <1>5, <2>3
    <3>3. Mine(c, m)' /\ call'[c].pc = "assetGone"
      BY <1>4, <2>2, <2>5
    <3>. QED
      BY <1>1, <1>4, <2>1, <3>1, <3>2, <3>3 DEF Local
  <2>. QED
    BY <1>1, <1>2, <1>3, <1>4, <2>1, <2>2, <2>3, <2>4, <2>7, CallKeeps, NoneIsNoMessage
<1>. QED
  BY <1>6, <1>7, <1>8

\* The requests that begin, or turn to a message.
LEMMA BeginningKeeps ==
  ASSUME DeletionInv, NEW c \in Calls, UNCHANGED deletionVars,
         \/ Refuse(c) \/ \E d \in Discussions : FindDiscussion(c, d)
         \/ \E m \in Messages : Upload(c, m) \/ FindMessage(c, m)
  PROVE  DeletionInv'
<1>1. /\ DeletionTypeOK /\ UNCHANGED <<organization, authorized, deletion, other>>
      /\ call \in [Calls -> CallRecords] /\ call[c] \in CallRecords
      /\ row \in [Messages -> RowStates] /\ asset \in [Messages -> AssetStates]
      /\ unsettled \subseteq Messages
  BY StoreFields DEF DeletionInv, deletionVars
<1>2. call[c].message = "none" /\ UNCHANGED <<discussions, frozen>>
  BY <1>1, CallFields DEF Refuse, FindDiscussion, Upload, FindMessage
<1>3. CASE Refuse(c)
  BY <1>1, <1>2, <1>3, AnswerIs, NoCallIsOne, CallWithoutMessage DEF Refuse
<1>4. CASE \E d \in Discussions : FindDiscussion(c, d)
  <2>1. PICK d \in Discussions : FindDiscussion(c, d)
    BY <1>4
  <2> DEFINE new == [NoCall EXCEPT !.pc = "found", !.discussion = d]
  <2>2. new \in CallRecords /\ new.pc = "found" /\ new.message = "none"
    BY DEF NoCall, CallRecords
  <2>3. call' = [call EXCEPT ![c] = new] /\ UNCHANGED <<row, asset, unsettled>>
    BY <2>1 DEF FindDiscussion
  <2>. HIDE DEF new
  <2>. QED
    BY <1>2, <2>2, <2>3, CallWithoutMessage
<1>5. ASSUME NEW m \in Messages, Upload(c, m) \/ FindMessage(c, m)
      PROVE  DeletionInv'
  <2>1. PICK pc \in {"uploaded", "deleting"} :
          /\ call' = [call EXCEPT ![c].pc = pc, ![c].message = m]
          /\ pc = "uploaded" => asset[m] = "none" /\ asset' = [asset EXCEPT ![m] = "stored"]
          /\ pc = "deleting" => row[m] = "present" /\ asset' = asset
          /\ UNCHANGED <<row, unsettled>>
    BY <1>5 DEF Upload, FindMessage, Present
  <2> DEFINE new == [call[c] EXCEPT !.pc = pc, !.message = m]
  <2>2. new \in CallRecords /\ new.pc = pc /\ new.message = m
    BY <1>1 DEF CallRecords
  <2>3. call' = [call EXCEPT ![c] = new]
    BY <1>1, <2>1
  <2>4. call'[c] = new /\ \A b \in Calls \ {c} : call'[b] = call[b]
    BY <1>1, <2>3
  <2>. HIDE DEF new
  <2>5. Mine(c, m)' /\ ~Mine(c, m) /\ \A b \in Calls \ {c} : Mine(b, m)' <=> Mine(b, m)
    BY <1>2, <2>2, <2>4, NoneIsNoMessage DEF Mine
  <2>6. /\ asset' \in [Messages -> AssetStates]
        /\ \A n \in Messages \ {m} : asset'[n] = asset[n]
        /\ pc = "uploaded" => asset'[m] = "stored"
    BY <1>1, <2>1 DEF AssetStates
  <2>7. Local(m)
    BY DEF DeletionInv
  <2>8. Local(m)'
    <3>1. CASE pc = "uploaded"
      <4>1. row[m] = "none" /\ \A b \in Calls \ {c} : ~Mine(b, m)'
        BY <2>1, <2>5, <2>7, <3>1 DEF Local
      <4>. QED
        BY <1>1, <2>1, <2>2, <2>4, <2>5, <2>6, <2>7, <3>1, <4>1 DEF Local, Uploading
    <3>2. CASE pc = "deleting"
      BY <1>1, <2>1, <2>2, <2>4, <2>5, <2>7, <3>2 DEF Local, Uploading
    <3>. QED
      BY <3>1, <3>2
  <2>9. new.pc \notin {"idle", "found", "inserted"} /\ new.message \in {m, "none"} /\ m # "none"
    BY <2>2, NoneIsNoMessage
  <2>10. row' \in [Messages -> RowStates] /\ unsettled \subseteq unsettled' /\ unsettled' \subseteq Messages
    BY <1>1, <2>1
  <2>11. \A n \in Messages \ {m} : row'[n] = row[n] /\ asset'[n] = asset[n]
    BY <2>1, <2>6
  <2>12. row'[m] = "present" => row[m] = "present"
    BY <2>1
  <2>. QED
    BY <1>1, <1>2, <2>2, <2>3, <2>6, <2>8, <2>9, <2>10, <2>11, <2>12, CallKeeps
<1>. QED
  BY <1>3, <1>4, <1>5

-----------------------------------------------------------------------------
\* The other transactions: none inserts a discussion while a deletion holds
\* the organization.
LEMMA OtherKeeps ==
  ASSUME DeletionInv, UNCHANGED <<messageVars, deletion>> \/
                      UNCHANGED <<frozen, row, asset, unsettled, call, deletion>>,
         organization' \in BOOLEAN, authorized' \in BOOLEAN, discussions' \subseteq Discussions,
         other' \in [Others -> OtherRecords], NewDiscussions',
         discussions' = discussions \/ \E o \in Others : other[o].pc = "creating",
         \A o \in Others : other'[o].pc = "creating" => other[o].pc = "creating" \/ ~OrganizationLocked
  PROVE  DeletionInv'
<1>1. DeletionTypeOK /\ LocksInv /\ UNCHANGED <<frozen, row, asset, unsettled, call, deletion>>
  BY DEF DeletionInv, messageVars
<1>2. DeletionTypeOK'
  BY <1>1 DEF DeletionTypeOK, AttachmentTypeOK
<1>3. \A m \in Messages : Local(m)'
  BY <1>1 DEF DeletionInv, Local, Mine
<1>4. LocksInv'
  <2>1. ASSUME NEW x \in Deletions, deletion[x].pc \in OrganizationLockedOn
        PROVE  discussions' = discussions /\ \A o \in Others : other'[o].pc # "creating"
    <3>1. \A o \in Others : other[o].pc # "creating"
      BY <1>1, <2>1 DEF LocksInv
    <3>2. OrganizationLocked
      BY <1>1, <2>1, Ranks DEF OrganizationLocked
    <3>. QED
      BY <3>1, <3>2
  <2>2. DiscussionsLockedOn \subseteq OrganizationLockedOn
    BY DEF OrganizationLockedOn
  <2>. QED
    BY <1>1, <2>1, <2>2 DEF LocksInv
<1>. QED
  BY <1>2, <1>3, <1>4 DEF DeletionInv

LEMMA OtherSteps ==
  ASSUME DeletionInv, NEW o \in Others, OtherBegins(o) \/ OtherAdvances(o) \/ RollbackOther(o)
  PROVE  DeletionInv'
<1>1. /\ DeletionTypeOK /\ NewDiscussions /\ other \in [Others -> OtherRecords]
      /\ organization \in BOOLEAN /\ authorized \in BOOLEAN /\ discussions \subseteq Discussions
  BY DEF DeletionInv, DeletionTypeOK, AttachmentTypeOK
<1>2. NoOther \in OtherRecords /\ NoOther.pc = "idle"
  BY DEF NoOther, OtherRecords
<1>3. ASSUME NEW new \in OtherRecords, other' = [other EXCEPT ![o] = new], organization' = organization,
             authorized' \in BOOLEAN, UNCHANGED <<frozen, row, asset, unsettled, call, deletion>>,
             \/ discussions' = discussions
             \/ discussions' = discussions \cup {other[o].discussion} /\ other[o].pc = "creating",
             new.pc = "creating" => new.discussion \in Discussions /\ ~OrganizationLocked
      PROVE  DeletionInv'
  <2>1. /\ other' \in [Others -> OtherRecords]
        /\ other'[o] = new /\ \A p \in Others \ {o} : other'[p] = other[p]
    BY <1>1, <1>3
  <2>2. NewDiscussions' /\ discussions' \subseteq Discussions
    BY <1>1, <1>3, <2>1 DEF NewDiscussions
  <2>3. discussions' = discussions \/ \E p \in Others : other[p].pc = "creating"
    BY <1>3
  <2>4. \A p \in Others : other'[p].pc = "creating" => other[p].pc = "creating" \/ ~OrganizationLocked
    BY <1>3, <2>1
  <2>. QED
    BY <1>1, <1>3, <2>1, <2>2, <2>3, <2>4, OtherKeeps
<1>4. CASE EndOther(o) /\ UNCHANGED <<messageVars, organization, deletion>> /\ authorized' \in BOOLEAN
  BY <1>1, <1>2, <1>3, <1>4 DEF EndOther, messageVars
<1>5. ASSUME NEW inserted \in OtherRecords, InsertReferring(o, inserted),
             inserted.pc = "creating" => inserted.discussion \in Discussions
      PROVE  DeletionInv'
  <2>1. CASE organization
    BY <1>1, <1>3, <1>5, <2>1 DEF InsertReferring, messageVars
  <2>2. CASE ~organization
    BY <1>1, <1>4, <1>5, <2>2 DEF InsertReferring
  <2>. QED
    BY <2>1, <2>2
<1>6. ASSUME NEW pc \in {"closing", "accepting", "rejoined"}, Begin(o, pc),
             UNCHANGED <<messageVars, organization, authorized, deletion>>
      PROVE  DeletionInv'
  <2> DEFINE new == [other[o] EXCEPT !.pc = pc]
  <2>1. new \in OtherRecords /\ new.pc # "creating"
    BY <1>1 DEF OtherRecords
  <2>2. other' = [other EXCEPT ![o] = new]
    BY <1>1, <1>6 DEF Begin
  <2>. HIDE DEF new
  <2>. QED
    BY <1>1, <1>3, <1>6, <2>1, <2>2 DEF messageVars
<1>7. ASSUME NEW d \in Discussions, InsertDiscussion(o, d) PROVE DeletionInv'
  <2>1. [pc |-> "creating", discussion |-> d] \in OtherRecords
    BY DEF OtherRecords
  <2>. QED
    BY <1>5, <1>7, <2>1 DEF InsertDiscussion
<1>8. CASE CommitDiscussion(o)
  BY <1>1, <1>2, <1>3, <1>8 DEF CommitDiscussion, EndOther
<1>9. CASE CloseVerification(o) \/ UpdateInvitation(o) \/ UpdateMembership(o)
  BY <1>6, <1>9 DEF CloseVerification, UpdateInvitation, UpdateMembership
<1>10. CASE InsertVerification(o) \/ InsertMembership(o)
  <2>1. \A pc \in {"requested", "joined"} : [pc |-> pc, discussion |-> "none"] \in OtherRecords
    BY DEF OtherRecords
  <2>. QED
    BY <1>5, <1>10, <2>1 DEF InsertVerification, InsertMembership
<1>11. CASE CommitVerification(o) \/ CommitMembership(o) \/ SaveInvitation(o) \/ RollbackOther(o)
  BY <1>1, <1>4, <1>11 DEF CommitVerification, CommitMembership, SaveInvitation, RollbackOther
<1>. QED
  BY <1>7, <1>8, <1>9, <1>10, <1>11 DEF OtherBegins, OtherAdvances

LEMMA VerifyKeeps ==
  ASSUME DeletionInv, VerifyCode
  PROVE  DeletionInv'
<1>1. /\ DeletionTypeOK /\ NewDiscussions /\ other \in [Others -> OtherRecords]
      /\ discussions \subseteq Discussions /\ organization' \in BOOLEAN /\ authorized' \in BOOLEAN
      /\ UNCHANGED <<messageVars, discussions, deletion, other>>
  BY DEF DeletionInv, DeletionTypeOK, AttachmentTypeOK, VerifyCode, messageVars
<1>2. NewDiscussions'
  BY <1>1 DEF NewDiscussions
<1>. QED
  BY <1>1, <1>2, OtherKeeps

-----------------------------------------------------------------------------
\* The locks after a step of one deletion.
LEMMA LocksMove ==
  ASSUME DeletionInv, NEW x \in Deletions, NEW new \in DeletionRecords,
         deletion' = [deletion EXCEPT ![x] = new], UNCHANGED <<discussions, row, call, other>>,
         new.pc \in OrganizationLockedOn =>
           \/ deletion[x].pc \in OrganizationLockedOn
           \/ /\ \A y \in Deletions : deletion[y].pc \notin OrganizationLockedOn
              /\ \A o \in Others : other[o].pc # "creating",
         frozen' = frozen \/ deletion[x].pc \in OrganizationLockedOn,
         new.pc \in DiscussionsLockedOn =>
            discussions \subseteq frozen' /\ \A c \in Calls : call[c].pc # "inserted",
         new.pc \in AssetsListedOn => \A m \in Messages : row[m] = "present" => m \in new.assets,
         new.pc \in MessagesDeletedOn => \A m \in Messages : row[m] = "present" => m \in frozen'
  PROVE  LocksInv'
<1>1. LocksInv /\ deletion \in [Deletions -> DeletionRecords]
  BY DEF DeletionInv, DeletionTypeOK
<1>2. deletion'[x] = new /\ \A y \in Deletions \ {x} : deletion'[y] = deletion[y]
  BY <1>1
<1>3. DiscussionsLockedOn \subseteq OrganizationLockedOn /\ AssetsListedOn \subseteq OrganizationLockedOn
      /\ MessagesDeletedOn \subseteq OrganizationLockedOn
  BY DEF OrganizationLockedOn, DiscussionsLockedOn, AssetsListedOn
<1>4. ASSUME NEW y \in Deletions \ {x}, deletion[y].pc \in OrganizationLockedOn
      PROVE  frozen' = frozen /\ new.pc \notin OrganizationLockedOn
  BY <1>1, <1>4 DEF LocksInv
<1>5. ASSUME NEW y \in Deletions, NEW z \in Deletions, y # z,
             deletion'[y].pc \in OrganizationLockedOn, deletion'[z].pc \in OrganizationLockedOn
      PROVE  FALSE
  BY <1>1, <1>2, <1>4, <1>5 DEF LocksInv
<1>6. ASSUME NEW y \in Deletions
      PROVE  /\ deletion'[y].pc \in OrganizationLockedOn => \A o \in Others : other[o].pc # "creating"
             /\ deletion'[y].pc \in DiscussionsLockedOn =>
                  discussions \subseteq frozen' /\ \A c \in Calls : call[c].pc # "inserted"
             /\ deletion'[y].pc \in AssetsListedOn =>
                  \A m \in Messages : row[m] = "present" => m \in deletion'[y].assets
             /\ deletion'[y].pc \in MessagesDeletedOn =>
                  \A m \in Messages : row[m] = "present" => m \in frozen'
  <2>1. CASE y = x
    BY <1>1, <1>2, <2>1 DEF LocksInv
  <2>2. CASE y # x
    BY <1>1, <1>2, <1>3, <1>4, <2>2 DEF LocksInv
  <2>. QED
    BY <2>1, <2>2
<1>. QED
  BY <1>5, <1>6 DEF LocksInv

\* A step of a deletion before its commit, or its end.
LEMMA MoveKeeps ==
  ASSUME DeletionInv, NEW x \in Deletions, NEW new \in DeletionRecords,
         deletion' = [deletion EXCEPT ![x] = new],
         UNCHANGED <<discussions, row, asset, unsettled, call, organization, authorized, other>>,
         frozen' \subseteq Discussions \cup Messages, LocksInv',
         deletion[x].pc = "committed" => deletion[x].assets = {}, new.pc # "committed",
         new.assets \subseteq deletion[x].assets \/ new.assets = Present
  PROVE  DeletionInv'
<1>1. DeletionTypeOK /\ deletion \in [Deletions -> DeletionRecords]
  BY DEF DeletionInv, DeletionTypeOK
<1>2. deletion'[x] = new /\ \A y \in Deletions \ {x} : deletion'[y] = deletion[y]
  BY <1>1
<1>3. DeletionTypeOK'
  <2>1. deletion' \in [Deletions -> DeletionRecords]
    BY <1>1
  <2>. QED
    BY <1>1, <2>1 DEF DeletionTypeOK, AttachmentTypeOK
<1>4. ASSUME NEW m \in Messages PROVE Local(m)'
  <2>1. Local(m)
    BY DEF DeletionInv
  <2>2. m \in new.assets => row[m] # "none"
    BY <2>1 DEF Local, Present
  <2>3. \A y \in Deletions : deletion[y].pc = "committed" /\ m \in deletion[y].assets =>
          deletion'[y].pc = "committed" /\ m \in deletion'[y].assets
    BY <1>2
  <2>4. \A y \in Deletions : m \in deletion'[y].assets =>
          row[m] # "none" /\ (deletion'[y].pc = "committed" => row[m] # "present")
    BY <1>2, <2>1, <2>2 DEF Local
  <2>. QED
    BY <2>1, <2>3, <2>4 DEF Local, Mine
<1>5. NewDiscussions'
  BY DEF DeletionInv, NewDiscussions
<1>. QED
  BY <1>3, <1>4, <1>5 DEF DeletionInv

\* The statements of the deletion up to the last but one.
LEMMA StatementsKeep ==
  ASSUME DeletionInv, NEW x \in Deletions,
         \/ Allow(x) \/ LockOrganization(x) \/ Consume(x) \/ LockDiscussions(x) \/ ListAssets(x)
         \/ DeleteMessages(x) \/ DeleteDiscussions(x) \/ DeleteInvitations(x) \/ DeleteMemberships(x)
         \/ Rollback(x) \/ EndCleanUp(x)
  PROVE  DeletionInv'
<1> USE DEF OrganizationLockedOn, DiscussionsLockedOn, AssetsListedOn, MessagesDeletedOn,
            DiscussionsDeletedOn
<1>1. /\ DeletionTypeOK /\ LocksInv /\ deletion \in [Deletions -> DeletionRecords]
      /\ deletion[x] \in DeletionRecords /\ deletion[x].assets \subseteq Messages
      /\ frozen \subseteq Discussions \cup Messages /\ discussions \subseteq Discussions
  BY DEF DeletionInv, DeletionTypeOK, AttachmentTypeOK, DeletionRecords
<1>2. /\ UNCHANGED <<discussions, row, asset, unsettled, call, organization, authorized, other>>
      /\ deletion[x].pc = "committed" => deletion[x].assets = {}
  BY DEF Allow, LockOrganization, Consume, LockDiscussions, ListAssets, DeleteMessages,
         DeleteDiscussions, DeleteInvitations, DeleteMemberships, Rollback, EndCleanUp, messageVars
<1>3. Present \subseteq Messages /\ \A m \in Messages : row[m] = "present" <=> m \in Present
  BY DEF Present
<1>4. ASSUME NEW pc \in {"allowed", "organizationLocked", "consumed", "discussionsLocked",
                         "messagesDeleted", "discussionsDeleted", "invitationsDeleted",
                         "membershipsDeleted"}, Move(x, pc)
      PROVE  \E new \in DeletionRecords :
               /\ deletion' = [deletion EXCEPT ![x] = new]
               /\ new.pc = pc /\ new.assets = deletion[x].assets
  <2> DEFINE new == [deletion[x] EXCEPT !.pc = pc]
  <2>1. new \in DeletionRecords /\ new.pc = pc /\ new.assets = deletion[x].assets
    BY <1>1 DEF DeletionRecords
  <2>2. deletion' = [deletion EXCEPT ![x] = new]
    BY <1>1, <1>4 DEF Move
  <2>. QED
    BY <2>1, <2>2
<1>5. CASE End(x) /\ (frozen' = frozen \/
                      (deletion[x].pc \in OrganizationLockedOn /\ frozen' = {}))
  <2>1. NoDeletion \in DeletionRecords /\ NoDeletion.pc = "idle" /\ NoDeletion.assets = {}
    BY DEF NoDeletion, DeletionRecords
  <2>2. LocksInv'
    BY <1>2, <1>5, <2>1, LocksMove DEF End
  <2>. QED
    BY <1>1, <1>2, <1>5, <2>1, <2>2, MoveKeeps DEF End
<1>6. CASE Allow(x)
  <2>1. PICK new \in DeletionRecords :
          /\ deletion' = [deletion EXCEPT ![x] = new]
          /\ new.pc = "allowed" /\ new.assets = deletion[x].assets
    BY <1>4, <1>6 DEF Allow
  <2>2. frozen' = frozen
    BY <1>6 DEF Allow, messageVars
  <2>3. LocksInv'
    BY <1>2, <2>1, <2>2, LocksMove
  <2>. QED
    BY <1>1, <1>2, <2>1, <2>2, <2>3, MoveKeeps
<1>7. CASE LockOrganization(x)
  <2>1. frozen' = frozen
    BY <1>7 DEF LockOrganization, messageVars
  <2>2. CASE End(x)
    BY <1>5, <2>1, <2>2
  <2>3. CASE Move(x, "organizationLocked")
    <3>1. PICK new \in DeletionRecords :
            /\ deletion' = [deletion EXCEPT ![x] = new]
            /\ new.pc = "organizationLocked" /\ new.assets = deletion[x].assets
      BY <1>4, <2>3
    <3>2. /\ \A y \in Deletions : deletion[y].pc \notin OrganizationLockedOn
          /\ \A o \in Others : other[o].pc # "creating"
      <4>1. ~OrganizationLocked /\ ~KeyShared
        BY <1>7 DEF LockOrganization, MayLockOrganization
      <4>2. \A o \in Others : other[o].pc # "creating"
        BY <4>1 DEF KeyShared, KeySharing, Open
      <4>3. \A y \in Deletions : deletion[y].pc \notin OrganizationLockedOn
        BY <1>1, <4>1, Ranks DEF OrganizationLocked
      <4>. QED
        BY <4>2, <4>3
    <3>3. LocksInv'
      BY <1>2, <2>1, <3>1, <3>2, LocksMove
    <3>. QED
      BY <1>1, <1>2, <2>1, <3>1, <3>3, MoveKeeps
  <2>. QED
    BY <1>7, <2>2, <2>3 DEF LockOrganization
<1>8. CASE Consume(x)
  <2>1. frozen' = frozen /\ deletion[x].pc = "organizationLocked"
    BY <1>8 DEF Consume, messageVars
  <2>2. CASE End(x)
    BY <1>5, <2>1, <2>2
  <2>3. CASE Move(x, "consumed")
    <3>1. PICK new \in DeletionRecords :
            /\ deletion' = [deletion EXCEPT ![x] = new]
            /\ new.pc = "consumed" /\ new.assets = deletion[x].assets
      BY <1>4, <2>3
    <3>2. LocksInv'
      BY <1>2, <2>1, <3>1, LocksMove
    <3>. QED
      BY <1>1, <1>2, <2>1, <3>1, <3>2, MoveKeeps
  <2>. QED
    BY <1>8, <2>2, <2>3 DEF Consume
<1>9. CASE LockDiscussions(x)
  <2>1. /\ deletion[x].pc = "consumed" /\ InHand({"inserted"}) = {}
        /\ frozen' = frozen \cup discussions
    BY <1>9 DEF LockDiscussions, Freeze
  <2>2. PICK new \in DeletionRecords :
          /\ deletion' = [deletion EXCEPT ![x] = new]
          /\ new.pc = "discussionsLocked" /\ new.assets = deletion[x].assets
    BY <1>4, <1>9 DEF LockDiscussions
  <2>3. \A c \in Calls : call[c].pc # "inserted"
    BY <1>1, <2>1, CallFields DEF InHand
  <2>4. LocksInv'
    BY <1>2, <2>1, <2>2, <2>3, LocksMove
  <2>. QED
    BY <1>1, <1>2, <2>1, <2>2, <2>4, MoveKeeps
<1>10. CASE ListAssets(x)
  <2> DEFINE new == [pc |-> "assetsListed", assets |-> Present]
  <2>1. /\ deletion[x].pc = "discussionsLocked" /\ deletion' = [deletion EXCEPT ![x] = new]
        /\ frozen' = frozen
    BY <1>10 DEF ListAssets, messageVars
  <2>2. new \in DeletionRecords /\ new.pc = "assetsListed" /\ new.assets = Present
    BY <1>3 DEF DeletionRecords
  <2>3. discussions \subseteq frozen /\ \A c \in Calls : call[c].pc # "inserted"
    BY <1>1, <2>1 DEF LocksInv
  <2>. HIDE DEF new
  <2>4. LocksInv'
    BY <1>2, <1>3, <2>1, <2>2, <2>3, LocksMove
  <2>. QED
    BY <1>1, <1>2, <2>1, <2>2, <2>4, MoveKeeps
<1>11. CASE DeleteMessages(x)
  <2>1. deletion[x].pc = "assetsListed" /\ frozen' = frozen \cup Present
    BY <1>11 DEF DeleteMessages
  <2>2. PICK new \in DeletionRecords :
          /\ deletion' = [deletion EXCEPT ![x] = new]
          /\ new.pc = "messagesDeleted" /\ new.assets = deletion[x].assets
    BY <1>4, <1>11 DEF DeleteMessages
  <2>3. /\ discussions \subseteq frozen' /\ \A c \in Calls : call[c].pc # "inserted"
        /\ \A m \in Messages : row[m] = "present" => m \in deletion[x].assets
        /\ \A m \in Messages : row[m] = "present" => m \in frozen'
    BY <1>1, <1>3, <2>1 DEF LocksInv
  <2>4. LocksInv'
    BY <1>2, <2>1, <2>2, <2>3, LocksMove
  <2>. QED
    BY <1>1, <1>2, <1>3, <2>1, <2>2, <2>4, MoveKeeps
<1>12. CASE DeleteDiscussions(x) \/ DeleteInvitations(x) \/ DeleteMemberships(x)
  <2>1. /\ deletion[x].pc \in MessagesDeletedOn
        /\ frozen' \in {frozen, frozen \cup discussions}
    BY <1>12 DEF DeleteDiscussions, DeleteInvitations, DeleteMemberships, messageVars
  <2>2. PICK new \in DeletionRecords :
          /\ deletion' = [deletion EXCEPT ![x] = new]
          /\ new.pc \in MessagesDeletedOn /\ new.assets = deletion[x].assets
    BY <1>4, <1>12 DEF DeleteDiscussions, DeleteInvitations, DeleteMemberships
  <2>3. /\ discussions \subseteq frozen' /\ \A c \in Calls : call[c].pc # "inserted"
        /\ \A m \in Messages : row[m] = "present" => m \in deletion[x].assets
        /\ \A m \in Messages : row[m] = "present" => m \in frozen'
    BY <1>1, <2>1 DEF LocksInv
  <2>4. LocksInv'
    BY <1>2, <2>1, <2>2, <2>3, LocksMove
  <2>. QED
    BY <1>1, <1>2, <2>1, <2>2, <2>4, MoveKeeps
<1>13. CASE Rollback(x)
  BY <1>1, <1>5, <1>13, Ranks DEF Rollback
<1>14. CASE EndCleanUp(x)
  BY <1>5, <1>14 DEF EndCleanUp, messageVars
<1>. QED
  BY <1>6, <1>7, <1>8, <1>9, <1>10, <1>11, <1>12, <1>13, <1>14

\* The commit: whatever was still there goes, and is on the list.
LEMMA CommitDeletionKeeps ==
  ASSUME DeletionInv, NEW x \in Deletions, CommitDeletion(x)
  PROVE  DeletionInv'
<1>1. /\ DeletionTypeOK /\ LocksInv /\ deletion \in [Deletions -> DeletionRecords]
      /\ row \in [Messages -> RowStates] /\ deletion[x].pc = "membershipsDeleted"
  BY StoreFields DEF DeletionInv, DeletionTypeOK, CommitDeletion
<1>2. /\ organization' = FALSE /\ authorized' = FALSE /\ discussions' = {} /\ frozen' = {}
      /\ UNCHANGED <<asset, unsettled, call, other>>
  BY DEF CommitDeletion
<1>3. \A m \in Messages : row'[m] = IF row[m] = "present" THEN "removed" ELSE row[m]
  BY DEF CommitDeletion, Present
<1>4. row' \in [Messages -> RowStates]
  BY <1>1 DEF CommitDeletion, RowStates
<1>5. /\ deletion' \in [Deletions -> DeletionRecords]
      /\ deletion'[x].pc = "committed" /\ deletion'[x].assets = deletion[x].assets
      /\ \A y \in Deletions \ {x} : deletion'[y] = deletion[y]
  BY <1>1 DEF CommitDeletion, Move, DeletionRecords
<1>6. DeletionTypeOK'
  BY <1>1, <1>2, <1>4, <1>5 DEF DeletionTypeOK, AttachmentTypeOK
<1>7. /\ deletion[x].pc \in OrganizationLockedOn /\ deletion[x].pc \in AssetsListedOn
      /\ deletion'[x].pc \notin OrganizationLockedOn
  BY <1>1, <1>5 DEF OrganizationLockedOn, DiscussionsLockedOn, AssetsListedOn, MessagesDeletedOn,
                    DiscussionsDeletedOn
<1>8. \A y \in Deletions : deletion'[y].pc \notin OrganizationLockedOn
  BY <1>1, <1>5, <1>7 DEF LocksInv
<1>9. LocksInv'
  <2>1. /\ DiscussionsLockedOn \subseteq OrganizationLockedOn /\ AssetsListedOn \subseteq OrganizationLockedOn
        /\ MessagesDeletedOn \subseteq OrganizationLockedOn
    BY DEF OrganizationLockedOn, DiscussionsLockedOn, AssetsListedOn
  <2>. QED
    BY <1>8, <2>1 DEF LocksInv
<1>10. ASSUME NEW m \in Messages PROVE Local(m)'
  <2>1. Local(m)
    BY DEF DeletionInv
  <2>2. /\ row'[m] # "present" /\ (row'[m] = "none" <=> row[m] = "none")
        /\ row[m] = "present" => m \in deletion[x].assets
    BY <1>1, <1>3, <1>7 DEF LocksInv
  <2>3. \A y \in Deletions : deletion[y].pc = "committed" => deletion'[y] = deletion[y]
    BY <1>1, <1>5
  <2>4. asset[m] = "stored" =>
          \/ m \in unsettled \/ \E c \in Calls : call[c].pc \in Uploading /\ Mine(c, m)
          \/ \E y \in Deletions : deletion'[y].pc = "committed" /\ m \in deletion'[y].assets
    BY <1>5, <2>1, <2>2, <2>3 DEF Local
  <2>5. \A y \in Deletions : m \in deletion'[y].assets => row'[m] # "none"
    BY <1>5, <2>1, <2>2 DEF Local
  <2>6. \A c \in Calls : Mine(c, m)' <=> Mine(c, m)
    BY <1>2 DEF Mine
  <2>7. UNCHANGED <<asset, unsettled, call>>
    BY <1>2
  <2>. QED
    BY <2>1, <2>2, <2>4, <2>5, <2>6, <2>7 DEF Local, Uploading
<1>11. NewDiscussions'
  BY <1>2 DEF DeletionInv, NewDiscussions
<1>. QED
  BY <1>6, <1>9, <1>10, <1>11 DEF DeletionInv

\* The cleanup of one asset.
LEMMA CleanUpKeeps ==
  ASSUME DeletionInv, NEW x \in Deletions, NEW m \in Messages, CleanUp(x, m)
  PROVE  DeletionInv'
<1> DEFINE new == [deletion[x] EXCEPT !.assets = @ \ {m}]
<1>1. /\ DeletionTypeOK /\ LocksInv /\ deletion \in [Deletions -> DeletionRecords]
      /\ deletion[x] \in DeletionRecords /\ asset \in [Messages -> AssetStates]
      /\ unsettled \subseteq Messages
  BY StoreFields DEF DeletionInv, DeletionTypeOK
<1>2. /\ deletion[x].pc = "committed" /\ m \in deletion[x].assets
      /\ asset' \in {asset, [asset EXCEPT ![m] = "deleted"]}
      /\ unsettled' = unsettled \cup {n \in {m} : asset'[n] = "stored"}
      /\ UNCHANGED <<discussions, frozen, row, call, organization, authorized, other>>
  BY DEF CleanUp, MaybeDeleted, GiveUp
<1>3. new \in DeletionRecords /\ new.pc = "committed" /\ new.assets = deletion[x].assets \ {m}
  BY <1>1, <1>2 DEF DeletionRecords
<1>4. deletion' = [deletion EXCEPT ![x] = new]
  BY <1>1 DEF CleanUp
<1> HIDE DEF new
<1>5. deletion'[x] = new /\ \A y \in Deletions \ {x} : deletion'[y] = deletion[y]
  BY <1>1, <1>4
<1>6. LocksInv'
  BY <1>2, <1>3, <1>4, LocksMove
     DEF OrganizationLockedOn, DiscussionsLockedOn, AssetsListedOn, MessagesDeletedOn,
         DiscussionsDeletedOn
<1>7. /\ asset' \in [Messages -> AssetStates]
      /\ \A n \in Messages \ {m} : asset'[n] = asset[n]
      /\ asset'[m] \in {asset[m], "deleted"}
      /\ unsettled \subseteq unsettled' /\ unsettled' \subseteq Messages
      /\ asset'[m] = "stored" => m \in unsettled'
  BY <1>1, <1>2 DEF AssetStates
<1>8. DeletionTypeOK'
  <2>1. deletion' \in [Deletions -> DeletionRecords]
    BY <1>1, <1>3, <1>4
  <2>. QED
    BY <1>1, <1>2, <1>7, <2>1 DEF DeletionTypeOK, AttachmentTypeOK
<1>9. Local(m)'
  <2>1. Local(m) /\ row[m] # "none" /\ row[m] # "present"
    BY <1>2 DEF DeletionInv, Local
  <2>2. asset'[m] # "none"
    BY <1>7, <2>1 DEF Local
  <2>3. \A c \in Calls : Mine(c, m)' <=> Mine(c, m)
    BY <1>2 DEF Mine
  <2>. QED
    BY <1>2, <1>7, <2>1, <2>2, <2>3 DEF Local
<1>10. ASSUME NEW n \in Messages \ {m} PROVE Local(n)'
  <2>1. \A y \in Deletions : /\ deletion'[y].pc = "committed" <=> deletion[y].pc = "committed"
                             /\ n \in deletion'[y].assets <=> n \in deletion[y].assets
    BY <1>2, <1>3, <1>5
  <2>. QED
    BY <1>2, <1>7, <2>1, LocalFrame DEF DeletionInv
<1>11. NewDiscussions'
  BY <1>2 DEF DeletionInv, NewDiscussions
<1>. QED
  BY <1>6, <1>8, <1>9, <1>10, <1>11 DEF DeletionInv

\* The server stops.
LEMMA StopKeeps ==
  ASSUME DeletionInv, ServerStops
  PROVE  DeletionInv'
<1>1. /\ DeletionTypeOK /\ unsettled \subseteq Messages
  BY StoreFields DEF DeletionInv
<1>2. /\ \A c \in Calls : call'[c] = NoCall
      /\ \A x \in Deletions : deletion'[x] = NoDeletion
      /\ \A o \in Others : other'[o] = NoOther
      /\ frozen' = {} /\ UNCHANGED <<discussions, row, asset, organization, authorized>>
  BY DEF ServerStops
<1>3. unsettled' = unsettled \cup ((InHand(Uploading) \ Present)
                     \cup (InHand({"assetGone"}) \cap Present) \cup ToCleanUp)
  BY DEF ServerStops, GiveUp
<1>4. DeletionTypeOK'
  <2>1. ToCleanUp \subseteq Messages
    BY <1>1 DEF ToCleanUp, DeletionTypeOK, DeletionRecords
  <2>2. unsettled' \subseteq Messages
    BY <1>1, <1>3, <2>1 DEF InHand
  <2>3. /\ call' \in [Calls -> CallRecords] /\ deletion' \in [Deletions -> DeletionRecords]
        /\ other' \in [Others -> OtherRecords]
    BY DEF ServerStops, NoCall, NoDeletion, NoOther, CallRecords, DeletionRecords, OtherRecords
  <2>. QED
    BY <1>1, <1>2, <2>2, <2>3, NoCallIsOne DEF DeletionTypeOK, AttachmentTypeOK
<1>5. LocksInv' /\ NewDiscussions'
  BY <1>2 DEF LocksInv, NewDiscussions, NoDeletion, NoOther, OrganizationLockedOn,
              DiscussionsLockedOn, AssetsListedOn, MessagesDeletedOn, DiscussionsDeletedOn
<1>6. ASSUME NEW m \in Messages PROVE Local(m)'
  <2>1. Local(m) /\ row'[m] = row[m] /\ asset'[m] = asset[m]
    BY <1>2 DEF DeletionInv
  <2>2. \A c \in Calls : ~Mine(c, m)'
    BY <1>2, NoCallIsOne, NoneIsNoMessage DEF Mine
  <2>3. \A x \in Deletions : m \notin deletion'[x].assets
    BY <1>2 DEF NoDeletion
  <2>4. row[m] = "present" => asset[m] = "stored" \/ m \in unsettled'
    BY <1>3, <2>1 DEF Local, Mine, InHand, Present
  <2>5. asset[m] = "stored" => row[m] = "present" \/ m \in unsettled'
    <3>1. ASSUME NEW x \in Deletions, deletion[x].pc = "committed", m \in deletion[x].assets
          PROVE  m \in ToCleanUp
      BY <3>1 DEF ToCleanUp
    <3>. QED
      BY <1>3, <2>1, <3>1 DEF Local, Mine, InHand, Present
  <2>. QED
    BY <2>1, <2>2, <2>3, <2>4, <2>5 DEF Local
<1>. QED
  BY <1>4, <1>5, <1>6 DEF DeletionInv

-----------------------------------------------------------------------------
LEMMA InitialDeletion == DeletionInit => DeletionInv
<1>. SUFFICES ASSUME DeletionInit PROVE DeletionInv
  OBVIOUS
<1>1. /\ \A c \in Calls : call[c] = NoCall
      /\ \A x \in Deletions : deletion[x] = NoDeletion
      /\ \A o \in Others : other[o] = NoOther
      /\ \A m \in Messages : row[m] = "none" /\ asset[m] = "none"
  BY DEF DeletionInit, AttachmentInit
<1>2. DeletionTypeOK
  <2>1. /\ call \in [Calls -> CallRecords] /\ deletion \in [Deletions -> DeletionRecords]
        /\ other \in [Others -> OtherRecords]
        /\ row \in [Messages -> RowStates] /\ asset \in [Messages -> AssetStates]
    BY DEF DeletionInit, AttachmentInit, NoCall, NoDeletion, NoOther, CallRecords,
           DeletionRecords, OtherRecords, RowStates, AssetStates
  <2>. QED
    BY <1>1, <2>1, NoCallIsOne DEF DeletionInit, AttachmentInit, DeletionTypeOK, AttachmentTypeOK
<1>3. LocksInv /\ NewDiscussions
  BY <1>1 DEF LocksInv, NewDiscussions, NoDeletion, NoOther, OrganizationLockedOn,
              DiscussionsLockedOn, AssetsListedOn, MessagesDeletedOn, DiscussionsDeletedOn
<1>4. ASSUME NEW m \in Messages PROVE Local(m)
  <2>1. \A c \in Calls : ~Mine(c, m)
    BY <1>1, NoCallIsOne, NoneIsNoMessage DEF Mine
  <2>2. \A x \in Deletions : m \notin deletion[x].assets
    BY <1>1 DEF NoDeletion
  <2>. QED
    BY <1>1, <2>1, <2>2 DEF Local
<1>. QED
  BY <1>2, <1>3, <1>4 DEF DeletionInv

LEMMA DeletionStep ==
  ASSUME DeletionInv, [DeletionNext]_vars
  PROVE  DeletionInv'
<1>1. ASSUME NEW c \in Calls, CallStep(c), UNCHANGED deletionVars PROVE DeletionInv'
  <2>1. CASE Refuse(c) \/ (\E d \in Discussions : FindDiscussion(c, d))
             \/ \E m \in Messages : Upload(c, m) \/ FindMessage(c, m)
    BY <1>1, <2>1, BeginningKeeps
  <2>2. CASE InsertMessage(c) \/ CommitMessage(c) \/ SaveFails(c)
             \/ DeleteAsset(c) \/ DeleteAssetUnanswered(c)
    BY <1>1, <2>2, GoingOnKeeps
  <2>3. CASE \/ \E m \in Messages : UploadFails(c, m)
             \/ RefuseContent(c) \/ UpsertReadState(c) \/ UndoUpload(c) \/ UndoFails(c)
             \/ DeleteAssetFails(c) \/ RemoveMessage(c) \/ RemoveFails(c)
    BY <1>1, <2>3, EndingKeeps
  <2>. QED
    BY <1>1, <2>1, <2>2, <2>3 DEF CallStep, CallAdvances
<1>2. ASSUME NEW x \in Deletions, Allow(x) \/ DeletionAdvances(x) \/ Rollback(x) PROVE DeletionInv'
  <2>1. CASE \E m \in Messages : CleanUp(x, m)
    BY <2>1, CleanUpKeeps
  <2>2. CASE CommitDeletion(x)
    BY <2>2, CommitDeletionKeeps
  <2>3. CASE \/ Allow(x) \/ LockOrganization(x) \/ Consume(x) \/ LockDiscussions(x) \/ ListAssets(x)
             \/ DeleteMessages(x) \/ DeleteDiscussions(x) \/ DeleteInvitations(x)
             \/ DeleteMemberships(x) \/ Rollback(x) \/ EndCleanUp(x)
    BY <2>3, StatementsKeep
  <2>. QED
    BY <1>2, <2>1, <2>2, <2>3 DEF DeletionAdvances
<1>3. ASSUME NEW o \in Others, OtherBegins(o) \/ OtherAdvances(o) \/ RollbackOther(o)
      PROVE  DeletionInv'
  BY <1>3, OtherSteps
<1>4. CASE UNCHANGED vars
  <2>1. UNCHANGED <<discussions, frozen, row, asset, unsettled, call, organization, authorized,
                    deletion, other>>
    BY <1>4 DEF vars, messageVars
  <2>. QED
    BY <2>1 DEF DeletionInv, DeletionTypeOK, AttachmentTypeOK, NewDiscussions, LocksInv, Local, Mine
<1>. QED
  BY <1>1, <1>2, <1>3, <1>4, VerifyKeeps, StopKeeps DEF DeletionNext, BreakCycle

\* The inductive invariant holds in every behaviour, whatever fails or stops
\* (organization-deletion.service.ts, discussion-message.service.ts).
THEOREM DeletionInvariant == DeletionSpec => []DeletionInv
<1>1. DeletionInv /\ [DeletionNext]_vars => DeletionInv'
  BY DeletionStep
<1>. QED
  BY InitialDeletion, <1>1, PTL DEF DeletionSpec

\* The stores, the requests and the transactions keep their types.
THEOREM DeletionTypeCorrect == DeletionSpec => []DeletionTypeOK
<1>1. DeletionInv => DeletionTypeOK
  BY DEF DeletionInv
<1>. QED
  BY DeletionInvariant, <1>1, PTL

\* No file is taken away from a message that stays
\* (discussion-message.service.ts:388-417).
THEOREM MessagesKeepAssets == DeletionSpec => []RowsHaveAssets
<1>1. DeletionInv => RowsHaveAssets
  BY DEF DeletionInv, Local, RowsHaveAssets, Present, InHand, Mine
<1>. QED
  BY DeletionInvariant, <1>1, PTL

\* No asset is forgotten by the requests and deletions that race for it
\* (organization-deletion.service.ts:190-192, 137-139).
THEOREM NoAssetForgotten == DeletionSpec => []AssetsAccountedFor
<1>1. ASSUME DeletionInv, NEW m \in Messages, asset[m] = "stored"
      PROVE  m \in Present \cup unsettled \cup InHand(Uploading) \cup ToCleanUp
  <2>1. /\ (\E c \in Calls : call[c].pc \in Uploading /\ Mine(c, m)) => m \in InHand(Uploading)
        /\ row[m] = "present" => m \in Present
    BY DEF InHand, Mine, Present
  <2>2. (\E x \in Deletions : deletion[x].pc = "committed" /\ m \in deletion[x].assets) => m \in ToCleanUp
    BY DEF ToCleanUp
  <2>. QED
    BY <1>1, <2>1, <2>2 DEF DeletionInv, Local
<1>2. DeletionInv => AssetsAccountedFor
  BY <1>1 DEF AssetsAccountedFor
<1>. QED
  BY DeletionInvariant, <1>2, PTL

\* The cascade finds nothing that the explicit deletions have not covered
\* (organization-deletion.service.ts:39-47, 159-162).
THEOREM CascadeFindsNothing == DeletionSpec => []NothingLeftForCascade
<1>1. ASSUME DeletionInv PROVE NothingLeftForCascade
  <2>1. ASSUME NEW x \in Past("messagesDeleted") PROVE Present \subseteq frozen
    BY <1>1, <2>1, Ranks DEF DeletionInv, LocksInv, Present, Past
  <2>2. ASSUME NEW x \in Past("discussionsDeleted") PROVE discussions \subseteq frozen
    BY <1>1, <2>2, Ranks
       DEF DeletionInv, LocksInv, Past, DiscussionsLockedOn, AssetsListedOn, MessagesDeletedOn
  <2>. QED
    BY <2>1, <2>2 DEF NothingLeftForCascade
<1>2. DeletionInv => NothingLeftForCascade
  BY <1>1
<1>. QED
  BY DeletionInvariant, <1>2, PTL

-----------------------------------------------------------------------------
(* Waiting.                                                                *)

\* A deletion that waits for another one holds nothing yet.
Queues(x, y) == deletion[x].pc = "allowed" /\ y \in Past("organizationLocked")

\* Whatever deletions and other transactions wait for one another, two of them
\* are a WaitCycle, which BreakCycle breaks.  (A request for a message waits in
\* a transaction that holds nothing, so nobody waits for it then.)
CyclesAreBroken ==
  \A xs \in SUBSET Deletions, os \in SUBSET Others :
    /\ xs # {} \/ os # {}
    /\ \A x \in xs : (\E y \in xs : Queues(x, y)) \/ (\E o \in os : DeletionAwaits(x, o))
    /\ \A o \in os : \E x \in xs : OtherAwaits(o, x)
    => \E x \in xs, o \in os : WaitCycle(x, o)

\* Deletions, requests for codes and acceptances never wait in a cycle that is
\* longer than a deletion and one of the others: a transaction other than a
\* deletion waits only for one that has its first lock, and that one waits for
\* no other deletion (organization-deletion.service.ts:154-201).
THEOREM NoLongerCycle == DeletionSpec => []CyclesAreBroken
<1>1. ASSUME DeletionTypeOK PROVE CyclesAreBroken
  <2>. SUFFICES ASSUME NEW xs \in SUBSET Deletions, NEW os \in SUBSET Others,
                       xs # {} \/ os # {},
                       \A x \in xs : \/ \E y \in xs : Queues(x, y)
                                     \/ \E o \in os : DeletionAwaits(x, o),
                       \A o \in os : \E x \in xs : OtherAwaits(o, x)
                PROVE  \E x \in xs, o \in os : WaitCycle(x, o)
    BY DEF CyclesAreBroken
  <2>1. \A x \in Deletions : x \in Past("organizationLocked") => deletion[x].pc # "allowed"
    BY <1>1, Ranks DEF OrganizationLockedOn, DiscussionsLockedOn, AssetsListedOn, MessagesDeletedOn,
       DiscussionsDeletedOn
  <2>2. \A x \in Deletions : x \in Past("invitationsDeleted") => x \in Past("organizationLocked")
    <3>1. Rank["invitationsDeleted"] = 7 /\ Rank["organizationLocked"] = 1
      BY DEF Rank
    <3>2. \A x \in Deletions : Rank[deletion[x].pc] \in Nat
      BY <1>1 DEF DeletionTypeOK, DeletionRecords, Rank
    <3>. QED
      BY <3>1, <3>2 DEF Past
  <2>3. \E x \in xs : x \in Past("organizationLocked")
    <3>1. CASE \E o \in os : \E x \in xs : OtherAwaits(o, x)
      BY <3>1, <2>2 DEF OtherAwaits
    <3>2. CASE os = {}
      BY <3>2 DEF Queues
    <3>. QED
      BY <3>1, <3>2
  <2>4. PICK x \in xs : x \in Past("organizationLocked")
    BY <2>3
  <2>5. PICK o \in os : DeletionAwaits(x, o)
    BY <2>1, <2>4 DEF Queues
  <2>6. PICK y \in xs : OtherAwaits(o, y)
    BY <2>5
  <2>7. other[o].pc \in {"closing", "accepting", "rejoined"}
    BY <2>6 DEF OtherAwaits, Open
  <2>8. other[o].pc = "rejoined" => x \in Past("invitationsDeleted")
    <3>1. other[o].pc = "rejoined" => deletion[x].pc = "invitationsDeleted"
      BY <2>5 DEF DeletionAwaits, Open, KeySharing
    <3>. QED
      BY <1>1, <3>1 DEF Past, Rank
  <2>. QED
    BY <2>4, <2>5, <2>7, <2>8 DEF WaitCycle, OtherAwaits, Open
<1>2. DeletionTypeOK => CyclesAreBroken
  BY <1>1
<1>. QED
  BY DeletionTypeCorrect, <1>2, PTL

-----------------------------------------------------------------------------
(* Refinement.                                                             *)

\* What the deletion that is past a statement can rely on, and what an
\* organization that is gone has lost for good.
Emptied ==
  /\ discussions = {} /\ ~authorized
  /\ \A m \in Messages : row[m] # "present"
  /\ \A o \in Others : other[o].pc # "creating"

AtomicInv ==
  /\ \A c \in Calls : call[c].pc = "inserted" => call[c].discussion \in discussions
  /\ \A x \in Deletions :
       /\ deletion[x].pc \in OrganizationLockedOn => organization
       /\ deletion[x].pc \in ConsumedOn =>
            authorized /\ \A o \in Others : other[o].pc \notin {"closing", "requested"}
  /\ ~organization => Emptied

AtomicVars == <<organization, authorized, discussions, row>>

\* A request inserts only into a discussion that exists.
LEMMA CallsInsert ==
  ASSUME DeletionTypeOK, NEW c \in Calls, CallStep(c)
  PROVE  /\ discussions' = discussions
         /\ \A b \in Calls : call'[b].pc = "inserted" =>
              call'[b] = call[b] \/ call'[b].discussion \in discussions
<1>1. call \in [Calls -> CallRecords] /\ call[c] \in CallRecords
  BY StoreFields
<1>2. discussions' = discussions
  BY DEF CallStep, CallAdvances, FindDiscussion, Refuse, Upload, UploadFails, RefuseContent,
         InsertMessage, CommitMessage, UpsertReadState, SaveFails, UndoUpload, UndoFails,
         FindMessage, DeleteAsset, DeleteAssetUnanswered, DeleteAssetFails, RemoveMessage, RemoveFails
<1>3. ASSUME NEW new, call' = [call EXCEPT ![c] = new],
             new.pc = "inserted" => new.discussion \in discussions
      PROVE  \A b \in Calls : call'[b].pc = "inserted" =>
               call'[b] = call[b] \/ call'[b].discussion \in discussions
  BY <1>1, <1>3
<1>4. CASE Answer(c)
  BY <1>2, <1>3, <1>4 DEF Answer, NoCall
<1>5. ASSUME NEW pc, Goto(c, pc), pc # "inserted"
      PROVE  \A b \in Calls : call'[b].pc = "inserted" => call'[b] = call[b]
  BY <1>1, <1>5 DEF Goto, CallRecords
<1>6. CASE InsertMessage(c)
  BY <1>1, <1>6 DEF InsertMessage, Goto, CallRecords
<1>7. CASE \E d \in Discussions : FindDiscussion(c, d)
  BY <1>1, <1>7 DEF FindDiscussion, NoCall
<1>8. CASE \E m \in Messages : Upload(c, m) \/ FindMessage(c, m)
  BY <1>1, <1>8 DEF Upload, FindMessage, CallRecords
<1>9. CASE CommitMessage(c) \/ SaveFails(c) \/ DeleteAsset(c) \/ DeleteAssetUnanswered(c)
  BY <1>5, <1>9 DEF CommitMessage, SaveFails, DeleteAsset, DeleteAssetUnanswered
<1>. QED
  BY <1>2, <1>4, <1>6, <1>7, <1>8, <1>9
     DEF CallStep, CallAdvances, Refuse, UploadFails, RefuseContent, UpsertReadState, UndoUpload,
         UndoFails, DeleteAssetFails, RemoveMessage, RemoveFails

\* A request changes a row only by its commit, or by the deletion of a message.
LEMMA CallsPost ==
  ASSUME DeletionInv, AtomicInv, NEW c \in Calls, CallStep(c), UNCHANGED deletionVars
  PROVE  /\ UNCHANGED row \/ organization
         /\ UNCHANGED row \/ \E m \in Messages : Atomic!Post(m) \/ Atomic!Remove(m)
<1>1. /\ DeletionTypeOK /\ row \in [Messages -> RowStates]
      /\ UNCHANGED <<discussions, organization, authorized>>
  BY StoreFields, CallsInsert DEF DeletionInv, deletionVars
<1>2. CASE CommitMessage(c)
  <2> DEFINE m == call[c].message
  <2>1. call[c].pc = "inserted" /\ m \in Messages /\ row' = [row EXCEPT ![m] = "present"]
    BY <1>1, <1>2, CallFields DEF CommitMessage
  <2>2. row[m] = "none"
    BY <2>1 DEF DeletionInv, Local, Mine
  <2>3. discussions # {} /\ organization
    BY <2>1 DEF AtomicInv, Emptied
  <2>. HIDE DEF m
  <2>. QED
    BY <1>1, <2>1, <2>2, <2>3 DEF Atomic!Post
<1>3. CASE RemoveMessage(c)
  <2> DEFINE m == call[c].message
  <2>1. call[c].pc = "assetGone" /\ m \in Messages /\ row' = [row EXCEPT ![m] = "removed"]
    BY <1>1, <1>3, CallFields DEF RemoveMessage
  <2>2. row[m] \in {"present", "removed"}
    BY <1>1, <2>1 DEF DeletionInv, Local, Mine, RowStates
  <2>. HIDE DEF m
  <2>3. CASE row[m] = "present"
    BY <1>1, <2>1, <2>3 DEF Atomic!Remove, AtomicInv, Emptied
  <2>4. CASE row[m] = "removed"
    BY <1>1, <2>1, <2>4
  <2>. QED
    BY <2>2, <2>3, <2>4
<1>4. CommitMessage(c) \/ RemoveMessage(c) \/ UNCHANGED row
  BY DEF CallStep, CallAdvances, FindDiscussion, Refuse, Upload, UploadFails, RefuseContent,
         InsertMessage, UpsertReadState, SaveFails, UndoUpload, UndoFails,
         FindMessage, DeleteAsset, DeleteAssetUnanswered, DeleteAssetFails, RemoveFails
<1>. QED
  BY <1>2, <1>3, <1>4

LEMMA CallAtomic ==
  ASSUME DeletionInv, AtomicInv, NEW c \in Calls, CallStep(c), UNCHANGED deletionVars
  PROVE  AtomicInv' /\ [Atomic!AtomicNext]_AtomicVars
<1>1. /\ UNCHANGED <<discussions, organization, authorized, deletion, other>>
      /\ \A b \in Calls : call'[b].pc = "inserted" =>
           call'[b] = call[b] \/ call'[b].discussion \in discussions
  BY CallsInsert DEF DeletionInv, deletionVars
<1>2. AtomicInv'
  BY <1>1, CallsPost DEF AtomicInv, Emptied
<1>. QED
  BY <1>1, <1>2, CallsPost DEF Atomic!AtomicNext, AtomicVars

\* The statements before the commit change nothing that others see, and the
\* deletion holds the organization and the authorization from them on.
LEMMA StatementsAtomic ==
  ASSUME DeletionInv, AtomicInv, NEW x \in Deletions,
         \/ Allow(x) \/ LockOrganization(x) \/ Consume(x) \/ LockDiscussions(x) \/ ListAssets(x)
         \/ DeleteMessages(x) \/ DeleteDiscussions(x) \/ DeleteInvitations(x) \/ DeleteMemberships(x)
         \/ Rollback(x) \/ EndCleanUp(x) \/ \E m \in Messages : CleanUp(x, m)
  PROVE  AtomicInv' /\ UNCHANGED AtomicVars
<1> USE DEF OrganizationLockedOn, ConsumedOn, DiscussionsLockedOn, AssetsListedOn, MessagesDeletedOn,
            DiscussionsDeletedOn
<1>1. /\ deletion \in [Deletions -> DeletionRecords] /\ deletion[x] \in DeletionRecords
      /\ other \in [Others -> OtherRecords]
  BY DEF DeletionInv, DeletionTypeOK
<1>2. UNCHANGED <<discussions, row, call, organization, authorized, other>>
  BY DEF Allow, LockOrganization, Consume, LockDiscussions, ListAssets, DeleteMessages,
         DeleteDiscussions, DeleteInvitations, DeleteMemberships, Rollback, EndCleanUp, CleanUp, messageVars
<1>3. ASSUME \A y \in Deletions \ {x} : deletion'[y] = deletion[y],
             deletion'[x].pc \in OrganizationLockedOn => organization,
             deletion'[x].pc \in ConsumedOn =>
               authorized /\ \A o \in Others : other[o].pc \notin {"closing", "requested"}
      PROVE  AtomicInv' /\ UNCHANGED AtomicVars
  <2>1. AtomicInv'
    BY <1>2, <1>3 DEF AtomicInv, Emptied
  <2>. QED
    BY <1>2, <2>1 DEF AtomicVars
<1>4. ASSUME NEW pc, Move(x, pc)
      PROVE  deletion'[x].pc = pc /\ \A y \in Deletions \ {x} : deletion'[y] = deletion[y]
  BY <1>1, <1>4 DEF Move, DeletionRecords
<1>5. CASE End(x)
  BY <1>1, <1>3, <1>5 DEF End, NoDeletion
<1>6. CASE Allow(x)
  BY <1>3, <1>4, <1>6 DEF Allow
<1>7. CASE LockOrganization(x) /\ ~End(x)
  BY <1>3, <1>4, <1>7 DEF LockOrganization
<1>8. CASE Consume(x) /\ ~End(x)
  <2>1. authorized /\ Move(x, "consumed") /\ deletion[x].pc = "organizationLocked"
    BY <1>8 DEF Consume
  <2>2. \A o \in Others : other[o].pc \notin {"closing", "requested"}
    BY <1>8, <2>1 DEF Consume, VerificationFree, Open
  <2>. QED
    BY <1>3, <1>4, <2>1, <2>2 DEF AtomicInv
<1>9. ASSUME deletion[x].pc \in ConsumedOn, NEW pc, Move(x, pc) PROVE AtomicInv' /\ UNCHANGED AtomicVars
  BY <1>3, <1>4, <1>9 DEF AtomicInv
<1>10. CASE LockDiscussions(x) \/ DeleteMessages(x) \/ DeleteDiscussions(x)
            \/ DeleteInvitations(x) \/ DeleteMemberships(x)
  BY <1>9, <1>10 DEF LockDiscussions, DeleteMessages, DeleteDiscussions, DeleteInvitations, DeleteMemberships
<1>11. CASE ListAssets(x)
  BY <1>1, <1>3, <1>11 DEF ListAssets, AtomicInv
<1>12. CASE \E m \in Messages : CleanUp(x, m)
  <2>1. deletion'[x].pc = "committed" /\ \A y \in Deletions \ {x} : deletion'[y] = deletion[y]
    BY <1>1, <1>12 DEF CleanUp, DeletionRecords
  <2>. QED
    BY <1>3, <2>1
<1>. QED
  BY <1>5, <1>6, <1>7, <1>8, <1>10, <1>11, <1>12 DEF Rollback, EndCleanUp, LockOrganization, Consume

\* The commit is the deletion.
LEMMA CommitAtomic ==
  ASSUME DeletionInv, AtomicInv, NEW x \in Deletions, CommitDeletion(x)
  PROVE  AtomicInv' /\ Atomic!AtomicNext
<1>1. /\ deletion \in [Deletions -> DeletionRecords] /\ LocksInv /\ deletion[x].pc = "membershipsDeleted"
      /\ ~KeyShared
  BY DEF DeletionInv, DeletionTypeOK, CommitDeletion
<1>2. /\ organization' = FALSE /\ authorized' = FALSE /\ discussions' = {}
      /\ row' = [m \in Messages |-> IF row[m] = "present" THEN "removed" ELSE row[m]]
      /\ UNCHANGED <<call, other>>
  BY DEF CommitDeletion, Present
<1>3. /\ deletion[x].pc \in OrganizationLockedOn /\ deletion[x].pc \in ConsumedOn
      /\ deletion[x].pc \in DiscussionsLockedOn
  BY <1>1 DEF OrganizationLockedOn, ConsumedOn, DiscussionsLockedOn, AssetsListedOn, MessagesDeletedOn,
              DiscussionsDeletedOn
<1>4. organization /\ authorized
  BY <1>3 DEF AtomicInv
<1>5. Atomic!AtomicNext
  BY <1>2, <1>4 DEF Atomic!AtomicNext, Atomic!Delete
<1>6. \A c \in Calls : call[c].pc # "inserted"
  BY <1>1, <1>3 DEF LocksInv
<1>7. \A y \in Deletions : deletion'[y].pc \notin OrganizationLockedOn
  <2>1. deletion'[x].pc = "committed" /\ \A y \in Deletions \ {x} : deletion'[y] = deletion[y]
    BY <1>1 DEF CommitDeletion, Move, DeletionRecords
  <2>2. "committed" \notin OrganizationLockedOn
    BY DEF OrganizationLockedOn, DiscussionsLockedOn, AssetsListedOn, MessagesDeletedOn,
           DiscussionsDeletedOn
  <2>. QED
    BY <1>1, <1>3, <2>1, <2>2 DEF LocksInv
<1>8. ConsumedOn \subseteq OrganizationLockedOn
  BY DEF ConsumedOn, OrganizationLockedOn
<1>9. Emptied'
  BY <1>1, <1>2 DEF Emptied, KeyShared, KeySharing, Open
<1>10. AtomicInv'
  BY <1>2, <1>6, <1>7, <1>8, <1>9 DEF AtomicInv
<1>. QED
  BY <1>5, <1>10

\* The other transactions: no one creates, requests or verifies in an
\* organization that is gone, nor touches an authorization that is consumed.
LEMMA OtherAtomic ==
  ASSUME DeletionInv, AtomicInv, NEW o \in Others,
         OtherBegins(o) \/ OtherAdvances(o) \/ RollbackOther(o)
  PROVE  AtomicInv' /\ [Atomic!AtomicNext]_AtomicVars
<1>1. /\ DeletionTypeOK /\ NewDiscussions /\ other \in [Others -> OtherRecords]
      /\ other[o] \in OtherRecords
  BY DEF DeletionInv, DeletionTypeOK
<1>2. ASSUME NEW new, other' = [other EXCEPT ![o] = new],
             UNCHANGED <<discussions, row, call, organization, authorized, deletion>>,
             new.pc = "creating" => organization,
             new.pc \in {"closing", "requested"} =>
               \/ other[o].pc \in {"closing", "requested"}
               \/ \A x \in Deletions : deletion[x].pc \notin ConsumedOn
      PROVE  AtomicInv' /\ UNCHANGED AtomicVars
  <2>1. other'[o] = new /\ \A p \in Others \ {o} : other'[p] = other[p]
    BY <1>1, <1>2
  <2>2. \A x \in Deletions : deletion[x].pc \in ConsumedOn =>
          \A p \in Others : other'[p].pc \notin {"closing", "requested"}
    BY <1>2, <2>1 DEF AtomicInv
  <2>3. ~organization => Emptied'
    BY <1>2, <2>1 DEF AtomicInv, Emptied
  <2>4. AtomicInv'
    BY <1>2, <2>2, <2>3 DEF AtomicInv
  <2>. QED
    BY <1>2, <2>4 DEF AtomicVars
<1>3. CASE EndOther(o) /\ UNCHANGED <<messageVars, organization, authorized, deletion>>
  BY <1>2, <1>3 DEF EndOther, NoOther, messageVars
<1>4. ASSUME NEW inserted, InsertReferring(o, inserted), ~EndOther(o),
             inserted.pc = "requested" => other[o].pc = "closing", inserted.pc # "closing"
      PROVE  AtomicInv' /\ UNCHANGED AtomicVars
  <2>1. organization /\ other' = [other EXCEPT ![o] = inserted]
        /\ UNCHANGED <<discussions, row, call, organization, authorized, deletion>>
    BY <1>4 DEF InsertReferring, messageVars
  <2>. QED
    BY <1>2, <1>4, <2>1
<1>5. CASE (\E d \in Discussions : InsertDiscussion(o, d)) /\ ~EndOther(o)
  BY <1>4, <1>5 DEF InsertDiscussion
<1>6. CASE InsertVerification(o) /\ ~EndOther(o)
  BY <1>4, <1>6 DEF InsertVerification
<1>7. CASE InsertMembership(o) /\ ~EndOther(o)
  BY <1>4, <1>7 DEF InsertMembership
<1>8. ASSUME NEW pc \in {"closing", "accepting", "rejoined"}, Begin(o, pc),
             UNCHANGED <<messageVars, organization, authorized, deletion>>,
             pc = "closing" => Past("consumed") = {}
      PROVE  AtomicInv' /\ UNCHANGED AtomicVars
  <2> DEFINE new == [other[o] EXCEPT !.pc = pc]
  <2>1. other' = [other EXCEPT ![o] = new] /\ new.pc = pc
    BY <1>1, <1>8 DEF Begin, OtherRecords
  <2>2. pc = "closing" => \A x \in Deletions : deletion[x].pc \notin ConsumedOn
    BY <1>1, <1>8, Ranks
  <2>. HIDE DEF new
  <2>. QED
    BY <1>2, <1>8, <2>1, <2>2 DEF messageVars
<1>9. CASE CloseVerification(o) \/ UpdateInvitation(o) \/ UpdateMembership(o)
  BY <1>8, <1>9 DEF CloseVerification, UpdateInvitation, UpdateMembership
<1>10. CASE CommitDiscussion(o)
  <2> DEFINE d == other[o].discussion
  <2>1. /\ other[o].pc = "creating" /\ d \in Discussions /\ organization
        /\ discussions' = discussions \cup {d}
        /\ UNCHANGED <<row, call, organization, authorized, deletion>>
    BY <1>1, <1>10 DEF CommitDiscussion, NewDiscussions, AtomicInv, Emptied
  <2>2. Atomic!AtomicNext
    BY <2>1 DEF Atomic!AtomicNext, Atomic!Create
  <2>3. other'[o] = NoOther /\ \A p \in Others \ {o} : other'[p] = other[p]
    BY <1>1, <1>10 DEF CommitDiscussion, EndOther
  <2>4. AtomicInv'
    BY <2>1, <2>3 DEF AtomicInv, NoOther
  <2>. QED
    BY <2>2, <2>4
<1>11. CASE CommitVerification(o)
  <2>1. /\ other[o].pc = "requested" /\ authorized' = FALSE
        /\ UNCHANGED <<discussions, row, call, organization, deletion>>
    BY <1>11 DEF CommitVerification, messageVars
  <2>2. other'[o] = NoOther /\ \A p \in Others \ {o} : other'[p] = other[p]
    BY <1>1, <1>11 DEF CommitVerification, EndOther
  <2>3. \A x \in Deletions : deletion[x].pc \notin ConsumedOn
    BY <2>1 DEF AtomicInv
  <2>4. ~organization => Emptied'
    BY <2>1, <2>2 DEF AtomicInv, Emptied, NoOther
  <2>5. AtomicInv'
    BY <2>1, <2>3, <2>4 DEF AtomicInv
  <2>6. organization => Atomic!AtomicNext
    BY <2>1 DEF Atomic!AtomicNext, Atomic!Revoke
  <2>7. ~organization => UNCHANGED AtomicVars
    BY <1>1, <2>1 DEF AtomicInv, Emptied, AtomicVars, DeletionTypeOK
  <2>. QED
    BY <2>5, <2>6, <2>7
<1>12. CASE CommitMembership(o) \/ SaveInvitation(o) \/ RollbackOther(o)
  BY <1>3, <1>12 DEF CommitMembership, SaveInvitation, RollbackOther
<1>13. (\E inserted : InsertReferring(o, inserted)) /\ EndOther(o) =>
         UNCHANGED <<messageVars, organization, authorized, deletion>>
  BY DEF InsertReferring
<1>. QED
  BY <1>3, <1>5, <1>6, <1>7, <1>9, <1>10, <1>11, <1>12, <1>13
     DEF OtherBegins, OtherAdvances, InsertDiscussion, InsertVerification, InsertMembership

LEMMA VerifyAtomic ==
  ASSUME DeletionInv, AtomicInv, VerifyCode
  PROVE  AtomicInv' /\ Atomic!AtomicNext
<1>1. /\ organization /\ ~authorized /\ authorized' = TRUE
      /\ UNCHANGED <<discussions, row, call, organization, deletion, other>>
  BY DEF VerifyCode, messageVars
<1>2. AtomicInv'
  BY <1>1 DEF AtomicInv
<1>3. Atomic!AtomicNext
  BY <1>1 DEF Atomic!AtomicNext, Atomic!Authorize
<1>. QED
  BY <1>2, <1>3

LEMMA StopAtomic ==
  ASSUME DeletionInv, AtomicInv, ServerStops
  PROVE  AtomicInv' /\ UNCHANGED AtomicVars
<1>1. /\ \A c \in Calls : call'[c] = NoCall
      /\ \A x \in Deletions : deletion'[x] = NoDeletion
      /\ \A o \in Others : other'[o] = NoOther
      /\ UNCHANGED <<discussions, row, organization, authorized>>
  BY DEF ServerStops
<1>. QED
  BY <1>1 DEF AtomicInv, Emptied, AtomicVars, NoCall, NoDeletion, NoOther, OrganizationLockedOn,
              ConsumedOn, DiscussionsLockedOn, AssetsListedOn, MessagesDeletedOn, DiscussionsDeletedOn

LEMMA AtomicStep ==
  ASSUME DeletionInv, AtomicInv, [DeletionNext]_vars
  PROVE  AtomicInv' /\ [Atomic!AtomicNext]_AtomicVars
<1>1. ASSUME NEW x \in Deletions, Allow(x) \/ DeletionAdvances(x) \/ Rollback(x)
      PROVE  AtomicInv' /\ [Atomic!AtomicNext]_AtomicVars
  BY <1>1, StatementsAtomic, CommitAtomic DEF DeletionAdvances
<1>2. CASE UNCHANGED vars
  <2>1. UNCHANGED <<discussions, row, call, organization, authorized, deletion, other>>
    BY <1>2 DEF vars, messageVars
  <2>. QED
    BY <2>1 DEF AtomicInv, Emptied, AtomicVars
<1>. QED
  BY <1>1, <1>2, CallAtomic, OtherAtomic, VerifyAtomic, StopAtomic DEF DeletionNext, BreakCycle

\* Whatever the deletions, the requests and the transactions that race, fail or
\* stop, the organization goes in one step that consumes an authorization, with
\* everything in it, and nothing comes into being in it afterwards
\* (organization-deletion.service.ts:36-76, 83-140).
THEOREM RefinesAtomicDeletion == DeletionSpec => ImplementsAtomicDeletion
<1>1. DeletionInit => AtomicInv /\ Atomic!AtomicInit
  <2>. SUFFICES ASSUME DeletionInit PROVE AtomicInv /\ Atomic!AtomicInit
    OBVIOUS
  <2>1. /\ \A c \in Calls : call[c] = NoCall
        /\ \A x \in Deletions : deletion[x] = NoDeletion
    BY DEF DeletionInit, AttachmentInit
  <2>2. AtomicInv
    BY <2>1 DEF DeletionInit, AtomicInv, NoCall, NoDeletion, OrganizationLockedOn, ConsumedOn,
                DiscussionsLockedOn, AssetsListedOn, MessagesDeletedOn, DiscussionsDeletedOn
  <2>. QED
    BY <2>2 DEF DeletionInit, AttachmentInit, Atomic!AtomicInit
<1>2. DeletionInv /\ AtomicInv /\ [DeletionNext]_vars => AtomicInv' /\ [Atomic!AtomicNext]_AtomicVars
  BY AtomicStep
<1>. QED
  BY DeletionInvariant, <1>1, <1>2, PTL
     DEF DeletionSpec, ImplementsAtomicDeletion, Atomic!AtomicSpec, AtomicVars

=============================================================================
