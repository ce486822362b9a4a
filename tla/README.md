# TeamFlow backend: TLA+ specifications

TeamFlow is a NestJS service over PostgreSQL (TypeORM) for organizations that
discuss their work: members with roles, invitations, emailed security codes,
discussions with messages and attachments, push notifications. The process
keeps no state between requests. Everything that can go wrong between two
requests goes wrong in the database, between one `await` and the next.

The specifications model exactly that: the rows, the requests in flight with
the values they hold in local variables, and one action per database call
together with the checks that follow it.

## Inventory

| Component (`src/src/...`) | State | Operations | What is hard | What makes it correct |
| --- | --- | --- | --- | --- |
| `memberships`, member endpoints of `organizations` | `memberships`: role, status | change role, suspend, reactivate, leave; listings | requester, target and UPDATE are three database calls; the WHERE of the UPDATE is the only guard against what happened in between | one ACTIVE OWNER; roles and statuses change only within the requester's scope; a suspension is not escaped |
| `organizations` | `organizations`, the OWNER's membership | create (one transaction) | the slug is probed, then inserted | refused for its slug only after a race; OWNER row together with the organization |
| `organization_invitations` | `organization_invitations`; writes `memberships` on acceptance | create, list, cancel, accept; lazy expiration | checks and INSERT unprotected; acceptance without a lock, racing cancellation, expiration, suspension and other acceptances | joining takes an invitation and its role; both rows or neither; at most one live invitation; closed stays closed |
| `security_verifications` | `security_verifications` with a partial unique index | request a code (mail inside the transaction), verify, consume | READ COMMITTED statements, row locks, unique index, slow mail provider, rollback | one usable code; attempts counted; one operation per code; no unsent code; cooldown; nobody waits forever |
| `mail` | none | send with a timeout | the message may leave although the call failed | bounded wait |
| `organizations` deletion | deletes every table of the organization; Cloudinary assets afterwards | delete | locks on the organization and on its discussions, deadlock with requests for a code, cleanup detached from the answer | no row and no asset survives, one authorization per deletion |
| `workspace` discussions and context | `discussions`, four join tables, read states | create, edit, status, assign, relate, mark as read | entities are read, changed in memory and saved whole; marks are taken before they are written | an undisturbed edit changes what it says and no more; reads never go back and cover only what was there |
| `workspace` messages, `cloudinary` | `discussion_messages`, external assets | post, attach, edit, delete | two stores without a common transaction; a saved message may have been deleted | no row without asset, no asset without row; one's own message is read |
| `workspace` devices and notifications, `firebase` | `user_devices` | register, remove, multicast, prune refused tokens | a token changes hands and a member is suspended between recipients, tokens, send and pruning | members are notified, outsiders are not; a row ends for a cause |
| `workspace` catalog | `work_modules`, `components`, `tags` | create, rename, activate, relate | names checked, then inserted; `save` writes one of two columns | names are shared only after a race |
| `auth`, `users`, `me`, `common`, bootstrap | `users` | sign up, log in, search, roles, password, context | a password change may write back the roles it read | |

How they interact: every tenant endpoint reads the requester's membership
first; invitations read and write memberships; a deletion consumes a
verification in its own transaction and deletes what every other component
writes; discussions and messages notify after their own commit and ignore the
failure. There are no queues, no background jobs besides the detached cleanup
of a deletion, and no in-process shared state.

## Modules

| Module | Models | Uses |
| --- | --- | --- |
| `OrganizationRoles` | enumerations and role policy (`ROLE_SCOPE_BY_REQUESTER_ROLE`, `assertActiveOwnerOrAdmin`) | |
| `MembershipLifecycle` | abstract specification: the life of a membership row, no requests | `OrganizationRoles` |
| `Memberships` | the requests on memberships, `memberships.service.ts` under `organizations.service.ts` | `OrganizationRoles`, `INSTANCE MembershipLifecycle` |
| `Invitations` | `organization-invitations.service.ts` composed with those requests | `Memberships` |
| `OneTimeCode` | abstract specification: what the codes of one scope promise, no transactions, locks, mails or clocks | |
| `SecurityVerifications` | `security-verifications.service.ts` with `mail.service.ts` and the consuming transaction | `INSTANCE OneTimeCode` |
| `Attachments` | the attachment messages of `discussion-message.service.ts` over `cloudinary.service.ts`; a building block without a specification of its own | |
| `AtomicDeletion` | abstract specification: an organization that is taken away in one step, no transactions or locks | |
| `OrganizationDeletion` | `organization-deletion.service.ts` composed with those messages and with the transactions it excludes | `Attachments`, `INSTANCE AtomicDeletion` |
| `Discussions` | the edits of a discussion, `discussion.service.ts` and `discussion-context.service.ts` | |
| `Messages` | TEXT messages and read states: `discussion-message.service.ts`, `markDiscussionAsRead` and the read-state upsert of `discussion.service.ts` | |
| `Devices` | `user-device.service.ts`, `workspace-notification.service.ts`, `workspace-push-notification.service.ts` | |
| `Catalog` | the names in `workspace-catalog.service.ts`, one table with or without the unique index | |
| `OrganizationSlugs` | the choice of a slug in `createOrganization` | |
| `Workspace` | those four and `Discussions`, one part per behaviour | all five |
| `MembershipsProofs`, `InvitationsProofs`, `SecurityVerificationsProofs`, `OrganizationDeletionProofs`, `DiscussionsProofs`, `MessagesProofs`, `DevicesProofs` | theorems about the module in the name | `TLAPS` |
| `WorkspaceProofs` | theorems about `Catalog`, `OrganizationSlugs` and the composition | the three proof modules above it |
| `MCMemberships`, `MCInvitations`, `MCSecurityVerifications`, `MCOrganizationDeletion`, `MCDiscussions`, `MCWorkspace` | the symmetry sets of the instances TLC checks | |

### Memberships

`role[u]` and `status[u]` are the columns of the row of user `u` in the one
organization modelled (the unique index on user and organization gives at most
one row; `"NONE"` when there is none). `req[r]` is a request in flight:

| Code | Action |
| --- | --- |
| `requireActiveMembership` and the assert on the requester | `Authorize` |
| `findTenantMembershipOrFail` and the checks of `changeMembershipRole` / `changeMembershipStatus` | `ReadTargetForRole`, `ReadTargetForStatus`, or `RefuseTarget` for a 4xx and for the 200 that writes nothing |
| the conditional `update` | `UpdateRole`, `UpdateStatus`; a WHERE that matches no row is the 409 |
| `leaveOrganization` | `ReadOwnMembership`, `UpdateLeft` |

A refused requester is a request that never starts. `Init` is any history of
an organization whose creator is OWNER: `createOrganization` writes the
organization and that row in one transaction.

### Invitations

Adds `inv` (the rows), `overdue` (whose `expires_at` has passed) and `call`
(requests in flight). Create is five actions, one per database call:
`AuthorizeInviter`, `CheckInvitee`, `ExpireForInvitee`, `CheckPending`,
`InsertInvitation`. Listing and cancelling share `AuthorizeManager` and
`ExpireForOrganization`; cancelling goes on with `ReadForCancel` and
`UpdateCancelled`. Accepting is a READ COMMITTED transaction without locks
before its first write: `ReadInvitation`, `ReadMembership`, and `CommitAccept`
for its writes, which become visible together. When the `UPDATE ... WHERE
status = LEFT` or the INSERT against the unique index fails, nothing is
written. The clock is abstracted to `TimePasses(i)`, after which invitation `i`
is overdue.

### SecurityVerifications

One scope (user, organization, purpose). `ver` holds the committed rows, `tx`
the open transactions. What a transaction has written stays in its record
(`expire`, `supersede`, `consume`) and locks those rows. An UPDATE is a start
(rows that match in the snapshot of the statement) and a finish (once the rows
are free, those that still match), the READ COMMITTED behaviour of PostgreSQL;
the INSERT waits for a transaction with a conflicting key and fails with 23505.
`SendMail`, `MailRejected` and `MailTimesOut` are the outcomes of `sendMail`,
`Abort` is any other error or the death of the process. `sent`, `wrong` and
`executed` are history variables used by the properties only.

The operation that consumes the authorization is the deletion of the
organization, the only one there is. It first holds the organization FOR UPDATE
(`LockOrganization`, `organization-deletion.service.ts:154-173`), then calls
`consumeAuthorization` (`StartConsume`, `FinishConsume`). The INSERT of a request
needs a key share of that row for its foreign key (`InsertAwaits`), while the
request still holds the row it has closed: the two may wait for each other
(`Deadlock`), and PostgreSQL rolls one of them back (`BreakDeadlock`). What the
deletion removes is in `OrganizationDeletion`; here the scope outlives the
operation, so that an authorization that could be used twice would show.

`OneTimeCode` says the same without any of the machinery: `Issue`, which closes
the open code in the same step, `Fail`, `Verify`, `Lapse` and `Use`. The
refinement mapping reads the committed rows only: `Phase` groups their statuses
into none, pending, verified and closed, and the failures and uses are the history
variables `wrong` and `executed`. Everything a transaction does
before its COMMIT is a stutter, and each COMMIT is exactly one step of
`OneTimeCode`, although a request commits up to three UPDATEs and an INSERT.

### Attachments

A message with an attachment is a row in PostgreSQL and an asset in
Cloudinary: `row[m]` and `asset[m]`. `call[c]` is a request:

| Code | Actions |
| --- | --- |
| `findDiscussionByIdForUser`, every early 4xx | `FindDiscussion`, `Refuse` |
| `uploadDiscussionAttachment` | `Upload`; `UploadFails` when the call ends in an error although the file was stored |
| `normalizeContent` after the upload | `RefuseContent` |
| `save(message)`, then `upsertDiscussionReadState` | `InsertMessage`, `CommitMessage`, `UpsertReadState`, or `SaveFails` at either |
| the `catch` block | `UndoUpload`, `UndoFails` |
| `deleteDiscussionMessage` | `FindMessage`, `DeleteAsset` (`DeleteAssetUnanswered`, `DeleteAssetFails`), `RemoveMessage` (`RemoveFails`) |

The two stores share no transaction, so some failures tear them apart, and the
code accepts that. `unsettled` is a history variable with the messages on which
that happened. It grows only at a failure that the code leaves unrepaired: an
upload that errs after storing, a blank content refused after the upload, a
failed undo, an undo of an upload whose row was saved (the read state failed),
a deletion that got no answer, a row that could not be removed after its asset,
a failed cleanup of a deleted organization, and a stop of the server. The
properties say that nothing else, no interleaving of requests that succeed,
tears the stores apart.

### OrganizationDeletion

One organization, with `frozen` (the discussions and messages that the
deletion's transaction has locked or deleted), `deletion[x]` (how far a
DELETE request is, and its list of external assets) and `other[o]`: a
transaction that creates a discussion, requests a code or accepts an
invitation, of which only the locks matter. The order of the statements is the
order of `deleteOrganizationData`:

| Code | Action |
| --- | --- |
| the OWNER check | `Allow` |
| `SELECT ... FOR UPDATE` on the organization | `LockOrganization`: waits for every open INSERT that names the organization (key-share lock), and makes later ones wait |
| `consumeAuthorization` | `Consume`: waits for a request that holds the verification |
| `FOR UPDATE` on the discussions | `LockDiscussions`: waits for inserted, uncommitted messages |
| `findExternalAttachments` | `ListAssets` |
| the ordered DELETEs | `DeleteMessages`, `DeleteDiscussions`, `DeleteInvitations`, `DeleteMemberships`, and `CommitDeletion` for the last of them with the COMMIT |
| `catch`, 40P01 to 409 | `Rollback` |
| `deleteExternalAttachments`, not awaited | `CleanUp` per asset, `EndCleanUp` |

The order inside an acceptance matters for its locks: a new member's
invitation is updated before the membership is inserted (`UpdateInvitation`,
`InsertMembership`, `CommitMembership`), a returning member's membership before
the invitation (`UpdateMembership`, `SaveInvitation`). `DeletionAwaits` and
`OtherAwaits` say who waits for whose lock; a `WaitCycle` is a deletion and
another transaction that wait for each other, and `BreakCycle` is PostgreSQL's
deadlock detector. `ServerStops` ends every request and detached
cleanup and rolls every open transaction back.

`AtomicDeletion` keeps the four variables that outlive a request (the
organization, its authorization, the discussions, the rows of the messages) and
deletes in one step, `Delete`, which takes an authorization. Here the mapping is
the identity: the deletion locks and lists in the statements before, its
DELETEs show only at the COMMIT, and what the requests beside it write is one
step each of `Authorize`, `Revoke`, `Create`, `Post` or `Remove`, impossible once
the organization is gone.

### Discussions

One discussion. `column` and `relation` are its row and its join tables, as
committed. Each operation is read, change, save:

| Code | Actions |
| --- | --- |
| `requireActiveMembership`, `assertCanManageDiscussion` | `Authorize`; every 4xx is `Refuse` |
| `updateDiscussion` with and without the context arrays | `ReadForUpdate`, `ReadForRetitle` |
| `updateDiscussionStatus` | `ReadForStatus` |
| `addDeveloperAssignments`, `replaceDeveloperAssignments` | `ReadForAssignment`, then `ResolveDevelopers` against the memberships of that moment |
| `removeDeveloperAssignment` | `ReadForUnassign` |
| `discussion-context.service.ts` | `ReadForRelate`, `ReadForUnrelate` |
| `discussionRepository.save(discussion)` | `Reload`, `Write`, or `SaveFails` |

TypeORM's `save` is two steps. It reloads the row with the relations that the
entity carries and computes the difference (`Reload`), then writes the
difference in one transaction (`Write`). `Loaded(op)` is the `relations` option
of the `findOne` that the operation uses: a relation that was not loaded is
undefined in the entity and neither compared nor written. Changes by other
requests between the read and the reload look like differences and are undone;
changes after the reload are not seen, and only the primary keys of the join
tables stop a second insert (`Insertable`). `stale` and `wereManagers` are
history variables for the properties. `title` stands for `type` too, and one
relation, `context`, for work modules, components and tags, which the code
treats alike; `updated_at` is `touchedAt` of `Messages`.

### Messages

TEXT messages of one discussion with their `created_at`, `readAt[u]`
(`last_read_at`) and `touchedAt` (`updated_at` of the discussion).

| Code | Actions |
| --- | --- |
| `createDiscussionMessage` | `BeginPost`, where PostgreSQL takes `created_at`; `CommitPost`; `MarkOwnPost`, where the server takes the `new Date()` of the read state |
| `markDiscussionAsRead` | `MarkAsRead` |
| the `INSERT ... ON CONFLICT` with GREATEST, shared by both | `UpsertReadState` |
| `updateDiscussionMessage` | `FindForEdit`, `ReloadPost`, then `UpdatePost` or, if the row is gone, `ReinsertPost` |
| `deleteDiscussionMessage` | `FindForDelete`, `RemovePost` |

The clocks of the server and of PostgreSQL are taken to agree, which a
deployment has to provide. A `Date` keeps milliseconds where PostgreSQL keeps
microseconds; the clock advances in half milliseconds, so that two instants may
share a millisecond (`Millis`). `Unread` is `buildUnreadConditionSql`. `answered`
and `seen` are history variables of the properties.

### Devices

`device[i]` is a row of `user_devices`, `eligible` the users that
`findActiveRecipientUserIdsExcludingActor` would find, `alive` the tokens that
Firebase accepts.

| Code | Actions |
| --- | --- |
| `upsertUserDevice` | `LookUp`; `InsertDevice`, or `InsertRefused` and `LookUpAgain` for the 23505 it handles; `ReloadDevice` and `UpdateDevice`, or `ReinsertDevice` for a row that is gone |
| `removeUserDeviceByToken` | `FindOwn`, `RemoveDevice` |
| `dispatchToActiveUsers` | `ChooseRecipients` |
| `sendToUsers` | `ReadTokens`, `Multicast`, `Prune`, and `PushEnds` for every way to stop before |
| what others do | `EligibilityChanges`, `TokenDies` |

Every write of a row tells the requests that have reloaded it (`overtaken`) and
the pushes whose recipients are chosen (`Watch`); both are history.

### Catalog and OrganizationSlugs

`Catalog` is one table, of tags (`indexed`) or of modules or components. A name is
a word with or without capitals; a word in `Wildcards` stands for a name with %
or _, which ILIKE matches with everything. Creating is `CheckNewName` and
`InsertEntry`; renaming is `ReadForRename`, `CheckRename`, `ReloadEntry` and
`WriteEntry`; every other change, `ReadForOtherChange`, saves the name it read.
`OrganizationSlugs` probes candidates (`ProbeSlug`) and inserts later
(`InsertOrganization`, `InsertOrganizationRefused`). A slug is the sequence of its
numeric suffixes, so that the name Acme 2 and the second Acme meet.

### Workspace

The five workspace modules have no variable in common, and what one sees of
another (a discussion touched, a member suspended, an organization deleted) is an
action of its own module that may happen at any time. Their product would only
interleave steps that do not affect each other, at the price of a product of
state spaces. So a behaviour of `Workspace` chooses a `part` at the start and
exercises it while the others rest. `PartsRefined` proves that such a behaviour
is one of every part.

## Runs

| Run | Instance | Shows |
| --- | --- | --- |
| `memberships` | 3 users, 3 requests | type, `RoleChangeWithinScope`, `AdminOnlyByOwner`, `StatusManagement`, and that the rows implement `MembershipLifecycle` |
| `invitations` | 2 users, 1 membership request, 2 invitations, 2 invitation requests, roles ADMIN, MEMBER and the refused OWNER | type, `OneActiveOwner`, `LiveInvitationsBounded`, `JoinsAreAcceptances`, `EndedInvitations`, `SuspensionEndsByReactivation`, and the lifecycle again |
| `verifications` | 3 transactions, 2 rows, 2 attempts, code valid for 2 ticks, authorization and cooldown 1, clock 0..2 | type, `OneOpenVerification`, `AttemptsAreCounted`, `OneOperationPerCode`, `CodeWasSent`, `OnlyTheDeletionDeadlocks`, `ClosedIsFinal`, and that the commits implement `OneTimeCode` |
| `verification_progress` | 2 transactions, 2 rows, 1 attempt, ticks of 1 | `TransactionsEnd` |
| `organization_deletion` | 2 deletions, 2 message requests, 2 other transactions, 2 messages, 2 discussions | type, `RowsHaveAssets`, `AssetsAccountedFor`, `NothingLeftForCascade`, and that the transaction implements `AtomicDeletion` |
| `deletion_progress` | 2 deletions, 1 message request, 2 other transactions, 1 message, 1 discussion | `DeletionEnds`: with two others, key shares overlap and two requests may be in a deadlock with the deletion one after the other |
| `discussions` (module `MCWorkspace`), part discussion | 3 requests, 3 edits in all, 2 users, 1 item, 2 values | `AssignedWereManagers`, `UnloadedRelationsKept`, `UndisturbedEditsAreExact` |
| part messages | 2 requests, 2 members, 1 message, clock 1..5 half milliseconds | `ReadMarksNeverGoBack`, `AuthorsHaveReadTheirOwn`, `UnseenIsUnread` |
| part devices | 2 requests, 1 push, 2 users, 1 token, 3 rows, multicast limit 1 | `PushesReachTheMembers`, `RegisteredUnlessOvertaken`, `RowsEndForCause` |
| part catalog | 2 requests, 2 entries, 2 words, one of them a wildcard | `DuplicatesAreRaced`, `TagsAreDistinct` |
| part slugs | 2 requests, base slugs acme and acme-2, 3 organizations | `SlugRefusedOnlyIfRaced`; `WorkspaceTypeOK` for all five parts |
| `stale_status`, `closed_invitation`, `duplicate_invitation`, `cooldown`, `lost_assignment` | smaller instances of the same | counterexamples, see Findings |

Bounds. Three requests are enough for one to be overtaken twice between its
read and its write, which is what every property about stale reads needs; the
requesters of the three may be the owner, an ADMIN and the target itself, hence
three users. One invitee with two invitations and two invitation requests gives
every race of two acceptances, of an acceptance with a cancellation, an
expiration or a listing, while the membership request suspends, reactivates or
leaves. Three transactions let two requests race while a verification or an
operation holds a row; two rows are the replaced code and its replacement (a
request that finds no fresh row ends like a failed one). The clock is long
enough for a code, an authorization and a cooldown to run out. A second
deletion finds the organization gone or takes over after a rollback; two
messages and two message requests put one upload on either side of the list of
assets, or an upload beside a deletion; two other transactions allow a
key-share lock beside a wait cycle. An edit of a discussion needs one other to
be overtaken between its read and its reload and a second to be overtaken again
between the reload and the write, hence three. `Rows`, `InvitationIds`,
`MaxClock`, `Messages`, `Discussions` (each is uploaded or created once) and
`MaxEdits` are, with those of the next paragraph, the only bounds that the
system lacks.

In the other parts, two writers are enough for a mark that is taken before a
post and written after it, and for an edit beside a deletion of the same
message; three writers with a clock of 4 have been checked as well (301,000
states). Five half milliseconds hold two instants of one millisecond, one
before and one after. Two device requests race for one token, while a push is
between its steps; the third row is an id of a token that was removed and
registered again. With one token, the side of the multicast limit where Firebase
refuses is an abort like any other (`PushEnds`). Two entries and two editors are
what it takes to make a duplicate; three organizations hold acme, acme-2 and
acme-2-2. `Posts`, `MaxTime`, `DeviceRows`, `CatalogEntries` and
`MaxOrganizations` are bounds of the instance. The parts share model values, so
that one symmetry group serves them all.
Symmetry is used on interchangeable users, requests, invitations, transactions
and rows in the safety runs, never in a liveness run. No run disables the
deadlock check: a request can always start or a step be taken.

Fairness. `FairSpec` of `SecurityVerifications`: strong fairness on `Advance(t)`
for each open transaction. A statement whose locks are free is executed; the rows
and the organization that these statements wait for are held in exclusive modes,
in which PostgreSQL lets nobody pass a waiter, so a transaction whose turn recurs
gets it (strong, not weak, fairness). That the INSERT is not always late for the
unique index, whose waiters PostgreSQL does not order, is an assumption. The call
to the mail provider ends at `MAIL_REQUEST_TIMEOUT_MS`, and the deadlock detector
runs. Starting a request or an operation, an answer of the provider, an abort and
the clock are not fair. `FairDeletionSpec` of `OrganizationDeletion`, for the same
reasons: strong fairness on the next statement of each deletion and of each other
transaction, weak fairness on the steps of message requests (a client library's
call returns) and on the deadlock detector. Nothing makes a request begin or fail,
or the server stop.

What no fairness gives is the FOR UPDATE of the organization among INSERTs. Their
key shares are compatible with each other, so a new one passes the deletion that
waits; as long as they overlap without a gap, `MayLockOrganization` is never true,
strong fairness says nothing, and no `lock_timeout` ends the wait. TLC shows such
a behaviour when two others may go on for ever, and `DeletionEnds` is therefore
stated under `OthersPause`: from some time on no further request for a
discussion, a code or a membership begins. Requests that are open by then, other
deletions and failures go on. The hypothesis is stronger than PostgreSQL needs
where the model takes many rows for one: a request that touches another
invitation or membership does not delay the DELETE of the first.

Each property of a passing run has a mutant, an operator in the same module
marked `Bug model:` that a plausible mistake in the code would amount to (a
column missing from a WHERE clause, a missing assert, a swapped transaction
boundary, a lock not taken); with it TLC finds the property violated.

## Findings

* `stale_status`: suspend and reactivate check the role of the target but their
  UPDATE is conditional on the status only (`memberships.service.ts:443`), while
  the comments (267-269, 489-490) put role and status together. An ADMIN's
  suspension of a DEVELOPER can land on an ADMIN promoted in between.
* `closed_invitation`: `acceptInvitation` saves ACCEPTED unconditionally
  (`organization-invitations.service.ts:391`, 411), so it can accept an
  invitation that was cancelled after it was read. Only the other direction is
  guarded (line 306).
* `duplicate_invitation`: the check for a live invitation and the INSERT are
  separate and unprotected (lines 190-225), against
  `docs/workspace-endpoints.md:1095`.
* `cooldown`: the comment at `security-verifications.service.ts:142-143` and
  `docs/workspace-endpoints.md:1483` expect the second of two simultaneous
  requests to collide with the index. If the first commits before the second's
  last closing UPDATE, that UPDATE supersedes the new row, the INSERT succeeds
  and a second code is sent within the cooldown. `OneOpenVerification` still
  holds.
* `lost_assignment`: `addDeveloperAssignments` saves the list it read with the
  new developers appended (`discussion.service.ts:690`, 692), so the developer
  another request has assigned in between is removed, although
  `docs/workspace-endpoints.md:446` has the operation only add. The other
  operations on assignments and context share the pattern.

Observed as well, and kept as exceptions in the properties because they are
their exact limit; where a document says otherwise it is named:

* A tag saved over a write that came after its reload may end with a
  `normalized_name` that is not its name in lower case: a change of capitals
  writes `name` alone (`workspace-catalog.service.ts:382-394`).
  `docs/workspace-endpoints.md:1698` has tags unique by normalized name, which
  the index ensures, and adds that two tags cannot differ only in their capitals,
  which torn rows may. `TagsAreDistinct` excludes such `torn` rows.
* The check of a new name uses ILIKE and `findOne`: a name with % or _ matches
  any entry, and of several matches one is compared. `DuplicatesAreRaced` excepts
  names with a wildcard, and names that two requests check before either is
  inserted, although `docs/workspace-endpoints.md:181` and 195 promise a 400 for
  every name in use.
* Saving an edited message that has been deleted meanwhile inserts it again
  (`discussion-message.service.ts:347`), with its `created_at` to the millisecond.
* A message counts as seen as soon as its INSERT has begun: one that commits
  after a mark was taken, with a `created_at` before it, is read although nobody
  saw it. `UnseenIsUnread` speaks of messages begun later.
* A request for a code that PostgreSQL chooses as the victim of the deadlock with
  a deletion answers 500: `requestVerification` knows only the 23505
  (`security-verifications.service.ts:167-175`), while a deletion turns 40P01 into
  a 409 (`organization-deletion.service.ts:130-132`, `docs/workspace-endpoints.md:1307`).
* INSERTs that name the organization and overlap without a gap keep a deletion
  waiting (`organization-deletion.service.ts:163`), see Fairness.
* A removal deletes by id (`user-device.service.ts:83`): if the token has been
  handed to another user since, that user's registration goes.
* One's own message may stay unread within the millisecond it was inserted in,
  because a `Date` is coarser than `created_at`.
* An acceptance that read its invitation as PENDING and the membership as LEFT
  re-admits the user even if another acceptance has spent the invitation and the
  user has left again in between (`organization-invitations.service.ts:377`).

## Proofs

Every safety property and every refinement that a passing run checks is a
theorem, for all values of the constants and without the bounds of the
instances: any number of users, requests, transactions, rows, messages and
devices. The assumptions are the named ones in the modules: `OwnerIsUser`,
`InvitedRolesAreRoles`, the types of the numeric constants, `NewStatusIsValue`,
`WildcardsAreWords`, `SlugConstants`, and that `"none"`, which stands for
something absent, is neither a message nor a token (`NoneIsNoMessage`,
`NoneIsNoToken`).

| Theorem | Property |
| --- | --- |
| `TypeCorrect`, `InvitationTypeCorrect` | `TypeOK`, `InvitationTypeOK` |
| `OwnerIsProtected`, `OwnerIsProtectedFromInvitations` | `OneActiveOwner` |
| `RoleChangesInScope` | `RoleChangeWithinScope` |
| `AdminsChosenByOwner` | `AdminOnlyByOwner` |
| `StatusesAreManaged` | `StatusManagement` |
| `DuplicatesAreBounded` | `LiveInvitationsBounded`, for finitely many requests in flight |
| `JoiningIsAccepting` | `JoinsAreAcceptances` |
| `EndedStayEnded` | `EndedInvitations` |
| `SuspensionLasts` | `SuspensionEndsByReactivation` |
| `MembershipsRefine`, `InvitationsRefine` | `ImplementsLifecycle` |
| `VerificationTypeCorrect` | `VerificationTypeOK` |
| `OneOpen` | `OneOpenVerification` |
| `EveryAttemptCounts` | `AttemptsAreCounted` |
| `OneUse` | `OneOperationPerCode` |
| `CommittedWasSent` | `CodeWasSent` |
| `ClosedStays` | `ClosedIsFinal` |
| `DeadlockTakesTheDeletion` | `OnlyTheDeletionDeadlocks` |
| `RefinesOneTimeCode` | `ImplementsOneTimeCode` |
| `DeletionTypeCorrect` | `DeletionTypeOK` |
| `MessagesKeepAssets` | `RowsHaveAssets` |
| `NoAssetForgotten` | `AssetsAccountedFor` |
| `CascadeFindsNothing` | `NothingLeftForCascade` |
| `RefinesAtomicDeletion` | `ImplementsAtomicDeletion` |
| `NoLongerCycle` | `CyclesAreBroken` of the proof module: every wait cycle contains a `WaitCycle` |
| `DiscussionTypeCorrect` | `TypeOK` of `Discussions`, part of `WorkspaceTypeOK` |
| `AssignmentsOfManagers` | `AssignedWereManagers` |
| `UnloadedKept` | `UnloadedRelationsKept` |
| `UndisturbedEdits` | `UndisturbedEditsAreExact` |
| `MarksStay` | `ReadMarksNeverGoBack` |
| `OwnMessagesRead` | `AuthorsHaveReadTheirOwn` |
| `UnseenStaysUnread` | `UnseenIsUnread` |
| `PushesToMembers` | `PushesReachTheMembers` |
| `LastRegistrationWins` | `RegisteredUnlessOvertaken` |
| `RegistrationsStay` | `RowsEndForCause` |
| `TagsStayDistinct` | `TagsAreDistinct` |
| `DuplicatesOnlyByRaces` | `DuplicatesAreRaced` |
| `SlugsRefusedOnlyIfRaced` | `SlugRefusedOnlyIfRaced` |
| `WorkspaceTypeCorrect` | `WorkspaceTypeOK` |
| `PartsRefined`, `WorkspaceSafe` | each part's specification, and the invariants of the parts, under `WorkspaceSpec` |

Four theorems are about the findings, and say where each of them ends. What the
runs refute is not true of the program, but the code does guarantee something
next to it, and the two together are what a repair can rely on:

* `StatusesAreManaged` (beside `stale_status`): the requester of a suspension or
  reactivation is another user and had read a role in its scope, and all that
  can have happened to that role since is a promotion to ADMIN.
* `EndedStayEnded` (beside `closed_invitation`): ACCEPTED is never taken back, and
  a CANCELLED or EXPIRED row changes only by the commit of an acceptance that was
  under way, with its membership.
* `DuplicatesAreBounded` and `OneLiveWithoutTheGap` (beside
  `duplicate_invitation`): a user's live invitations, with the requests about to
  insert one more, never outnumber the requests in flight; and if two requests
  for one user are never between the check and the INSERT together
  (`OneInsertAtATime`), there is at most one. The hypothesis is what a lock or a
  partial unique index would establish, and sequential requests satisfy it.
* `CooldownOfOneRequest` (beside `cooldown`): as long as one request of the scope
  is under way at a time (`OneRequestAtATime`), with any verifications and
  operations beside it, the cooldown holds.

The argument. None of the safety properties is inductive: an UPDATE in flight
is harmless only because of what the request checked before it.
`MembershipInv` adds that to the types and to `OneActiveOwner`: a request about
to write a role holds two roles in the scope of the role it read for its
requester, one about to suspend has a target other than its requester and other
than the owner, one about to leave is not the owner. Roles may have moved on
since, so the invariant speaks of the values in the request, and the WHERE
clause ties them to the row at the moment of the write. `InvitationInv` adds,
for each invitation request, that its user is not the owner and its role is
grantable where it matters, that a read invitation exists and still has the
user and role that were read, and that every existing invitation is for
somebody with a grantable role. Each step of the composition is then one of
three kinds (`StepKinds`): a step of `Memberships`, a step that changes no
membership and neither accepts an invitation nor takes one back, or a joining
commit; every theorem about invitations is a case analysis over the three.

`LiveInvitationsBounded` counts, and is inductive with the finiteness of what it
counts (`BoundInv`). Three kinds of steps matter (`LiveSteps`): one that leaves
no user with more live invitations or inserting requests, one that finds no live
invitation for a user, after which the count is that of the inserting requests,
and an INSERT, which turns one inserting request into one live invitation. The
same three cases give `OneLiveWithoutTheGap`.

`DiscussionInv` says of every request that what its entity holds, and what it
is about to insert, are users that were managers or items of the organization.
`AssignedWereManagers` alone is not inductive, because a stale save may insert
what was read long ago; with the requests included, each read copies known
entries, `ResolveDevelopers` adds managers of that moment, and a write inserts
only from the request (`WriteKeeps`). `EntityIsFound` and `RequestMoves` carry
the bookkeeping for all the reads at once.

`ExactInv` adds to it that a request that is not stale holds the discussion as it
is now but for its operation's own change (`Edited`), and after the reload the
exact difference; whoever else writes makes it stale. So an undisturbed save
turns the discussion into the entity (`SavesEntity`).

`VerificationInv` is an argument about a lock manager. The locks of open
transactions are disjoint, what a transaction holds is as it read it, and the
transaction that has inserted is alone in that and is about to close every open
row; so a COMMIT writes rows that nobody has changed since. Each property is then a fact about committed rows (`RowsInv`), and
the refinement a simulation, step by step: commits of a request, a failure, a
lapse, a verification and an operation are `Issue`, `Fail`, `Lapse`, `Verify` and
`Use`, everything else a stutter.

`DeadlockTakesTheDeletion` is an argument about hold-and-wait. Of the rows of a
scope at most one is open, and only open rows are picked by an UPDATE or kept by
a transaction. So a transaction that holds a row, or has inserted one, waits for
nothing more but the organization (`HoldersAwaitTheOrganization`), and the one
that holds the organization waits for nothing but a row (`OperationsAwaitRows`).
A transaction that holds neither blocks nobody. In any set of waiting
transactions there is then an operation that waits for the row of a request
which waits for the organization, the pair called `Deadlock`. `WaitInv` adds to
`VerificationInv` that a running UPDATE has picked at most one row.

`NoLongerCycle` is the same for `OrganizationDeletion`, over its coarser locks. A
transaction other than a deletion waits only for a deletion that has its first
lock, and a deletion that has it waits for no other deletion, only for one of the
others, which in turn waits for just that lock or one taken after it. So whatever
set of transactions wait for one another, two of them are a `WaitCycle`, and
`BreakCycle` overlooks none.

`DeletionInv` has a part per message (`Local`: in which of row, asset, request,
list and cleanup it may be, and which combinations are impossible) and a part
per statement of the deletion (`LocksInv`: after which locks nobody can have an
uncommitted message, discussion, request or acceptance any more).
`NothingLeftForCascade` needs the second, `RowsHaveAssets` and
`AssetsAccountedFor` need both.

`RefinesAtomicDeletion` adds `AtomicInv`: from its `consumeAuthorization` on a
deletion has the authorization and excludes those who would close or replace it,
so that the authorization that `Delete` takes is still there at the commit; an
uncommitted message is in a discussion that exists; and an organization that is
gone has no discussion, message, authorization or creation under way left
(`Emptied`), so that no other request can take a step of `AtomicDeletion` after it.

`MessageInv` says that the rows of a message, in the table and in the hands of
requests, have one author and one time up to the millisecond (an edit that brings
a message back has lost the rest of it), that every mark is a `Date` of the past,
that an answered post is covered by its author's mark, and that a mark in flight
covers only messages that were there when it was taken.

`DeviceInv` follows the same scheme: a removal found its requester's row, an
update that was not overtaken knows whether the row's user differs, and what a
push remembers of steady and foreign tokens is true of the rows as they are.
`CatalogInv`: a row in hand is coherent unless its entry is torn, the other
columns are as the reload found them unless a write came late, and a checked
name is unused, unchanged or a wildcard until somebody writes the table.
`SlugInv`: a candidate found free and in use by now was taken meanwhile.

Only model-checked: liveness (`TransactionsEnd`, `DeletionEnds`), which the prover
cannot treat.

## Plan

Done, in the order of importance the modules were planned in: memberships,
invitations, verifications, deletion with attachments, edits of discussions;
then messages and read states, devices and pushes, the catalog, the slugs, their
composition; and the proofs of all of them. What a further step could add:

1. Other changes of a catalog entry (its active flag, the components of a module)
   as columns of their own, to state what a stale save of one does to another.
2. One push with more tokens than `MulticastLimit`, which takes a larger instance
   of `Devices` than the run has room for.
3. Proved: for `lost_assignment`, as for the other findings, that additions only
   add as long as no two edits overlap.
4. `Discussions` composed with `Messages`, so that `touchedAt` is written by the
   edits themselves; and the recipients of a push taken from `Memberships`.

The runs have a natural size: a property of a modelled component joins the run
of its module before a new run is opened.

## Not modelled

Hashing, token signing and code generation, validation of bodies, wording of
answers and notifications, pagination and filters of listings, wiring, and the
exception filter: none of it takes part in the ordering of steps. Signing
up, logging in and searching are single statements on `users`. Changing global
roles and changing a password each read the user and save it outside a
transaction, so the second may write back roles that the first has replaced
since (`auth.service.ts:85,105`); these two operations are left out, as no
modelled component takes part in that race. `me`
only reads, but for the expiration that `Invitations` has. The providers of mail,
push and files are modelled by their answers to the calls of this code.
