------------------------------ MODULE Devices ------------------------------
(***************************************************************************)
(* The FCM tokens of users (user-device.service.ts) and the pushes of one  *)
(* organization (workspace-notification.service.ts,                        *)
(* workspace-push-notification.service.ts).                                *)
(*                                                                         *)
(* A push is dispatched in four steps: the recipients are chosen, their    *)
(* tokens are read, Firebase is called, the refused tokens are deleted.    *)
(* Meanwhile people are suspended, and devices change hands.               *)
(***************************************************************************)
EXTENDS Naturals, FiniteSets

CONSTANTS
  Owners,         \* the users
  Tokens,         \* the registration tokens
  DeviceRows,     \* the ids of the rows that may exist at the same time (a bound)
  DeviceCalls,    \* the requests that may be in flight
  Dispatches,     \* the pushes that may be under way
  MulticastLimit  \* how many tokens Firebase accepts in one call

ASSUME MulticastLimitIsNat == MulticastLimit \in Nat

\* "none" stands for the columns of a row that is not there.
ASSUME NoneIsNoToken == "none" \notin Tokens

VARIABLES
  device,      \* device[i]: the row with id i
  eligible,    \* the users with isActive and an ACTIVE membership
  alive,       \* the tokens that Firebase accepts
  deviceCall,  \* deviceCall[c]: where request c is
  dispatch     \* dispatch[d]: where push d is

deviceVars == <<device, eligible, alive, deviceCall, dispatch>>

Devices == [token : Tokens, user : Owners]

NoDevice == [token |-> "none", user |-> "none"]

NoCall == [pc |-> "idle"]

NoDispatch == [pc |-> "idle"]

\* History: overtaken, another step wrote the row since this request reloaded
\* it; had, the row was the requester's when it was found.
CallStates ==
  {NoCall}
  \cup [pc : {"absent", "lookUpAgain"}, user : Owners, token : Tokens]
  \cup [pc : {"found", "inserting"}, user : Owners, token : Tokens, id : DeviceRows]
  \cup [pc : {"updating"}, user : Owners, token : Tokens, id : DeviceRows,
        newUser : BOOLEAN, overtaken : BOOLEAN]
  \cup [pc : {"removing"}, id : DeviceRows, had : BOOLEAN]

\* History of a push: steady, who has held which token and been eligible since
\* it began; outsiders, the users that have never been eligible since (or are
\* its actor); foreign, the tokens that only outsiders have held since.
DispatchStates ==
  {NoDispatch}
  \cup [pc : {"chosen", "read"}, actor : Owners, recipients : SUBSET Owners,
        tokens : SUBSET Tokens, steady : SUBSET (Tokens \X Owners),
        outsiders : SUBSET Owners, foreign : SUBSET Tokens]
  \cup [pc : {"sent"}, refused : SUBSET Tokens]

DeviceTypeOK ==
  /\ device \in [DeviceRows -> Devices \cup {NoDevice}]
  /\ eligible \subseteq Owners
  /\ alive \subseteq Tokens
  /\ deviceCall \in [DeviceCalls -> CallStates]
  /\ dispatch \in [Dispatches -> DispatchStates]

DeviceInit ==
  /\ device = [i \in DeviceRows |-> NoDevice]
  /\ eligible = Owners
  /\ alive = Tokens
  /\ deviceCall = [c \in DeviceCalls |-> NoCall]
  /\ dispatch = [d \in Dispatches |-> NoDispatch]

-----------------------------------------------------------------------------
RowsOf(k) == {i \in DeviceRows : device[i] # NoDevice /\ device[i].token = k}

Holds(rows) ==
  {<<rows[i].token, rows[i].user>> : i \in {j \in DeviceRows : rows[j] # NoDevice}}

Foreign(holds, outsiders) ==
  {k \in Tokens : \A h \in holds : h[1] = k => h[2] \in outsiders}

\* What a push under way makes of new rows and a new set of eligible users.
Watch(push, rows, members) ==
  LET outsiders == push.outsiders \ (members \ {push.actor}) IN
  IF push.pc = "chosen"
  THEN [push EXCEPT !.steady = {h \in @ \cap Holds(rows) : h[2] \in members},
                    !.outsiders = outsiders,
                    !.foreign = @ \cap Foreign(Holds(rows), outsiders)]
  ELSE push

\* The rows become these; c, the request that wrote them, is done.
RowsBecome(rows) ==
  /\ device' = rows
  /\ dispatch' = [d \in Dispatches |-> Watch(dispatch[d], rows, eligible)]

Answered(c, rows) ==
  deviceCall' = [b \in DeviceCalls |->
    CASE b = c -> NoCall
      [] b # c /\ deviceCall[b].pc = "updating" /\ rows[deviceCall[b].id] # device[deviceCall[b].id]
           -> [deviceCall[b] EXCEPT !.overtaken = TRUE]
      [] OTHER -> deviceCall[b]]

Advances(c, state) ==
  /\ deviceCall' = [deviceCall EXCEPT ![c] = state]
  /\ UNCHANGED <<device, eligible, alive, dispatch>>

-----------------------------------------------------------------------------
(* upsertUserDevice                                                        *)

FoundRow(c, u, k, i) == Advances(c, [pc |-> "found", user |-> u, token |-> k, id |-> i])

\* getByToken.
LookUp(c, u, k) ==
  /\ deviceCall[c] = NoCall
  /\ \/ \E i \in RowsOf(k) : FoundRow(c, u, k, i)
     \/ /\ RowsOf(k) = {}
        /\ Advances(c, [pc |-> "absent", user |-> u, token |-> k])

\* Ids are random: none is used by a row, or known to a request, already.
FreshIds ==
  {i \in DeviceRows : /\ device[i] = NoDevice
                      /\ \A c \in DeviceCalls : "id" \in DOMAIN deviceCall[c] => deviceCall[c].id # i}

InsertDevice(c) ==
  LET call == deviceCall[c] IN
  /\ call.pc = "absent"
  /\ RowsOf(call.token) = {}
  /\ \E i \in FreshIds :
       LET rows == [device EXCEPT ![i] = [token |-> call.token, user |-> call.user]] IN
       /\ RowsBecome(rows)
       /\ Answered(c, rows)
  /\ UNCHANGED <<eligible, alive>>

\* 23505 on fcm_token: somebody registered the token since.
InsertRefused(c) ==
  /\ deviceCall[c].pc = "absent"
  /\ RowsOf(deviceCall[c].token) # {}
  /\ Advances(c, [deviceCall[c] EXCEPT !.pc = "lookUpAgain"])

\* Gone again: 500.
LookUpAgain(c) ==
  LET call == deviceCall[c] IN
  /\ call.pc = "lookUpAgain"
  /\ \/ \E i \in RowsOf(call.token) : FoundRow(c, call.user, call.token, i)
     \/ RowsOf(call.token) = {} /\ Advances(c, NoCall)

\* save(device) looks for the row by id, and compares the user.
ReloadDevice(c) ==
  LET call == deviceCall[c] IN
  /\ call.pc = "found"
  /\ IF device[call.id] = NoDevice
     THEN Advances(c, [call EXCEPT !.pc = "inserting"])
     ELSE Advances(c, [pc |-> "updating", user |-> call.user, token |-> call.token, id |-> call.id,
                       newUser |-> device[call.id].user # call.user, overtaken |-> FALSE])

\* Bug model: a registered token keeps its user.
UserKept(call) == device[call.id].user

\* The user is written when it differed at the reload.
UserWritten(call) == IF call.newUser THEN call.user ELSE device[call.id].user

\* The UPDATE of a row that is gone by now affects nothing, without an error.
UpdateDevice(c) ==
  LET call == deviceCall[c]
      rows == IF device[call.id] = NoDevice THEN device
              ELSE [device EXCEPT ![call.id].user = UserWritten(call)]
  IN /\ call.pc = "updating"
     /\ RowsBecome(rows)
     /\ Answered(c, rows)
     /\ UNCHANGED <<eligible, alive>>

\* The row was not there any more: it is inserted, with the id it had, unless
\* its token was registered again (23505, a 500 this time).
ReinsertDevice(c) ==
  LET call == deviceCall[c]
      rows == [device EXCEPT ![call.id] = [token |-> call.token, user |-> call.user]]
  IN /\ call.pc = "inserting"
     /\ device[call.id] = NoDevice /\ RowsOf(call.token) = {}
     /\ RowsBecome(rows)
     /\ Answered(c, rows)
     /\ UNCHANGED <<eligible, alive>>

-----------------------------------------------------------------------------
(* removeUserDeviceByToken                                                 *)

\* WHERE fcm_token = :token AND user_id = :user
OwnedBy(i, u) == device[i].user = u

FindOwn(c, u, k) ==
  /\ deviceCall[c] = NoCall
  /\ \E i \in RowsOf(k) :
       /\ OwnedBy(i, u)
       /\ Advances(c, [pc |-> "removing", id |-> i, had |-> device[i].user = u])

\* remove(device) deletes by id, whoever has the row by now.
RemoveDevice(c) ==
  LET rows == [device EXCEPT ![deviceCall[c].id] = NoDevice] IN
  /\ deviceCall[c].pc = "removing"
  /\ RowsBecome(rows)
  /\ Answered(c, rows)
  /\ UNCHANGED <<eligible, alive>>

\* Any other error, or the death of the process.
DeviceCallFails(c) == deviceCall[c] # NoCall /\ Advances(c, NoCall)

-----------------------------------------------------------------------------
(* dispatchToActiveUsers and sendToUsers                                   *)

\* Bug model: every user with a device is a recipient.
RecipientsEveryone(actor) == {h[2] : h \in Holds(device)} \ {actor}

\* findActiveRecipientUserIdsExcludingActor.
Recipients(actor) == ({h[2] : h \in Holds(device)} \cap eligible) \ {actor}

PushAdvances(d, state) ==
  /\ dispatch' = [dispatch EXCEPT ![d] = state]
  /\ UNCHANGED <<device, eligible, alive, deviceCall>>

\* With no recipient there is no push.
ChooseRecipients(d, actor) ==
  LET outsiders == (Owners \ eligible) \cup {actor} IN
  /\ dispatch[d] = NoDispatch
  /\ Recipients(actor) # {}
  /\ PushAdvances(d, [pc |-> "chosen", actor |-> actor, recipients |-> Recipients(actor),
                      tokens |-> {},
                      steady |-> {h \in Holds(device) : h[2] \notin outsiders},
                      outsiders |-> outsiders, foreign |-> Foreign(Holds(device), outsiders)])

\* Bug model: the ids of the devices in place of their tokens.
IdsOf(users) == {i \in DeviceRows : device[i] # NoDevice /\ device[i].user \in users}

\* findByUserIds.
TokensOf(users) == {k \in Tokens : \E i \in RowsOf(k) : device[i].user \in users}

ReadTokens(d) ==
  /\ dispatch[d].pc = "chosen"
  /\ PushAdvances(d, [dispatch[d] EXCEPT !.pc = "read", !.tokens = TokensOf(dispatch[d].recipients)])

\* Bug model: whatever error Firebase reports, the token is deleted.
FailedTokens(d, failed) == failed

\* isInvalidRegistrationTokenErrorCode: only a token that Firebase refuses.
RefusedTokens(d, failed) == failed \ alive

\* One multicast: some tokens fail, the refused ones for good.
Multicast(d, failed) ==
  /\ dispatch[d].pc = "read"
  /\ dispatch[d].tokens # {} /\ Cardinality(dispatch[d].tokens) <= MulticastLimit
  /\ dispatch[d].tokens \ alive \subseteq failed /\ failed \subseteq dispatch[d].tokens
  /\ PushAdvances(d, [pc |-> "sent", refused |-> RefusedTokens(d, failed)])

\* removeByTokenList, by token.
Prune(d) ==
  LET rows == [i \in DeviceRows |->
        IF device[i].token \in dispatch[d].refused THEN NoDevice ELSE device[i]]
  IN /\ dispatch[d].pc = "sent"
     /\ device' = rows
     /\ deviceCall' = [b \in DeviceCalls |->
          IF deviceCall[b].pc = "updating" /\ rows[deviceCall[b].id] # device[deviceCall[b].id]
          THEN [deviceCall[b] EXCEPT !.overtaken = TRUE] ELSE deviceCall[b]]
     /\ dispatch' = [e \in Dispatches |->
          IF e = d THEN NoDispatch ELSE Watch(dispatch[e], rows, eligible)]
     /\ UNCHANGED <<eligible, alive>>

\* No token at all; or the call fails, more than MulticastLimit tokens
\* included: nobody is pushed to, and the caller only logs it.
PushEnds(d) == dispatch[d] # NoDispatch /\ PushAdvances(d, NoDispatch)

-----------------------------------------------------------------------------
\* A suspension, a departure or a reactivation (module Memberships).
EligibilityChanges(u) ==
  /\ eligible' \in {eligible \cup {u}, eligible \ {u}}
  /\ dispatch' = [d \in Dispatches |-> Watch(dispatch[d], device, eligible')]
  /\ UNCHANGED <<device, alive, deviceCall>>

\* The application is removed from the device: Firebase refuses the token from
\* now on.
TokenDies(k) ==
  /\ alive' = alive \ {k}
  /\ UNCHANGED <<device, eligible, deviceCall, dispatch>>

DeviceCallStep(c) ==
  \/ \E u \in Owners, k \in Tokens : LookUp(c, u, k) \/ FindOwn(c, u, k)
  \/ InsertDevice(c) \/ InsertRefused(c) \/ LookUpAgain(c)
  \/ ReloadDevice(c) \/ UpdateDevice(c) \/ ReinsertDevice(c)
  \/ RemoveDevice(c) \/ DeviceCallFails(c)

DispatchStep(d) ==
  \/ \E u \in Owners : ChooseRecipients(d, u)
  \/ ReadTokens(d)
  \/ \E failed \in SUBSET Tokens : Multicast(d, failed)
  \/ Prune(d) \/ PushEnds(d)

DeviceNext ==
  \/ \E c \in DeviceCalls : DeviceCallStep(c)
  \/ \E d \in Dispatches : DispatchStep(d)
  \/ \E u \in Owners : EligibilityChanges(u)
  \/ \E k \in Tokens : TokenDies(k)

DeviceSpec == DeviceInit /\ [][DeviceNext]_deviceVars

-----------------------------------------------------------------------------
(* Properties.                                                             *)

\* However people are suspended and devices change hands while a push is under
\* way, it goes to every device that one eligible user other than the actor has
\* held all the time, and to none that only the actor and outsiders have held
\* (workspace-notification.service.ts:33-46,
\* workspace-push-notification.service.ts:112-114).
PushesReachTheMembers ==
  \A d \in Dispatches : dispatch[d].pc = "read" =>
    /\ {h[1] : h \in dispatch[d].steady} \subseteq dispatch[d].tokens
    /\ dispatch[d].tokens \cap dispatch[d].foreign = {}

\* Of registrations of a token that race, the one answered last has it: the
\* answer of an update means the row is the requester's, unless somebody wrote
\* the row between its reload and its UPDATE (user-device.service.ts:43-67).
RegisteredUnlessOvertaken ==
  [][\A c \in DeviceCalls :
       (deviceCall[c].pc = "updating" /\ UpdateDevice(c) /\ ~deviceCall[c].overtaken)
         => device'[deviceCall[c].id].user = deviceCall[c].user]_deviceVars

\* A device stays registered until Firebase refuses its token or a user who had
\* that very row removes it: no push that fails otherwise, and nobody else's
\* removal, takes it away (user-device.service.ts:71-83,
\* workspace-push-notification.service.ts:56-77).
RowsEndForCause ==
  [][\A i \in DeviceRows : device[i] # NoDevice /\ device'[i] = NoDevice =>
       \/ device[i].token \notin alive
       \/ \E c \in DeviceCalls : /\ deviceCall[c].pc = "removing" /\ deviceCall[c].id = i
                                 /\ deviceCall[c].had]_deviceVars

=============================================================================
