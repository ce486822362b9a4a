---------------------------- MODULE DevicesProofs ----------------------------
(***************************************************************************)
(* Theorems about Devices, for any number of users, tokens, requests and   *)
(* pushes.                                                                 *)
(***************************************************************************)
EXTENDS Devices, TLAPS

\* A removal found its requester's row; until the row is written, an update has
\* read correctly whether it changes the user.
CallOK(call, rows) ==
  /\ call.pc = "removing" => call.had
  /\ call.pc = "updating" /\ ~call.overtaken =>
       /\ rows[call.id] # NoDevice
       /\ call.newUser <=> rows[call.id].user # call.user

\* While a push has its recipients only: steady and foreign are true of the rows
\* as they are; outsiders are no recipients, and the steady ones all are.
ChosenOK(push, rows) ==
  /\ push.recipients \cap push.outsiders = {}
  /\ push.steady \subseteq Holds(rows)
  /\ \A h \in push.steady : h[2] \in push.recipients
  /\ push.foreign \subseteq Foreign(Holds(rows), push.outsiders)

PushOK(push, rows, accepted) ==
  /\ push.pc = "chosen" => ChosenOK(push, rows)
  /\ push.pc = "read" =>
       /\ {h[1] : h \in push.steady} \subseteq push.tokens
       /\ push.tokens \cap push.foreign = {}
  /\ push.pc = "sent" => push.refused \cap accepted = {}

DeviceInv ==
  /\ DeviceTypeOK
  /\ \A c \in DeviceCalls : CallOK(deviceCall[c], device)
  /\ \A d \in Dispatches : PushOK(dispatch[d], device, alive)

Updating == [pc : {"updating"}, user : Owners, token : Tokens, id : DeviceRows,
             newUser : BOOLEAN, overtaken : BOOLEAN]

UnderWay == [pc : {"chosen", "read"}, actor : Owners, recipients : SUBSET Owners,
             tokens : SUBSET Tokens, steady : SUBSET (Tokens \X Owners),
             outsiders : SUBSET Owners, foreign : SUBSET Tokens]

-----------------------------------------------------------------------------
(* Types.                                                                  *)

LEMMA RowTypes ==
  /\ NoDevice \notin Devices
  /\ \A r \in Devices : r.token \in Tokens /\ r.user \in Owners
  BY NoneIsNoToken DEF NoDevice, Devices

LEMMA CallTypes ==
  /\ NoCall \in CallStates /\ NoCall.pc = "idle"
  /\ Updating \subseteq CallStates
  /\ \A s \in CallStates : s.pc = "updating" => s \in Updating
  BY DEF CallStates, NoCall, Updating

LEMMA PushTypes ==
  /\ NoDispatch \in DispatchStates /\ NoDispatch.pc = "idle"
  /\ UnderWay \subseteq DispatchStates
  /\ \A s \in DispatchStates : s.pc \in {"chosen", "read"} => s \in UnderWay
  BY DEF DispatchStates, NoDispatch, UnderWay

LEMMA HoldsTypes ==
  ASSUME NEW rows \in [DeviceRows -> Devices \cup {NoDevice}]
  PROVE  /\ Holds(rows) \subseteq Tokens \X Owners
         /\ \A i \in DeviceRows : rows[i] # NoDevice => <<rows[i].token, rows[i].user>> \in Holds(rows)
         /\ \A h \in Holds(rows) :
              \E i \in DeviceRows : rows[i] # NoDevice /\ rows[i].token = h[1] /\ rows[i].user = h[2]
  BY RowTypes DEF Holds

LEMMA InitialDevices == DeviceInit => DeviceInv
  BY CallTypes, PushTypes DEF DeviceInit, DeviceInv, DeviceTypeOK, CallOK, PushOK

-----------------------------------------------------------------------------
(* The three ways to keep the invariant.                                   *)

\* A request goes on without writing.
LEMMA CallMoves ==
  ASSUME DeviceInv, NEW c \in DeviceCalls, NEW s \in CallStates, Advances(c, s), CallOK(s, device)
  PROVE  DeviceInv'
<1>1. /\ UNCHANGED <<device, eligible, alive, dispatch>>
      /\ deviceCall' = [deviceCall EXCEPT ![c] = s]
  BY DEF Advances
<1>2. DeviceTypeOK'
  BY <1>1 DEF DeviceInv, DeviceTypeOK
<1>3. \A b \in DeviceCalls : CallOK(deviceCall'[b], device')
  BY <1>1 DEF DeviceInv, DeviceTypeOK
<1>. QED
  BY <1>1, <1>2, <1>3 DEF DeviceInv

\* A push goes on without writing.
LEMMA PushMoves ==
  ASSUME DeviceInv, NEW d \in Dispatches, NEW s \in DispatchStates, PushAdvances(d, s),
         PushOK(s, device, alive)
  PROVE  DeviceInv'
<1>1. /\ UNCHANGED <<device, eligible, alive, deviceCall>>
      /\ dispatch' = [dispatch EXCEPT ![d] = s]
  BY DEF PushAdvances
<1>2. DeviceTypeOK'
  BY <1>1 DEF DeviceInv, DeviceTypeOK
<1>3. \A e \in Dispatches : PushOK(dispatch'[e], device', alive')
  BY <1>1 DEF DeviceInv, DeviceTypeOK
<1>. QED
  BY <1>1, <1>2, <1>3 DEF DeviceInv

\* A push under way sees new rows or other members.
LEMMA WatchKeeps ==
  ASSUME NEW push \in DispatchStates, NEW old, NEW rows, NEW members,
         PushOK(push, old, alive)
  PROVE  /\ Watch(push, rows, members) \in DispatchStates
         /\ PushOK(Watch(push, rows, members), rows, alive)
<1>1. CASE push.pc = "chosen"
  <2> DEFINE w == Watch(push, rows, members)
             outsiders == push.outsiders \ (members \ {push.actor})
             steady == {h \in push.steady \cap Holds(rows) : h[2] \in members}
             foreign == push.foreign \cap Foreign(Holds(rows), outsiders)
  <2>1. push \in UnderWay
    BY <1>1, PushTypes
  <2>2. w = [push EXCEPT !.steady = steady, !.outsiders = outsiders, !.foreign = foreign]
    BY <1>1 DEF Watch
  <2>3. /\ steady \subseteq push.steady \cap Holds(rows)
        /\ outsiders \subseteq push.outsiders
        /\ foreign \subseteq push.foreign \cap Foreign(Holds(rows), outsiders)
    OBVIOUS
  <2>4. ChosenOK(push, old)
    BY <1>1 DEF PushOK
  <2>. HIDE DEF w, outsiders, steady, foreign
  <2>5. /\ w \in UnderWay /\ w.pc = "chosen" /\ w.recipients = push.recipients
        /\ w.steady = steady /\ w.outsiders = outsiders /\ w.foreign = foreign
    BY <1>1, <2>1, <2>2, <2>3 DEF UnderWay
  <2>6. ChosenOK(w, rows)
    BY <2>3, <2>4, <2>5 DEF ChosenOK
  <2>7. w \in DispatchStates /\ PushOK(w, rows, alive)
    BY <2>5, <2>6, PushTypes DEF PushOK
  <2>. QED
    BY <2>7 DEF w
<1>2. CASE push.pc # "chosen"
  BY <1>2 DEF Watch, PushOK
<1>. QED
  BY <1>1, <1>2

\* The request is told that its row was written.
Told(call, rows) ==
  IF call.pc = "updating" /\ rows[call.id] # device[call.id]
  THEN [call EXCEPT !.overtaken = TRUE] ELSE call

LEMMA ToldKeeps ==
  ASSUME NEW call \in CallStates, NEW rows, CallOK(call, device)
  PROVE  Told(call, rows) \in CallStates /\ CallOK(Told(call, rows), rows)
<1>1. CASE call.pc = "updating" /\ rows[call.id] # device[call.id]
  <2>1. call \in Updating /\ Told(call, rows) = [call EXCEPT !.overtaken = TRUE]
    BY <1>1, CallTypes DEF Told
  <2>2. /\ Told(call, rows) \in Updating
        /\ Told(call, rows).pc = "updating" /\ Told(call, rows).overtaken
    BY <2>1 DEF Updating
  <2>. QED
    BY <2>2, CallTypes DEF CallOK
<1>2. CASE ~(call.pc = "updating" /\ rows[call.id] # device[call.id])
  BY <1>2 DEF Told, CallOK
<1>. QED
  BY <1>1, <1>2

\* The rows change, and everybody else is told.
LEMMA RowsWritten ==
  ASSUME DeviceInv, NEW rows \in [DeviceRows -> Devices \cup {NoDevice}], device' = rows,
         UNCHANGED <<eligible, alive>>,
         deviceCall' = [b \in DeviceCalls |-> deviceCall'[b]],
         \A b \in DeviceCalls : deviceCall'[b] \in {NoCall, Told(deviceCall[b], rows)},
         dispatch' = [e \in Dispatches |-> dispatch'[e]],
         \A e \in Dispatches : dispatch'[e] \in {NoDispatch, Watch(dispatch[e], rows, eligible)}
  PROVE  DeviceInv'
<1>1. ASSUME NEW b \in DeviceCalls
      PROVE  deviceCall'[b] \in CallStates /\ CallOK(deviceCall'[b], rows)
  <2>1. NoCall \in CallStates /\ CallOK(NoCall, rows)
    BY CallTypes DEF CallOK
  <2>2. Told(deviceCall[b], rows) \in CallStates /\ CallOK(Told(deviceCall[b], rows), rows)
    BY ToldKeeps DEF DeviceInv, DeviceTypeOK
  <2>. QED
    BY <2>1, <2>2
<1>2. ASSUME NEW e \in Dispatches
      PROVE  dispatch'[e] \in DispatchStates /\ PushOK(dispatch'[e], rows, alive)
  <2>1. NoDispatch \in DispatchStates /\ PushOK(NoDispatch, rows, alive)
    BY PushTypes DEF PushOK
  <2>2. /\ Watch(dispatch[e], rows, eligible) \in DispatchStates
        /\ PushOK(Watch(dispatch[e], rows, eligible), rows, alive)
    BY WatchKeeps DEF DeviceInv, DeviceTypeOK
  <2>. QED
    BY <2>1, <2>2
<1>3. DeviceTypeOK'
  BY <1>1, <1>2 DEF DeviceInv, DeviceTypeOK
<1>. QED
  BY <1>1, <1>2, <1>3 DEF DeviceInv

\* RowsBecome and Answered are such a change.
LEMMA CallWrites ==
  ASSUME DeviceInv, NEW c \in DeviceCalls, NEW rows \in [DeviceRows -> Devices \cup {NoDevice}],
         RowsBecome(rows), Answered(c, rows), UNCHANGED <<eligible, alive>>
  PROVE  DeviceInv'
<1>1. deviceCall' = [b \in DeviceCalls |-> deviceCall'[b]]
  BY DEF Answered
<1>2. \A b \in DeviceCalls : deviceCall'[b] \in {NoCall, Told(deviceCall[b], rows)}
  BY DEF Answered, Told
<1>3. /\ device' = rows
      /\ dispatch' = [e \in Dispatches |-> dispatch'[e]]
      /\ \A e \in Dispatches : dispatch'[e] \in {NoDispatch, Watch(dispatch[e], rows, eligible)}
  BY DEF RowsBecome
<1>. QED
  BY <1>1, <1>2, <1>3, RowsWritten

-----------------------------------------------------------------------------
(* The steps of requests.                                                  *)

LEMMA RowFound ==
  ASSUME DeviceInv, NEW c \in DeviceCalls, NEW u \in Owners, NEW k \in Tokens, NEW i \in DeviceRows,
         FoundRow(c, u, k, i)
  PROVE  DeviceInv'
<1> DEFINE s == [pc |-> "found", user |-> u, token |-> k, id |-> i]
<1>1. s \in CallStates /\ CallOK(s, device)
  BY DEF CallStates, CallOK
<1>. QED
  BY <1>1, CallMoves DEF FoundRow

LEMMA LookUpsKeep ==
  ASSUME DeviceInv, NEW c \in DeviceCalls,
         \/ \E u \in Owners, k \in Tokens : LookUp(c, u, k)
         \/ InsertRefused(c) \/ LookUpAgain(c) \/ DeviceCallFails(c)
  PROVE  DeviceInv'
<1>1. NoCall \in CallStates /\ CallOK(NoCall, device)
  BY CallTypes DEF CallOK
<1>2. ASSUME NEW u \in Owners, NEW k \in Tokens, LookUp(c, u, k) PROVE DeviceInv'
  <2> DEFINE s == [pc |-> "absent", user |-> u, token |-> k]
  <2>1. s \in CallStates /\ CallOK(s, device)
    BY DEF CallStates, CallOK
  <2>2. RowsOf(k) \subseteq DeviceRows
    BY DEF RowsOf
  <2>. QED
    BY <1>2, <2>1, <2>2, RowFound, CallMoves DEF LookUp
<1>3. CASE InsertRefused(c)
  <2> DEFINE s == [deviceCall[c] EXCEPT !.pc = "lookUpAgain"]
  <2>1. deviceCall[c] \in [pc : {"absent", "lookUpAgain"}, user : Owners, token : Tokens]
    BY <1>3 DEF InsertRefused, DeviceInv, DeviceTypeOK, CallStates, NoCall
  <2>2. s \in CallStates /\ CallOK(s, device)
    BY <2>1 DEF CallStates, CallOK
  <2>. QED
    BY <1>3, <2>2, CallMoves DEF InsertRefused
<1>4. CASE LookUpAgain(c)
  <2>1. deviceCall[c].user \in Owners /\ deviceCall[c].token \in Tokens
    BY <1>4 DEF LookUpAgain, DeviceInv, DeviceTypeOK, CallStates, NoCall
  <2>2. RowsOf(deviceCall[c].token) \subseteq DeviceRows
    BY DEF RowsOf
  <2>. QED
    BY <1>1, <1>4, <2>1, <2>2, RowFound, CallMoves DEF LookUpAgain
<1>5. CASE DeviceCallFails(c)
  BY <1>1, <1>5, CallMoves DEF DeviceCallFails
<1>. QED
  BY <1>2, <1>3, <1>4, <1>5

LEMMA ReloadDeviceKeeps ==
  ASSUME DeviceInv, NEW c \in DeviceCalls, ReloadDevice(c)
  PROVE  DeviceInv'
<1> DEFINE call == deviceCall[c]
<1>1. call \in [pc : {"found", "inserting"}, user : Owners, token : Tokens, id : DeviceRows]
  BY DEF ReloadDevice, DeviceInv, DeviceTypeOK, CallStates, NoCall
<1>2. CASE device[call.id] = NoDevice
  <2>1. [call EXCEPT !.pc = "inserting"] \in CallStates /\ CallOK([call EXCEPT !.pc = "inserting"], device)
    BY <1>1 DEF CallStates, CallOK
  <2>. QED
    BY <1>2, <2>1, CallMoves DEF ReloadDevice
<1>3. CASE device[call.id] # NoDevice
  <2> DEFINE s == [pc |-> "updating", user |-> call.user, token |-> call.token, id |-> call.id,
                   newUser |-> device[call.id].user # call.user, overtaken |-> FALSE]
  <2>1. s \in CallStates
    BY <1>1 DEF CallStates
  <2>2. CallOK(s, device)
    BY <1>3 DEF CallOK
  <2>. QED
    BY <1>3, <2>1, <2>2, CallMoves DEF ReloadDevice
<1>. QED
  BY <1>2, <1>3

LEMMA FindOwnKeeps ==
  ASSUME DeviceInv, NEW c \in DeviceCalls, NEW u \in Owners, NEW k \in Tokens, FindOwn(c, u, k)
  PROVE  DeviceInv'
<1>1. PICK i \in RowsOf(k) :
        /\ device[i].user = u
        /\ Advances(c, [pc |-> "removing", id |-> i, had |-> device[i].user = u])
  BY DEF FindOwn, OwnedBy
<1> DEFINE s == [pc |-> "removing", id |-> i, had |-> device[i].user = u]
<1>2. s \in CallStates /\ CallOK(s, device)
  BY <1>1 DEF CallStates, CallOK, RowsOf
<1>. QED
  BY <1>1, <1>2, CallMoves

LEMMA CallWritesKeep ==
  ASSUME DeviceInv, NEW c \in DeviceCalls,
         InsertDevice(c) \/ UpdateDevice(c) \/ ReinsertDevice(c) \/ RemoveDevice(c)
  PROVE  DeviceInv'
<1> USE DEF DeviceInv, DeviceTypeOK
<1>1. CASE InsertDevice(c)
  <2>1. deviceCall[c].user \in Owners /\ deviceCall[c].token \in Tokens
    BY <1>1 DEF InsertDevice, CallStates, NoCall
  <2>2. PICK i \in FreshIds :
          LET rows == [device EXCEPT ![i] = [token |-> deviceCall[c].token, user |-> deviceCall[c].user]]
          IN RowsBecome(rows) /\ Answered(c, rows) /\ UNCHANGED <<eligible, alive>>
    BY <1>1 DEF InsertDevice
  <2> DEFINE rows == [device EXCEPT ![i] = [token |-> deviceCall[c].token, user |-> deviceCall[c].user]]
  <2>3. rows \in [DeviceRows -> Devices \cup {NoDevice}]
    BY <2>1 DEF Devices, FreshIds
  <2>. QED
    BY <2>2, <2>3, CallWrites
<1>2. CASE UpdateDevice(c)
  <2> DEFINE rows == IF device[deviceCall[c].id] = NoDevice THEN device
                     ELSE [device EXCEPT ![deviceCall[c].id].user = UserWritten(deviceCall[c])]
  <2>1. deviceCall[c] \in Updating
    BY <1>2, CallTypes DEF UpdateDevice
  <2>2. rows \in [DeviceRows -> Devices \cup {NoDevice}]
    <3>1. CASE device[deviceCall[c].id] = NoDevice
      BY <3>1
    <3>2. CASE device[deviceCall[c].id] # NoDevice
      <4>1. device[deviceCall[c].id] \in Devices /\ UserWritten(deviceCall[c]) \in Owners
        BY <2>1, <3>2, RowTypes DEF Updating, UserWritten
      <4>2. [device[deviceCall[c].id] EXCEPT !.user = UserWritten(deviceCall[c])] \in Devices
        BY <4>1 DEF Devices
      <4>. QED
        BY <3>2, <4>2
    <3>. QED
      BY <3>1, <3>2
  <2>3. RowsBecome(rows) /\ Answered(c, rows) /\ UNCHANGED <<eligible, alive>>
    BY <1>2 DEF UpdateDevice
  <2>. QED
    BY <2>2, <2>3, CallWrites
<1>3. CASE ReinsertDevice(c)
  <2> DEFINE rows == [device EXCEPT ![deviceCall[c].id] =
                        [token |-> deviceCall[c].token, user |-> deviceCall[c].user]]
  <2>1. deviceCall[c].user \in Owners /\ deviceCall[c].token \in Tokens
    BY <1>3 DEF ReinsertDevice, CallStates, NoCall
  <2>2. rows \in [DeviceRows -> Devices \cup {NoDevice}]
    BY <2>1 DEF Devices
  <2>3. RowsBecome(rows) /\ Answered(c, rows) /\ UNCHANGED <<eligible, alive>>
    BY <1>3 DEF ReinsertDevice
  <2>. QED
    BY <2>2, <2>3, CallWrites
<1>4. CASE RemoveDevice(c)
  <2> DEFINE rows == [device EXCEPT ![deviceCall[c].id] = NoDevice]
  <2>1. rows \in [DeviceRows -> Devices \cup {NoDevice}]
    OBVIOUS
  <2>2. RowsBecome(rows) /\ Answered(c, rows) /\ UNCHANGED <<eligible, alive>>
    BY <1>4 DEF RemoveDevice
  <2>. QED
    BY <2>1, <2>2, CallWrites
<1>. QED
  BY <1>1, <1>2, <1>3, <1>4

-----------------------------------------------------------------------------
(* The steps of pushes.                                                    *)

LEMMA ChooseKeeps ==
  ASSUME DeviceInv, NEW d \in Dispatches, NEW actor \in Owners, ChooseRecipients(d, actor)
  PROVE  DeviceInv'
<1> DEFINE outsiders == (Owners \ eligible) \cup {actor}
           steady == {h \in Holds(device) : h[2] \notin outsiders}
           s == [pc |-> "chosen", actor |-> actor, recipients |-> Recipients(actor), tokens |-> {},
                 steady |-> steady, outsiders |-> outsiders,
                 foreign |-> Foreign(Holds(device), outsiders)]
<1>1. /\ Holds(device) \subseteq Tokens \X Owners
      /\ \A h \in Holds(device) : h[2] \in Owners
  BY HoldsTypes DEF DeviceInv, DeviceTypeOK
<1>2. Recipients(actor) \subseteq Owners /\ Recipients(actor) \cap outsiders = {}
  BY <1>1 DEF Recipients
<1>3. steady \subseteq Holds(device) /\ \A h \in steady : h[2] \in Recipients(actor)
  BY <1>1 DEF Recipients
<1>4. Foreign(Holds(device), outsiders) \subseteq Tokens /\ outsiders \subseteq Owners
  BY DEF Foreign
<1>5. s \in UnderWay /\ PushAdvances(d, s)
  BY <1>1, <1>2, <1>3, <1>4 DEF UnderWay, ChooseRecipients
<1>6. PushOK(s, device, alive)
  BY <1>2, <1>3 DEF PushOK, ChosenOK
<1>. QED
  BY <1>5, <1>6, PushTypes, PushMoves

LEMMA ReadKeeps ==
  ASSUME DeviceInv, NEW d \in Dispatches, ReadTokens(d)
  PROVE  DeviceInv'
<1> DEFINE push == dispatch[d]
           tokens == TokensOf(push.recipients)
           s == [push EXCEPT !.pc = "read", !.tokens = tokens]
<1>1. push \in UnderWay /\ push.pc = "chosen" /\ ChosenOK(push, device)
  BY PushTypes DEF DeviceInv, DeviceTypeOK, ReadTokens, PushOK
<1>2. tokens \subseteq Tokens
  BY DEF TokensOf
<1>3. ASSUME NEW h \in push.steady PROVE h[1] \in tokens
  <2>1. PICK i \in DeviceRows : device[i] # NoDevice /\ device[i].token = h[1] /\ device[i].user = h[2]
    BY <1>1, HoldsTypes DEF ChosenOK, DeviceInv, DeviceTypeOK
  <2>2. h[2] \in push.recipients /\ h[1] \in Tokens
    BY <1>1 DEF ChosenOK, UnderWay
  <2>. QED
    BY <2>1, <2>2 DEF TokensOf, RowsOf
<1>4. tokens \cap push.foreign = {}
  <2>. SUFFICES ASSUME NEW k \in tokens, k \in push.foreign PROVE FALSE
    OBVIOUS
  <2>1. PICK i \in DeviceRows :
          device[i] # NoDevice /\ device[i].token = k /\ device[i].user \in push.recipients
    BY DEF TokensOf, RowsOf
  <2>2. <<k, device[i].user>> \in Holds(device)
    BY <2>1, HoldsTypes DEF DeviceInv, DeviceTypeOK
  <2>3. device[i].user \in push.outsiders
    BY <1>1, <2>2 DEF ChosenOK, Foreign
  <2>. QED
    BY <1>1, <2>1, <2>3 DEF ChosenOK
<1>. HIDE DEF tokens
<1>5. /\ s \in UnderWay /\ s.pc = "read" /\ s.tokens = tokens
      /\ s.steady = push.steady /\ s.foreign = push.foreign
  BY <1>1, <1>2 DEF UnderWay
<1>6. PushOK(s, device, alive)
  BY <1>3, <1>4, <1>5 DEF PushOK
<1>. QED
  BY <1>5, <1>6, PushTypes, PushMoves DEF ReadTokens, tokens

LEMMA MulticastKeeps ==
  ASSUME DeviceInv, NEW d \in Dispatches, NEW failed \in SUBSET Tokens, Multicast(d, failed)
  PROVE  DeviceInv'
<1> DEFINE s == [pc |-> "sent", refused |-> RefusedTokens(d, failed)]
<1>1. s \in DispatchStates /\ PushOK(s, device, alive)
  BY DEF DispatchStates, RefusedTokens, PushOK
<1>. QED
  BY <1>1, PushMoves DEF Multicast

LEMMA PruneKeeps ==
  ASSUME DeviceInv, NEW d \in Dispatches, Prune(d)
  PROVE  DeviceInv'
<1> DEFINE rows == [i \in DeviceRows |->
                      IF device[i].token \in dispatch[d].refused THEN NoDevice ELSE device[i]]
<1>1. rows \in [DeviceRows -> Devices \cup {NoDevice}]
  BY DEF DeviceInv, DeviceTypeOK
<1>2. device' = rows /\ UNCHANGED <<eligible, alive>>
  BY DEF Prune
<1>3. /\ deviceCall' = [b \in DeviceCalls |-> deviceCall'[b]]
      /\ \A b \in DeviceCalls : deviceCall'[b] = Told(deviceCall[b], rows)
  BY DEF Prune, Told
<1>4. /\ dispatch' = [e \in Dispatches |-> dispatch'[e]]
      /\ \A e \in Dispatches : dispatch'[e] \in {NoDispatch, Watch(dispatch[e], rows, eligible)}
  BY DEF Prune
<1>. HIDE DEF rows
<1>. QED
  BY <1>1, <1>2, <1>3, <1>4, RowsWritten

LEMMA PushEndsKeeps ==
  ASSUME DeviceInv, NEW d \in Dispatches, PushEnds(d)
  PROVE  DeviceInv'
<1>1. NoDispatch \in DispatchStates /\ PushOK(NoDispatch, device, alive)
  BY PushTypes DEF PushOK
<1>. QED
  BY <1>1, PushMoves DEF PushEnds

-----------------------------------------------------------------------------
(* The world around.                                                       *)

LEMMA EligibilityKeeps ==
  ASSUME DeviceInv, NEW u \in Owners, EligibilityChanges(u)
  PROVE  DeviceInv'
<1>1. /\ eligible' \subseteq Owners /\ UNCHANGED <<device, alive, deviceCall>>
      /\ dispatch' = [d \in Dispatches |-> Watch(dispatch[d], device, eligible')]
  BY DEF EligibilityChanges, DeviceInv, DeviceTypeOK
<1>2. ASSUME NEW d \in Dispatches
      PROVE  dispatch'[d] \in DispatchStates /\ PushOK(dispatch'[d], device, alive)
  BY <1>1, WatchKeeps DEF DeviceInv, DeviceTypeOK
<1>3. DeviceTypeOK'
  BY <1>1, <1>2 DEF DeviceInv, DeviceTypeOK
<1>. QED
  BY <1>1, <1>2, <1>3 DEF DeviceInv

LEMMA TokenDiesKeeps ==
  ASSUME DeviceInv, NEW k \in Tokens, TokenDies(k)
  PROVE  DeviceInv'
<1>1. \A d \in Dispatches : PushOK(dispatch[d], device, alive \ {k})
  BY DEF DeviceInv, PushOK
<1>. QED
  BY <1>1 DEF TokenDies, DeviceInv, DeviceTypeOK

LEMMA DeviceStepKeeps ==
  ASSUME DeviceInv, [DeviceNext]_deviceVars
  PROVE  DeviceInv'
<1>1. CASE UNCHANGED deviceVars
  BY <1>1 DEF deviceVars, DeviceInv, DeviceTypeOK
<1>2. ASSUME NEW c \in DeviceCalls, DeviceCallStep(c) PROVE DeviceInv'
  BY <1>2, LookUpsKeep, ReloadDeviceKeeps, FindOwnKeeps, CallWritesKeep DEF DeviceCallStep
<1>3. ASSUME NEW d \in Dispatches, DispatchStep(d) PROVE DeviceInv'
  BY <1>3, ChooseKeeps, ReadKeeps, MulticastKeeps, PruneKeeps, PushEndsKeeps DEF DispatchStep
<1>. QED
  BY <1>1, <1>2, <1>3, EligibilityKeeps, TokenDiesKeeps DEF DeviceNext

\* The inductive invariant of registrations, removals and pushes
\* (user-device.service.ts, workspace-push-notification.service.ts).
THEOREM DeviceInvariant == DeviceSpec => []DeviceInv
<1>1. DeviceInv /\ [DeviceNext]_deviceVars => DeviceInv'
  BY DeviceStepKeeps
<1>. QED
  BY InitialDevices, <1>1, PTL DEF DeviceSpec

\* A push misses no device that an eligible member has held all the time, and
\* reaches none that only its actor and outsiders have held
\* (workspace-notification.service.ts:33-46,
\* workspace-push-notification.service.ts:112-114).
THEOREM PushesToMembers == DeviceSpec => []PushesReachTheMembers
<1>1. DeviceInv => PushesReachTheMembers
  BY DEF DeviceInv, PushOK, PushesReachTheMembers
<1>. QED
  BY DeviceInvariant, <1>1, PTL

\* A registration that is answered has the token, unless somebody wrote the row
\* between its reload and its UPDATE (user-device.service.ts:43-67).
THEOREM LastRegistrationWins == DeviceSpec => RegisteredUnlessOvertaken
<1>1. ASSUME DeviceInv, NEW c \in DeviceCalls, deviceCall[c].pc = "updating", UpdateDevice(c),
             ~deviceCall[c].overtaken
      PROVE  device'[deviceCall[c].id].user = deviceCall[c].user
  <2> DEFINE i == deviceCall[c].id
  <2>1. i \in DeviceRows /\ device[i] \in Devices
    BY <1>1, CallTypes DEF DeviceInv, DeviceTypeOK, CallOK, Updating
  <2>2. device' = [device EXCEPT ![i].user = UserWritten(deviceCall[c])]
    BY <1>1 DEF DeviceInv, CallOK, UpdateDevice, RowsBecome
  <2>3. device'[i].user = UserWritten(deviceCall[c])
    BY <1>1, <2>1, <2>2 DEF DeviceInv, DeviceTypeOK, Devices
  <2>4. CallOK(deviceCall[c], device)
    BY <1>1 DEF DeviceInv
  <2>5. CASE deviceCall[c].newUser
    BY <2>3, <2>5 DEF UserWritten
  <2>6. CASE ~deviceCall[c].newUser
    <3>1. device[i].user = deviceCall[c].user
      BY <1>1, <2>4, <2>6, Zenon DEF CallOK
    <3>. QED
      BY <2>3, <2>6, <3>1 DEF UserWritten
  <2>. QED
    BY <2>5, <2>6
<1>2. DeviceInv /\ [DeviceNext]_deviceVars =>
        [\A c \in DeviceCalls :
           (deviceCall[c].pc = "updating" /\ UpdateDevice(c) /\ ~deviceCall[c].overtaken)
             => device'[deviceCall[c].id].user = deviceCall[c].user]_deviceVars
  BY <1>1
<1>. QED
  BY DeviceInvariant, <1>2, PTL DEF DeviceSpec, RegisteredUnlessOvertaken

\* A row goes only when Firebase has refused its token or a user who had it
\* removes it (user-device.service.ts:71-83,
\* workspace-push-notification.service.ts:56-77).
LEMMA RowGone ==
  ASSUME DeviceInv, DeviceInv', DeviceNext, NEW i \in DeviceRows, device[i] # NoDevice,
         device'[i] = NoDevice
  PROVE  \/ device[i].token \notin alive
         \/ \E c \in DeviceCalls : /\ deviceCall[c].pc = "removing" /\ deviceCall[c].id = i
                                   /\ deviceCall[c].had
<1>1. device[i] \in Devices
  BY DEF DeviceInv, DeviceTypeOK
<1>2. ASSUME NEW c \in DeviceCalls, RemoveDevice(c)
      PROVE  deviceCall[c].pc = "removing" /\ deviceCall[c].id = i /\ deviceCall[c].had
  BY <1>2 DEF RemoveDevice, RowsBecome, DeviceInv, DeviceTypeOK, CallOK
<1>3. ASSUME NEW d \in Dispatches, Prune(d) PROVE device[i].token \notin alive
  BY <1>3 DEF Prune, DeviceInv, PushOK
<1>4. ASSUME NEW c \in DeviceCalls, InsertDevice(c) \/ ReinsertDevice(c) PROVE FALSE
  <2>1. PICK j \in DeviceRows :
          device' = [device EXCEPT ![j] = [token |-> deviceCall[c].token, user |-> deviceCall[c].user]]
    <3>1. ASSUME ReinsertDevice(c) PROVE deviceCall[c].id \in DeviceRows
      BY <3>1 DEF ReinsertDevice, DeviceInv, DeviceTypeOK, CallStates, NoCall
    <3>. QED
      BY <1>4, <3>1 DEF InsertDevice, ReinsertDevice, RowsBecome, FreshIds
  <2>2. deviceCall[c].token \in Tokens
    BY <1>4 DEF InsertDevice, ReinsertDevice, DeviceInv, DeviceTypeOK, CallStates, NoCall
  <2>. QED
    BY <2>1, <2>2, NoneIsNoToken DEF DeviceInv, DeviceTypeOK, NoDevice
<1>5. ASSUME NEW c \in DeviceCalls, UpdateDevice(c) PROVE FALSE
  <2>1. \/ device' = device
        \/ device' = [device EXCEPT ![deviceCall[c].id].user = UserWritten(deviceCall[c])]
    BY <1>5 DEF UpdateDevice, RowsBecome
  <2>2. device'[i].token = device[i].token
    BY <1>1, <2>1 DEF DeviceInv, DeviceTypeOK, Devices
  <2>. QED
    BY <1>1, <2>2, NoneIsNoToken DEF Devices, NoDevice
<1>6. CASE UNCHANGED device
  BY <1>6
<1>. QED
  BY <1>2, <1>3, <1>4, <1>5, <1>6
     DEF DeviceNext, DeviceCallStep, DispatchStep, LookUp, FoundRow, FindOwn, InsertRefused,
         LookUpAgain, ReloadDevice, DeviceCallFails, ChooseRecipients, ReadTokens, Multicast,
         PushEnds, Advances, PushAdvances, EligibilityChanges, TokenDies

\* A device stays registered until one of those two ends it, whatever pushes
\* fail and whoever else removes tokens (user-device.service.ts:71-83,
\* workspace-push-notification.service.ts:56-77).
THEOREM RegistrationsStay == DeviceSpec => RowsEndForCause
<1>1. DeviceInv /\ DeviceInv' /\ [DeviceNext]_deviceVars =>
        [\A i \in DeviceRows : device[i] # NoDevice /\ device'[i] = NoDevice =>
           \/ device[i].token \notin alive
           \/ \E c \in DeviceCalls : /\ deviceCall[c].pc = "removing" /\ deviceCall[c].id = i
                                     /\ deviceCall[c].had]_deviceVars
  BY RowGone
<1>. QED
  BY DeviceInvariant, <1>1, PTL DEF DeviceSpec, RowsEndForCause

=============================================================================
