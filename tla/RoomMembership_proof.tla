------------------------ MODULE RoomMembership_proof ------------------------
(* Every device's memory and file keep their types, what a room file holds  *)
(* against a replay only ever ratchets, and in the calm schedules a removal *)
(* sticks, a retired chain stays retired and the owner's word is one.       *)
EXTENDS RoomMembership, TLAPS

\* A call that is running has somebody it is about, and a pinned owner; one that
\* adopts an invitation has the invitation.
CallsOK ==
  \A n \in Devices :
    /\ ~Idle(n) => /\ call[n].whom \in Devices \ {n}
                   /\ room[n].owner \in Devices
    /\ InStep(n, "adopt") => call[n].what \in Message

\* Nobody invites itself.
InvitesOK ==
  /\ \A r \in net : r.kind = "invite" => r.author # r.to
  /\ \A n \in Devices : pending[n] # NoInvite => pending[n].author # n

Inv == TypeOK /\ CallsOK /\ InvitesOK

LEMMA HigherType == \A x, y \in Nat : higher(x, y) \in Nat /\ higher(x, y) >= x /\ higher(x, y) >= y
  BY DEF higher

\* What is saved over an entry is an entry, and no mark of it goes back.
LEMMA MergedType ==
  ASSUME NEW m \in Memory, NEW prev \in Entry
  PROVE  /\ MergedEntry(m, prev) \in Entry
         /\ MergedEntry(m, prev).epoch >= prev.epoch
         /\ MergedEntry(m, prev).ownerEpoch >= prev.ownerEpoch
         /\ prev.owner # None => MergedEntry(m, prev).owner = prev.owner
<1>1. /\ higher(m.epoch, prev.epoch) \in Nat /\ higher(m.epoch, prev.epoch) >= prev.epoch
      /\ higher(m.ownerEpoch, prev.ownerEpoch) \in Nat
      /\ higher(m.ownerEpoch, prev.ownerEpoch) >= prev.ownerEpoch
  BY HigherType DEF Memory, Entry
<1>2. QED BY <1>1 DEF MergedEntry, Memory, Entry

\* The operations of roomMembers keep a memory a memory, and keep its owner.
LEMMA AddAllType ==
  ASSUME NEW m \in Memory, NEW self \in Devices, NEW names \in SUBSET Devices
  PROVE  /\ AddAll(m, names, self) \in Memory
         /\ self \notin m.invited => self \notin AddAll(m, names, self).invited
         /\ AddAll(m, names, self).owner = m.owner
  BY DEF AddAll, Memory

LEMMA SetAllType ==
  ASSUME NEW m \in Memory, NEW self \in Devices, NEW names \in SUBSET Devices
  PROVE  /\ SetAll(m, names, self) \in Memory
         /\ self \notin SetAll(m, names, self).invited
         /\ SetAll(m, names, self).owner = m.owner
  BY DEF SetAll, Memory

LEMMA TombstoneType ==
  ASSUME NEW m \in Memory, NEW gone \in SUBSET Devices, NEW present \in SUBSET Devices
  PROVE  /\ Tombstone(m, gone, present) \in Memory
         /\ Tombstone(m, gone, present).invited = m.invited
         /\ Tombstone(m, gone, present).owner = m.owner
  BY DEF Tombstone, Memory

LEMMA EpochType ==
  ASSUME NEW m \in Memory, NEW e \in Nat
  PROVE  /\ AcceptOwnerEpoch(m, e) \in Memory
         /\ AcceptOwnerEpoch(m, e).invited = m.invited
         /\ AcceptOwnerEpoch(m, e).owner = m.owner
<1>1. higher(m.ownerEpoch, e) \in Nat /\ higher(m.epoch, e) \in Nat
  BY HigherType DEF Memory
<1>2. QED BY <1>1 DEF AcceptOwnerEpoch, Memory

LEMMA PinType ==
  ASSUME NEW m \in Memory, NEW owner \in Devices
  PROVE  /\ PinOwner(m, owner) \in Memory
         /\ PinOwner(m, owner).invited = m.invited
         /\ PinOwner(m, owner).owner = IF m.owner = None THEN owner ELSE m.owner
  BY DEF PinOwner, Memory

\* A memory with a flag or a chain set is a memory.
LEMMA StaleType ==
  ASSUME NEW m \in Memory, NEW b \in BOOLEAN, NEW c \in Nat
  PROVE  /\ [m EXCEPT !.stale = b] \in Memory
         /\ [m EXCEPT !.stale = b].invited = m.invited
         /\ [m EXCEPT !.stale = b].owner = m.owner
         /\ [m EXCEPT !.chain = c, !.stale = b] \in Memory
         /\ [m EXCEPT !.chain = c, !.stale = b].invited = m.invited
         /\ [m EXCEPT !.chain = c, !.stale = b].owner = m.owner
  BY DEF Memory

LEMMA JoinType ==
  ASSUME NEW m \in Memory, NEW b \in BOOLEAN
  PROVE  /\ [m EXCEPT !.known = b, !.joined = b, !.encrypted = b] \in Memory
         /\ [m EXCEPT !.known = b, !.joined = b, !.encrypted = b].invited = m.invited
         /\ [m EXCEPT !.known = b, !.joined = b, !.encrypted = b].owner = m.owner
  BY DEF Memory

\* A signed statement is a message, and its author's memory moves on.
LEMMA SigningOps ==
  ASSUME NEW m \in Memory, NEW n \in Devices, clock \in Nat
  PROVE  /\ NextEpoch(m) \in Nat
         /\ Signed(m, n) \in Memory
         /\ Signed(m, n).invited = m.invited /\ Signed(m, n).owner = m.owner
         /\ \A kind \in {"roster", "invite"}, to \in Devices :
              m.owner \in Devices => Statement(m, n, kind, to) \in Message
<1>1. NextEpoch(m) \in Nat
  BY DEF NextEpoch, higher, Memory
<1> DEFINE m1 == [m EXCEPT !.epoch = NextEpoch(m)]
<1>2. m1 \in Memory /\ m1.invited = m.invited /\ m1.owner = m.owner
  BY <1>1 DEF Memory
<1>3. /\ AcceptOwnerEpoch(m1, NextEpoch(m)) \in Memory
      /\ AcceptOwnerEpoch(m1, NextEpoch(m)).invited = m1.invited
      /\ AcceptOwnerEpoch(m1, NextEpoch(m)).owner = m1.owner
  BY <1>1, <1>2, EpochType
<1>4. /\ Signed(m, n) \in Memory
      /\ Signed(m, n).invited = m.invited /\ Signed(m, n).owner = m.owner
  BY <1>2, <1>3 DEF Signed
<1>5. ASSUME NEW kind \in {"roster", "invite"}, NEW to \in Devices, m.owner \in Devices
      PROVE  Statement(m, n, kind, to) \in Message
  BY <1>1, <1>5 DEF Statement, Message, Memory
<1>6. QED BY <1>1, <1>4, <1>5

LEMMA InitInv == Init => Inv
<1> SUFFICES ASSUME Init PROVE Inv
  OBVIOUS
<1>1. NoMemory \in Memory /\ NoEntry \in Entry /\ NoCall \in Call
  BY DEF NoMemory, Memory, NoEntry, Entry, NoCall, Call, CallSteps
<1>2. TypeOK
  BY <1>1 DEF Init, TypeOK, NoMemory
<1>3. CallsOK
  BY DEF Init, CallsOK, Idle, InStep, NoCall
<1>4. InvitesOK
  BY DEF Init, InvitesOK
<1>5. QED BY <1>2, <1>3, <1>4 DEF Inv

-----------------------------------------------------------------------------
(* The shapes a step takes *)

\* A step that changes device n's memory to a good one.
LEMMA KeepType ==
  ASSUME Inv, NEW n \in Devices, NEW m \in Memory, n \notin m.invited, Keep(n, m)
  PROVE  /\ room' \in [Devices -> Memory]
         /\ \A q \in Devices : q \notin room'[q].invited
         /\ room'[n] = m /\ \A q \in Devices \ {n} : room'[q] = room[q]
  BY DEF Inv, TypeOK, Keep

LEMMA SaveType ==
  ASSUME Inv, NEW n \in Devices, NEW m \in Memory, Save(n, m)
  PROVE  file' \in [Devices -> Entry] /\ blind' \subseteq Devices /\ upsets' \in Nat
  BY MergedType DEF Inv, TypeOK, Save

LEMMA HearsType ==
  ASSUME Inv, NEW n \in Devices, NEW r \in Message, Hears(n, r)
  PROVE  told' \in [Devices -> [upTo : Nat, gone : SUBSET Devices]]
<1> DEFINE h == [upTo |-> r.epoch, gone |-> (told[n].gone \cup r.removed) \ r.members]
<1>1. told \in [Devices -> [upTo : Nat, gone : SUBSET Devices]]
  BY DEF Inv, TypeOK
<1>2. h \in [upTo : Nat, gone : SUBSET Devices]
  BY <1>1 DEF Message
<1>3. told' = [told EXCEPT ![n] = h] \/ told' = told
  BY DEF Hears
<1> HIDE DEF h
<1>4. QED BY <1>1, <1>2, <1>3

LEMMA InvitesStep == Inv /\ [Next]_vars => InvitesOK'
<1> SUFFICES ASSUME Inv, [Next]_vars PROVE InvitesOK'
  OBVIOUS
<1>1. CASE UNCHANGED <<net, pending>>
  BY <1>1 DEF Inv, InvitesOK
<1>2. ASSUME NEW n \in Devices, SendInvite(n) PROVE InvitesOK'
  BY <1>2 DEF SendInvite, InStep, Statement, Inv, InvitesOK, CallsOK, Idle
<1>3. ASSUME NEW n \in Devices, DistributeRoster(n) PROVE InvitesOK'
  BY <1>3 DEF DistributeRoster, Statement, Inv, InvitesOK
<1>4. ASSUME NEW n \in Devices, NEW r \in net, InviteArrives(n, r) PROVE InvitesOK'
  BY <1>4 DEF InviteArrives, Inv, InvitesOK, TypeOK
<1>5. ASSUME NEW n \in Devices, \/ AcceptRoomInvite(n) \/ DeclineRoomInvite(n)
                                \/ \E readable \in BOOLEAN : Restart(n, readable)
      PROVE InvitesOK'
  BY <1>5 DEF AcceptRoomInvite, DeclineRoomInvite, Restart, Inv, InvitesOK, TypeOK
<1>6. ASSUME NEW n \in Devices, \/ CreateEncryptedRoom(n) \/ AddInvited(n) \/ InviteFails(n)
                                \/ \E x \in Devices : InviteToRoom(n, x) \/ RemoveMember(n, x)
                                \/ LayTombstone(n) \/ RotateAfterDeviceRemoval(n) \/ AdoptRoster(n)
                                \/ ReplaceChain(n) \/ SaveRoomKeys(n) \/ LeaveRoom(n) \/ JoinRoom(n)
      PROVE UNCHANGED <<net, pending>>
  BY <1>6 DEF CreateEncryptedRoom, AddInvited, InviteFails, InviteToRoom, RemoveMember,
              LayTombstone, RotateAfterDeviceRemoval, AdoptRoster, ReplaceChain, SaveRoomKeys,
              LeaveRoom, JoinRoom
<1>7. ASSUME NEW n \in Devices, NEW r \in Rosters(n),
             \/ RosterForUnknownRoom(n, r) \/ RosterRefused(n, r)
             \/ MembersRoster(n, r) \/ OwnersRoster(n, r)
      PROVE UNCHANGED <<net, pending>>
  BY <1>7 DEF RosterForUnknownRoom, RosterRefused, MembersRoster, OwnersRoster
<1>8. CASE UNCHANGED vars
  BY <1>1, <1>8 DEF vars
<1>9. QED
  BY <1>1, <1>2, <1>3, <1>4, <1>5, <1>6, <1>7, <1>8 DEF Next, UserStep, Delivery

LEMMA InvStep == Inv /\ [Next]_vars => TypeOK' /\ CallsOK'
<1> SUFFICES ASSUME Inv, [Next]_vars PROVE TypeOK' /\ CallsOK'
  OBVIOUS
<1> USE DevicesAssumption
<1>t. /\ room \in [Devices -> Memory] /\ file \in [Devices -> Entry]
      /\ call \in [Devices -> Call] /\ clock \in Nat /\ net \subseteq Message
      /\ \A n \in Devices : n \notin room[n].invited
  BY DEF Inv, TypeOK
<1>r. \A n \in Devices : room[n] \in Memory /\ n \notin room[n].invited
  BY <1>t
<1>1. ASSUME NEW n \in Devices, CreateEncryptedRoom(n) PROVE TypeOK' /\ CallsOK'
  <2> DEFINE m0 == [room[n] EXCEPT !.known = TRUE, !.joined = TRUE, !.encrypted = TRUE]
             m == PinOwner(m0, n)
  <2>0. m0 \in Memory /\ m0.invited = room[n].invited
    BY <1>r, JoinType
  <2> HIDE DEF m0
  <2>1. m \in Memory /\ n \notin m.invited
    BY <1>r, <2>0, PinType
  <2>2. Keep(n, m) /\ Save(n, m) /\ Idle(n)
    BY <1>1 DEF CreateEncryptedRoom, KeepAndSave, m0
  <2> HIDE DEF m
  <2>3. call' = call
    BY <1>1 DEF CreateEncryptedRoom
  <2>4. CallsOK'
    BY <2>1, <2>2, <2>3, KeepType DEF Inv, CallsOK, Idle, InStep
  <2>5. QED BY <1>1, <2>1, <2>2, <2>4, KeepType, SaveType DEF Inv, TypeOK, CreateEncryptedRoom
<1>2. ASSUME NEW n \in Devices, NEW x \in Devices, InviteToRoom(n, x) PROVE TypeOK' /\ CallsOK'
  <2> DEFINE m == Tombstone(room[n], {}, {x})
  <2>1. m \in Memory /\ n \notin m.invited /\ m.owner = room[n].owner
    BY <1>r, TombstoneType
  <2>2. Keep(n, m) /\ x # n /\ room[n].owner \in Devices
    BY <1>2, <1>t DEF InviteToRoom, Memory
  <2>3. PICK c \in Call : call' = [call EXCEPT ![n] = c] /\ c.pc = "invite" /\ c.whom = x
    <3> DEFINE b == x \in room[n].removed
               c == [NoCall EXCEPT !.pc = "invite", !.whom = x, !.lifted = b]
    <3>1. call' = [call EXCEPT ![n] = c]
      BY <1>2 DEF InviteToRoom
    <3>2. b \in BOOLEAN
      OBVIOUS
    <3> HIDE DEF b
    <3>3. c \in Call /\ c.pc = "invite" /\ c.whom = x
      BY <3>2 DEF NoCall, Call, CallSteps
    <3> HIDE DEF c
    <3>4. QED BY <3>1, <3>3
  <2>4. call' \in [Devices -> Call]
    BY <1>t, <2>3
  <2> HIDE DEF m
  <2>5. CallsOK'
    BY <1>t, <2>1, <2>2, <2>3, KeepType DEF Inv, CallsOK, Idle, InStep
  <2>6. QED BY <1>2, <2>1, <2>2, <2>4, <2>5, KeepType DEF Inv, TypeOK, InviteToRoom
<1>3. ASSUME NEW n \in Devices, AddInvited(n) PROVE TypeOK' /\ CallsOK'
  <2> DEFINE m == [room[n] EXCEPT !.invited = @ \cup {call[n].whom}]
  <2>1. call[n].whom \in Devices \ {n} /\ room[n].owner \in Devices
    BY <1>3 DEF Inv, CallsOK, Idle, AddInvited, InStep
  <2>2. m \in Memory /\ n \notin m.invited /\ m.owner = room[n].owner
    BY <1>t, <2>1 DEF Memory
  <2>3. Keep(n, m) /\ Save(n, m)
    BY <1>3 DEF AddInvited, KeepAndSave
  <2>4. call' = [call EXCEPT ![n].pc = "send"]
    BY <1>3 DEF AddInvited, Goto
  <2>5. call' \in [Devices -> Call]
    BY <1>t, <2>4 DEF Call, CallSteps
  <2> HIDE DEF m
  <2>6. CallsOK'
    BY <1>t, <2>1, <2>2, <2>3, <2>4, KeepType DEF Inv, CallsOK, Idle, InStep, Call
  <2>7. QED BY <1>3, <2>2, <2>3, <2>5, <2>6, KeepType, SaveType DEF Inv, TypeOK, AddInvited
<1>4. ASSUME NEW n \in Devices, SendInvite(n) \/ DistributeRoster(n) PROVE TypeOK' /\ CallsOK'
  <2> DEFINE m == Signed(room[n], n)
  <2>1. call[n].whom \in Devices \ {n} /\ room[n].owner \in Devices
    BY <1>4 DEF Inv, CallsOK, Idle, SendInvite, DistributeRoster, InStep
  <2>2. m \in Memory /\ n \notin m.invited /\ m.owner = room[n].owner
    BY <1>t, <1>r, SigningOps
  <2>3. Keep(n, m)
    BY <1>4 DEF SendInvite, DistributeRoster
  <2>4. \A kind \in {"roster", "invite"}, to \in Devices : Statement(room[n], n, kind, to) \in Message
    BY <1>t, <2>1, SigningOps
  <2>5. net' \subseteq Message
    BY <1>4, <1>t, <2>1, <2>4 DEF SendInvite, DistributeRoster, Memory
  <2>6. told' \in [Devices -> [upTo : Nat, gone : SUBSET Devices]]
    BY <1>4, <2>1, <2>4, HearsType DEF SendInvite, DistributeRoster
  <2>7. call' \in [Devices -> Call]
    <3>1. NoCall \in Call
      BY DEF NoCall, Call, CallSteps
    <3>2. CASE call' = [call EXCEPT ![n].pc = "tell"]
      BY <1>t, <3>2 DEF Call, CallSteps
    <3>3. CASE call' = [call EXCEPT ![n] = NoCall]
      BY <1>t, <3>1, <3>3
    <3>4. QED BY <1>4, <3>2, <3>3 DEF SendInvite, DistributeRoster, Goto, Return
  <2>8. \A q \in Devices : /\ call'[q].pc # "none" => call[q].pc # "none" /\ call'[q].whom = call[q].whom
                           /\ call'[q].pc = "adopt" => call'[q] = call[q]
    BY <1>4, <1>t DEF SendInvite, DistributeRoster, Goto, Return, NoCall, Call, InStep
  <2> HIDE DEF m
  <2>9. CallsOK'
    BY <1>t, <2>2, <2>3, <2>8, KeepType DEF Inv, CallsOK, Idle, InStep
  <2>10. QED BY <1>4, <2>2, <2>3, <2>5, <2>6, <2>7, <2>9, KeepType
            DEF Inv, TypeOK, SendInvite, DistributeRoster
<1>5. ASSUME NEW n \in Devices, InviteFails(n) PROVE TypeOK' /\ CallsOK'
  <2> DEFINE x == call[n].whom
             m1 == [Signed(room[n], n) EXCEPT !.invited = @ \ {x}]
             m == Tombstone(m1, IF call[n].lifted THEN {x} ELSE {}, {})
  <2>1. x \in Devices /\ room[n].owner \in Devices
    BY <1>5 DEF Inv, CallsOK, Idle, InviteFails, InStep
  <2>2. Signed(room[n], n) \in Memory /\ n \notin Signed(room[n], n).invited
    BY <1>t, <1>r, SigningOps
  <2>3. m1 \in Memory /\ n \notin m1.invited
    BY <2>2 DEF Memory
  <2>4. m \in Memory /\ n \notin m.invited
    <3> HIDE DEF m1, x
    <3> DEFINE gone == IF call[n].lifted THEN {x} ELSE {}
    <3>1. gone \in SUBSET Devices /\ {} \in SUBSET Devices
      BY <2>1
    <3> HIDE DEF gone
    <3>2. Tombstone(m1, gone, {}) \in Memory /\ n \notin Tombstone(m1, gone, {}).invited
      BY <2>3, <3>1, TombstoneType
    <3>3. QED BY <3>2 DEF gone
  <2>5. Keep(n, m) /\ Save(n, m)
    BY <1>5 DEF InviteFails, KeepAndSave
  <2>6. call' = [call EXCEPT ![n] = NoCall]
    BY <1>5 DEF InviteFails, Return
  <2>7. call' \in [Devices -> Call]
    BY <1>t, <2>6 DEF NoCall, Call, CallSteps
  <2> HIDE DEF m, m1, x
  <2>8. CallsOK'
    BY <1>t, <2>4, <2>5, <2>6, KeepType DEF Inv, CallsOK, Idle, InStep, NoCall
  <2>9. QED BY <1>5, <2>4, <2>5, <2>7, <2>8, KeepType, SaveType DEF Inv, TypeOK, InviteFails
<1>6. ASSUME NEW n \in Devices, NEW x \in Devices, RemoveMember(n, x) PROVE TypeOK' /\ CallsOK'
  <2> DEFINE m == [room[n] EXCEPT !.invited = @ \ {x}]
  <2>1. m \in Memory /\ n \notin m.invited /\ m.owner = room[n].owner
    BY <1>r DEF Memory
  <2>2. Keep(n, m) /\ x # n /\ room[n].owner = n
    BY <1>6 DEF RemoveMember
  <2>3. PICK c \in Call : call' = [call EXCEPT ![n] = c] /\ c.pc = "remove" /\ c.whom = x
    <3> DEFINE c == [NoCall EXCEPT !.pc = "remove", !.whom = x]
    <3>1. c \in Call /\ c.pc = "remove" /\ c.whom = x
      BY DEF NoCall, Call, CallSteps
    <3>2. call' = [call EXCEPT ![n] = c]
      BY <1>6 DEF RemoveMember
    <3> HIDE DEF c
    <3>3. QED BY <3>1, <3>2
  <2>4. call' \in [Devices -> Call]
    BY <1>t, <2>3
  <2> HIDE DEF m
  <2>5. CallsOK'
    BY <1>t, <2>1, <2>2, <2>3, KeepType DEF Inv, CallsOK, Idle, InStep
  <2>6. QED BY <1>6, <2>1, <2>2, <2>4, <2>5, KeepType DEF Inv, TypeOK, RemoveMember
<1>7. ASSUME NEW n \in Devices, LayTombstone(n) PROVE TypeOK' /\ CallsOK'
  <2> DEFINE m1 == [room[n] EXCEPT !.stale = TRUE]
             m == Tombstone(m1, {call[n].whom}, {})
  <2>1. call[n].whom \in Devices \ {n} /\ room[n].owner \in Devices
    BY <1>7 DEF Inv, CallsOK, Idle, LayTombstone, InStep
  <2>2. m1 \in Memory /\ n \notin m1.invited /\ m1.owner = room[n].owner
    BY <1>r, StaleType
  <2> HIDE DEF m1
  <2>3. m \in Memory /\ n \notin m.invited /\ m.owner = room[n].owner
    BY <2>1, <2>2, TombstoneType
  <2>4. Keep(n, m) /\ Save(n, m)
    BY <1>7 DEF LayTombstone, KeepAndSave, m1
  <2>5. call' = [call EXCEPT ![n].pc = "tell"]
    BY <1>7 DEF LayTombstone, Goto
  <2>6. call' \in [Devices -> Call] /\ retired' \in [Devices -> Nat]
    BY <1>7, <1>t, <2>5 DEF Call, CallSteps, LayTombstone, Inv, TypeOK
  <2> HIDE DEF m
  <2>7. CallsOK'
    BY <1>t, <2>1, <2>3, <2>4, <2>5, KeepType DEF Inv, CallsOK, Idle, InStep, Call
  <2>8. QED BY <1>7, <2>3, <2>4, <2>6, <2>7, KeepType, SaveType DEF Inv, TypeOK, LayTombstone
<1>8. ASSUME NEW n \in Devices, RotateAfterDeviceRemoval(n) PROVE TypeOK' /\ CallsOK'
  <2> DEFINE m == [room[n] EXCEPT !.stale = TRUE]
  <2>1. m \in Memory /\ n \notin m.invited /\ m.owner = room[n].owner
    BY <1>r, StaleType
  <2>2. Keep(n, m) /\ Save(n, m) /\ call' = call
    BY <1>8 DEF RotateAfterDeviceRemoval, KeepAndSave
  <2>3. retired' \in [Devices -> Nat]
    BY <1>8 DEF RotateAfterDeviceRemoval, Inv, TypeOK
  <2> HIDE DEF m
  <2>4. CallsOK'
    BY <1>t, <2>1, <2>2, KeepType DEF Inv, CallsOK, Idle, InStep
  <2>5. /\ UNCHANGED <<call, pending, net, clock, minted, told>>
        /\ calls' = calls + 1
    BY <1>8 DEF RotateAfterDeviceRemoval
  <2>6. file' \in [Devices -> Entry] /\ blind' \subseteq Devices /\ upsets' \in Nat
    BY <2>1, <2>2, SaveType
  <2>7. room' \in [Devices -> Memory] /\ \A q \in Devices : q \notin room'[q].invited
    BY <2>1, <2>2, KeepType
  <2>8. TypeOK'
    BY <2>3, <2>5, <2>6, <2>7 DEF Inv, TypeOK
  <2>9. QED BY <2>4, <2>8
<1>9. ASSUME NEW n \in Devices, NEW r \in Rosters(n),
             RosterForUnknownRoom(n, r) \/ RosterRefused(n, r)
      PROVE TypeOK' /\ CallsOK'
  <2>1. r \in Message
    BY <1>t DEF Rosters
  <2>2. told' \in [Devices -> [upTo : Nat, gone : SUBSET Devices]]
    BY <1>9, <2>1, HearsType DEF RosterForUnknownRoom, RosterRefused
  <2>3. QED BY <1>9, <2>2
            DEF RosterForUnknownRoom, RosterRefused, Inv, TypeOK, CallsOK, Idle, InStep
<1>10. ASSUME NEW n \in Devices, NEW r \in Rosters(n), MembersRoster(n, r) PROVE TypeOK' /\ CallsOK'
  <2> DEFINE m == AddAll(room[n], r.members, n)
  <2>1. r \in Message /\ r.members \in SUBSET Devices
    BY <1>t DEF Rosters, Message
  <2>2. m \in Memory /\ n \notin m.invited /\ m.owner = room[n].owner
    BY <1>t, <2>1, AddAllType
  <2>3. Keep(n, m) /\ Save(n, m) /\ call' = call
    BY <1>10 DEF MembersRoster, KeepAndSave
  <2> HIDE DEF m
  <2>4. CallsOK'
    BY <1>t, <2>2, <2>3, KeepType DEF Inv, CallsOK, Idle, InStep
  <2>5. QED BY <1>10, <2>2, <2>3, <2>4, KeepType, SaveType DEF Inv, TypeOK, MembersRoster
<1>11. ASSUME NEW n \in Devices, NEW r \in Rosters(n), OwnersRoster(n, r) PROVE TypeOK' /\ CallsOK'
  <2>1. r \in Message /\ r.members \in SUBSET Devices /\ r.removed \in SUBSET Devices /\ r.epoch \in Nat
    BY <1>t DEF Rosters, Message
  <2> DEFINE m1 == Tombstone(room[n], r.removed, r.members)
             m2 == SetAll(m1, r.members, n)
             m3 == AcceptOwnerEpoch(m2, r.epoch)
             m == [m3 EXCEPT !.stale = @ \/ (NewlyRemoved(room[n], r) # {})]
  <2>2. m1 \in Memory /\ m1.owner = room[n].owner
    BY <1>r, <2>1, TombstoneType
  <2> HIDE DEF m1
  <2>3. m2 \in Memory /\ m2.owner = room[n].owner /\ n \notin m2.invited
    BY <2>1, <2>2, SetAllType
  <2> HIDE DEF m2
  <2>4. m3 \in Memory /\ m3.owner = room[n].owner /\ n \notin m3.invited
    BY <2>1, <2>3, EpochType
  <2> HIDE DEF m3
  <2>5. m \in Memory /\ m.owner = room[n].owner /\ n \notin m.invited
    BY <2>4 DEF Memory
  <2>6. Keep(n, m) /\ Save(n, m) /\ call' = call
    BY <1>11 DEF OwnersRoster, KeepAndSave, m1, m2, m3
  <2>7. retired' \in [Devices -> Nat]
    BY <1>11 DEF OwnersRoster, Inv, TypeOK
  <2>8. told' \in [Devices -> [upTo : Nat, gone : SUBSET Devices]]
    BY <1>11, <2>1, HearsType DEF OwnersRoster
  <2> HIDE DEF m
  <2>9. CallsOK'
    BY <1>t, <2>5, <2>6, KeepType DEF Inv, CallsOK, Idle, InStep
  <2>10. QED BY <1>11, <2>5, <2>6, <2>7, <2>8, <2>9, KeepType, SaveType DEF Inv, TypeOK, OwnersRoster
<1>12. ASSUME NEW n \in Devices, NEW r \in net, InviteArrives(n, r) PROVE TypeOK' /\ CallsOK'
  <2>1. r \in Message /\ room[n] \in Memory
    BY <1>t
  <2>2. pending' \in [Devices -> Message \cup {NoInvite}]
    BY <1>12, <2>1 DEF InviteArrives, Inv, TypeOK
  <2>3. file' \in [Devices -> Entry] /\ blind' \subseteq Devices /\ upsets' \in Nat
    BY <1>12, <1>t, <2>1, SaveType DEF InviteArrives, Inv, TypeOK
  <2>4. QED BY <1>12, <2>2, <2>3 DEF InviteArrives, Inv, TypeOK, CallsOK, Idle, InStep
<1>13. ASSUME NEW n \in Devices, AcceptRoomInvite(n) PROVE TypeOK' /\ CallsOK'
  <2> DEFINE r == pending[n]
             k == [room[n] EXCEPT !.known = TRUE, !.joined = TRUE, !.encrypted = TRUE]
             m0 == [room[n] EXCEPT !.known = TRUE, !.joined = TRUE, !.encrypted = TRUE,
                                   !.invited = @ \cup {r.author}]
             m == PinOwner(m0, r.owner)
  <2>1. /\ r \in Message /\ r.author \in Devices \ {n} /\ r.owner \in Devices
    BY <1>13 DEF AcceptRoomInvite, Inv, InvitesOK, TypeOK, Message
  <2>2. m0 \in Memory /\ n \notin m0.invited
    <3>1. k \in Memory /\ k.invited = room[n].invited
      BY <1>r, JoinType
    <3>2. m0 = [k EXCEPT !.invited = @ \cup {r.author}]
      BY <1>r DEF Memory
    <3> HIDE DEF k, m0, r
    <3>3. QED BY <1>r, <2>1, <3>1, <3>2 DEF Memory
  <2>3. Keep(n, m)
    BY <1>13 DEF AcceptRoomInvite
  <2>4. PICK c \in Call : call' = [call EXCEPT ![n] = c] /\ c.whom = r.author /\ c.what = r
    <3> DEFINE c == [NoCall EXCEPT !.pc = "adopt", !.whom = r.author, !.what = r]
    <3>1. call' = [call EXCEPT ![n] = c]
      BY <1>13 DEF AcceptRoomInvite
    <3> HIDE DEF r
    <3>2. c \in Call /\ c.whom = r.author /\ c.what = r
      BY <2>1 DEF NoCall, Call, CallSteps
    <3> HIDE DEF c
    <3>3. QED BY <3>1, <3>2
  <2>5. pending' \in [Devices -> Message \cup {NoInvite}]
    BY <1>13 DEF AcceptRoomInvite, Inv, TypeOK
  <2> HIDE DEF m0, r
  <2>6. m \in Memory /\ n \notin m.invited /\ m.owner \in Devices
    <3>1. m \in Memory /\ n \notin m.invited /\ m.owner = (IF m0.owner = None THEN r.owner ELSE m0.owner)
      BY <2>1, <2>2, PinType
    <3> HIDE DEF m
    <3>2. QED BY <2>1, <2>2, <3>1 DEF Memory
  <2> HIDE DEF m
  <2>7. CallsOK'
    BY <1>t, <2>1, <2>3, <2>4, <2>6, KeepType DEF Inv, CallsOK, Idle, InStep
  <2>8. call' \in [Devices -> Call]
    BY <1>t, <2>4
  <2>9. QED BY <1>13, <2>3, <2>5, <2>6, <2>7, <2>8, KeepType DEF Inv, TypeOK, AcceptRoomInvite
<1>14. ASSUME NEW n \in Devices, DeclineRoomInvite(n) PROVE TypeOK' /\ CallsOK'
  BY <1>14 DEF DeclineRoomInvite, Inv, TypeOK, CallsOK, Idle, InStep
<1>15. ASSUME NEW n \in Devices, ReplaceChain(n) PROVE TypeOK' /\ CallsOK'
  <2> DEFINE m == [room[n] EXCEPT !.chain = minted[n] + 1, !.stale = FALSE]
  <2>0. minted \in [Devices -> Nat]
    BY DEF Inv, TypeOK
  <2>1. m \in Memory /\ n \notin m.invited /\ m.owner = room[n].owner
    <3> DEFINE c == minted[n] + 1
               mc == [room[n] EXCEPT !.chain = c, !.stale = FALSE]
    <3>1. c \in Nat
      BY <2>0
    <3> HIDE DEF c
    <3>2. mc \in Memory /\ mc.invited = room[n].invited /\ mc.owner = room[n].owner
      BY <1>r, <3>1, StaleType
    <3>3. mc = m
      BY DEF c
    <3> HIDE DEF mc, m
    <3>4. QED BY <1>r, <3>2, <3>3
  <2>2. Keep(n, m) /\ Save(n, m) /\ call' = call
    BY <1>15 DEF ReplaceChain, KeepAndSave
  <2>3. minted' \in [Devices -> Nat]
    BY <1>15, <2>0 DEF ReplaceChain
  <2> HIDE DEF m
  <2>4. CallsOK'
    BY <1>t, <2>1, <2>2, KeepType DEF Inv, CallsOK, Idle, InStep
  <2>5. QED BY <1>15, <2>1, <2>2, <2>3, <2>4, KeepType, SaveType DEF Inv, TypeOK, ReplaceChain
<1>16. ASSUME NEW n \in Devices, SaveRoomKeys(n) PROVE TypeOK' /\ CallsOK'
  <2>1. file' \in [Devices -> Entry] /\ blind' \subseteq Devices /\ upsets' \in Nat
    BY <1>16, <1>t, SaveType DEF SaveRoomKeys
  <2>2. QED BY <1>16, <2>1 DEF SaveRoomKeys, Inv, TypeOK, CallsOK, Idle, InStep
<1>17. ASSUME NEW n \in Devices, LeaveRoom(n) \/ JoinRoom(n) PROVE TypeOK' /\ CallsOK'
  <2>1. PICK m \in Memory : /\ Keep(n, m) /\ m.owner = room[n].owner /\ n \notin m.invited
                            /\ call' = call
    <3>1. CASE LeaveRoom(n)
      BY <1>r, <3>1 DEF LeaveRoom, Memory
    <3>2. CASE JoinRoom(n)
      BY <1>r, <3>2 DEF JoinRoom, Memory
    <3>3. QED BY <1>17, <3>1, <3>2
  <2>2. CallsOK'
    BY <1>t, <2>1, KeepType DEF Inv, CallsOK, Idle, InStep
  <2>3. QED BY <1>17, <2>1, <2>2, KeepType DEF Inv, TypeOK, LeaveRoom, JoinRoom
<1>18. ASSUME NEW n \in Devices, NEW readable \in BOOLEAN, Restart(n, readable) PROVE TypeOK' /\ CallsOK'
  <2> DEFINE m0 == [NoMemory EXCEPT !.known = room[n].known]
             m == IF readable THEN Restored(m0, file[n], n) ELSE m0
  <2>1. m0 \in Memory /\ n \notin m0.invited
    BY <1>t DEF NoMemory, Memory
  <2>2. Restored(m0, file[n], n) \in Memory /\ n \notin Restored(m0, file[n], n).invited
    <3> HIDE DEF m0
    <3> DEFINE m1 == [m0 EXCEPT !.encrypted = TRUE, !.owner = file[n].owner,
                                !.removed = file[n].removed, !.epoch = file[n].epoch,
                                !.ownerEpoch = file[n].ownerEpoch,
                                !.chain = file[n].chain, !.stale = file[n].stale]
    <3>1. m1 \in Memory /\ n \notin m1.invited
      BY <1>t, <2>1 DEF Memory, Entry
    <3>2. file[n].invited \in SUBSET Devices
      BY <1>t DEF Entry
    <3> HIDE DEF m1
    <3>3. AddAll(m1, file[n].invited, n) \in Memory /\ n \notin AddAll(m1, file[n].invited, n).invited
      BY <3>1, <3>2, AddAllType
    <3>4. QED BY <2>1, <3>3 DEF Restored, m1
  <2>3. m \in Memory /\ n \notin m.invited
    BY <2>1, <2>2
  <2>4. Keep(n, m)
    BY <1>18 DEF Restart
  <2>5. call' = [call EXCEPT ![n] = NoCall] /\ call' \in [Devices -> Call]
    BY <1>18, <1>t DEF Restart, NoCall, Call, CallSteps
  <2>6. clock' \in Nat
    BY <1>18, <1>t, HigherType DEF Restart, Memory
  <2> HIDE DEF m, m0
  <2>7. CallsOK'
    BY <1>t, <2>3, <2>4, <2>5, KeepType DEF Inv, CallsOK, Idle, InStep, NoCall
  <2>8. QED BY <1>18, <2>3, <2>4, <2>5, <2>6, <2>7, KeepType DEF Inv, TypeOK, Restart
<1>19. CASE UNCHANGED vars
  BY <1>19 DEF vars, Inv, TypeOK, CallsOK, Idle, InStep
<1>20. ASSUME NEW n \in Devices, AdoptRoster(n) PROVE TypeOK' /\ CallsOK'
  <2> DEFINE r == call[n].what
             m2 == AcceptOwnerEpoch(room[n], r.epoch)
             m3 == Tombstone(m2, r.removed, r.members)
             next == IF r.author = r.owner THEN m3 ELSE room[n]
             m == AddAll(next, r.members, n)
  <2>1. /\ r \in Message /\ r.epoch \in Nat
        /\ r.members \in SUBSET Devices /\ r.removed \in SUBSET Devices
    BY <1>20 DEF AdoptRoster, Inv, CallsOK, Message
  <2>2. m2 \in Memory /\ n \notin m2.invited
    BY <1>r, <2>1, EpochType
  <2> HIDE DEF m2
  <2>3. m3 \in Memory /\ n \notin m3.invited
    BY <2>1, <2>2, TombstoneType
  <2> HIDE DEF m3
  <2>4. next \in Memory /\ n \notin next.invited
    BY <1>r, <2>3
  <2> HIDE DEF next
  <2>5. m \in Memory /\ n \notin m.invited
    BY <2>1, <2>4, AddAllType
  <2>6. Keep(n, m) /\ Save(n, m) /\ call' = [call EXCEPT ![n] = NoCall]
    BY <1>20 DEF AdoptRoster, KeepAndSave, Return, m2, m3, next
  <2>7. retired' \in [Devices -> Nat]
    BY <1>20 DEF AdoptRoster, Inv, TypeOK
  <2>8. told' \in [Devices -> [upTo : Nat, gone : SUBSET Devices]]
    BY <1>20, <2>1, HearsType DEF AdoptRoster
  <2>9. call' \in [Devices -> Call]
    BY <1>t, <2>6 DEF NoCall, Call, CallSteps
  <2> HIDE DEF m
  <2>10. CallsOK'
    BY <1>t, <2>5, <2>6, KeepType DEF Inv, CallsOK, Idle, InStep, NoCall
  <2>11. QED BY <1>20, <2>5, <2>6, <2>7, <2>8, <2>9, <2>10, KeepType, SaveType
             DEF Inv, TypeOK, AdoptRoster
<1>21. QED
  BY <1>1, <1>2, <1>3, <1>4, <1>5, <1>6, <1>7, <1>8, <1>9, <1>10, <1>11, <1>12, <1>13,
     <1>14, <1>15, <1>16, <1>17, <1>18, <1>19, <1>20 DEF Next, UserStep, Delivery

-----------------------------------------------------------------------------
\* Whatever is sent, lost, replayed, refused or interrupted, each device's memory
\* and file hold an owner or none, lists of other people's names, and natural
\* epochs.
THEOREM TypeCorrect == Spec => []TypeOK
<1>1. Inv /\ [Next]_vars => Inv'
  BY InvStep, InvitesStep DEF Inv
<1>2. Inv => TypeOK
  BY DEF Inv
<1>3. QED BY InitInv, <1>1, <1>2, PTL DEF Spec

\* A write of a room's entry is a merge over what was there.
LEMMA FileStep ==
  ASSUME Inv, [Next]_vars
  PROVE  \A n \in Devices :
           file'[n] = file[n] \/ \E m \in Memory : file'[n] = MergedEntry(m, file[n])
<1> SUFFICES ASSUME NEW q \in Devices, file'[q] # file[q]
             PROVE  \E m \in Memory : file'[q] = MergedEntry(m, file[q])
  OBVIOUS
<1>t. /\ room \in [Devices -> Memory] /\ room' \in [Devices -> Memory]
      /\ file \in [Devices -> Entry]
  BY InvStep DEF Inv, TypeOK
<1>1. ASSUME NEW n \in Devices, NEW m, KeepAndSave(n, m)
      PROVE  file'[q] = MergedEntry(room'[q], file[q])
  BY <1>1, <1>t DEF KeepAndSave, Keep, Save
<1>2. ASSUME NEW n \in Devices, Save(n, room[n])
      PROVE  file'[q] = MergedEntry(room[q], file[q])
  BY <1>2, <1>t DEF Save
<1>3. ASSUME NEW n \in Devices,
             \/ CreateEncryptedRoom(n) \/ AddInvited(n) \/ InviteFails(n) \/ LayTombstone(n)
             \/ RotateAfterDeviceRemoval(n) \/ AdoptRoster(n) \/ ReplaceChain(n)
             \/ \E r \in Rosters(n) : MembersRoster(n, r) \/ OwnersRoster(n, r)
      PROVE  \E m : KeepAndSave(n, m)
  BY <1>3 DEF CreateEncryptedRoom, AddInvited, InviteFails, LayTombstone, RotateAfterDeviceRemoval,
              AdoptRoster, ReplaceChain, MembersRoster, OwnersRoster
<1>4. ASSUME NEW n \in Devices, SaveRoomKeys(n) \/ \E r \in net : InviteArrives(n, r)
      PROVE  file' = file \/ Save(n, room[n])
  BY <1>4 DEF SaveRoomKeys, InviteArrives
<1>5. ASSUME NEW n \in Devices,
             \/ \E x \in Devices : InviteToRoom(n, x) \/ RemoveMember(n, x)
             \/ SendInvite(n) \/ DistributeRoster(n) \/ AcceptRoomInvite(n) \/ DeclineRoomInvite(n)
             \/ LeaveRoom(n) \/ JoinRoom(n) \/ \E readable \in BOOLEAN : Restart(n, readable)
             \/ \E r \in Rosters(n) : RosterForUnknownRoom(n, r) \/ RosterRefused(n, r)
      PROVE  file' = file
  BY <1>5 DEF InviteToRoom, RemoveMember, SendInvite, DistributeRoster, AcceptRoomInvite,
              DeclineRoomInvite, LeaveRoom, JoinRoom, Restart, RosterForUnknownRoom, RosterRefused
<1>6. file' = file \/ file'[q] = MergedEntry(room'[q], file[q])
      \/ file'[q] = MergedEntry(room[q], file[q])
  <2> DEFINE Writes == \/ file' = file \/ \E n \in Devices : \E m : KeepAndSave(n, m)
                       \/ \E n \in Devices : Save(n, room[n])
  <2>1. ASSUME NEW n \in Devices, UserStep(n) PROVE Writes
    BY <2>1, <1>3, <1>4, <1>5 DEF UserStep
  <2>2. ASSUME NEW n \in Devices, Delivery(n) PROVE Writes
    BY <2>2, <1>3, <1>4, <1>5 DEF Delivery
  <2>3. ASSUME NEW n \in Devices, NEW readable \in BOOLEAN, Restart(n, readable) PROVE Writes
    BY <2>3, <1>5
  <2>4. Writes
    <3>1. CASE UNCHANGED vars
      BY <3>1 DEF vars
    <3> HIDE DEF Writes
    <3>2. CASE Next
      BY <2>1, <2>2, <2>3, <3>2 DEF Next
    <3>3. QED BY <3>1, <3>2
  <2>5. QED BY <2>4, <1>1, <1>2
<1>7. QED BY <1>t, <1>6

\* Nothing a device is told, no restart and no unreadable file makes the pin or the
\* epochs its room file holds go back: every write merges (mergedRoomEntry).
THEOREM MarksRatchet == Spec => SavedMarksOnlyRatchet
<1>1. Inv /\ [Next]_vars => Inv'
  BY InvStep, InvitesStep DEF Inv
<1>2. Inv /\ [Next]_vars =>
        [\A n \in Devices :
           /\ file'[n].ownerEpoch >= file[n].ownerEpoch /\ file'[n].epoch >= file[n].epoch
           /\ file[n].owner # None => file'[n].owner = file[n].owner]_vars
  <2> SUFFICES ASSUME Inv, [Next]_vars, NEW n \in Devices
               PROVE  /\ file'[n].ownerEpoch >= file[n].ownerEpoch /\ file'[n].epoch >= file[n].epoch
                      /\ file[n].owner # None => file'[n].owner = file[n].owner
    OBVIOUS
  <2>1. file[n] \in Entry
    BY DEF Inv, TypeOK
  <2>2. CASE file'[n] = file[n]
    BY <2>1, <2>2 DEF Entry
  <2>3. CASE \E m \in Memory : file'[n] = MergedEntry(m, file[n])
    BY <2>1, <2>3, MergedType
  <2>4. QED BY <2>2, <2>3, FileStep
<1>3. QED BY InitInv, <1>1, <1>2, PTL DEF Spec, SavedMarksOnlyRatchet
-----------------------------------------------------------------------------
(* Removals: what ties a device's list to the tombstones it holds, to its   *)
(* file, to the owner's statements it heard and to the chains it minted     *)

\* Every roster names the owner and its author, and only the owner's removes.
Talk ==
  \A r \in net :
    /\ r.owner = Owner /\ r.to # r.author /\ r.author \in r.members
    /\ r.author # Owner => r.removed = {}
    /\ room[Owner].known

\* The owner's next stamp is ahead of every one it signed or heard itself say.
Stamps ==
  /\ \A r \in net : r.author = Owner => r.epoch < NextEpoch(room[Owner])
  /\ told[Owner].upTo < NextEpoch(room[Owner])

Pins(n) ==
  /\ room[n].owner \in {None, Owner} /\ file[n].owner \in {None, Owner}
  /\ room[n].epoch >= room[n].ownerEpoch /\ file[n].epoch >= file[n].ownerEpoch
  /\ ~Idle(n) => room[n].owner = Owner
  /\ room[n].known => room[Owner].known

\* A device that does not know the room holds nothing of it but an invitation.
Strangers(n) ==
  /\ ~room[n].known => room[n] = NoMemory /\ file[n] = NoEntry /\ Idle(n) /\ told[n].gone = {}
  /\ pending[n] # NoInvite => ~room[n].known /\ pending[n] \in net /\ pending[n].to = n

\* Nobody is listed and tombstoned, whichever step of a call the device is in.
Lists(n) ==
  /\ room[n].removed \cap room[n].invited = {}
  /\ InStep(n, "invite") => call[n].whom \notin room[n].removed
  /\ InStep(n, "send") => call[n].whom \in room[n].invited
  /\ InStep(n, "remove") => call[n].whom \notin room[n].invited
  /\ call[n].lifted => n = Owner
  /\ n = Owner => n \notin room[n].removed /\ n \notin file[n].removed
  /\ ~InStep(n, "adopt")

\* Whose tombstone the owner has lifted for an invitation it has not sent yet.
Halfway(n) ==
  IF (InStep(n, "invite") \/ InStep(n, "send")) /\ call[n].lifted THEN {call[n].whom} ELSE {}

\* The file holds every removal memory or the owner's statements ever held, and the
\* chain as memory has it; a member has heard everything its mark says it has.
Remembers(n) ==
  /\ file[n].saved /\ room[n].owner = Owner /\ file[n].owner = Owner
  /\ room[n].removed \subseteq file[n].removed
  /\ told[n].gone \subseteq file[n].removed
  /\ told[n].gone \subseteq room[n].removed \cup Halfway(n)
  /\ room[n].chain = file[n].chain /\ room[n].stale = file[n].stale
  /\ n # Owner => /\ file[n].ownerEpoch = room[n].ownerEpoch
                  /\ told[n].upTo >= room[n].ownerEpoch
                  /\ told[n].upTo = room[n].ownerEpoch \/ told[n].gone = {}
  /\ room[n].chain # 0 /\ ~room[n].stale => room[n].chain > retired[n]

Chains(n) ==
  room[n].chain <= minted[n] /\ file[n].chain <= minted[n] /\ retired[n] <= minted[n]

Local(n) ==
  /\ Pins(n) /\ Strangers(n) /\ Lists(n) /\ Chains(n)
  /\ n \notin blind /\ room[n].known => Remembers(n)

\* Of a room it has accepted an invitation to, but not adopted, a device has nobody
\* removed, no epoch and no chain, in memory or in its file.
Blank(n) ==
  /\ n # Owner /\ room[Owner].known /\ room[n].known /\ pending[n] = NoInvite
  /\ room[n].removed = {} /\ room[n].epoch = 0 /\ room[n].ownerEpoch = 0
  /\ room[n].chain = 0 /\ room[n].stale = FALSE
  /\ file[n].removed = {} /\ file[n].epoch = 0 /\ file[n].ownerEpoch = 0
  /\ file[n].chain = 0 /\ file[n].stale = FALSE
  /\ file[n].owner = (IF file[n].saved THEN Owner ELSE None)
  /\ retired[n] <= minted[n]

\* Between the pin and the roster, and after a process that ended there unsaved.
Adopts(n) ==
  /\ Blank(n) /\ InStep(n, "adopt") /\ told[n].gone = {}
  /\ call[n].what \in net /\ call[n].what.to = n
  /\ room[n].owner = Owner /\ room[n].invited = {call[n].what.author}

Bare(n) ==
  /\ Blank(n) /\ Idle(n) /\ ~file[n].saved
  /\ ~room[n].encrypted /\ room[n].owner = None /\ room[n].invited = {}

Here(n) == Local(n) \/ Adopts(n) \/ Bare(n)

Good == Inv /\ Talk /\ Stamps /\ \A n \in Devices : Here(n)

\* A step of device n leaves the others as they are.
Elsewhere(n) ==
  \A q \in Devices \ {n} :
    /\ room'[q] = room[q] /\ file'[q] = file[q] /\ call'[q] = call[q]
    /\ pending'[q] = pending[q] /\ told'[q] = told[q]
    /\ minted'[q] = minted[q] /\ retired'[q] = retired[q]
    /\ q \in blind' <=> q \in blind

LEMMA OthersKeep ==
  ASSUME Good, NEW n \in Devices, Elsewhere(n), net \subseteq net',
         room[Owner].known => room'[Owner].known
  PROVE  \A q \in Devices \ {n} : Here(q)'
<1> SUFFICES ASSUME NEW q \in Devices \ {n} PROVE Here(q)'
  OBVIOUS
<1>2. /\ room'[q] = room[q] /\ file'[q] = file[q] /\ call'[q] = call[q]
      /\ pending'[q] = pending[q] /\ told'[q] = told[q]
      /\ minted'[q] = minted[q] /\ retired'[q] = retired[q]
      /\ q \in blind' <=> q \in blind
  BY DEF Elsewhere
<1>1. CASE Local(q)
  <2>1. Pins(q)' /\ Chains(q)' /\ Lists(q)'
    BY <1>1, <1>2 DEF Local, Pins, Chains, Lists, Idle, InStep
  <2>2. Strangers(q)'
    BY <1>1, <1>2 DEF Local, Strangers, Idle
  <2>3. q \notin blind' /\ room'[q].known => Remembers(q)'
    BY <1>1, <1>2 DEF Local, Remembers, Halfway, InStep
  <2>4. QED BY <2>1, <2>2, <2>3 DEF Here, Local
<1>b. Blank(q) => Blank(q)'
  BY <1>2 DEF Blank
<1>3. CASE Adopts(q)
  <2>1. Adopts(q)'
    BY <1>2, <1>3, <1>b DEF Adopts, InStep
  <2>2. QED BY <2>1 DEF Here
<1>4. CASE Bare(q)
  <2>1. Bare(q)'
    BY <1>2, <1>4, <1>b DEF Bare, Idle
  <2>2. QED BY <2>1 DEF Here
<1>5. QED BY <1>1, <1>3, <1>4 DEF Good, Here

\* What saving m does to device n's file, and what a failed save costs.
LEMMA SaveFacts ==
  ASSUME Inv, NEW n \in Devices, NEW m \in Memory, Save(n, m)
  PROVE  /\ \A q \in Devices \ {n} : file'[q] = file[q] /\ (q \in blind' <=> q \in blind)
         /\ file[n].removed \subseteq file'[n].removed
         /\ file'[n].removed \subseteq file[n].removed \cup m.removed
         /\ file'[n].owner = file[n].owner \/ file'[n].owner = m.owner
         /\ file'[n].chain = file[n].chain \/ file'[n].chain = m.chain
         /\ file[n].epoch >= file[n].ownerEpoch /\ m.epoch >= m.ownerEpoch
              => file'[n].epoch >= file'[n].ownerEpoch
         /\ n \notin blind' =>
              /\ n \notin blind /\ file'[n].saved
              /\ m.removed \subseteq file'[n].removed
              /\ file[n].owner # None => file'[n].owner = file[n].owner
              /\ file[n].owner = None => file'[n].owner = m.owner
              /\ file'[n].ownerEpoch = higher(m.ownerEpoch, file[n].ownerEpoch)
              /\ m.chain # 0 => file'[n].chain = m.chain /\ file'[n].stale = m.stale
              /\ m.chain = 0 => file'[n].chain = file[n].chain
              /\ m.chain = 0 /\ file[n].chain = 0 => file'[n].stale = m.stale
              /\ m.chain = 0 /\ file[n].chain # 0 => file'[n].stale = file[n].stale
<1>1. file \in [Devices -> Entry] /\ file[n] \in Entry
  BY DEF Inv, TypeOK
<1>2. CASE file' = [file EXCEPT ![n] = MergedEntry(m, @)] /\ UNCHANGED <<blind, upsets>>
  <2>1. file'[n] = MergedEntry(m, file[n]) /\ \A q \in Devices \ {n} : file'[q] = file[q]
    BY <1>1, <1>2
  <2>2. QED BY <1>1, <1>2, <2>1 DEF MergedEntry, Entry, Memory, higher
<1>3. CASE blind' = blind \cup {n} /\ UNCHANGED file
  BY <1>1, <1>3
<1>4. QED BY <1>2, <1>3 DEF Save

LEMMA AddAllFacts ==
  ASSUME NEW m \in Memory, NEW self \in Devices, NEW names \in SUBSET Devices
  PROVE  LET k == AddAll(m, names, self) IN
         /\ k.removed = m.removed /\ k.invited = m.invited \cup ((names \ {self}) \ m.removed)
         /\ k.known = m.known /\ k.joined = m.joined /\ k.owner = m.owner
         /\ k.epoch = m.epoch /\ k.ownerEpoch = m.ownerEpoch
         /\ k.chain = m.chain /\ k.stale = m.stale
  BY DEF AddAll, Memory

LEMMA TombstoneFacts ==
  ASSUME NEW m \in Memory, NEW gone \in SUBSET Devices, NEW present \in SUBSET Devices
  PROVE  LET k == Tombstone(m, gone, present) IN
         /\ k.removed = (m.removed \cup gone) \ present /\ k.invited = m.invited
         /\ k.known = m.known /\ k.joined = m.joined /\ k.owner = m.owner
         /\ k.epoch = m.epoch /\ k.ownerEpoch = m.ownerEpoch
         /\ k.chain = m.chain /\ k.stale = m.stale
  BY DEF Tombstone, Memory

LEMMA EpochFacts ==
  ASSUME NEW m \in Memory, NEW e \in Nat
  PROVE  LET k == AcceptOwnerEpoch(m, e) IN
         /\ k.epoch = higher(m.epoch, e) /\ k.ownerEpoch = higher(m.ownerEpoch, e)
         /\ k.removed = m.removed /\ k.invited = m.invited
         /\ k.known = m.known /\ k.joined = m.joined /\ k.owner = m.owner
         /\ k.chain = m.chain /\ k.stale = m.stale
  BY DEF AcceptOwnerEpoch, Memory

\* Signing claims the stamp: the next one is later.
LEMMA SignedFacts ==
  ASSUME NEW m \in Memory, NEW n \in Devices, clock \in Nat
  PROVE  LET k == Signed(m, n) IN
         /\ k \in Memory
         /\ k.epoch = NextEpoch(m) /\ NextEpoch(k) > NextEpoch(m)
         /\ NextEpoch(m) > m.epoch /\ NextEpoch(m) > m.ownerEpoch
         /\ n # m.owner => k.ownerEpoch = m.ownerEpoch
         /\ k.ownerEpoch <= k.epoch /\ k.ownerEpoch >= m.ownerEpoch
         /\ k.removed = m.removed /\ k.invited = m.invited
         /\ k.known = m.known /\ k.joined = m.joined /\ k.owner = m.owner
         /\ k.chain = m.chain /\ k.stale = m.stale
<1> DEFINE e == NextEpoch(m)
           m1 == [m EXCEPT !.epoch = e]
<1>1. e \in Nat /\ e > m.epoch /\ e > m.ownerEpoch
  BY DEF NextEpoch, higher, Memory
<1>2. /\ m1 \in Memory /\ m1.epoch = e /\ m1.ownerEpoch = m.ownerEpoch
      /\ m1.removed = m.removed /\ m1.invited = m.invited
      /\ m1.known = m.known /\ m1.joined = m.joined /\ m1.owner = m.owner
      /\ m1.chain = m.chain /\ m1.stale = m.stale
  BY <1>1 DEF Memory
<1>3. Signed(m, n) = IF n = m.owner THEN AcceptOwnerEpoch(m1, e) ELSE m1
  BY DEF Signed
<1> HIDE DEF e, m1
<1> DEFINE k == Signed(m, n)
<1>4. /\ k \in Memory /\ k.epoch = e
      /\ n # m.owner => k.ownerEpoch = m.ownerEpoch
      /\ n = m.owner => k.ownerEpoch = e
      /\ k.removed = m.removed /\ k.invited = m.invited
      /\ k.known = m.known /\ k.joined = m.joined /\ k.owner = m.owner
      /\ k.chain = m.chain /\ k.stale = m.stale
  <2>1. CASE n = m.owner
    <3>1. k = AcceptOwnerEpoch(m1, e)
      BY <2>1, <1>3
    <3>2. AcceptOwnerEpoch(m1, e) \in Memory
      BY <1>1, <1>2, EpochType
    <3>3. higher(m1.epoch, e) = e /\ higher(m1.ownerEpoch, e) = e
      BY <1>1, <1>2 DEF higher, Memory
    <3> HIDE DEF k
    <3>4. QED BY <1>1, <1>2, <2>1, <3>1, <3>2, <3>3, EpochFacts
  <2>2. CASE n # m.owner
    BY <1>2, <1>3, <2>2
  <2>3. QED BY <2>1, <2>2
<1> HIDE DEF k
<1>5. NextEpoch(k) > e
  BY <1>1, <1>4 DEF NextEpoch, higher, Memory
<1>6. QED BY <1>1, <1>4, <1>5 DEF e, k, Memory

\* What a step of device n has to show.
StepOK(n) ==
  /\ Elsewhere(n) /\ net \subseteq net'
  /\ room[Owner].known => room'[Owner].known
  /\ Here(n)' /\ Talk' /\ Stamps'

LEMMA StepSuffices ==
  ASSUME Good, Inv', NEW n \in Devices, StepOK(n)
  PROVE  Good'
<1>1. \A q \in Devices : Here(q)'
  BY OthersKeep DEF StepOK
<1>2. QED BY <1>1 DEF Good, StepOK

\* A step that says nothing and moves no mark of the owner's back.
LEMMA QuietWire ==
  ASSUME Good, Inv', net' = net, told'[Owner].upTo = told[Owner].upTo, clock' >= clock,
         room'[Owner].epoch >= room[Owner].epoch,
         room'[Owner].ownerEpoch >= room[Owner].ownerEpoch,
         room[Owner].known => room'[Owner].known
  PROVE  Talk' /\ Stamps'
<1>1. Owner \in Devices
  BY DevicesAssumption
<1>2. room[Owner] \in Memory /\ room'[Owner] \in Memory /\ clock \in Nat /\ clock' \in Nat
  BY <1>1 DEF Good, Inv, TypeOK
<1> DEFINE k == room[Owner]
           m == room'[Owner]
<1>3. /\ k.epoch \in Nat /\ k.ownerEpoch \in Nat /\ m.epoch \in Nat /\ m.ownerEpoch \in Nat
      /\ m.epoch >= k.epoch /\ m.ownerEpoch >= k.ownerEpoch
  BY <1>2 DEF Memory
<1>a. /\ NextEpoch(k) = higher(higher(k.epoch, k.ownerEpoch) + 1, clock)
      /\ NextEpoch(room[Owner])' = higher(higher(m.epoch, m.ownerEpoch) + 1, clock')
  BY DEF NextEpoch
<1> HIDE DEF k, m
<1>b. higher(higher(m.epoch, m.ownerEpoch) + 1, clock') >= higher(higher(k.epoch, k.ownerEpoch) + 1, clock)
  BY <1>2, <1>3 DEF higher
<1>c. higher(higher(m.epoch, m.ownerEpoch) + 1, clock') \in Nat /\ higher(higher(k.epoch, k.ownerEpoch) + 1, clock) \in Nat
  BY <1>2, <1>3 DEF higher
<1>4. /\ NextEpoch(room[Owner])' >= NextEpoch(room[Owner])
      /\ NextEpoch(room[Owner]) \in Nat /\ NextEpoch(room[Owner])' \in Nat
  BY <1>a, <1>b, <1>c DEF k
<1>5. told[Owner].upTo \in Nat /\ \A r \in net : r.epoch \in Nat
  BY <1>1 DEF Good, Inv, TypeOK, Message
<1>6. Stamps'
  BY <1>4, <1>5 DEF Good, Stamps
<1>7. QED BY <1>6 DEF Good, Talk

\* The same for a step after which device n's memory is m.
LEMMA KeepingStep ==
  ASSUME Good, Inv', Calm', NEW n \in Devices, NEW m \in Memory, Keep(n, m), m.known,
         net' = net, told'[Owner] = told[Owner], clock' = clock,
         m.epoch >= room[n].epoch, m.ownerEpoch >= room[n].ownerEpoch,
         room[n].known \/ room[Owner].known \/ n = Owner
  PROVE  /\ room'[n] = m /\ \A q \in Devices \ {n} : room'[q] = room[q]
         /\ Talk' /\ Stamps' /\ Strangers(n)'
         /\ room'[Owner].known /\ (n = Owner => m = room'[Owner])
<1>1. Owner \in Devices /\ room \in [Devices -> Memory]
  BY DevicesAssumption DEF Good, Inv, TypeOK
<1>2. room'[n] = m /\ \A q \in Devices \ {n} : room'[q] = room[q]
  BY <1>1 DEF Keep
<1>3. room[n].known => room[Owner].known
  BY DEF Good, Here, Local, Pins, Adopts, Bare, Blank
<1>4. room[Owner] \in Memory /\ room'[Owner] = (IF n = Owner THEN m ELSE room[Owner])
  BY <1>1, <1>2
<1>5. /\ room'[Owner].epoch >= room[Owner].epoch
      /\ room'[Owner].ownerEpoch >= room[Owner].ownerEpoch
      /\ room[Owner].known => room'[Owner].known
  BY <1>4 DEF Memory
<1>6. clock' >= clock
  BY DEF Good, Inv, TypeOK
<1>7. Talk' /\ Stamps'
  BY <1>5, <1>6, QuietWire
<1>8. Strangers(n)'
  BY <1>2 DEF Calm, Strangers
<1>9. QED BY <1>2, <1>3, <1>4, <1>7, <1>8

LEMMA CreateEncryptedRoomStep ==
  ASSUME Good, Inv', Calm', NEW n \in Devices, Local(n), CreateEncryptedRoom(n) PROVE StepOK(n)
<1> USE DevicesAssumption
<1> DEFINE m0 == [room[n] EXCEPT !.known = TRUE, !.joined = TRUE, !.encrypted = TRUE]
           m == PinOwner(m0, n)
<1>t. /\ room \in [Devices -> Memory] /\ file \in [Devices -> Entry] /\ call \in [Devices -> Call]
      /\ room[n] \in Memory /\ file[n] \in Entry
  BY DEF Good, Inv, TypeOK
<1>1. /\ m \in Memory /\ m.known /\ m.owner = (IF room[n].owner = None THEN n ELSE room[n].owner)
      /\ m.invited = room[n].invited /\ m.removed = room[n].removed
      /\ m.epoch = room[n].epoch /\ m.ownerEpoch = room[n].ownerEpoch
      /\ m.chain = room[n].chain /\ m.stale = room[n].stale
  BY <1>t DEF PinOwner, Memory
<1>2. /\ n = Owner /\ Idle(n) /\ Keep(n, m) /\ Save(n, m)
      /\ UNCHANGED <<call, pending, net, clock, minted, retired, told, calls>>
  BY DEF CreateEncryptedRoom, KeepAndSave
<1> HIDE DEF m, m0
<1>3. m.epoch >= room[n].epoch /\ m.ownerEpoch >= room[n].ownerEpoch
  BY <1>t, <1>1 DEF Memory
<1>4. /\ room'[n] = m /\ \A q \in Devices \ {n} : room'[q] = room[q]
      /\ Talk' /\ Stamps' /\ Strangers(n)' /\ room'[Owner].known
  BY <1>1, <1>2, <1>3, KeepingStep
<1>5. Local(n)
  BY DEF Good
<1>6. Inv
  BY DEF Good
<1>7. Elsewhere(n)
  BY <1>1, <1>2, <1>4, <1>6, SaveFacts DEF Elsewhere
<1>8. /\ file[n].removed \subseteq file'[n].removed
      /\ file'[n].removed \subseteq file[n].removed \cup m.removed
      /\ file'[n].owner = file[n].owner \/ file'[n].owner = m.owner
      /\ file'[n].chain = file[n].chain \/ file'[n].chain = m.chain
      /\ file[n].epoch >= file[n].ownerEpoch /\ m.epoch >= m.ownerEpoch
           => file'[n].epoch >= file'[n].ownerEpoch
  BY <1>1, <1>2, <1>6, SaveFacts
<1>9. Pins(n)'
  BY <1>1, <1>2, <1>4, <1>5, <1>8 DEF Local, Pins, Idle
<1>10. Lists(n)' /\ Chains(n)'
  BY <1>1, <1>2, <1>4, <1>5, <1>8 DEF Local, Lists, Chains, Idle, InStep
<1>11. n \notin blind' => Remembers(n)'
  <2> SUFFICES ASSUME n \notin blind' PROVE Remembers(n)'
    OBVIOUS
  <2>1. /\ n \notin blind /\ file'[n].saved
        /\ m.removed \subseteq file'[n].removed
        /\ file[n].owner # None => file'[n].owner = file[n].owner
        /\ file[n].owner = None => file'[n].owner = m.owner
        /\ m.chain # 0 => file'[n].chain = m.chain /\ file'[n].stale = m.stale
        /\ m.chain = 0 => file'[n].chain = file[n].chain
        /\ m.chain = 0 /\ file[n].chain = 0 => file'[n].stale = m.stale
        /\ m.chain = 0 /\ file[n].chain # 0 => file'[n].stale = file[n].stale
    BY <1>1, <1>2, <1>6, SaveFacts
  <2>2. CASE room[n].known
    BY <1>1, <1>2, <1>4, <1>5, <1>8, <2>1, <2>2 DEF Local, Remembers, Pins, Halfway, Idle, InStep
  <2>3. CASE ~room[n].known
    <3>1. /\ room[n].chain = 0 /\ room[n].stale = FALSE /\ room[n].owner = None
          /\ file[n].owner = None /\ file[n].chain = 0 /\ told[n].gone = {}
      BY <1>5, <2>3 DEF Local, Strangers, NoMemory, NoEntry
    <3>2. QED BY <1>1, <1>2, <1>4, <2>1, <3>1 DEF Remembers
  <2>4. QED BY <2>2, <2>3
<1>12. QED BY <1>2, <1>4, <1>7, <1>9, <1>10, <1>11 DEF StepOK, Here, Local

LEMMA InviteToRoomStep ==
  ASSUME Good, Inv', Calm', NEW n \in Devices, Local(n), NEW x \in Devices, InviteToRoom(n, x)
  PROVE  StepOK(n)
<1> USE DevicesAssumption
<1> DEFINE m == Tombstone(room[n], {}, {x})
<1>t. /\ room \in [Devices -> Memory] /\ call \in [Devices -> Call] /\ room[n] \in Memory
  BY DEF Good, Inv, TypeOK
<1>1. /\ m \in Memory /\ m.known = room[n].known /\ m.owner = room[n].owner
      /\ m.invited = room[n].invited /\ m.removed = room[n].removed \ {x}
      /\ m.epoch = room[n].epoch /\ m.ownerEpoch = room[n].ownerEpoch
      /\ m.chain = room[n].chain /\ m.stale = room[n].stale
  BY <1>t DEF Tombstone, Memory
<1>2. /\ Idle(n) /\ Keep(n, m) /\ room[n].known /\ room[n].owner # None /\ x # n
      /\ x \in room[n].removed => room[n].owner = n
      /\ call' = [call EXCEPT ![n] = [NoCall EXCEPT !.pc = "invite", !.whom = x,
                                                    !.lifted = x \in room[n].removed]]
      /\ UNCHANGED <<file, pending, net, clock, minted, retired, told, blind, upsets>>
  BY DEF InviteToRoom
<1> HIDE DEF m
<1>3. m.epoch >= room[n].epoch /\ m.ownerEpoch >= room[n].ownerEpoch
  BY <1>t, <1>1 DEF Memory
<1>4. /\ room'[n] = m /\ \A q \in Devices \ {n} : room'[q] = room[q]
      /\ Talk' /\ Stamps' /\ Strangers(n)' /\ room'[Owner].known
  BY <1>1, <1>2, <1>3, KeepingStep
<1>5. Local(n)
  BY DEF Good
<1>6. /\ call'[n].pc = "invite" /\ call'[n].whom = x
      /\ call'[n].lifted = (x \in room[n].removed)
      /\ \A q \in Devices \ {n} : call'[q] = call[q]
  <2> DEFINE b == x \in room[n].removed
             c == [NoCall EXCEPT !.pc = "invite", !.whom = x, !.lifted = b]
  <2>1. call' = [call EXCEPT ![n] = c]
    BY <1>2
  <2> HIDE DEF b
  <2>2. c.pc = "invite" /\ c.whom = x /\ c.lifted = b
    BY DEF NoCall
  <2> HIDE DEF c
  <2>3. call'[n] = c /\ \A q \in Devices \ {n} : call'[q] = call[q]
    BY <1>t, <2>1
  <2>4. QED BY <2>2, <2>3 DEF b
<1>7. Elsewhere(n)
  BY <1>2, <1>4, <1>6 DEF Elsewhere
<1>8. Pins(n)' /\ Chains(n)'
  BY <1>1, <1>2, <1>4, <1>5 DEF Local, Pins, Chains
<1>9. Lists(n)'
  BY <1>1, <1>2, <1>4, <1>5, <1>6 DEF Local, Lists, InStep, Pins
<1>10. n \notin blind' => Remembers(n)'
  <2> SUFFICES ASSUME n \notin blind' PROVE Remembers(n)'
    OBVIOUS
  <2>1. Remembers(n) /\ Halfway(n) = {}
    BY <1>2, <1>5 DEF Local, Halfway, Idle, InStep
  <2>2. Halfway(n)' = (IF x \in room[n].removed THEN {x} ELSE {})
    BY <1>6 DEF Halfway, InStep
  <2>3. (told[n].gone \subseteq room[n].removed \cup Halfway(n))'
    BY <1>1, <1>2, <1>4, <2>1, <2>2 DEF Remembers
  <2>4. QED BY <1>1, <1>2, <1>4, <2>1, <2>3 DEF Remembers
<1>11. QED BY <1>2, <1>4, <1>7, <1>8, <1>9, <1>10 DEF StepOK, Here, Local

\* Saving a memory that has the pin, the removals and the marks of the old one.
LEMMA SavedAgain ==
  ASSUME Good, NEW n \in Devices, Local(n), NEW m \in Memory, Save(n, m), room'[n] = m,
         n \notin blind', room[n].known, m.owner = room[n].owner,
         m.chain = 0 => room[n].chain = 0
  PROVE  /\ n \notin blind /\ Remembers(n) /\ file'[n].saved
         /\ file'[n].owner = Owner /\ m.owner = Owner
         /\ m.removed \subseteq file'[n].removed /\ file[n].removed \subseteq file'[n].removed
         /\ m.chain = file'[n].chain /\ m.stale = file'[n].stale
         /\ n # Owner /\ m.ownerEpoch >= room[n].ownerEpoch => file'[n].ownerEpoch = m.ownerEpoch
<1>1. /\ n \notin blind /\ file'[n].saved
      /\ m.removed \subseteq file'[n].removed /\ file[n].removed \subseteq file'[n].removed
      /\ file[n].owner # None => file'[n].owner = file[n].owner
      /\ file'[n].ownerEpoch = higher(m.ownerEpoch, file[n].ownerEpoch)
      /\ m.chain # 0 => file'[n].chain = m.chain /\ file'[n].stale = m.stale
      /\ m.chain = 0 => file'[n].chain = file[n].chain
      /\ m.chain = 0 /\ file[n].chain = 0 => file'[n].stale = m.stale
      /\ m.chain = 0 /\ file[n].chain # 0 => file'[n].stale = file[n].stale
  BY SaveFacts DEF Good
<1>2. Remembers(n)
  BY <1>1 DEF Good, Local
<1>3. Owner # None
  BY DevicesAssumption
<1>4. m.ownerEpoch >= room[n].ownerEpoch => higher(m.ownerEpoch, room[n].ownerEpoch) = m.ownerEpoch
  <2>1. m.ownerEpoch \in Nat /\ room[n].ownerEpoch \in Nat
    BY DEF Good, Inv, TypeOK, Memory
  <2>2. QED BY <2>1 DEF higher
<1>5. QED BY <1>1, <1>2, <1>3, <1>4 DEF Remembers

\* What a save leaves of the file's pin and marks, whatever became of it.
LEMMA FilePins ==
  ASSUME Good, NEW n \in Devices, Local(n), NEW m \in Memory, Save(n, m),
         m.owner \in {None, Owner}, m.epoch >= m.ownerEpoch, n = Owner => n \notin m.removed
  PROVE  /\ file'[n].owner \in {None, Owner} /\ file'[n].epoch >= file'[n].ownerEpoch
         /\ n = Owner => n \notin file'[n].removed
         /\ file'[n].chain = file[n].chain \/ file'[n].chain = m.chain
<1>1. /\ file'[n].removed \subseteq file[n].removed \cup m.removed
      /\ file'[n].owner = file[n].owner \/ file'[n].owner = m.owner
      /\ file'[n].chain = file[n].chain \/ file'[n].chain = m.chain
      /\ file[n].epoch >= file[n].ownerEpoch /\ m.epoch >= m.ownerEpoch
           => file'[n].epoch >= file'[n].ownerEpoch
  BY SaveFacts DEF Good
<1>2. QED BY <1>1 DEF Good, Local, Pins, Lists

LEMMA AddInvitedStep ==
  ASSUME Good, Inv', Calm', NEW n \in Devices, Local(n), AddInvited(n) PROVE StepOK(n)
<1> USE DevicesAssumption
<1> DEFINE x == call[n].whom
           m == [room[n] EXCEPT !.invited = @ \cup {x}]
<1>t. /\ room \in [Devices -> Memory] /\ file \in [Devices -> Entry] /\ call \in [Devices -> Call]
      /\ room[n] \in Memory /\ file[n] \in Entry
  BY DEF Good, Inv, TypeOK
<1>0. /\ call[n].pc = "invite" /\ x \in Devices \ {n} /\ ~Idle(n)
  BY DEF AddInvited, InStep, Good, Inv, CallsOK, Idle
<1>1. /\ m \in Memory /\ m.known = room[n].known /\ m.owner = room[n].owner
      /\ m.invited = room[n].invited \cup {x} /\ m.removed = room[n].removed
      /\ m.epoch = room[n].epoch /\ m.ownerEpoch = room[n].ownerEpoch
      /\ m.chain = room[n].chain /\ m.stale = room[n].stale
  BY <1>t, <1>0 DEF Memory
<1>2. /\ Keep(n, m) /\ Save(n, m) /\ call' = [call EXCEPT ![n].pc = "send"]
      /\ UNCHANGED <<pending, net, clock, minted, retired, told, calls>>
  BY DEF AddInvited, KeepAndSave, Goto
<1> HIDE DEF m
<1>3. m.epoch >= room[n].epoch /\ m.ownerEpoch >= room[n].ownerEpoch
  BY <1>t, <1>1 DEF Memory
<1>5. Local(n) /\ Inv /\ room[n].known
  BY <1>0 DEF Good, Local, Strangers
<1>4. /\ room'[n] = m /\ \A q \in Devices \ {n} : room'[q] = room[q]
      /\ Talk' /\ Stamps' /\ Strangers(n)' /\ room'[Owner].known
  BY <1>1, <1>2, <1>3, <1>5, KeepingStep
<1>6. /\ call'[n].pc = "send" /\ call'[n].whom = x /\ call'[n].lifted = call[n].lifted
      /\ \A q \in Devices \ {n} : call'[q] = call[q]
  BY <1>t, <1>2 DEF Call
<1> HIDE DEF x
<1>7. Elsewhere(n)
  BY <1>1, <1>2, <1>4, <1>5, <1>6, SaveFacts DEF Elsewhere
<1>8. /\ file[n].removed \subseteq file'[n].removed
      /\ file'[n].removed \subseteq file[n].removed \cup m.removed
      /\ file'[n].owner = file[n].owner \/ file'[n].owner = m.owner
      /\ file'[n].chain = file[n].chain \/ file'[n].chain = m.chain
      /\ file[n].epoch >= file[n].ownerEpoch /\ m.epoch >= m.ownerEpoch
           => file'[n].epoch >= file'[n].ownerEpoch
  BY <1>1, <1>2, <1>5, SaveFacts
<1>9. Pins(n)' /\ Chains(n)'
  BY <1>0, <1>1, <1>2, <1>4, <1>5, <1>8 DEF Local, Pins, Chains, Idle
<1>10. Lists(n)'
  <2>1. x \notin room[n].removed
    BY <1>0, <1>5 DEF Local, Lists, InStep, x
  <2>2. QED BY <1>0, <1>1, <1>2, <1>4, <1>5, <1>6, <1>8, <2>1 DEF Local, Lists, InStep
<1>11. n \notin blind' => Remembers(n)'
  <2> SUFFICES ASSUME n \notin blind' PROVE Remembers(n)'
    OBVIOUS
  <2>1. Remembers(n) /\ n \notin blind /\ file'[n].saved
    BY <1>1, <1>2, <1>5, SaveFacts DEF Local
  <2>2. Halfway(n)' = Halfway(n)
    BY <1>0, <1>6 DEF Halfway, InStep, x
  <2>3. /\ file'[n].owner = Owner /\ m.removed \subseteq file'[n].removed
        /\ file'[n].chain = m.chain /\ file'[n].stale = m.stale
        /\ n # Owner => file'[n].ownerEpoch = m.ownerEpoch
    BY <1>1, <1>2, <1>3, <1>4, <1>5, SavedAgain
  <2>4. QED BY <1>1, <1>2, <1>4, <1>8, <2>1, <2>2, <2>3 DEF Remembers
<1>12. QED BY <1>2, <1>4, <1>7, <1>9, <1>10, <1>11 DEF StepOK, Here, Local

\* Device n signs its list and its removals with one new stamp and sends it to others.
LEMMA Speaks ==
  ASSUME Good, Inv', Calm', NEW n \in Devices, Local(n), ~Idle(n), Keep(n, Signed(room[n], n)),
         NEW kind \in {"roster", "invite"}, NEW to \in Devices, NEW tell \in SUBSET (Devices \ {n}),
         net' = net \cup {Statement(room[n], n, kind, t) : t \in tell}, clock' = clock,
         Hears(n, Statement(room[n], n, kind, to))
  PROVE  /\ room'[n] = Signed(room[n], n) /\ \A q \in Devices \ {n} : room'[q] = room[q]
         /\ room[n].known /\ room'[Owner].known
         /\ Talk' /\ Stamps' /\ Strangers(n)'
         /\ n # Owner => told' = told
         /\ n = Owner => /\ told'[n].gone = (told[n].gone \cup room[n].removed) \ (room[n].invited \cup {n})
                         /\ \A q \in Devices \ {n} : told'[q] = told[q]
<1> USE DevicesAssumption
<1> DEFINE s(t) == Statement(room[n], n, kind, t)
           e == NextEpoch(room[n])
           m == Signed(room[n], n)
<1>t. /\ room \in [Devices -> Memory] /\ room[n] \in Memory /\ clock \in Nat
      /\ net \subseteq Message /\ told \in [Devices -> [upTo : Nat, gone : SUBSET Devices]]
  BY DEF Good, Inv, TypeOK
<1>0. room[n].known /\ room[n].owner = Owner /\ Local(n)
  BY DEF Good, Local, Strangers, Pins
<1>1. /\ m \in Memory /\ m.known /\ NextEpoch(m) > e
      /\ e \in Nat /\ NextEpoch(m) \in Nat
  <2>1. m \in Memory /\ m.known = room[n].known /\ NextEpoch(m) > e
    BY <1>t, SignedFacts
  <2>2. e \in Nat /\ NextEpoch(m) \in Nat
    BY <1>t, <2>1, SigningOps
  <2>3. QED BY <1>0, <2>1, <2>2
<1>2. room'[n] = m /\ \A q \in Devices \ {n} : room'[q] = room[q]
  BY <1>t DEF Keep
<1>3. ASSUME NEW t
      PROVE  /\ s(t).owner = Owner /\ s(t).to = t /\ s(t).author = n /\ s(t).epoch = e
             /\ s(t).members = room[n].invited \cup {n}
             /\ s(t).removed = (IF n = Owner THEN room[n].removed ELSE {})
  BY <1>0 DEF Statement
<1>4. \A r \in net' : r \in net \/ \E t \in tell : r = s(t)
  OBVIOUS
<1>5. room[Owner].known /\ room'[Owner].known
  BY <1>0, <1>1, <1>2 DEF Local, Pins
<1>h. Hears(n, s(to))
  OBVIOUS
<1> HIDE DEF s, m
<1>6. Talk'
  BY <1>3, <1>4, <1>5 DEF Good, Talk
<1>7. n # Owner => told' = told
  BY <1>h, <1>3 DEF Hears
<1>8. n = Owner => told'[n] = [upTo |-> e, gone |-> (told[n].gone \cup room[n].removed) \ (room[n].invited \cup {n})]
                   /\ \A q \in Devices \ {n} : told'[q] = told[q]
  <2> SUFFICES ASSUME n = Owner PROVE /\ told'[n] = [upTo |-> e, gone |-> (told[n].gone \cup room[n].removed) \ (room[n].invited \cup {n})]
                   /\ \A q \in Devices \ {n} : told'[q] = told[q]
    OBVIOUS
  <2>1. e > told[n].upTo
    BY <1>t, <1>1 DEF Good, Stamps
  <2> DEFINE h == [upTo |-> e, gone |-> (told[n].gone \cup room[n].removed) \ (room[n].invited \cup {n})]
  <2>2. told' = [told EXCEPT ![n] = h]
    <3>1. s(to).author = Owner /\ s(to).epoch > told[n].upTo
      BY <1>3, <2>1
    <3>2. told' = [told EXCEPT ![n] = [upTo |-> s(to).epoch, gone |-> (told[n].gone \cup s(to).removed) \ s(to).members]]
      BY <1>h, <3>1 DEF Hears
    <3>3. [upTo |-> s(to).epoch, gone |-> (told[n].gone \cup s(to).removed) \ s(to).members] = h
      BY <1>3
    <3>4. QED BY <3>2, <3>3
  <2> HIDE DEF h
  <2>3. told'[n] = h /\ \A q \in Devices \ {n} : told'[q] = told[q]
    BY <1>t, <2>2
  <2>4. QED BY <2>3 DEF h
<1>9. Stamps'
  <2>1. CASE n = Owner
    <3>1. NextEpoch(room[Owner])' = NextEpoch(m)
      BY <1>2, <2>1 DEF NextEpoch
    <3>2. \A r \in net' : r.author = Owner => r.epoch < NextEpoch(m)
      <4> SUFFICES ASSUME NEW r \in net', r.author = Owner PROVE r.epoch < NextEpoch(m)
        OBVIOUS
      <4>1. CASE r \in net
        <5>1. r.epoch < e /\ r.epoch \in Nat
          BY <1>t, <2>1, <4>1 DEF Good, Stamps, Message
        <5>2. QED BY <1>1, <5>1
      <4>2. CASE \E t \in tell : r = s(t)
        BY <1>1, <1>3, <4>2
      <4>3. QED BY <1>4, <4>1, <4>2
    <3>3. told'[Owner].upTo < NextEpoch(m)
      BY <1>1, <1>8, <2>1
    <3>4. QED BY <3>1, <3>2, <3>3 DEF Stamps
  <2>2. CASE n # Owner
    <3>1. NextEpoch(room[Owner])' = NextEpoch(room[Owner])
      BY <1>2, <2>2 DEF NextEpoch
    <3>2. \A r \in net' : r.author = Owner => r \in net
      BY <1>3, <1>4, <2>2
    <3>3. QED BY <1>7, <2>2, <3>1, <3>2 DEF Good, Stamps
  <2>3. QED BY <2>1, <2>2
<1>10. Strangers(n)'
  BY <1>1, <1>2 DEF Calm, Strangers
<1>11. QED BY <1>0, <1>2, <1>5, <1>6, <1>7, <1>8, <1>9, <1>10 DEF m

LEMMA SendInviteStep ==
  ASSUME Good, Inv', Calm', NEW n \in Devices, Local(n), SendInvite(n) PROVE StepOK(n)
<1> USE DevicesAssumption
<1> DEFINE x == call[n].whom
           m == Signed(room[n], n)
<1>t. /\ call \in [Devices -> Call] /\ room[n] \in Memory /\ clock \in Nat
  BY DEF Good, Inv, TypeOK
<1>0. /\ call[n].pc = "send" /\ x \in Devices \ {n} /\ ~Idle(n)
  BY DEF SendInvite, InStep, Good, Inv, CallsOK, Idle
<1>1. /\ m \in Memory /\ m.known = room[n].known /\ m.owner = room[n].owner
      /\ m.invited = room[n].invited /\ m.removed = room[n].removed
      /\ m.epoch >= m.ownerEpoch /\ (n # room[n].owner => m.ownerEpoch = room[n].ownerEpoch)
      /\ m.chain = room[n].chain /\ m.stale = room[n].stale
  <2>1. m.epoch \in Nat /\ m.ownerEpoch \in Nat /\ m.ownerEpoch <= m.epoch
    BY <1>t, SignedFacts DEF Memory
  <2>2. QED BY <1>t, <2>1, SignedFacts
<1>2. /\ Keep(n, m) /\ call' = [call EXCEPT ![n].pc = "tell"]
      /\ net' = net \cup {Statement(room[n], n, "invite", t) : t \in {x}}
      /\ Hears(n, Statement(room[n], n, "invite", x))
      /\ UNCHANGED <<file, pending, clock, minted, retired, blind, calls, upsets>>
  BY DEF SendInvite, Goto
<1>3. /\ room'[n] = m /\ \A q \in Devices \ {n} : room'[q] = room[q]
      /\ room[n].known /\ room'[Owner].known
      /\ Talk' /\ Stamps' /\ Strangers(n)'
      /\ n # Owner => told' = told
      /\ n = Owner => /\ told'[n].gone = (told[n].gone \cup room[n].removed) \ (room[n].invited \cup {n})
                      /\ \A q \in Devices \ {n} : told'[q] = told[q]
  <2>1. x \in Devices /\ {x} \in SUBSET (Devices \ {n})
    BY <1>0
  <2> HIDE DEF x
  <2>2. QED BY <1>0, <1>2, <2>1, Speaks
<1> HIDE DEF m
<1>5. Local(n)
  BY DEF Good
<1>6. /\ call'[n].pc = "tell" /\ call'[n].whom = x /\ call'[n].lifted = call[n].lifted
      /\ \A q \in Devices \ {n} : call'[q] = call[q]
  BY <1>t, <1>2 DEF Call
<1> HIDE DEF x
<1>7. Elsewhere(n)
  BY <1>2, <1>3, <1>6 DEF Elsewhere
<1>9. Pins(n)' /\ Chains(n)'
  BY <1>0, <1>1, <1>2, <1>3, <1>5 DEF Local, Pins, Chains, Idle
<1>10. Lists(n)'
  BY <1>0, <1>1, <1>2, <1>3, <1>5, <1>6 DEF Local, Lists, InStep
<1>11. n \notin blind' => Remembers(n)'
  <2> SUFFICES ASSUME n \notin blind' PROVE Remembers(n)'
    OBVIOUS
  <2>1. Remembers(n)
    BY <1>2, <1>3, <1>5 DEF Local
  <2>2. Halfway(n)' = {}
    BY <1>0, <1>6 DEF Halfway, InStep
  <2>3. told'[n].gone \subseteq m.removed /\ told'[n].gone \subseteq file[n].removed
    <3>1. CASE n # Owner
      BY <1>1, <1>3, <1>5, <2>1, <3>1 DEF Remembers, Halfway, Local, Lists
    <3>2. CASE n = Owner
      <4>1. Halfway(n) \subseteq room[n].invited
        BY <1>0, <1>5 DEF Halfway, InStep, Local, Lists
      <4>2. QED BY <1>1, <1>3, <2>1, <3>2, <4>1 DEF Remembers
    <3>3. QED BY <3>1, <3>2
  <2>4. n # Owner => told' = told /\ m.ownerEpoch = room[n].ownerEpoch
    BY <1>1, <1>3, <2>1 DEF Remembers
  <2>5. QED BY <1>1, <1>2, <1>3, <2>1, <2>2, <2>3, <2>4 DEF Remembers
<1>12. QED BY <1>2, <1>3, <1>7, <1>9, <1>10, <1>11 DEF StepOK, Here, Local

LEMMA DistributeRosterStep ==
  ASSUME Good, Inv', Calm', NEW n \in Devices, Local(n), DistributeRoster(n) PROVE StepOK(n)
<1> USE DevicesAssumption
<1> DEFINE tell == room[n].invited \ {call[n].whom}
           m == Signed(room[n], n)
<1>t. /\ call \in [Devices -> Call] /\ room[n] \in Memory /\ clock \in Nat /\ n \notin room[n].invited
  BY DEF Good, Inv, TypeOK
<1>0. /\ call[n].pc = "tell" /\ ~Idle(n)
  BY DEF DistributeRoster, InStep, Idle
<1>1. /\ m \in Memory /\ m.known = room[n].known /\ m.owner = room[n].owner
      /\ m.invited = room[n].invited /\ m.removed = room[n].removed
      /\ m.epoch >= m.ownerEpoch /\ (n # room[n].owner => m.ownerEpoch = room[n].ownerEpoch)
      /\ m.chain = room[n].chain /\ m.stale = room[n].stale
  <2>1. m.epoch \in Nat /\ m.ownerEpoch \in Nat /\ m.ownerEpoch <= m.epoch
    BY <1>t, SignedFacts DEF Memory
  <2>2. QED BY <1>t, <2>1, SignedFacts
<1>2. /\ Keep(n, m) /\ call' = [call EXCEPT ![n] = NoCall]
      /\ net' = net \cup {Statement(room[n], n, "roster", t) : t \in tell}
      /\ Hears(n, Statement(room[n], n, "roster", n))
      /\ UNCHANGED <<file, pending, clock, minted, retired, blind, calls, upsets>>
  BY DEF DistributeRoster, Return
<1>3. /\ room'[n] = m /\ \A q \in Devices \ {n} : room'[q] = room[q]
      /\ room[n].known /\ room'[Owner].known
      /\ Talk' /\ Stamps' /\ Strangers(n)'
      /\ n # Owner => told' = told
      /\ n = Owner => /\ told'[n].gone = (told[n].gone \cup room[n].removed) \ (room[n].invited \cup {n})
                      /\ \A q \in Devices \ {n} : told'[q] = told[q]
  <2>1. tell \in SUBSET (Devices \ {n})
    BY <1>t DEF Memory
  <2> HIDE DEF tell
  <2>2. QED BY <1>0, <1>2, <2>1, Speaks
<1> HIDE DEF m, tell
<1>5. Local(n)
  BY DEF Good
<1>6. call'[n] = NoCall /\ \A q \in Devices \ {n} : call'[q] = call[q]
  BY <1>t, <1>2
<1>7. Elsewhere(n)
  BY <1>2, <1>3, <1>6 DEF Elsewhere
<1>9. Pins(n)' /\ Chains(n)'
  BY <1>0, <1>1, <1>2, <1>3, <1>5 DEF Local, Pins, Chains, Idle
<1>10. Lists(n)'
  BY <1>0, <1>1, <1>2, <1>3, <1>5, <1>6 DEF Local, Lists, InStep, NoCall
<1>11. n \notin blind' => Remembers(n)'
  <2> SUFFICES ASSUME n \notin blind' PROVE Remembers(n)'
    OBVIOUS
  <2>1. Remembers(n) /\ Halfway(n) = {}
    BY <1>0, <1>2, <1>3, <1>5 DEF Local, Halfway, InStep
  <2>2. told'[n].gone \subseteq m.removed /\ told'[n].gone \subseteq file[n].removed
    BY <1>1, <1>3, <2>1 DEF Remembers
  <2>4. n # Owner => told' = told /\ m.ownerEpoch = room[n].ownerEpoch
    BY <1>1, <1>3, <2>1 DEF Remembers
  <2>5. QED BY <1>1, <1>2, <1>3, <2>1, <2>2, <2>4 DEF Remembers
<1>12. QED BY <1>2, <1>3, <1>7, <1>9, <1>10, <1>11 DEF StepOK, Here, Local

LEMMA InviteFailsStep ==
  ASSUME Good, Inv', Calm', NEW n \in Devices, Local(n), InviteFails(n) PROVE StepOK(n)
<1> USE DevicesAssumption
<1> DEFINE x == call[n].whom
           k == Signed(room[n], n)
           m1 == [k EXCEPT !.invited = @ \ {x}]
           gone == IF call[n].lifted THEN {x} ELSE {}
           m == Tombstone(m1, gone, {})
<1>t. /\ call \in [Devices -> Call] /\ room[n] \in Memory /\ clock \in Nat
  BY DEF Good, Inv, TypeOK
<1>0. /\ call[n].pc = "send" /\ x \in Devices \ {n} /\ ~Idle(n)
  BY DEF InviteFails, InStep, Good, Inv, CallsOK, Idle
<1>k. /\ k \in Memory /\ k.known = room[n].known /\ k.owner = room[n].owner
      /\ k.invited = room[n].invited /\ k.removed = room[n].removed
      /\ k.epoch >= k.ownerEpoch /\ (n # room[n].owner => k.ownerEpoch = room[n].ownerEpoch)
      /\ k.epoch >= room[n].epoch /\ k.ownerEpoch >= room[n].ownerEpoch
      /\ k.chain = room[n].chain /\ k.stale = room[n].stale
  <2>1. /\ k.epoch \in Nat /\ k.ownerEpoch \in Nat /\ k.ownerEpoch <= k.epoch
        /\ room[n].epoch \in Nat /\ k.epoch > room[n].epoch /\ k.ownerEpoch >= room[n].ownerEpoch
    BY <1>t, SignedFacts DEF Memory
  <2>2. QED BY <1>t, <2>1, SignedFacts
<1>2. /\ Keep(n, m) /\ Save(n, m) /\ call' = [call EXCEPT ![n] = NoCall]
      /\ UNCHANGED <<pending, net, clock, minted, retired, told, calls>>
  BY DEF InviteFails, KeepAndSave, Return
<1> HIDE DEF k
<1>g. gone \in SUBSET Devices /\ {} \in SUBSET Devices
  BY <1>0
<1>1. /\ m \in Memory /\ m.known = k.known /\ m.owner = k.owner
      /\ m.invited = k.invited \ {x} /\ m.removed = k.removed \cup gone
      /\ m.epoch = k.epoch /\ m.ownerEpoch = k.ownerEpoch
      /\ m.chain = k.chain /\ m.stale = k.stale
  <2>1. /\ m1 \in Memory /\ m1.known = k.known /\ m1.owner = k.owner
        /\ m1.invited = k.invited \ {x} /\ m1.removed = k.removed
        /\ m1.epoch = k.epoch /\ m1.ownerEpoch = k.ownerEpoch
        /\ m1.chain = k.chain /\ m1.stale = k.stale
    BY <1>k DEF Memory
  <2> HIDE DEF m1, gone
  <2>2. m \in Memory
    BY <1>g, <2>1, TombstoneType
  <2>3. QED BY <1>g, <2>1, <2>2, TombstoneFacts
<1> HIDE DEF m, m1
<1>5. Local(n) /\ Inv /\ room[n].known
  BY <1>0 DEF Good, Local, Strangers
<1>4. /\ room'[n] = m /\ \A q \in Devices \ {n} : room'[q] = room[q]
      /\ Talk' /\ Stamps' /\ Strangers(n)' /\ room'[Owner].known
  BY <1>1, <1>2, <1>k, <1>5, KeepingStep
<1>6. call'[n] = NoCall /\ \A q \in Devices \ {n} : call'[q] = call[q]
  BY <1>t, <1>2
<1> HIDE DEF x
<1>7. Elsewhere(n)
  BY <1>1, <1>2, <1>4, <1>5, <1>6, SaveFacts DEF Elsewhere
<1>8. /\ file'[n].owner \in {None, Owner} /\ file'[n].epoch >= file'[n].ownerEpoch
      /\ n = Owner => n \notin file'[n].removed /\ n \notin m.removed
      /\ file'[n].chain = file[n].chain \/ file'[n].chain = m.chain
  <2>1. n = Owner => n \notin m.removed
    BY <1>0, <1>1, <1>k, <1>5 DEF Local, Lists
  <2>2. QED BY <1>1, <1>2, <1>k, <1>5, <2>1, FilePins DEF Local, Pins
<1>9. Pins(n)' /\ Chains(n)'
  BY <1>0, <1>1, <1>2, <1>4, <1>5, <1>8, <1>k DEF Local, Pins, Chains
<1>10. Lists(n)'
  BY <1>0, <1>1, <1>2, <1>4, <1>5, <1>6, <1>8, <1>k DEF Local, Lists, InStep, NoCall
<1>11. n \notin blind' => Remembers(n)'
  <2> SUFFICES ASSUME n \notin blind' PROVE Remembers(n)'
    OBVIOUS
  <2>2. /\ n \notin blind /\ Remembers(n) /\ file'[n].saved
        /\ file'[n].owner = Owner /\ m.owner = Owner
        /\ m.removed \subseteq file'[n].removed /\ file[n].removed \subseteq file'[n].removed
        /\ m.chain = file'[n].chain /\ m.stale = file'[n].stale
        /\ n # Owner => file'[n].ownerEpoch = m.ownerEpoch
    BY <1>1, <1>2, <1>k, <1>4, <1>5, SavedAgain
  <2>3. Halfway(n) = gone
    BY <1>0 DEF Halfway, InStep, x
  <2>4. n # Owner => m.ownerEpoch = room[n].ownerEpoch
    BY <1>1, <1>k, <2>2 DEF Remembers
  <2>5. QED BY <1>1, <1>2, <1>4, <1>k, <2>2, <2>3, <2>4 DEF Remembers
<1>12. QED BY <1>2, <1>4, <1>7, <1>9, <1>10, <1>11 DEF StepOK, Here, Local

LEMMA RemoveMemberStep ==
  ASSUME Good, Inv', Calm', NEW n \in Devices, Local(n), NEW x \in Devices, RemoveMember(n, x)
  PROVE  StepOK(n)
<1> USE DevicesAssumption
<1> DEFINE m == [room[n] EXCEPT !.invited = @ \ {x}]
<1>t. /\ room \in [Devices -> Memory] /\ call \in [Devices -> Call] /\ room[n] \in Memory
  BY DEF Good, Inv, TypeOK
<1>1. /\ m \in Memory /\ m.known = room[n].known /\ m.owner = room[n].owner
      /\ m.invited = room[n].invited \ {x} /\ m.removed = room[n].removed
      /\ m.epoch = room[n].epoch /\ m.ownerEpoch = room[n].ownerEpoch
      /\ m.chain = room[n].chain /\ m.stale = room[n].stale
  BY <1>t DEF Memory
<1>2. /\ Idle(n) /\ Keep(n, m) /\ room[n].known /\ room[n].owner = n /\ x # n
      /\ call' = [call EXCEPT ![n] = [NoCall EXCEPT !.pc = "remove", !.whom = x]]
      /\ UNCHANGED <<file, pending, net, clock, minted, retired, told, blind, upsets>>
  BY DEF RemoveMember
<1> HIDE DEF m
<1>3. m.epoch >= room[n].epoch /\ m.ownerEpoch >= room[n].ownerEpoch
  BY <1>t, <1>1 DEF Memory
<1>4. /\ room'[n] = m /\ \A q \in Devices \ {n} : room'[q] = room[q]
      /\ Talk' /\ Stamps' /\ Strangers(n)' /\ room'[Owner].known
  BY <1>1, <1>2, <1>3, KeepingStep
<1>5. Local(n)
  BY DEF Good
<1>6. /\ call'[n].pc = "remove" /\ call'[n].whom = x /\ call'[n].lifted = FALSE
      /\ \A q \in Devices \ {n} : call'[q] = call[q]
  BY <1>t, <1>2 DEF NoCall
<1>7. Elsewhere(n)
  BY <1>2, <1>4, <1>6 DEF Elsewhere
<1>8. Pins(n)' /\ Chains(n)'
  BY <1>1, <1>2, <1>4, <1>5 DEF Local, Pins, Chains
<1>9. Lists(n)'
  BY <1>1, <1>2, <1>4, <1>5, <1>6 DEF Local, Lists, InStep
<1>10. n \notin blind' => Remembers(n)'
  <2> SUFFICES ASSUME n \notin blind' PROVE Remembers(n)'
    OBVIOUS
  <2>1. Remembers(n) /\ Halfway(n) = {}
    BY <1>2, <1>5 DEF Local, Halfway, Idle, InStep
  <2>2. QED BY <1>1, <1>2, <1>4, <2>1 DEF Remembers
<1>11. QED BY <1>2, <1>4, <1>7, <1>8, <1>9, <1>10 DEF StepOK, Here, Local

LEMMA LayTombstoneStep ==
  ASSUME Good, Inv', Calm', NEW n \in Devices, Local(n), LayTombstone(n) PROVE StepOK(n)
<1> USE DevicesAssumption
<1> DEFINE x == call[n].whom
           m1 == [room[n] EXCEPT !.stale = TRUE]
           m == Tombstone(m1, {x}, {})
<1>t. /\ call \in [Devices -> Call] /\ room[n] \in Memory
      /\ minted \in [Devices -> Nat] /\ retired \in [Devices -> Nat]
  BY DEF Good, Inv, TypeOK
<1>0. /\ call[n].pc = "remove" /\ x \in Devices \ {n} /\ ~Idle(n)
  BY DEF LayTombstone, InStep, Good, Inv, CallsOK, Idle
<1>2. /\ Keep(n, m) /\ Save(n, m) /\ call' = [call EXCEPT ![n].pc = "tell"]
      /\ retired' = [retired EXCEPT ![n] = minted[n]]
      /\ UNCHANGED <<pending, net, clock, minted, told, calls>>
  BY DEF LayTombstone, KeepAndSave, Goto
<1>1. /\ m \in Memory /\ m.known = room[n].known /\ m.owner = room[n].owner
      /\ m.invited = room[n].invited /\ m.removed = room[n].removed \cup {x}
      /\ m.epoch = room[n].epoch /\ m.ownerEpoch = room[n].ownerEpoch
      /\ m.chain = room[n].chain /\ m.stale = TRUE
  <2>1. /\ m1 \in Memory /\ m1.known = room[n].known /\ m1.owner = room[n].owner
        /\ m1.invited = room[n].invited /\ m1.removed = room[n].removed
        /\ m1.epoch = room[n].epoch /\ m1.ownerEpoch = room[n].ownerEpoch
        /\ m1.chain = room[n].chain /\ m1.stale = TRUE
    BY <1>t DEF Memory
  <2> HIDE DEF m1
  <2>2. {x} \in SUBSET Devices /\ {} \in SUBSET Devices
    BY <1>0
  <2> HIDE DEF x
  <2>3. m \in Memory
    BY <2>1, <2>2, TombstoneType
  <2>4. QED BY <2>1, <2>2, <2>3, TombstoneFacts
<1> HIDE DEF m, m1
<1>3. m.epoch >= room[n].epoch /\ m.ownerEpoch >= room[n].ownerEpoch
  BY <1>t, <1>1 DEF Memory
<1>5. Local(n) /\ Inv /\ room[n].known
  BY <1>0 DEF Good, Local, Strangers
<1>4. /\ room'[n] = m /\ \A q \in Devices \ {n} : room'[q] = room[q]
      /\ Talk' /\ Stamps' /\ Strangers(n)' /\ room'[Owner].known
  BY <1>1, <1>2, <1>3, <1>5, KeepingStep
<1>6. /\ call'[n].pc = "tell" /\ call'[n].whom = x /\ call'[n].lifted = call[n].lifted
      /\ \A q \in Devices \ {n} : call'[q] = call[q]
      /\ retired'[n] = minted[n] /\ \A q \in Devices \ {n} : retired'[q] = retired[q]
  BY <1>t, <1>2 DEF Call
<1>x. x \notin room[n].invited
  BY <1>0, <1>5 DEF Local, Lists, InStep
<1> HIDE DEF x
<1>7. Elsewhere(n)
  BY <1>1, <1>2, <1>4, <1>5, <1>6, SaveFacts DEF Elsewhere
<1>8. /\ file'[n].owner \in {None, Owner} /\ file'[n].epoch >= file'[n].ownerEpoch
      /\ n = Owner => n \notin file'[n].removed /\ n \notin m.removed
      /\ file'[n].chain = file[n].chain \/ file'[n].chain = m.chain
  <2>1. n = Owner => n \notin m.removed
    BY <1>0, <1>1, <1>5 DEF Local, Lists
  <2>2. QED BY <1>1, <1>2, <1>5, <2>1, FilePins DEF Local, Pins
<1>9. Pins(n)' /\ Chains(n)'
  BY <1>0, <1>1, <1>2, <1>4, <1>5, <1>6, <1>8, <1>t DEF Local, Pins, Chains
<1>10. Lists(n)'
  BY <1>0, <1>1, <1>2, <1>4, <1>5, <1>6, <1>8, <1>x DEF Local, Lists, InStep
<1>11. n \notin blind' => Remembers(n)'
  <2> SUFFICES ASSUME n \notin blind' PROVE Remembers(n)'
    OBVIOUS
  <2>2. /\ n \notin blind /\ Remembers(n) /\ file'[n].saved
        /\ file'[n].owner = Owner /\ m.owner = Owner
        /\ m.removed \subseteq file'[n].removed /\ file[n].removed \subseteq file'[n].removed
        /\ m.chain = file'[n].chain /\ m.stale = file'[n].stale
        /\ n # Owner => file'[n].ownerEpoch = m.ownerEpoch
    BY <1>1, <1>2, <1>3, <1>4, <1>5, SavedAgain
  <2>3. Halfway(n) = {} /\ Halfway(n)' = {}
    BY <1>0, <1>6 DEF Halfway, InStep
  <2>5. QED BY <1>1, <1>2, <1>4, <2>2, <2>3 DEF Remembers
<1>12. QED BY <1>2, <1>4, <1>7, <1>9, <1>10, <1>11 DEF StepOK, Here, Local

\* A step that says nothing and changes no mark and no tombstone.  The list may
\* change between calls, and the chain be marked, or replaced by a new one.
LEMMA ChainStep ==
  ASSUME Good, Inv', Calm', NEW n \in Devices, Local(n), NEW m \in Memory, Keep(n, m), Save(n, m),
         room[n].known, m.known, m.owner = room[n].owner,
         m.invited = room[n].invited \/ (Idle(n) /\ m.invited \cap m.removed = {}),
         m.removed = room[n].removed,
         m.epoch = room[n].epoch, m.ownerEpoch = room[n].ownerEpoch,
         m.chain = 0 => room[n].chain = 0,
         minted[n] <= minted'[n], m.chain <= minted'[n], retired'[n] <= minted'[n],
         m.chain # 0 /\ ~m.stale => m.chain > retired'[n]
                                    \/ (m.chain = room[n].chain /\ ~room[n].stale
                                          /\ retired'[n] = retired[n]),
         \A q \in Devices \ {n} : minted'[q] = minted[q] /\ retired'[q] = retired[q],
         UNCHANGED <<call, pending, net, clock, told>>
  PROVE  StepOK(n)
<1> USE DevicesAssumption
<1>3. m.epoch >= room[n].epoch /\ m.ownerEpoch >= room[n].ownerEpoch
  BY DEF Memory
<1>5. Local(n) /\ Inv
  BY DEF Good
<1>4. /\ room'[n] = m /\ \A q \in Devices \ {n} : room'[q] = room[q]
      /\ Talk' /\ Stamps' /\ Strangers(n)' /\ room'[Owner].known
  BY <1>3, KeepingStep
<1>7. Elsewhere(n)
  BY <1>4, <1>5, SaveFacts DEF Elsewhere
<1>8. /\ file'[n].owner \in {None, Owner} /\ file'[n].epoch >= file'[n].ownerEpoch
      /\ n = Owner => n \notin file'[n].removed
      /\ file'[n].chain = file[n].chain \/ file'[n].chain = m.chain
  BY <1>5, FilePins DEF Local, Pins, Lists
<1>9. Pins(n)' /\ Chains(n)'
  <2>1. minted[n] \in Nat /\ minted'[n] \in Nat /\ file[n].chain \in Nat
    BY <1>5 DEF Good, Inv, TypeOK, Entry
  <2>2. QED BY <1>4, <1>5, <1>8, <2>1 DEF Local, Pins, Chains, Idle
<1>10. Lists(n)'
  BY <1>4, <1>5, <1>8 DEF Local, Lists, Idle, InStep
<1>11. n \notin blind' => Remembers(n)'
  <2> SUFFICES ASSUME n \notin blind' PROVE Remembers(n)'
    OBVIOUS
  <2>2. /\ n \notin blind /\ Remembers(n) /\ file'[n].saved
        /\ file'[n].owner = Owner /\ m.owner = Owner
        /\ m.removed \subseteq file'[n].removed /\ file[n].removed \subseteq file'[n].removed
        /\ m.chain = file'[n].chain /\ m.stale = file'[n].stale
        /\ n # Owner => file'[n].ownerEpoch = m.ownerEpoch
    BY <1>3, <1>4, <1>5, SavedAgain
  <2>3. Halfway(n)' = Halfway(n)
    BY DEF Halfway, InStep
  <2>5. QED BY <1>4, <2>2, <2>3 DEF Remembers
<1>12. QED BY <1>4, <1>7, <1>9, <1>10, <1>11 DEF StepOK, Here, Local

LEMMA RotateAfterDeviceRemovalStep ==
  ASSUME Good, Inv', Calm', NEW n \in Devices, Local(n), RotateAfterDeviceRemoval(n) PROVE StepOK(n)
<1> DEFINE m == [room[n] EXCEPT !.stale = TRUE]
<1>t. /\ room[n] \in Memory /\ minted \in [Devices -> Nat] /\ retired \in [Devices -> Nat]
  BY DEF Good, Inv, TypeOK
<1>1. /\ m \in Memory /\ m.known = room[n].known /\ m.owner = room[n].owner
      /\ m.invited = room[n].invited /\ m.removed = room[n].removed
      /\ m.epoch = room[n].epoch /\ m.ownerEpoch = room[n].ownerEpoch
      /\ m.chain = room[n].chain /\ m.stale = TRUE
  BY <1>t DEF Memory
<1>2. /\ Keep(n, m) /\ Save(n, m) /\ room[n].joined
      /\ retired' = [retired EXCEPT ![n] = minted[n]]
      /\ UNCHANGED <<call, pending, net, clock, minted, told>>
  BY DEF RotateAfterDeviceRemoval, KeepAndSave
<1> HIDE DEF m
<1>3. Local(n) /\ room[n].known
  BY <1>2 DEF Good, Local, Strangers, NoMemory
<1>4. retired'[n] = minted[n] /\ \A q \in Devices \ {n} : retired'[q] = retired[q]
  BY <1>t, <1>2
<1>5. minted[n] <= minted'[n] /\ m.chain <= minted'[n] /\ retired'[n] <= minted'[n]
  BY <1>1, <1>2, <1>3, <1>4, <1>t DEF Local, Chains
<1>6. QED BY <1>1, <1>2, <1>3, <1>4, <1>5, ChainStep

LEMMA ReplaceChainStep ==
  ASSUME Good, Inv', Calm', NEW n \in Devices, Local(n), ReplaceChain(n) PROVE StepOK(n)
<1> DEFINE c == minted[n] + 1
           m == [room[n] EXCEPT !.chain = c, !.stale = FALSE]
<1>t. /\ room[n] \in Memory /\ minted \in [Devices -> Nat] /\ retired \in [Devices -> Nat] /\ c \in Nat
  BY DEF Good, Inv, TypeOK
<1>2. /\ Keep(n, m) /\ Save(n, m) /\ room[n].joined
      /\ minted' = [minted EXCEPT ![n] = c]
      /\ UNCHANGED <<call, pending, net, clock, retired, told>>
  BY DEF ReplaceChain, KeepAndSave
<1>3. Local(n) /\ room[n].known
  BY <1>2 DEF Good, Local, Strangers, NoMemory
<1>4. minted'[n] = c /\ \A q \in Devices \ {n} : minted'[q] = minted[q]
  BY <1>t, <1>2
<1>5. c > 0 /\ minted[n] <= c /\ c <= c /\ retired[n] <= c /\ c > retired[n]
  BY <1>t, <1>3 DEF Local, Chains
<1> HIDE DEF c
<1>1. /\ m \in Memory /\ m.known = room[n].known /\ m.owner = room[n].owner
      /\ m.invited = room[n].invited /\ m.removed = room[n].removed
      /\ m.epoch = room[n].epoch /\ m.ownerEpoch = room[n].ownerEpoch
      /\ m.chain = c /\ m.stale = FALSE
  BY <1>t DEF Memory
<1> HIDE DEF m
<1>6. m.chain # 0
  BY <1>1, <1>5
<1>7. QED BY <1>1, <1>2, <1>3, <1>4, <1>5, <1>6, ChainStep

LEMMA SaveRoomKeysStep ==
  ASSUME Good, Inv', Calm', NEW n \in Devices, Local(n), Save(n, room[n]), room[n].known,
         UNCHANGED <<room, call, pending, net, clock, minted, retired, told>>
  PROVE  StepOK(n)
<1> DEFINE m == room[n]
<1>t. m \in Memory /\ room \in [Devices -> Memory]
  BY DEF Good, Inv, TypeOK
<1>1. Keep(n, m)
  BY <1>t DEF Keep
<1>2. Local(n) /\ m.known
  BY DEF Good
<1>3. /\ minted[n] <= minted'[n] /\ m.chain <= minted'[n] /\ retired'[n] <= minted'[n]
      /\ m.chain # 0 /\ ~m.stale => m.chain = room[n].chain /\ ~room[n].stale /\ retired'[n] = retired[n]
  BY <1>2 DEF Local, Chains, Good, Inv, TypeOK
<1>4. Save(n, m)
  OBVIOUS
<1>5. /\ m.known = room[n].known /\ m.owner = room[n].owner
      /\ m.invited = room[n].invited /\ m.removed = room[n].removed
      /\ m.epoch = room[n].epoch /\ m.ownerEpoch = room[n].ownerEpoch
      /\ m.chain = 0 => room[n].chain = 0
  OBVIOUS
<1> HIDE DEF m
<1>6. QED BY <1>1, <1>2, <1>3, <1>4, <1>5, <1>t, ChainStep

\* Leaving and joining again change nothing but whether the connection is open.
LEMMA LeaveOrJoinStep ==
  ASSUME Good, Inv', Calm', NEW n \in Devices, Local(n), LeaveRoom(n) \/ JoinRoom(n) PROVE StepOK(n)
<1>t. room[n] \in Memory
  BY DEF Good, Inv, TypeOK
<1>0. Local(n) /\ room[n].known
  BY DEF LeaveRoom, JoinRoom, Good, Local, Strangers, NoMemory
<1>1. PICK b \in BOOLEAN : Keep(n, [room[n] EXCEPT !.joined = b])
  BY DEF LeaveRoom, JoinRoom
<1> DEFINE m == [room[n] EXCEPT !.joined = b]
<1>2. /\ m \in Memory /\ m.known = room[n].known /\ m.owner = room[n].owner
      /\ m.invited = room[n].invited /\ m.removed = room[n].removed
      /\ m.epoch = room[n].epoch /\ m.ownerEpoch = room[n].ownerEpoch
      /\ m.chain = room[n].chain /\ m.stale = room[n].stale
  BY <1>t DEF Memory
<1>3. Keep(n, m) /\ UNCHANGED <<file, call, pending, net, clock, minted, retired, told, blind, calls>>
  BY <1>1 DEF LeaveRoom, JoinRoom
<1> HIDE DEF m
<1>4. m.epoch >= room[n].epoch /\ m.ownerEpoch >= room[n].ownerEpoch
  BY <1>t, <1>2 DEF Memory
<1>5. /\ room'[n] = m /\ \A q \in Devices \ {n} : room'[q] = room[q]
      /\ Talk' /\ Stamps' /\ Strangers(n)' /\ room'[Owner].known
  BY <1>0, <1>2, <1>3, <1>4, KeepingStep
<1>6. Elsewhere(n)
  BY <1>3, <1>5 DEF Elsewhere
<1>7. Pins(n)' /\ Chains(n)'
  BY <1>0, <1>2, <1>3, <1>5 DEF Local, Pins, Chains, Idle
<1>8. Lists(n)'
  BY <1>0, <1>2, <1>3, <1>5 DEF Local, Lists, InStep
<1>9. n \notin blind' => Remembers(n)'
  <2> SUFFICES ASSUME n \notin blind' PROVE Remembers(n)'
    OBVIOUS
  <2>1. Remembers(n) /\ Halfway(n)' = Halfway(n)
    BY <1>0, <1>3 DEF Local, Halfway, InStep
  <2>2. QED BY <1>2, <1>3, <1>5, <2>1 DEF Remembers
<1>10. QED BY <1>3, <1>5, <1>6, <1>7, <1>8, <1>9 DEF StepOK, Here, Local

\* What a device is told, it is told by another: the owner hears nothing of its own.
LEMMA HearsFacts ==
  ASSUME Good, NEW n \in Devices, NEW r \in net, r.to = n, Hears(n, r)
  PROVE  /\ told'[Owner] = told[Owner] /\ \A q \in Devices \ {n} : told'[q] = told[q]
         /\ r.author = Owner => n # Owner
         /\ IF r.author = Owner /\ r.epoch > told[n].upTo
            THEN /\ told'[n].upTo = r.epoch
                 /\ told'[n].gone = (told[n].gone \cup r.removed) \ r.members
            ELSE told'[n] = told[n]
<1> DEFINE h == [upTo |-> r.epoch, gone |-> (told[n].gone \cup r.removed) \ r.members]
<1>t. told \in [Devices -> [upTo : Nat, gone : SUBSET Devices]]
  BY DEF Good, Inv, TypeOK
<1>1. r.author = Owner => n # Owner
  BY DEF Good, Talk
<1>2. CASE r.author = Owner /\ r.epoch > told[n].upTo
  <2>1. told' = [told EXCEPT ![n] = h]
    BY <1>2 DEF Hears
  <2> HIDE DEF h
  <2>2. told'[n] = h /\ \A q \in Devices \ {n} : told'[q] = told[q]
    BY <1>t, <2>1
  <2>3. told'[n].upTo = r.epoch /\ told'[n].gone = (told[n].gone \cup r.removed) \ r.members
    BY <2>2 DEF h
  <2>4. QED BY <1>1, <1>2, <2>2, <2>3, DevicesAssumption
<1>3. CASE ~(r.author = Owner /\ r.epoch > told[n].upTo)
  BY <1>1, <1>3 DEF Hears
<1>4. QED BY <1>2, <1>3

\* A roster that changes nothing: the room is not known, or the roster is refused.
LEMMA RosterIgnoredStep ==
  ASSUME Good, Inv', Calm', NEW n \in Devices, Local(n), NEW r \in Rosters(n),
         RosterForUnknownRoom(n, r) \/ RosterRefused(n, r)
  PROVE  StepOK(n)
<1> USE DevicesAssumption
<1>t. /\ r \in net /\ r.to = n /\ r \in Message /\ Local(n)
      /\ room \in [Devices -> Memory] /\ clock \in Nat
      /\ told \in [Devices -> [upTo : Nat, gone : SUBSET Devices]]
  BY DEF Rosters, Good, Inv, TypeOK
<1>0. /\ Hears(n, r)
      /\ UNCHANGED <<room, file, call, pending, net, clock, minted, retired, blind, calls, upsets>>
  BY DEF RosterForUnknownRoom, RosterRefused
<1>1. /\ told'[Owner] = told[Owner] /\ \A q \in Devices \ {n} : told'[q] = told[q]
      /\ r.author = Owner => n # Owner
      /\ IF r.author = Owner /\ r.epoch > told[n].upTo
         THEN /\ told'[n].upTo = r.epoch
              /\ told'[n].gone = (told[n].gone \cup r.removed) \ r.members
         ELSE told'[n] = told[n]
  BY <1>t, <1>0, HearsFacts
<1>2. Elsewhere(n)
  BY <1>0, <1>1 DEF Elsewhere
<1>3. Talk' /\ Stamps'
  <2>1. room[Owner] \in Memory
    BY <1>t
  <2>2. /\ clock' >= clock /\ room'[Owner].epoch >= room[Owner].epoch
        /\ room'[Owner].ownerEpoch >= room[Owner].ownerEpoch
    BY <1>t, <1>0, <2>1 DEF Memory
  <2>3. QED BY <1>0, <1>1, <2>2, QuietWire
<1>4. Pins(n)' /\ Chains(n)' /\ Lists(n)'
  BY <1>t, <1>0 DEF Local, Pins, Chains, Lists, Idle, InStep
<1>5. Strangers(n)'
  <2>1. ~room'[n].known => told'[n].gone = {}
    BY DEF Calm
  <2>2. QED BY <1>t, <1>0, <2>1 DEF Local, Strangers, Idle
<1>6. n \notin blind' /\ room'[n].known => Remembers(n)'
  <2> SUFFICES ASSUME n \notin blind', room'[n].known PROVE Remembers(n)'
    OBVIOUS
  <2>1. Remembers(n) /\ room[n].known /\ Halfway(n)' = Halfway(n)
    BY <1>t, <1>0 DEF Local, Halfway, InStep
  <2>2. RosterRefused(n, r)
    BY <2>1 DEF RosterForUnknownRoom
  <2>3. told'[n] = told[n]
    <3> SUFFICES ASSUME r.author = Owner, r.epoch > told[n].upTo PROVE FALSE
      BY <1>1
    <3>1. n # Owner /\ room[n].owner = Owner /\ r.owner = Owner
      BY <1>1, <1>t, <2>1 DEF Remembers, Good, Talk
    <3>2. Admissible(n, r)
      BY <3>1 DEF Admissible
    <3>3. ~(r.epoch > room[n].ownerEpoch)
      BY <2>2, <3>2 DEF RosterRefused, AheadOfOwner
    <3>4. told[n].upTo >= room[n].ownerEpoch
      BY <2>1, <3>1 DEF Remembers
    <3>5. r.epoch \in Nat /\ told[n].upTo \in Nat /\ room[n].ownerEpoch \in Nat
      BY <1>t DEF Message, Memory
    <3>6. QED BY <3>3, <3>4, <3>5
  <2>4. QED BY <1>0, <2>1, <2>3 DEF Remembers
<1>7. QED BY <1>0, <1>2, <1>3, <1>4, <1>5, <1>6 DEF StepOK, Here, Local

LEMMA MembersRosterStep ==
  ASSUME Good, Inv', Calm', Undisturbed, NEW n \in Devices, Local(n), NEW r \in Rosters(n), MembersRoster(n, r)
  PROVE  StepOK(n)
<1> DEFINE m == AddAll(room[n], r.members, n)
<1>t. /\ r \in Message /\ r.members \in SUBSET Devices /\ room[n] \in Memory
      /\ room \in [Devices -> Memory] /\ Local(n)
  BY DEF Rosters, Good, Inv, TypeOK, Message
<1>1. /\ m \in Memory /\ m.known = room[n].known /\ m.owner = room[n].owner
      /\ m.invited = room[n].invited \cup ((r.members \ {n}) \ room[n].removed)
      /\ m.removed = room[n].removed
      /\ m.epoch = room[n].epoch /\ m.ownerEpoch = room[n].ownerEpoch
      /\ m.chain = room[n].chain /\ m.stale = room[n].stale
  BY <1>t, AddAllType, AddAllFacts
<1>2. /\ Keep(n, m) /\ Save(n, m) /\ room[n].known
      /\ UNCHANGED <<call, pending, net, clock, minted, retired, told>>
  BY DEF MembersRoster, KeepAndSave
<1> HIDE DEF m
<1>3. room'[n] = m
  BY <1>t, <1>2 DEF Keep
<1>4. m.invited = room[n].invited \/ (Idle(n) /\ m.invited \cap m.removed = {})
  <2>1. Idle(n) \/ m = room[n]
    BY <1>2, <1>3 DEF Undisturbed
  <2>2. room[n].removed \cap room[n].invited = {}
    BY <1>t DEF Local, Lists
  <2>3. QED BY <1>1, <2>1, <2>2
<1>5. /\ minted[n] <= minted'[n] /\ m.chain <= minted'[n] /\ retired'[n] <= minted'[n]
  BY <1>t, <1>1, <1>2 DEF Local, Chains, Good, Inv, TypeOK
<1>6. m.chain # 0 /\ ~m.stale => m.chain = room[n].chain /\ ~room[n].stale /\ retired'[n] = retired[n]
  BY <1>1, <1>2
<1>7. QED BY <1>1, <1>2, <1>4, <1>5, <1>6, ChainStep

\* What the owner's roster makes of a memory.
LEMMA OwnersList ==
  ASSUME NEW k \in Memory, NEW self \in Devices, NEW gone, NEW present, NEW e \in Nat,
         gone \subseteq Devices, present \subseteq Devices
  PROVE  LET m == AcceptOwnerEpoch(SetAll(Tombstone(k, gone, present), present, self), e) IN
         /\ m \in Memory /\ m.known = k.known /\ m.owner = k.owner
         /\ m.invited = present \ {self} /\ m.removed = (k.removed \cup gone) \ present
         /\ m.epoch = higher(k.epoch, e) /\ m.ownerEpoch = higher(k.ownerEpoch, e)
         /\ m.chain = k.chain /\ m.stale = k.stale
<1> DEFINE m1 == Tombstone(k, gone, present)
           m2 == SetAll(m1, present, self)
           m3 == AcceptOwnerEpoch(m2, e)
<1>1. /\ m1 \in Memory /\ m1.known = k.known /\ m1.owner = k.owner
      /\ m1.removed = (k.removed \cup gone) \ present
      /\ m1.epoch = k.epoch /\ m1.ownerEpoch = k.ownerEpoch
      /\ m1.chain = k.chain /\ m1.stale = k.stale
  BY DEF Tombstone, Memory
<1> HIDE DEF m1
<1>2. /\ m2 \in Memory /\ m2.known = k.known /\ m2.owner = k.owner
      /\ m2.invited = present \ {self} /\ m2.removed = m1.removed
      /\ m2.epoch = k.epoch /\ m2.ownerEpoch = k.ownerEpoch
      /\ m2.chain = k.chain /\ m2.stale = k.stale
  BY <1>1 DEF SetAll, Memory
<1> HIDE DEF m2
<1>3. m3 \in Memory
  BY <1>2, EpochType
<1>4. QED BY <1>1, <1>2, <1>3, EpochFacts DEF m1, m2

LEMMA OwnersRosterStep ==
  ASSUME Good, Inv', Calm', Undisturbed, NEW n \in Devices, Local(n), NEW r \in Rosters(n), OwnersRoster(n, r)
  PROVE  StepOK(n)
<1> USE DevicesAssumption
<1> DEFINE k == room[n]
           news == NewlyRemoved(k, r) # {}
           m1 == Tombstone(k, r.removed, r.members)
           m2 == SetAll(m1, r.members, n)
           m3 == AcceptOwnerEpoch(m2, r.epoch)
           m == [m3 EXCEPT !.stale = @ \/ news]
<1>t. /\ r \in net /\ r.to = n /\ r \in Message /\ Local(n) /\ k \in Memory
      /\ r.members \in SUBSET Devices /\ r.removed \in SUBSET Devices /\ r.epoch \in Nat
      /\ k.epoch \in Nat /\ k.ownerEpoch \in Nat
      /\ room \in [Devices -> Memory] /\ clock \in Nat
      /\ minted \in [Devices -> Nat] /\ retired \in [Devices -> Nat]
      /\ told \in [Devices -> [upTo : Nat, gone : SUBSET Devices]]
  BY DEF Rosters, Good, Inv, TypeOK, Message, Memory
<1>0. /\ k.known /\ Admissible(n, r) /\ r.author = k.owner /\ r.epoch > k.ownerEpoch
      /\ Keep(n, m) /\ Save(n, m) /\ Hears(n, r)
      /\ retired' = IF m3.removed \subseteq k.removed THEN retired
                    ELSE [retired EXCEPT ![n] = minted[n]]
      /\ UNCHANGED <<call, pending, net, clock, minted, calls>>
  BY DEF OwnersRoster, KeepAndSave, AheadOfOwner
<1>a. k.owner = Owner /\ r.author = Owner /\ n # Owner
  <2>1. k.owner # None /\ k.owner \in {None, Owner}
    BY <1>0, <1>t DEF Admissible, Local, Pins
  <2>2. QED BY <1>0, <1>t, <2>1 DEF Good, Talk
<1> HIDE DEF k
<1>1. /\ m3 \in Memory /\ m3.known = k.known /\ m3.owner = k.owner
      /\ m3.invited = r.members \ {n} /\ m3.removed = (k.removed \cup r.removed) \ r.members
      /\ m3.epoch = higher(k.epoch, r.epoch) /\ m3.ownerEpoch = higher(k.ownerEpoch, r.epoch)
      /\ m3.chain = k.chain /\ m3.stale = k.stale
  BY <1>t, OwnersList
<1> HIDE DEF m3
<1>2. /\ m \in Memory /\ m.known = k.known /\ m.owner = k.owner
      /\ m.invited = m3.invited /\ m.removed = m3.removed
      /\ m.epoch = m3.epoch /\ m.ownerEpoch = m3.ownerEpoch
      /\ m.chain = k.chain /\ m.stale = (k.stale \/ news)
  BY <1>1 DEF Memory
<1> HIDE DEF m
<1>3. /\ m.ownerEpoch = r.epoch /\ m.ownerEpoch >= k.ownerEpoch /\ m.epoch >= k.epoch
      /\ m.epoch >= m.ownerEpoch
  BY <1>t, <1>0, <1>1, <1>2 DEF higher
<1>4. /\ told'[Owner] = told[Owner] /\ \A q \in Devices \ {n} : told'[q] = told[q]
      /\ IF r.epoch > told[n].upTo
         THEN /\ told'[n].upTo = r.epoch
              /\ told'[n].gone = (told[n].gone \cup r.removed) \ r.members
         ELSE told'[n] = told[n]
  BY <1>t, <1>0, <1>a, HearsFacts
<1>5. /\ room'[n] = m /\ \A q \in Devices \ {n} : room'[q] = room[q]
      /\ Talk' /\ Stamps' /\ Strangers(n)' /\ room'[Owner].known
  BY <1>0, <1>2, <1>3, <1>4, KeepingStep DEF k
<1>6. Idle(n)
  <2>1. m # k
    BY <1>t, <1>0, <1>3
  <2>2. QED BY <1>0, <1>5, <2>1 DEF Undisturbed, k
<1>7. \A q \in Devices \ {n} : retired'[q] = retired[q]
  BY <1>t, <1>0
<1>8. Elsewhere(n)
  BY <1>0, <1>2, <1>4, <1>5, <1>7, SaveFacts DEF Elsewhere, Good
<1>9. /\ file'[n].owner \in {None, Owner} /\ file'[n].epoch >= file'[n].ownerEpoch
      /\ file'[n].chain = file[n].chain \/ file'[n].chain = m.chain
  BY <1>0, <1>2, <1>3, <1>a, FilePins
<1>10. Pins(n)' /\ Chains(n)'
  <2>1. retired'[n] = retired[n] \/ retired'[n] = minted[n]
    BY <1>t, <1>0
  <2>2. QED BY <1>t, <1>0, <1>2, <1>3, <1>5, <1>6, <1>9, <1>a, <2>1 DEF Local, Pins, Chains, Idle, k
<1>11. Lists(n)'
  BY <1>t, <1>0, <1>1, <1>2, <1>5, <1>6, <1>a DEF Local, Lists, Idle, InStep
<1>12. n \notin blind' => Remembers(n)'
  <2> SUFFICES ASSUME n \notin blind' PROVE Remembers(n)'
    OBVIOUS
  <2>1. /\ n \notin blind /\ Remembers(n) /\ file'[n].saved
        /\ file'[n].owner = Owner /\ m.owner = Owner
        /\ m.removed \subseteq file'[n].removed /\ file[n].removed \subseteq file'[n].removed
        /\ m.chain = file'[n].chain /\ m.stale = file'[n].stale
        /\ file'[n].ownerEpoch = m.ownerEpoch
    BY <1>0, <1>2, <1>3, <1>5, <1>a, SavedAgain DEF k
  <2>2. Halfway(n) = {}
    BY <1>6 DEF Halfway, Idle, InStep
  <2>3. /\ told'[n].gone \subseteq m.removed
        /\ told'[n].upTo >= r.epoch /\ (told'[n].upTo = r.epoch \/ told'[n].gone = {})
    <3>1. told[n].gone \subseteq k.removed
      BY <2>1, <2>2 DEF Remembers, k
    <3>2. CASE r.epoch > told[n].upTo
      BY <1>t, <1>1, <1>2, <1>4, <3>1, <3>2
    <3>3. CASE ~(r.epoch > told[n].upTo)
      <4>1. told[n].upTo \in Nat /\ told[n].upTo >= r.epoch
        BY <1>t, <3>3
      <4>2. told[n].gone = {}
        BY <1>t, <1>0, <1>a, <2>1, <4>1 DEF Remembers, k
      <4>3. QED BY <1>4, <3>3, <4>1, <4>2
    <3>4. QED BY <3>2, <3>3
  <2>4. m.chain # 0 /\ ~m.stale => m.chain > retired'[n]
    <3> SUFFICES ASSUME m.chain # 0, ~m.stale PROVE m.chain > retired'[n]
      OBVIOUS
    <3>1. ~k.stale /\ r.removed \subseteq k.removed
      BY <1>2 DEF NewlyRemoved
    <3>2. m3.removed \subseteq k.removed
      BY <1>1, <3>1
    <3>3. retired' = retired
      BY <1>0, <3>2
    <3>4. QED BY <1>2, <2>1, <3>1, <3>3 DEF Remembers, k
  <2>5. QED BY <1>5, <1>2, <1>3, <2>1, <2>3, <2>4 DEF Remembers
<1>13. QED BY <1>0, <1>5, <1>8, <1>10, <1>11, <1>12 DEF StepOK, Here, Local

LEMMA InviteArrivesStep ==
  ASSUME Good, Inv', Calm', NEW n \in Devices, Local(n), NEW r \in net, InviteArrives(n, r) PROVE StepOK(n)
<1> USE DevicesAssumption
<1>t. /\ Local(n) /\ room \in [Devices -> Memory] /\ clock \in Nat
      /\ pending \in [Devices -> Message \cup {NoInvite}] /\ r.to = n
  BY DEF InviteArrives, Good, Inv, TypeOK
<1>1. CASE room[n].joined /\ Save(n, room[n]) /\ UNCHANGED pending
  <2>1. room[n].known
    BY <1>t, <1>1 DEF Local, Strangers, NoMemory
  <2>2. QED BY <1>1, <2>1, SaveRoomKeysStep DEF InviteArrives
<1>2. CASE pending' = [pending EXCEPT ![n] = r] /\ UNCHANGED <<file, blind, upsets>>
  <2>1. UNCHANGED <<room, file, blind, call, net, clock, minted, retired, told>>
    BY <1>2 DEF InviteArrives
  <2>2. pending'[n] = r /\ \A q \in Devices \ {n} : pending'[q] = pending[q]
    BY <1>t, <1>2
  <2>3. r # NoInvite
    BY DEF InviteArrives, NoInvite
  <2>4. ~room[n].known
    BY <2>1, <2>2, <2>3 DEF Calm
  <2>5. Elsewhere(n)
    BY <2>1, <2>2 DEF Elsewhere
  <2>6. Talk' /\ Stamps'
    <3>1. /\ clock' >= clock /\ room'[Owner].epoch >= room[Owner].epoch
          /\ room'[Owner].ownerEpoch >= room[Owner].ownerEpoch
      BY <1>t, <2>1 DEF Memory
    <3>2. QED BY <2>1, <3>1, QuietWire
  <2>7. Pins(n)' /\ Chains(n)' /\ Lists(n)'
    BY <1>t, <2>1 DEF Local, Pins, Chains, Lists, Idle, InStep
  <2>8. Strangers(n)'
    BY <1>t, <2>1, <2>2, <2>4 DEF Local, Strangers, Idle
  <2>9. QED BY <2>1, <2>4, <2>5, <2>6, <2>7, <2>8 DEF StepOK, Here, Local
<1>3. QED BY <1>1, <1>2 DEF InviteArrives

LEMMA DeclineRoomInviteStep ==
  ASSUME Good, Inv', Calm', NEW n \in Devices, Local(n), DeclineRoomInvite(n) PROVE StepOK(n)
<1> USE DevicesAssumption
<1>t. /\ Local(n) /\ room \in [Devices -> Memory] /\ clock \in Nat
      /\ pending \in [Devices -> Message \cup {NoInvite}]
  BY DEF Good, Inv, TypeOK
<1>1. /\ UNCHANGED <<room, file, call, net, clock, minted, retired, told, blind>>
      /\ pending' = [pending EXCEPT ![n] = NoInvite]
  BY DEF DeclineRoomInvite
<1>2. pending'[n] = NoInvite /\ \A q \in Devices \ {n} : pending'[q] = pending[q]
  BY <1>t, <1>1
<1>3. Elsewhere(n)
  BY <1>1, <1>2 DEF Elsewhere
<1>4. Talk' /\ Stamps'
  <2>1. /\ clock' >= clock /\ room'[Owner].epoch >= room[Owner].epoch
        /\ room'[Owner].ownerEpoch >= room[Owner].ownerEpoch
    BY <1>t, <1>1 DEF Memory
  <2>2. QED BY <1>1, <2>1, QuietWire
<1>5. Pins(n)' /\ Chains(n)' /\ Lists(n)'
  BY <1>t, <1>1 DEF Local, Pins, Chains, Lists, Idle, InStep
<1>6. Strangers(n)'
  BY <1>t, <1>1, <1>2 DEF Local, Strangers, Idle
<1>7. n \notin blind' /\ room'[n].known => Remembers(n)'
  BY <1>t, <1>1 DEF Local, Remembers, Halfway, InStep
<1>8. QED BY <1>1, <1>3, <1>4, <1>5, <1>6, <1>7 DEF StepOK, Here, Local

\* What adopting invitation r makes of memory k, before its members are added.
Adopt(k, r) ==
  IF r.author = r.owner
  THEN Tombstone(AcceptOwnerEpoch(k, r.epoch), r.removed, r.members)
  ELSE k

\* On a device that holds nothing else of the room, it lays what the owner says of removals.
LEMMA Adopted ==
  ASSUME NEW k \in Memory, NEW r \in Message, NEW self \in Devices, r.owner = Owner,
         k.owner = Owner, k.invited = {r.author}, k.removed = {}, k.epoch = 0, k.ownerEpoch = 0,
         k.known, r.author \in r.members, r.author # Owner => r.removed = {},
         NEW next, next = Adopt(k, r), NEW m, m = AddAll(next, r.members, self)
  PROVE  /\ m \in Memory /\ m.known /\ m.owner = Owner
         /\ m.removed = next.removed /\ m.removed = r.removed \ r.members
         /\ m.removed \cap m.invited = {}
         /\ m.epoch = m.ownerEpoch
         /\ m.ownerEpoch = (IF r.author = Owner THEN r.epoch ELSE 0)
         /\ m.chain = k.chain /\ m.stale = k.stale
<1> USE DevicesAssumption
<1>r. /\ r.author \in Devices /\ r.members \in SUBSET Devices /\ r.removed \in SUBSET Devices
      /\ r.members \subseteq Devices /\ r.removed \subseteq Devices /\ r.epoch \in Nat
  BY DEF Message
<1> DEFINE m2 == AcceptOwnerEpoch(k, r.epoch)
           m3 == Tombstone(m2, r.removed, r.members)
<1>3. /\ m2 \in Memory /\ m2.known /\ m2.owner = Owner /\ m2.invited = {r.author}
      /\ m2.removed = {} /\ m2.epoch = r.epoch /\ m2.ownerEpoch = r.epoch
      /\ m2.chain = k.chain /\ m2.stale = k.stale
  <2>1. m2 \in Memory
    BY <1>r, EpochType
  <2>2. higher(0, r.epoch) = r.epoch
    BY <1>r DEF higher
  <2>3. QED BY <1>r, <2>1, <2>2, EpochFacts
<1> HIDE DEF m2
<1>4. /\ m3 \in Memory /\ m3.known /\ m3.owner = Owner /\ m3.invited = {r.author}
      /\ m3.removed = r.removed \ r.members /\ m3.epoch = r.epoch /\ m3.ownerEpoch = r.epoch
      /\ m3.chain = k.chain /\ m3.stale = k.stale
  BY <1>r, <1>3 DEF Tombstone, Memory
<1>n. next = IF r.author = r.owner THEN m3 ELSE k
  BY DEF Adopt, m3, m2
<1> HIDE DEF m3
<1>5. /\ next \in Memory /\ next.known /\ next.owner = Owner /\ next.invited = {r.author}
      /\ next.removed = r.removed \ r.members /\ next.epoch = next.ownerEpoch
      /\ next.ownerEpoch = (IF r.author = Owner THEN r.epoch ELSE 0)
      /\ next.chain = k.chain /\ next.stale = k.stale
  BY <1>4, <1>n
<1>6. /\ m \in Memory /\ m.known = next.known /\ m.owner = next.owner
      /\ m.invited = next.invited \cup ((r.members \ {self}) \ next.removed)
      /\ m.removed = next.removed /\ m.epoch = next.epoch /\ m.ownerEpoch = next.ownerEpoch
      /\ m.chain = next.chain /\ m.stale = next.stale
  BY <1>r, <1>5 DEF AddAll, Memory
<1>7. m.removed \cap m.invited = {}
  BY <1>5, <1>6
<1>8. QED BY <1>5, <1>6, <1>7

\* Accepting pins the owner of a room nobody told us about before, and no more.
LEMMA AcceptRoomInviteStep ==
  ASSUME Good, Inv', Calm', NEW n \in Devices, Local(n), AcceptRoomInvite(n) PROVE StepOK(n)
<1> USE DevicesAssumption
<1> DEFINE k == room[n]
           r == pending[n]
           m0 == [k EXCEPT !.known = TRUE, !.joined = TRUE, !.encrypted = TRUE,
                           !.invited = @ \cup {r.author}]
           m == PinOwner(m0, r.owner)
           c == [NoCall EXCEPT !.pc = "adopt", !.whom = r.author, !.what = r]
<1>t. /\ room \in [Devices -> Memory] /\ k \in Memory /\ call \in [Devices -> Call]
      /\ pending \in [Devices -> Message \cup {NoInvite}] /\ net \subseteq Message
  BY DEF Good, Inv, TypeOK
<1>0. /\ r # NoInvite /\ Idle(n) /\ Keep(n, m)
      /\ pending' = [pending EXCEPT ![n] = NoInvite] /\ call' = [call EXCEPT ![n] = c]
      /\ UNCHANGED <<file, net, clock, minted, retired, told, blind>>
  BY DEF AcceptRoomInvite
<1>c. c.pc = "adopt" /\ c.what = r
  <2> HIDE DEF r
  <2>1. QED BY DEF NoCall
<1> HIDE DEF c
<1>1. /\ r \in net /\ r.to = n /\ r \in Message /\ r.owner = Owner /\ room[Owner].known
      /\ ~k.known /\ k = NoMemory /\ file[n] = NoEntry /\ told[n].gone = {} /\ n # Owner
      /\ retired[n] <= minted[n]
  <2>1. /\ ~k.known /\ r \in net /\ r.to = n
    BY <1>t, <1>0 DEF Local, Strangers
  <2>2. k = NoMemory /\ file[n] = NoEntry /\ told[n].gone = {} /\ retired[n] <= minted[n]
    BY <1>t, <2>1 DEF Local, Strangers, Chains
  <2>3. r.owner = Owner /\ room[Owner].known
    BY <2>1 DEF Good, Talk
  <2>4. n # Owner
    BY <2>1, <2>3
  <2> HIDE DEF k, r
  <2>5. QED BY <1>t, <2>1, <2>2, <2>3, <2>4
<1>2. /\ k.owner = None /\ k.invited = {} /\ k.removed = {} /\ k.epoch = 0 /\ k.ownerEpoch = 0
      /\ k.chain = 0 /\ k.stale = FALSE
      /\ file[n].owner = None /\ file[n].chain = 0 /\ file[n].ownerEpoch = 0 /\ file[n].epoch = 0
      /\ file[n].stale = FALSE /\ file[n].removed = {} /\ file[n].saved = FALSE
  BY <1>1 DEF NoMemory, NoEntry
<1>a. r.author \in Devices
  BY <1>1 DEF Message
<1> HIDE DEF k, r
<1>3. /\ m \in Memory /\ m.known /\ m.owner = Owner /\ m.invited = {r.author} /\ m.removed = {}
      /\ m.epoch = 0 /\ m.ownerEpoch = 0 /\ m.chain = 0 /\ m.stale = FALSE
  <2>1. /\ m0 \in Memory /\ m0.known /\ m0.owner = None /\ m0.invited = {r.author} /\ m0.removed = {}
        /\ m0.epoch = 0 /\ m0.ownerEpoch = 0 /\ m0.chain = 0 /\ m0.stale = FALSE
    BY <1>t, <1>2, <1>a DEF Memory
  <2> HIDE DEF m0
  <2>2. QED BY <1>1, <2>1 DEF PinOwner, Memory
<1> HIDE DEF m, m0
<1>6. /\ room'[n] = m /\ \A q \in Devices \ {n} : room'[q] = room[q]
      /\ Talk' /\ Stamps' /\ room'[Owner].known
  <2>1. m.epoch >= k.epoch /\ m.ownerEpoch >= k.ownerEpoch
    BY <1>2, <1>3
  <2>2. QED BY <1>0, <1>1, <1>3, <2>1, KeepingStep DEF k
<1>7. /\ pending'[n] = NoInvite /\ call'[n].pc = "adopt" /\ call'[n].what = r
      /\ \A q \in Devices \ {n} : pending'[q] = pending[q] /\ call'[q] = call[q]
  BY <1>t, <1>0, <1>c
<1>8. Elsewhere(n)
  BY <1>0, <1>6, <1>7 DEF Elsewhere
<1>9. Adopts(n)'
  <2>1. Blank(n)'
    BY <1>0, <1>1, <1>2, <1>3, <1>6, <1>7 DEF Blank
  <2>2. QED BY <1>0, <1>1, <1>3, <1>6, <1>7, <2>1 DEF Adopts, InStep
<1>10. QED BY <1>0, <1>6, <1>8, <1>9 DEF StepOK, Here

\* Adopting lays the tombstones the owner's roster names and saves them at once.
LEMMA AdoptRosterStep ==
  ASSUME Good, Inv', Calm', NEW n \in Devices, Adopts(n), AdoptRoster(n) PROVE StepOK(n)
<1> USE DevicesAssumption
<1> DEFINE k == room[n]
           r == call[n].what
           next == Adopt(k, r)
           m == AddAll(next, r.members, n)
<1>t. /\ room \in [Devices -> Memory] /\ k \in Memory /\ call \in [Devices -> Call]
      /\ net \subseteq Message /\ file[n] \in Entry
      /\ minted \in [Devices -> Nat] /\ retired \in [Devices -> Nat]
      /\ told \in [Devices -> [upTo : Nat, gone : SUBSET Devices]]
  BY DEF Good, Inv, TypeOK
<1>0. /\ Keep(n, m) /\ Save(n, m) /\ Hears(n, r) /\ call' = [call EXCEPT ![n] = NoCall]
      /\ retired' = IF next.removed \subseteq k.removed THEN retired
                    ELSE [retired EXCEPT ![n] = minted[n]]
      /\ UNCHANGED <<pending, net, clock, minted, calls>>
  BY DEF AdoptRoster, KeepAndSave, Adopt, Return
<1>1. /\ r \in net /\ r.to = n /\ r \in Message /\ r.owner = Owner /\ r.author # n
      /\ r.author \in r.members /\ (r.author # Owner => r.removed = {}) /\ room[Owner].known
      /\ told[n].gone = {} /\ n # Owner /\ k.known /\ pending[n] = NoInvite
      /\ retired[n] <= minted[n]
  <2>1. /\ r \in net /\ r.to = n /\ told[n].gone = {} /\ n # Owner /\ k.known /\ room[Owner].known
        /\ pending[n] = NoInvite /\ retired[n] <= minted[n]
    BY DEF Adopts, Blank
  <2>2. /\ r.owner = Owner /\ r.author # r.to
        /\ r.author \in r.members /\ (r.author # Owner => r.removed = {})
    BY <2>1 DEF Good, Talk
  <2> HIDE DEF k, r
  <2>3. QED BY <1>t, <2>1, <2>2
<1>2. /\ k.owner = Owner /\ k.invited = {r.author} /\ k.removed = {} /\ k.epoch = 0 /\ k.ownerEpoch = 0
      /\ k.chain = 0 /\ k.stale = FALSE
      /\ file[n].owner \in {None, Owner} /\ file[n].chain = 0 /\ file[n].ownerEpoch = 0
      /\ file[n].epoch = 0 /\ file[n].stale = FALSE /\ file[n].removed = {}
  BY DEF Adopts, Blank
<1> HIDE DEF k, r
<1>3. /\ m \in Memory /\ m.known /\ m.owner = Owner
      /\ m.removed = next.removed /\ m.removed = r.removed \ r.members
      /\ m.removed \cap m.invited = {}
      /\ m.epoch = m.ownerEpoch
      /\ m.ownerEpoch = (IF r.author = Owner THEN r.epoch ELSE 0)
      /\ m.chain = 0 /\ m.stale = FALSE
  <2>1. next = Adopt(k, r) /\ m = AddAll(next, r.members, n)
    OBVIOUS
  <2> HIDE DEF m, next
  <2>2. /\ k \in Memory /\ r \in Message /\ n \in Devices /\ r.owner = Owner /\ k.known
        /\ k.owner = Owner /\ k.invited = {r.author} /\ k.removed = {} /\ k.epoch = 0 /\ k.ownerEpoch = 0
        /\ r.author \in r.members /\ (r.author # Owner => r.removed = {})
    BY <1>t, <1>1, <1>2
  <2>3. /\ m \in Memory /\ m.known /\ m.owner = Owner
        /\ m.removed = next.removed /\ m.removed = r.removed \ r.members
        /\ m.removed \cap m.invited = {}
        /\ m.epoch = m.ownerEpoch
        /\ m.ownerEpoch = (IF r.author = Owner THEN r.epoch ELSE 0)
        /\ m.chain = k.chain /\ m.stale = k.stale
    BY ONLY <2>1, <2>2, Adopted
  <2>4. QED BY <1>2, <2>3
<1> HIDE DEF m, next
<1>4. /\ m.ownerEpoch \in Nat /\ m.ownerEpoch >= 0 /\ m.epoch >= 0 /\ m.epoch >= m.ownerEpoch
      /\ r.epoch \in Nat
  BY <1>t, <1>1, <1>3 DEF Memory, Message
<1>5. /\ told'[Owner] = told[Owner] /\ \A q \in Devices \ {n} : told'[q] = told[q]
      /\ IF r.author = Owner /\ r.epoch > told[n].upTo
         THEN /\ told'[n].upTo = r.epoch
              /\ told'[n].gone = (told[n].gone \cup r.removed) \ r.members
         ELSE told'[n] = told[n]
  BY <1>0, <1>1, HearsFacts
<1>6. /\ room'[n] = m /\ \A q \in Devices \ {n} : room'[q] = room[q]
      /\ Talk' /\ Stamps' /\ Strangers(n)' /\ room'[Owner].known
  BY <1>0, <1>1, <1>2, <1>3, <1>4, <1>5, KeepingStep DEF k
<1>7. /\ \A q \in Devices \ {n} : retired'[q] = retired[q] /\ call'[q] = call[q]
      /\ retired'[n] = retired[n] \/ retired'[n] = minted[n]
      /\ call'[n] = NoCall
  BY <1>t, <1>0
<1>8. Elsewhere(n)
  BY <1>0, <1>3, <1>5, <1>6, <1>7, SaveFacts DEF Elsewhere, Good
<1>9. /\ file'[n].owner \in {None, Owner} /\ file'[n].epoch >= file'[n].ownerEpoch
      /\ file'[n].chain = 0
  <2>1. /\ file'[n].owner = file[n].owner \/ file'[n].owner = m.owner
        /\ file'[n].chain = file[n].chain \/ file'[n].chain = m.chain
        /\ file[n].epoch >= file[n].ownerEpoch /\ m.epoch >= m.ownerEpoch
             => file'[n].epoch >= file'[n].ownerEpoch
    BY <1>0, <1>3, SaveFacts DEF Good
  <2>2. QED BY <1>2, <1>3, <1>4, <2>1
<1>10. Pins(n)' /\ Chains(n)'
  <2>1. minted[n] \in Nat
    BY <1>t
  <2>2. QED BY <1>0, <1>1, <1>3, <1>4, <1>6, <1>7, <1>9, <2>1 DEF Pins, Chains, Idle, NoCall
<1>11. Lists(n)'
  BY <1>1, <1>3, <1>6, <1>7 DEF Lists, InStep, NoCall
<1>12. n \notin blind' => Remembers(n)'
  <2> SUFFICES ASSUME n \notin blind' PROVE Remembers(n)'
    OBVIOUS
  <2>1. /\ file'[n].saved /\ m.removed \subseteq file'[n].removed
        /\ file'[n].owner = Owner
        /\ file'[n].chain = m.chain /\ file'[n].stale = m.stale
        /\ file'[n].ownerEpoch = higher(m.ownerEpoch, 0)
    BY <1>0, <1>2, <1>3, SaveFacts DEF Good
  <2>2. higher(m.ownerEpoch, 0) = m.ownerEpoch
    BY <1>4 DEF higher
  <2>3. told[n].upTo \in Nat /\ told[n].gone = {}
    BY <1>t, <1>1
  <2>4. /\ told'[n].gone \subseteq m.removed
        /\ told'[n].upTo >= m.ownerEpoch /\ (told'[n].upTo = m.ownerEpoch \/ told'[n].gone = {})
    <3>1. CASE r.author = Owner /\ r.epoch > told[n].upTo
      BY <1>3, <1>4, <1>5, <2>3, <3>1
    <3>2. CASE ~(r.author = Owner /\ r.epoch > told[n].upTo)
      BY <1>3, <1>4, <1>5, <2>3, <3>2
    <3>3. QED BY <3>1, <3>2
  <2>5. QED BY <1>3, <1>6, <2>1, <2>2, <2>4 DEF Remembers
<1>13. QED BY <1>0, <1>6, <1>8, <1>10, <1>11, <1>12 DEF StepOK, Here, Local

\* A new process's memory is what the file says of the room, or nothing.
LEMMA RestoredFacts ==
  ASSUME NEW e \in Entry, NEW self \in Devices, NEW b \in BOOLEAN
  PROVE  LET m == Restored([NoMemory EXCEPT !.known = b], e, self) IN
         /\ m \in Memory /\ m.known = b
         /\ e.saved => /\ m.owner = e.owner /\ m.removed = e.removed
                       /\ m.removed \cap m.invited = {}
                       /\ m.epoch = e.epoch /\ m.ownerEpoch = e.ownerEpoch
                       /\ m.chain = e.chain /\ m.stale = e.stale
         /\ ~e.saved => m = [NoMemory EXCEPT !.known = b]
<1> DEFINE m0 == [NoMemory EXCEPT !.known = b]
           m1 == [m0 EXCEPT !.encrypted = TRUE, !.owner = e.owner, !.removed = e.removed,
                            !.epoch = e.epoch, !.ownerEpoch = e.ownerEpoch,
                            !.chain = e.chain, !.stale = e.stale]
<1>1. m0 \in Memory /\ m0.known = b /\ m0.invited = {}
  BY DEF NoMemory, Memory
<1> HIDE DEF m0
<1>2. /\ m1 \in Memory /\ m1.known = b /\ m1.invited = {} /\ m1.owner = e.owner
      /\ m1.removed = e.removed /\ m1.epoch = e.epoch /\ m1.ownerEpoch = e.ownerEpoch
      /\ m1.chain = e.chain /\ m1.stale = e.stale
  BY <1>1 DEF Memory, Entry
<1>3. e.invited \in SUBSET Devices
  BY DEF Entry
<1> HIDE DEF m1
<1> DEFINE m == AddAll(m1, e.invited, self)
<1>4. /\ m \in Memory /\ m.known = m1.known /\ m.owner = m1.owner
      /\ m.invited = m1.invited \cup ((e.invited \ {self}) \ m1.removed)
      /\ m.removed = m1.removed /\ m.epoch = m1.epoch /\ m.ownerEpoch = m1.ownerEpoch
      /\ m.chain = m1.chain /\ m.stale = m1.stale
  BY <1>2, <1>3, AddAllType, AddAllFacts
<1> HIDE DEF m
<1>5. Restored(m0, e, self) = IF ~e.saved THEN m0 ELSE m
  BY DEF Restored, m, m1
<1>6. QED BY <1>1, <1>2, <1>4, <1>5 DEF m0

LEMMA RestartStep ==
  ASSUME Good, Inv', Calm', NEW n \in Devices, Local(n), NEW readable \in BOOLEAN, Restart(n, readable)
  PROVE  StepOK(n)
<1> USE DevicesAssumption
<1> DEFINE k == room[n]
           m0 == [NoMemory EXCEPT !.known = k.known]
           m == IF readable THEN Restored(m0, file[n], n) ELSE m0
<1>t. /\ Local(n) /\ room \in [Devices -> Memory] /\ k \in Memory /\ file[n] \in Entry
      /\ call \in [Devices -> Call] /\ pending \in [Devices -> Message \cup {NoInvite}]
      /\ clock \in Nat /\ k.known \in BOOLEAN /\ k.epoch \in Nat /\ k.ownerEpoch \in Nat
  BY DEF Good, Inv, TypeOK, Memory
<1>0. /\ k.known /\ Keep(n, m) /\ blind' = (IF readable THEN blind ELSE blind \cup {n})
      /\ clock' = higher(clock, k.epoch + 1)
      /\ call' = [call EXCEPT ![n] = NoCall] /\ pending' = [pending EXCEPT ![n] = NoInvite]
      /\ UNCHANGED <<file, net, minted, retired, told, calls>>
  BY DEF Restart
<1>1. room'[n] = m /\ \A q \in Devices \ {n} : room'[q] = room[q]
  BY <1>t, <1>0 DEF Keep
<1>2. /\ call'[n] = NoCall /\ pending'[n] = NoInvite
      /\ \A q \in Devices \ {n} : call'[q] = call[q] /\ pending'[q] = pending[q]
  BY <1>t, <1>0
<1>m. /\ m0 \in Memory /\ m0.known /\ m0.owner = None /\ m0.removed = {} /\ m0.invited = {}
      /\ m0.epoch = 0 /\ m0.ownerEpoch = 0 /\ m0.chain = 0
  BY <1>t, <1>0 DEF NoMemory, Memory
<1>3. /\ m \in Memory /\ m.known /\ m.removed \cap m.invited = {}
      /\ readable /\ file[n].saved =>
           /\ m.owner = file[n].owner /\ m.removed = file[n].removed
           /\ m.epoch = file[n].epoch /\ m.ownerEpoch = file[n].ownerEpoch
           /\ m.chain = file[n].chain /\ m.stale = file[n].stale
      /\ ~(readable /\ file[n].saved) =>
           /\ m.owner = None /\ m.removed = {} /\ m.epoch = 0 /\ m.ownerEpoch = 0 /\ m.chain = 0
  <2>1. CASE readable
    <3>1. /\ Restored(m0, file[n], n) \in Memory /\ Restored(m0, file[n], n).known = k.known
          /\ file[n].saved =>
               /\ Restored(m0, file[n], n).owner = file[n].owner
               /\ Restored(m0, file[n], n).removed = file[n].removed
               /\ Restored(m0, file[n], n).removed \cap Restored(m0, file[n], n).invited = {}
               /\ Restored(m0, file[n], n).epoch = file[n].epoch
               /\ Restored(m0, file[n], n).ownerEpoch = file[n].ownerEpoch
               /\ Restored(m0, file[n], n).chain = file[n].chain
               /\ Restored(m0, file[n], n).stale = file[n].stale
          /\ ~file[n].saved => Restored(m0, file[n], n) = m0
      BY <1>t, RestoredFacts
    <3>2. m = Restored(m0, file[n], n)
      BY <2>1
    <3> HIDE DEF m, m0
    <3>3. QED BY <1>0, <1>m, <2>1, <3>1, <3>2
  <2>2. CASE ~readable
    <3>1. m = m0
      BY <2>2
    <3> HIDE DEF m, m0
    <3>2. QED BY <1>m, <2>2, <3>1
  <2>3. QED BY <2>1, <2>2
<1> HIDE DEF m, m0
<1>4. Elsewhere(n)
  BY <1>0, <1>1, <1>2 DEF Elsewhere
<1>5. room[Owner].known /\ room'[Owner].known
  BY <1>t, <1>0, <1>1, <1>3 DEF Local, Pins, k
<1>6. clock' \in Nat /\ clock' >= clock /\ clock' >= k.epoch + 1
  BY <1>t, <1>0 DEF higher
<1>7. Talk' /\ Stamps'
  <2>1. CASE n # Owner
    <3>1. room'[Owner] = room[Owner] /\ room[Owner] \in Memory
      BY <1>t, <1>1, <2>1
    <3>2. /\ room'[Owner].epoch >= room[Owner].epoch
          /\ room'[Owner].ownerEpoch >= room[Owner].ownerEpoch
      BY <3>1 DEF Memory
    <3>3. QED BY <1>0, <1>5, <1>6, <3>2, QuietWire
  <2>2. CASE n = Owner
    <3>1. NextEpoch(k) <= clock' /\ NextEpoch(k) \in Nat
      <4>1. k.epoch >= k.ownerEpoch
        BY <1>t DEF Local, Pins, k
      <4>2. NextEpoch(k) = higher(higher(k.epoch, k.ownerEpoch) + 1, clock)
        BY DEF NextEpoch
      <4> HIDE DEF k
      <4>3. QED BY <1>t, <1>6, <4>1, <4>2 DEF higher
    <3>2. NextEpoch(room[Owner])' >= clock' /\ NextEpoch(room[Owner])' \in Nat
      <4>1. NextEpoch(room[Owner])' = higher(higher(m.epoch, m.ownerEpoch) + 1, clock')
        BY <1>1, <2>2 DEF NextEpoch
      <4>2. m.epoch \in Nat /\ m.ownerEpoch \in Nat
        BY <1>3 DEF Memory
      <4>3. QED BY <1>6, <4>1, <4>2 DEF higher
    <3>3. told[Owner].upTo \in Nat /\ \A r \in net : r.epoch \in Nat
      BY DEF Good, Inv, TypeOK, Message
    <3>4. /\ \A r \in net : r.author = Owner => r.epoch < NextEpoch(k)
          /\ told[Owner].upTo < NextEpoch(k)
      BY <2>2 DEF Good, Stamps, k
    <3> HIDE DEF k
    <3>5. Stamps'
      BY <1>0, <1>6, <3>1, <3>2, <3>3, <3>4 DEF Stamps
    <3>6. QED BY <1>0, <1>5, <3>5 DEF Good, Talk
  <2>3. QED BY <2>1, <2>2
<1>8. Pins(n)' /\ Chains(n)'
  <2>1. m.epoch >= m.ownerEpoch /\ m.owner \in {None, Owner} /\ m.chain <= minted[n]
    <3>1. minted[n] \in Nat
      BY DEF Good, Inv, TypeOK
    <3>2. QED BY <1>t, <1>3, <3>1 DEF Local, Pins, Chains
  <2>2. QED BY <1>t, <1>0, <1>1, <1>2, <1>5, <2>1 DEF Local, Pins, Chains, Idle, NoCall
<1>9. Lists(n)'
  BY <1>t, <1>0, <1>1, <1>2, <1>3 DEF Local, Lists, InStep, NoCall
<1>10. Strangers(n)'
  BY <1>1, <1>2, <1>3 DEF Strangers
<1>11. n \notin blind' => Remembers(n)'
  <2> SUFFICES ASSUME n \notin blind' PROVE Remembers(n)'
    OBVIOUS
  <2>1. readable /\ Remembers(n) /\ file[n].saved
    BY <1>t, <1>0 DEF Local, Remembers
  <2>2. QED BY <1>0, <1>1, <1>3, <2>1 DEF Remembers, k
<1>12. QED BY <1>0, <1>1, <1>4, <1>5, <1>7, <1>8, <1>9, <1>10, <1>11 DEF StepOK, Here, Local

\* Between the pin and the roster nothing of the owner's is disturbed by a device's step
\* that leaves the room as it is.
LEMMA AdoptsKeeps ==
  ASSUME Good, Inv', Calm', NEW n \in Devices, Adopts(n),
         Save(n, room[n]) \/ UNCHANGED <<file, blind>>,
         UNCHANGED <<room, call, pending, net, clock, minted, retired>>,
         told'[Owner] = told[Owner], \A q \in Devices \ {n} : told'[q] = told[q]
  PROVE  StepOK(n)
<1> USE DevicesAssumption
<1>t. /\ room \in [Devices -> Memory] /\ room[n] \in Memory /\ file \in [Devices -> Entry]
      /\ room[Owner] \in Memory /\ clock \in Nat
  BY DEF Good, Inv, TypeOK
<1>1. /\ \A q \in Devices \ {n} : file'[q] = file[q] /\ (q \in blind' <=> q \in blind)
      /\ file'[n] = file[n] \/ file'[n] = MergedEntry(room[n], file[n])
  BY <1>t DEF Save
<1>2. Elsewhere(n)
  BY <1>1 DEF Elsewhere
<1>3. Talk' /\ Stamps'
  <2>1. /\ clock' >= clock /\ room'[Owner].epoch >= room[Owner].epoch
        /\ room'[Owner].ownerEpoch >= room[Owner].ownerEpoch
    BY <1>t DEF Memory
  <2>2. QED BY <2>1, QuietWire
<1>4. /\ file'[n].removed = {} /\ file'[n].epoch = 0 /\ file'[n].ownerEpoch = 0
      /\ file'[n].chain = 0 /\ file'[n].stale = FALSE
      /\ file'[n].owner = (IF file'[n].saved THEN Owner ELSE None)
  <2>1. CASE file'[n] = file[n]
    BY <2>1 DEF Adopts, Blank
  <2>2. CASE file'[n] = MergedEntry(room[n], file[n])
    BY <2>2 DEF Adopts, Blank, MergedEntry, higher
  <2>3. QED BY <1>1, <2>1, <2>2
<1>5. told'[n].gone = {}
  BY DEF Calm, Adopts, InStep
<1>6. Blank(n)'
  BY <1>4 DEF Adopts, Blank
<1>7. Adopts(n)'
  BY <1>5, <1>6 DEF Adopts, InStep
<1>8. QED BY <1>2, <1>3, <1>7 DEF StepOK, Here

\* A process that ends between the pin and the roster comes back to the file it saved,
\* or to an entry in the room list and nothing else.
LEMMA BlankRestarts ==
  ASSUME Good, Inv', Calm', NEW n \in Devices, Adopts(n) \/ Bare(n),
         NEW readable \in BOOLEAN, Restart(n, readable)
  PROVE  StepOK(n)
<1> USE DevicesAssumption
<1> DEFINE m0 == [NoMemory EXCEPT !.known = room[n].known]
           m == IF readable THEN Restored(m0, file[n], n) ELSE m0
<1>t. /\ room \in [Devices -> Memory] /\ room[n] \in Memory /\ file[n] \in Entry
      /\ room[Owner] \in Memory /\ call \in [Devices -> Call]
      /\ pending \in [Devices -> Message \cup {NoInvite}]
      /\ clock \in Nat /\ room[n].known \in BOOLEAN /\ minted[n] \in Nat /\ told[n].upTo \in Nat
  BY DEF Good, Inv, TypeOK, Memory
<1>b. Blank(n) /\ (file[n].saved => told[n].gone = {})
  BY DEF Adopts, Bare
<1>0. /\ Keep(n, m) /\ blind' = (IF readable THEN blind ELSE blind \cup {n})
      /\ clock' = higher(clock, room[n].epoch + 1)
      /\ call' = [call EXCEPT ![n] = NoCall] /\ pending' = [pending EXCEPT ![n] = NoInvite]
      /\ UNCHANGED <<file, net, minted, retired, told>>
  BY DEF Restart
<1>1. room'[n] = m /\ \A q \in Devices \ {n} : room'[q] = room[q]
  BY <1>t, <1>0 DEF Keep
<1>2. /\ call'[n] = NoCall /\ pending'[n] = NoInvite
      /\ \A q \in Devices \ {n} : call'[q] = call[q] /\ pending'[q] = pending[q]
  BY <1>t, <1>0
<1>m. /\ m0 \in Memory /\ m0.known /\ m0.owner = None /\ m0.removed = {} /\ m0.invited = {}
      /\ m0.epoch = 0 /\ m0.ownerEpoch = 0 /\ m0.chain = 0 /\ m0.stale = FALSE
      /\ m0.encrypted = FALSE
  BY <1>t, <1>b DEF Blank, NoMemory, Memory
<1>3. /\ readable /\ file[n].saved =>
           /\ m.known /\ m.owner = Owner /\ m.removed = {} /\ m.epoch = 0 /\ m.ownerEpoch = 0
           /\ m.chain = 0 /\ m.stale = FALSE
      /\ ~(readable /\ file[n].saved) => m = m0
  <2>1. /\ Restored(m0, file[n], n).known = room[n].known
        /\ file[n].saved =>
             /\ Restored(m0, file[n], n).owner = file[n].owner
             /\ Restored(m0, file[n], n).removed = file[n].removed
             /\ Restored(m0, file[n], n).epoch = file[n].epoch
             /\ Restored(m0, file[n], n).ownerEpoch = file[n].ownerEpoch
             /\ Restored(m0, file[n], n).chain = file[n].chain
             /\ Restored(m0, file[n], n).stale = file[n].stale
        /\ ~file[n].saved => Restored(m0, file[n], n) = m0
    BY <1>t, RestoredFacts
  <2> HIDE DEF m0
  <2>2. QED BY <1>b, <2>1 DEF Blank
<1> HIDE DEF m, m0
<1>4. Elsewhere(n)
  BY <1>0, <1>1, <1>2 DEF Elsewhere
<1>5. room[Owner].known /\ room'[Owner] = room[Owner]
  BY <1>1, <1>b DEF Blank
<1>6. Talk' /\ Stamps'
  <2>1. clock' >= clock
    BY <1>t, <1>0, <1>b DEF Blank, higher
  <2>2. /\ room'[Owner].epoch >= room[Owner].epoch
        /\ room'[Owner].ownerEpoch >= room[Owner].ownerEpoch
    BY <1>t, <1>5 DEF Memory
  <2>3. QED BY <1>0, <1>5, <2>1, <2>2, QuietWire
<1>7. CASE n \notin blind' /\ ~file[n].saved
  <2>1. room'[n] = m0
    BY <1>1, <1>3, <1>7
  <2>2. Blank(n)'
    BY <1>0, <1>2, <1>5, <1>b, <1>m, <2>1 DEF Blank
  <2>3. Bare(n)'
    BY <1>0, <1>2, <1>7, <1>m, <2>1, <2>2 DEF Bare, Idle, NoCall
  <2>4. QED BY <1>0, <1>4, <1>5, <1>6, <2>3 DEF StepOK, Here
<1>8. CASE n \in blind' \/ file[n].saved
  <2>1. /\ m.known /\ m.owner \in {None, Owner} /\ m.removed = {} /\ m.epoch = 0 /\ m.ownerEpoch = 0
        /\ m.chain = 0 /\ m.stale = FALSE
    BY <1>3, <1>m
  <2>2. Pins(n)' /\ Chains(n)'
    BY <1>t, <1>0, <1>1, <1>2, <1>5, <1>b, <2>1 DEF Pins, Chains, Blank, Idle, NoCall
  <2>3. Lists(n)' /\ Strangers(n)'
    BY <1>0, <1>1, <1>2, <1>b, <2>1 DEF Lists, Strangers, Blank, InStep, NoCall
  <2>4. n \notin blind' => Remembers(n)'
    <3> SUFFICES ASSUME n \notin blind' PROVE Remembers(n)'
      OBVIOUS
    <3>1. readable /\ file[n].saved /\ told[n].gone = {}
      BY <1>0, <1>8, <1>b
    <3>2. /\ file'[n] = file[n] /\ file[n].owner = Owner /\ file[n].removed = {}
          /\ file[n].ownerEpoch = 0 /\ file[n].chain = 0 /\ file[n].stale = FALSE
      BY <1>0, <1>b, <3>1 DEF Blank
    <3>3. m.owner = Owner /\ told'[n] = told[n] /\ told[n].upTo >= 0
      BY <1>t, <1>0, <1>3, <3>1
    <3>4. QED BY <1>1, <2>1, <3>1, <3>2, <3>3 DEF Remembers
  <2>5. QED BY <1>0, <1>4, <1>5, <1>6, <2>2, <2>3, <2>4 DEF StepOK, Here, Local
<1>9. QED BY <1>7, <1>8

\* What a device in the middle of adopting an invitation may do.
LEMMA AdoptsStep ==
  ASSUME Good, Inv', Calm', Undisturbed, NEW n \in Devices, Adopts(n),
         UserStep(n) \/ Delivery(n) \/ \E readable \in BOOLEAN : Restart(n, readable)
  PROVE  StepOK(n)
<1> USE DevicesAssumption
<1>t. /\ room \in [Devices -> Memory] /\ room[n] \in Memory /\ call \in [Devices -> Call]
      /\ minted[n] \in Nat
  BY DEF Good, Inv, TypeOK
<1>0. /\ call[n].pc = "adopt" /\ ~Idle(n) /\ pending[n] = NoInvite /\ room[n].known
      /\ room[n].chain = 0 /\ n # Owner /\ room[n].owner = Owner /\ room[n].ownerEpoch = 0
  BY DEF Adopts, Blank, InStep, Idle
<1>u. call' = call => room'[n] = room[n]
  BY <1>0 DEF Undisturbed
<1>1. CASE AdoptRoster(n)
  BY <1>1, AdoptRosterStep
<1>2. CASE SaveRoomKeys(n)
  BY <1>2, AdoptsKeeps DEF SaveRoomKeys
<1>3. ASSUME NEW readable \in BOOLEAN, Restart(n, readable) PROVE StepOK(n)
  BY <1>3, BlankRestarts
<1>4. ~ReplaceChain(n)
  <2> SUFFICES ASSUME ReplaceChain(n) PROVE FALSE
    OBVIOUS
  <2> DEFINE m == [room[n] EXCEPT !.chain = minted[n] + 1, !.stale = FALSE]
  <2>1. Keep(n, m) /\ call' = call
    BY DEF ReplaceChain, KeepAndSave
  <2>2. m.chain = minted[n] + 1
    BY <1>t DEF Memory
  <2> HIDE DEF m
  <2>3. room'[n] = m
    BY <1>t, <2>1 DEF Keep
  <2>4. QED BY <1>t, <1>0, <1>u, <2>1, <2>2, <2>3
<1>5. ~LeaveRoom(n) /\ ~JoinRoom(n)
  <2> SUFFICES ASSUME LeaveRoom(n) \/ JoinRoom(n) PROVE FALSE
    OBVIOUS
  <2>1. call' = call
    BY DEF LeaveRoom, JoinRoom
  <2>2. room'[n].joined # room[n].joined
    BY <1>t DEF LeaveRoom, JoinRoom, Keep, Memory
  <2>3. QED BY <1>u, <2>1, <2>2
<1>6. UserStep(n) => AdoptRoster(n) \/ SaveRoomKeys(n)
  BY <1>0, <1>4, <1>5
     DEF UserStep, CreateEncryptedRoom, InviteToRoom, RemoveMember, AddInvited, SendInvite,
         InviteFails, LayTombstone, DistributeRoster, RotateAfterDeviceRemoval,
         AcceptRoomInvite, DeclineRoomInvite, InStep
<1>7. ASSUME NEW r \in Rosters(n), \/ RosterForUnknownRoom(n, r) \/ RosterRefused(n, r)
                                   \/ MembersRoster(n, r) \/ OwnersRoster(n, r)
      PROVE  StepOK(n)
  <2>t. /\ r \in net /\ r.to = n /\ r \in Message
    BY DEF Rosters, Good, Inv, TypeOK
  <2>1. CASE RosterForUnknownRoom(n, r)
    BY <1>0, <2>1 DEF RosterForUnknownRoom
  <2>2. CASE RosterRefused(n, r)
    <3>1. told'[Owner] = told[Owner] /\ \A q \in Devices \ {n} : told'[q] = told[q]
      BY <2>t, <2>2, HearsFacts DEF RosterRefused
    <3>2. QED BY <2>2, <3>1, AdoptsKeeps DEF RosterRefused
  <2>3. CASE MembersRoster(n, r)
    <3> DEFINE m == AddAll(room[n], r.members, n)
    <3>1. /\ Keep(n, m) /\ Save(n, m)
          /\ UNCHANGED <<call, pending, net, clock, minted, retired, told>>
      BY <2>3 DEF MembersRoster, KeepAndSave
    <3> HIDE DEF m
    <3>2. m = room[n]
      BY <1>t, <1>u, <3>1 DEF Keep
    <3>3. room' = room
      BY <1>t, <3>1, <3>2 DEF Keep
    <3>4. QED BY <3>1, <3>2, <3>3, AdoptsKeeps
  <2>4. CASE OwnersRoster(n, r)
    <3> DEFINE m3 == AcceptOwnerEpoch(SetAll(Tombstone(room[n], r.removed, r.members), r.members, n), r.epoch)
               m == [m3 EXCEPT !.stale = @ \/ (NewlyRemoved(room[n], r) # {})]
    <3>1. Keep(n, m) /\ call' = call /\ r.epoch > room[n].ownerEpoch
      BY <2>4 DEF OwnersRoster, KeepAndSave, AheadOfOwner
    <3>2. m3 \in Memory /\ m3.ownerEpoch = higher(room[n].ownerEpoch, r.epoch) /\ r.epoch \in Nat
      BY <1>t, <2>t, OwnersList DEF Message
    <3> HIDE DEF m3
    <3>3. m.ownerEpoch = m3.ownerEpoch
      BY <3>2 DEF Memory
    <3> HIDE DEF m
    <3>4. room'[n] = m
      BY <1>t, <3>1 DEF Keep
    <3>5. m.ownerEpoch # room[n].ownerEpoch
      BY <1>0, <3>1, <3>2, <3>3 DEF higher
    <3>6. QED BY <1>u, <3>1, <3>4, <3>5
  <2>5. QED BY <1>7, <2>1, <2>2, <2>3, <2>4
<1>8. ASSUME NEW r \in net, InviteArrives(n, r) PROVE StepOK(n)
  <2>1. CASE Save(n, room[n]) /\ UNCHANGED pending
    BY <1>8, <2>1, AdoptsKeeps DEF InviteArrives
  <2>2. CASE pending' = [pending EXCEPT ![n] = r]
    <3>1. pending'[n] = r /\ r # NoInvite
      BY <1>8, <2>2 DEF InviteArrives, NoInvite, Good, Inv, TypeOK
    <3>2. room' = room
      BY <1>8 DEF InviteArrives
    <3>3. QED BY <1>0, <3>1, <3>2 DEF Calm
  <2>3. QED BY <1>8, <2>1, <2>2 DEF InviteArrives
<1>9. QED BY <1>1, <1>2, <1>3, <1>6, <1>7, <1>8 DEF Delivery

\* What a device may do that knows the room and nothing about it.
LEMMA BareStep ==
  ASSUME Good, Inv', Calm', NEW n \in Devices, Bare(n),
         UserStep(n) \/ Delivery(n) \/ \E readable \in BOOLEAN : Restart(n, readable)
  PROVE  StepOK(n)
<1> USE DevicesAssumption
<1>t. /\ room \in [Devices -> Memory] /\ room[n] \in Memory /\ room[Owner] \in Memory /\ clock \in Nat
  BY DEF Good, Inv, TypeOK
<1>0. /\ call[n].pc = "none" /\ pending[n] = NoInvite /\ room[n].known /\ ~room[n].encrypted
      /\ n # Owner /\ room[n].owner = None /\ room[n].invited = {}
  BY DEF Bare, Blank, Idle
<1>1. ASSUME NEW readable \in BOOLEAN, Restart(n, readable) PROVE StepOK(n)
  BY <1>1, BlankRestarts
<1>2. UserStep(n) => LeaveRoom(n) \/ JoinRoom(n)
  BY <1>0
     DEF UserStep, CreateEncryptedRoom, InviteToRoom, RemoveMember, AddInvited, SendInvite,
         InviteFails, LayTombstone, DistributeRoster, RotateAfterDeviceRemoval,
         AcceptRoomInvite, AdoptRoster, DeclineRoomInvite, ReplaceChain, SaveRoomKeys, InStep
<1>3. ASSUME LeaveRoom(n) \/ JoinRoom(n) PROVE StepOK(n)
  <2>1. PICK b \in BOOLEAN : Keep(n, [room[n] EXCEPT !.joined = b])
    BY <1>3 DEF LeaveRoom, JoinRoom
  <2> DEFINE m == [room[n] EXCEPT !.joined = b]
  <2>2. /\ m \in Memory /\ m.known = room[n].known /\ m.owner = room[n].owner
        /\ m.invited = room[n].invited /\ m.removed = room[n].removed
        /\ m.epoch = room[n].epoch /\ m.ownerEpoch = room[n].ownerEpoch
        /\ m.chain = room[n].chain /\ m.stale = room[n].stale /\ m.encrypted = room[n].encrypted
    BY <1>t DEF Memory
  <2>3. Keep(n, m) /\ UNCHANGED <<file, call, pending, net, clock, minted, retired, told, blind>>
    BY <1>3, <2>1 DEF LeaveRoom, JoinRoom
  <2> HIDE DEF m
  <2>4. m.epoch >= room[n].epoch /\ m.ownerEpoch >= room[n].ownerEpoch
    BY <1>t, <2>2 DEF Memory
  <2>5. /\ room'[n] = m /\ \A q \in Devices \ {n} : room'[q] = room[q]
        /\ Talk' /\ Stamps' /\ room'[Owner].known
    BY <1>0, <2>2, <2>3, <2>4, KeepingStep
  <2>6. Blank(n)'
    BY <2>2, <2>3, <2>5 DEF Bare, Blank
  <2>7. Bare(n)'
    BY <2>2, <2>3, <2>5, <2>6 DEF Bare, Idle
  <2>8. Elsewhere(n)
    BY <2>3, <2>5 DEF Elsewhere
  <2>9. QED BY <2>3, <2>5, <2>7, <2>8 DEF StepOK, Here
<1>4. ASSUME NEW r \in Rosters(n), \/ RosterForUnknownRoom(n, r) \/ RosterRefused(n, r)
                                   \/ MembersRoster(n, r) \/ OwnersRoster(n, r)
      PROVE  StepOK(n)
  <2>1. Hears(n, r) /\ UNCHANGED <<room, file, call, pending, net, clock, minted, retired, blind>>
    BY <1>0, <1>4 DEF RosterForUnknownRoom, RosterRefused, MembersRoster, OwnersRoster, Admissible
  <2>2. told'[Owner] = told[Owner] /\ \A q \in Devices \ {n} : told'[q] = told[q]
    <3>1. r \in net /\ r.to = n
      BY DEF Rosters
    <3>2. QED BY <2>1, <3>1, HearsFacts
  <2>3. Elsewhere(n)
    BY <2>1, <2>2 DEF Elsewhere
  <2>4. Talk' /\ Stamps'
    <3>1. /\ clock' >= clock /\ room'[Owner].epoch >= room[Owner].epoch
          /\ room'[Owner].ownerEpoch >= room[Owner].ownerEpoch
      BY <1>t, <2>1 DEF Memory
    <3>2. QED BY <2>1, <2>2, <3>1, QuietWire
  <2>5. Bare(n)'
    BY <2>1 DEF Bare, Blank, Idle
  <2>6. QED BY <2>1, <2>3, <2>4, <2>5 DEF StepOK, Here
<1>5. ASSUME NEW r \in net PROVE ~InviteArrives(n, r)
  <2> SUFFICES ASSUME InviteArrives(n, r) PROVE FALSE
    OBVIOUS
  <2>1. pending' = [pending EXCEPT ![n] = r] /\ room' = room /\ r.kind = "invite"
    BY <1>0 DEF InviteArrives
  <2>2. pending'[n] = r /\ r # NoInvite
    BY <2>1 DEF NoInvite, Good, Inv, TypeOK
  <2>3. QED BY <1>0, <2>1, <2>2 DEF Calm
<1>6. QED BY <1>1, <1>2, <1>3, <1>4, <1>5 DEF Delivery

LEMMA InitGood == Init => Good
<1> SUFFICES ASSUME Init PROVE Good
  OBVIOUS
<1> USE DevicesAssumption
<1>1. Talk
  BY DEF Init, Talk
<1>2. Stamps
  <2>1. NextEpoch(room[Owner]) = 1
    BY DEF Init, NoMemory, NextEpoch, higher
  <2>2. QED BY <2>1 DEF Init, Stamps
<1>3. ASSUME NEW n \in Devices PROVE Local(n)
  <2>1. room[n] = NoMemory /\ file[n] = NoEntry /\ call[n] = NoCall /\ pending[n] = NoInvite
        /\ told[n].gone = {} /\ minted[n] = 0 /\ retired[n] = 0
    BY DEF Init
  <2>2. Pins(n) /\ Chains(n)
    BY <2>1 DEF Pins, Chains, NoMemory, NoEntry, NoCall, Idle
  <2>3. Strangers(n)
    BY <2>1 DEF Strangers, NoCall, Idle
  <2>4. Lists(n)
    BY <2>1 DEF Lists, NoMemory, NoEntry, NoCall, InStep
  <2>5. QED BY <2>1, <2>2, <2>3, <2>4 DEF Local, NoMemory
<1>4. QED BY <1>1, <1>2, <1>3, InitInv DEF Good, Here

LEMMA GoodStep == Good /\ [Next /\ Calm' /\ Undisturbed]_vars => Good'
<1> SUFFICES ASSUME Good, [Next /\ Calm' /\ Undisturbed]_vars PROVE Good'
  OBVIOUS
<1>1. Inv'
  BY InvStep, InvitesStep DEF Good, Inv
<1>2. CASE UNCHANGED vars
  <2>1. UNCHANGED <<room, file, call, pending, net, clock, minted, retired, told, blind>>
    BY <1>2 DEF vars
  <2>2. Talk'
    BY <2>1 DEF Good, Talk
  <2>3. Stamps'
    BY <2>1 DEF Good, Stamps, NextEpoch
  <2>4. ASSUME NEW n \in Devices PROVE Here(n)'
    <3>1. CASE Local(n)
      <4>1. Pins(n)' /\ Chains(n)' /\ Lists(n)' /\ Strangers(n)'
        BY <2>1, <3>1 DEF Local, Pins, Chains, Lists, Strangers, Idle, InStep
      <4>2. n \notin blind' /\ room'[n].known => Remembers(n)'
        BY <2>1, <3>1 DEF Local, Remembers, Halfway, InStep
      <4>3. QED BY <4>1, <4>2 DEF Here, Local
    <3>2. CASE Adopts(n)
      BY <2>1, <3>2 DEF Here, Adopts, Blank, InStep
    <3>3. CASE Bare(n)
      BY <2>1, <3>3 DEF Here, Bare, Blank, Idle
    <3>4. QED BY <3>1, <3>2, <3>3 DEF Good, Here
  <2>5. QED BY <1>1, <2>2, <2>3, <2>4 DEF Good
<1>3. CASE Next /\ Calm' /\ Undisturbed
  <2>c. Calm' /\ Undisturbed
    BY <1>3
  <2>1. ASSUME NEW n \in Devices, Local(n), UserStep(n) PROVE StepOK(n)
    <3>1. CASE CreateEncryptedRoom(n)
      BY <1>1, <2>1, <2>c, <3>1, CreateEncryptedRoomStep
    <3>2. CASE \E x \in Devices : InviteToRoom(n, x) \/ RemoveMember(n, x)
      BY <1>1, <2>1, <2>c, <3>2, InviteToRoomStep, RemoveMemberStep
    <3>3. CASE AddInvited(n)
      BY <1>1, <2>1, <2>c, <3>3, AddInvitedStep
    <3>4. CASE SendInvite(n)
      BY <1>1, <2>1, <2>c, <3>4, SendInviteStep
    <3>5. CASE InviteFails(n)
      BY <1>1, <2>1, <2>c, <3>5, InviteFailsStep
    <3>6. CASE LayTombstone(n)
      BY <1>1, <2>1, <2>c, <3>6, LayTombstoneStep
    <3>7. CASE DistributeRoster(n)
      BY <1>1, <2>1, <2>c, <3>7, DistributeRosterStep
    <3>8. CASE RotateAfterDeviceRemoval(n)
      BY <1>1, <2>1, <2>c, <3>8, RotateAfterDeviceRemovalStep
    <3>9. CASE AcceptRoomInvite(n)
      BY <1>1, <2>1, <2>c, <3>9, AcceptRoomInviteStep
    <3>10. CASE DeclineRoomInvite(n)
      BY <1>1, <2>1, <2>c, <3>10, DeclineRoomInviteStep
    <3>11. CASE ReplaceChain(n)
      BY <1>1, <2>1, <2>c, <3>11, ReplaceChainStep
    <3>12. CASE SaveRoomKeys(n)
      <4>1. room[n].known
        BY <2>1, <3>12 DEF SaveRoomKeys, Local, Strangers, NoMemory
      <4>2. QED BY <1>1, <2>1, <2>c, <3>12, <4>1, SaveRoomKeysStep DEF SaveRoomKeys
    <3>13. CASE LeaveRoom(n) \/ JoinRoom(n)
      BY <1>1, <2>1, <2>c, <3>13, LeaveOrJoinStep
    <3>14. CASE AdoptRoster(n)
      BY <2>1, <3>14 DEF AdoptRoster, Local, Lists
    <3>15. QED BY <2>1, <3>1, <3>2, <3>3, <3>4, <3>5, <3>6, <3>7, <3>8, <3>9, <3>10,
                  <3>11, <3>12, <3>13, <3>14 DEF UserStep
  <2>2. ASSUME NEW n \in Devices, Local(n), Delivery(n) PROVE StepOK(n)
    <3>1. ASSUME NEW r \in Rosters(n), \/ RosterForUnknownRoom(n, r) \/ RosterRefused(n, r)
                                       \/ MembersRoster(n, r) \/ OwnersRoster(n, r)
          PROVE  StepOK(n)
      BY <1>1, <2>2, <2>c, <3>1, RosterIgnoredStep, MembersRosterStep, OwnersRosterStep
    <3>2. ASSUME NEW r \in net, InviteArrives(n, r) PROVE StepOK(n)
      BY <1>1, <2>2, <2>c, <3>2, InviteArrivesStep
    <3>3. QED BY <2>2, <3>1, <3>2 DEF Delivery
  <2>3. ASSUME NEW n \in Devices, Local(n), NEW readable \in BOOLEAN, Restart(n, readable)
        PROVE  StepOK(n)
    BY <1>1, <2>c, <2>3, RestartStep
  <2>4. ASSUME NEW n \in Devices, ~Local(n),
               UserStep(n) \/ Delivery(n) \/ \E readable \in BOOLEAN : Restart(n, readable)
        PROVE  StepOK(n)
    <3>1. Adopts(n) \/ Bare(n)
      BY <2>4 DEF Good, Here
    <3>2. QED BY <1>1, <2>c, <2>4, <3>1, AdoptsStep, BareStep
  <2>5. \E n \in Devices : StepOK(n)
    BY <1>3, <2>1, <2>2, <2>3, <2>4 DEF Next
  <2>6. QED BY <1>1, <2>5, StepSuffices
<1>4. QED BY <1>2, <1>3

\* While a device has its room file, nobody the owner's statements it was given call
\* removed is on its list between calls, whatever members' rosters, replays, lost or
\* late copies and restarts did since, in the calm schedules.
THEOREM RemovedStayOff == CalmSpec => []RemovalsStick
<1>1. Good => RemovalsStick
  <2> SUFFICES ASSUME Good, NEW n \in Devices \ blind, room[n].known, Idle(n)
               PROVE  told[n].gone \cap room[n].invited = {}
    BY DEF RemovalsStick
  <2>1. CASE Local(n)
    <3>1. Remembers(n) /\ Lists(n)
      BY <2>1 DEF Local
    <3>2. Halfway(n) = {}
      BY DEF Halfway, Idle, InStep
    <3>3. QED BY <3>1, <3>2 DEF Remembers, Lists
  <2>2. CASE Adopts(n) \/ Bare(n)
    BY <2>2 DEF Adopts, Bare, Idle, InStep
  <2>3. QED BY <2>1, <2>2 DEF Good, Here
<1>2. QED BY InitGood, GoodStep, <1>1, PTL DEF CalmSpec

\* A chain minted before a device learned of a removal is never again the one it would
\* seal under: every way to learn of one marks the chain, and the mark survives the
\* saves, the restarts and the steps of other calls.
THEOREM RetiredStayRetired == CalmSpec => []RetiredChainsStayRetired
<1>1. Good => RetiredChainsStayRetired
  <2> SUFFICES ASSUME Good, NEW n \in Devices \ blind, room[n].chain # 0, ~room[n].stale
               PROVE  room[n].chain > retired[n]
    BY DEF RetiredChainsStayRetired
  <2>1. Local(n)
    BY DEF Good, Here, Adopts, Bare, Blank
  <2>2. room[n].known
    BY <2>1 DEF Local, Strangers, NoMemory
  <2>3. QED BY <2>1, <2>2 DEF Local, Remembers
<1>2. QED BY InitGood, GoodStep, <1>1, PTL DEF CalmSpec

\* A new statement of the owner's is stamped past all it ever signed.
LEMMA WordsStep == Good /\ OwnersWordIsOne /\ [Next]_vars => OwnersWordIsOne'
<1> SUFFICES ASSUME Good, OwnersWordIsOne, [Next]_vars PROVE OwnersWordIsOne'
  OBVIOUS
<1>1. CASE net' = net
  BY <1>1 DEF OwnersWordIsOne
<1>2. ASSUME NEW n \in Devices, ~Idle(n), NEW kind, NEW tell,
             net' = net \cup {Statement(room[n], n, kind, t) : t \in tell}
      PROVE  OwnersWordIsOne'
  <2> DEFINE s(t) == Statement(room[n], n, kind, t)
             e == NextEpoch(room[n])
             who == room[n].invited \cup {n}
             gone == IF n = Owner THEN room[n].removed ELSE {}
  <2>1. ASSUME NEW t
        PROVE  /\ s(t).author = n /\ s(t).epoch = e /\ s(t).members = who /\ s(t).removed = gone
    <3>1. room[n].owner = Owner
      BY <1>2 DEF Good, Here, Local, Pins, Adopts, Bare
    <3>2. QED BY <3>1 DEF Statement
  <2>2. who \cap gone = {}
    BY DEF Good, Here, Local, Lists, Adopts, Bare, Blank
  <2>3. \A r \in net : r.author = Owner /\ n = Owner => r.epoch < e /\ r.epoch \in Nat
    BY DEF Good, Stamps, Inv, TypeOK, Message
  <2>4. \A r \in net' : r \in net \/ \E t \in tell : r = s(t)
    BY <1>2
  <2>e. e \in Nat
    BY SigningOps DEF Good, Inv, TypeOK
  <2> HIDE DEF s, e, who, gone
  <2>5. \A r \in net' : r.author = Owner =>
           \/ r \in net
           \/ n = Owner /\ r.epoch = e /\ r.members = who /\ r.removed = gone
    BY <2>1, <2>4
  <2>6. \A r \in net' : r.author = Owner => r.members \cap r.removed = {}
    BY <2>2, <2>5 DEF OwnersWordIsOne
  <2>7. ASSUME NEW r \in net', NEW q \in net', r.author = Owner, q.author = Owner, q.epoch = r.epoch
        PROVE  q.members = r.members /\ q.removed = r.removed
    <3>1. CASE r \in net /\ q \in net
      BY <2>7, <3>1 DEF OwnersWordIsOne
    <3>2. CASE r \notin net \/ q \notin net
      <4>1. n = Owner /\ r.epoch = e /\ q.epoch = e
        BY <2>5, <2>7, <3>2
      <4>2. r \notin net /\ q \notin net
        BY <2>3, <2>7, <2>e, <4>1
      <4>3. QED BY <2>5, <2>7, <4>2
    <3>3. QED BY <3>1, <3>2
  <2>8. QED BY <2>6, <2>7 DEF OwnersWordIsOne
<1>3. ASSUME NEW n \in Devices, SendInvite(n) PROVE OwnersWordIsOne'
  <2>1. ~Idle(n)
    BY <1>3 DEF SendInvite, InStep, Idle
  <2>2. net' = net \cup {Statement(room[n], n, "invite", t) : t \in {call[n].whom}}
    BY <1>3 DEF SendInvite
  <2>3. QED BY <1>2, <2>1, <2>2
<1>4. ASSUME NEW n \in Devices, DistributeRoster(n) PROVE OwnersWordIsOne'
  <2>1. ~Idle(n)
    BY <1>4 DEF DistributeRoster, InStep, Idle
  <2>2. net' = net \cup {Statement(room[n], n, "roster", t) : t \in room[n].invited \ {call[n].whom}}
    BY <1>4 DEF DistributeRoster
  <2>3. QED BY <1>2, <2>1, <2>2
<1>5. ASSUME NEW n \in Devices,
             \/ CreateEncryptedRoom(n) \/ AddInvited(n) \/ InviteFails(n)
             \/ \E x \in Devices : InviteToRoom(n, x) \/ RemoveMember(n, x)
             \/ LayTombstone(n) \/ RotateAfterDeviceRemoval(n)
             \/ AcceptRoomInvite(n) \/ AdoptRoster(n) \/ DeclineRoomInvite(n)
             \/ ReplaceChain(n) \/ SaveRoomKeys(n) \/ LeaveRoom(n) \/ JoinRoom(n)
             \/ \E readable \in BOOLEAN : Restart(n, readable)
      PROVE  net' = net
  BY <1>5 DEF CreateEncryptedRoom, AddInvited, InviteFails, InviteToRoom, RemoveMember,
              LayTombstone, RotateAfterDeviceRemoval, AcceptRoomInvite, AdoptRoster,
              DeclineRoomInvite, ReplaceChain, SaveRoomKeys, LeaveRoom, JoinRoom, Restart
<1>6. ASSUME NEW n \in Devices, Delivery(n) PROVE net' = net
  BY <1>6 DEF Delivery, RosterForUnknownRoom, RosterRefused, MembersRoster, OwnersRoster,
              InviteArrives
<1>7. CASE UNCHANGED vars
  BY <1>1, <1>7 DEF vars
<1>8. QED BY <1>1, <1>3, <1>4, <1>5, <1>6, <1>7 DEF Next, UserStep

\* The owner never stamps two different lists with one epoch and never names anybody
\* present and removed at once, over restarts and lost room files too.
THEOREM OneWord == CalmSpec => []OwnersWordIsOne
<1>1. Init => OwnersWordIsOne
  BY DEF Init, OwnersWordIsOne
<1>2. Good /\ OwnersWordIsOne /\ [Next /\ Calm' /\ Undisturbed]_vars => OwnersWordIsOne'
  BY WordsStep
<1>3. QED BY InitGood, GoodStep, <1>1, <1>2, PTL DEF CalmSpec
=============================================================================
