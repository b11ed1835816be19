--------------------------- MODULE RoomMembership ---------------------------
(***************************************************************************)
(* Who is in one encrypted room, as every member's device believes it: the *)
(* owner pin, the member list, the tombstones, the roster epochs, and the  *)
(* one consequence a removal has for a device's own chain.                 *)
(*                                                                         *)
(* Devices talk by signed rosters and by invitations, 1:1.  The network    *)
(* delivers any message late, out of order, more than once or never, and a *)
(* device restarts from its room file at any moment.  A user's call runs in*)
(* steps, between its saves and its sends; what arrives is handled in one. *)
(* Signatures are assumed: a roster is its author's.                       *)
(***************************************************************************)
EXTENDS Integers

CONSTANTS
  Devices,      \* one device for each screen name
  Owner,        \* the one who creates the room
  None,         \* no owner pinned
  MaxCalls,     \* bound: invitations, removals and rekeyings, all told
  MaxChains,    \* bound: chains one device mints
  MaxUpsets     \* bound: restarts, failed saves and rooms left, all told

ASSUME DevicesAssumption == Owner \in Devices /\ None \notin Devices
ASSUME MembershipBounds  ==
  MaxCalls \in Nat /\ MaxChains \in Nat /\ MaxUpsets \in Nat

VARIABLES
  room,      \* what each device's memory holds about the room
  file,      \* what each device's room file says of it
  call,      \* the user's call each device is in
  pending,   \* the invitation each device has waiting
  net,       \* every message ever sent
  clock,     \* the wall clock the epochs are floored at
  minted,    \* history: how many chains each device ever minted
  retired,   \* history: the last chain minted before a removal was learned
  told,      \* history: what the owner's statements DELIVERED to a device say
  blind,     \* history: devices that once could not read or write their room file
  calls, upsets

vars == <<room, file, call, pending, net, clock, minted, retired, told, blind,
          calls, upsets>>

\* What memory knows of the room.  `known`: it is in the room list, joined or not.
Memory == [known : BOOLEAN, joined : BOOLEAN, encrypted : BOOLEAN,
           owner : Devices \cup {None}, invited : SUBSET Devices, removed : SUBSET Devices,
           epoch : Nat, ownerEpoch : Nat, chain : Nat, stale : BOOLEAN]

NoMemory == [known |-> FALSE, joined |-> FALSE, encrypted |-> FALSE, owner |-> None,
             invited |-> {}, removed |-> {}, epoch |-> 0, ownerEpoch |-> 0,
             chain |-> 0, stale |-> FALSE]

\* roomkeys.Room, less the reading half.
Entry == [saved : BOOLEAN, owner : Devices \cup {None},
          invited : SUBSET Devices, removed : SUBSET Devices,
          epoch : Nat, ownerEpoch : Nat, chain : Nat, stale : BOOLEAN]

NoEntry == [saved |-> FALSE, owner |-> None, invited |-> {}, removed |-> {},
            epoch |-> 0, ownerEpoch |-> 0, chain |-> 0, stale |-> FALSE]

\* A roster, on its own or riding in an invitation.
Message == [kind : {"roster", "invite"}, to : Devices, author : Devices, owner : Devices,
            epoch : Nat, members : SUBSET Devices, removed : SUBSET Devices]

NoInvite == [kind |-> "none"]

CallSteps == {"none", "invite", "send", "tell", "remove", "adopt"}

\* Whom a call is about, whether it lifted a tombstone, the invitation it accepts.
Call == [pc : CallSteps, whom : Devices \cup {None}, lifted : BOOLEAN,
         what : Message \cup {NoInvite}]
NoCall == [pc |-> "none", whom |-> None, lifted |-> FALSE, what |-> NoInvite]

TypeOK ==
  /\ room \in [Devices -> Memory]
  /\ \A n \in Devices : n \notin room[n].invited
  /\ file \in [Devices -> Entry]
  /\ call \in [Devices -> Call]
  /\ pending \in [Devices -> Message \cup {NoInvite}]
  /\ net \subseteq Message
  /\ clock \in Nat
  /\ minted \in [Devices -> Nat]
  /\ retired \in [Devices -> Nat]
  /\ told \in [Devices -> [upTo : Nat, gone : SUBSET Devices]]
  /\ blind \subseteq Devices
  /\ calls \in Nat /\ upsets \in Nat

Init ==
  /\ room = [n \in Devices |-> NoMemory]
  /\ file = [n \in Devices |-> NoEntry]
  /\ call = [n \in Devices |-> NoCall]
  /\ pending = [n \in Devices |-> NoInvite]
  /\ net = {}
  /\ clock = 1
  /\ minted = [n \in Devices |-> 0]
  /\ retired = [n \in Devices |-> 0]
  /\ told = [n \in Devices |-> [upTo |-> 0, gone |-> {}]]
  /\ blind = {}
  /\ calls = 0 /\ upsets = 0

-----------------------------------------------------------------------------
(* Helpers: the operations of roomMembers on one device's memory *)

higher(a, b) == IF a > b THEN a ELSE b

\* A member's roster unions in, but never past a tombstone, and never ourselves:
\* a list means "other people" on every device.
AddAllNames(m, names, self) == [m EXCEPT !.invited = @ \cup (names \ {self})]
AddAll(m, names, self) == [m EXCEPT !.invited = @ \cup ((names \ {self}) \ m.removed)]

SetAll(m, names, self) == [m EXCEPT !.invited = names \ {self}]

\* Trust on first use.
PinOwner(m, owner) == [m EXCEPT !.owner = IF @ = None THEN owner ELSE @]

Tombstone(m, gone, present) == [m EXCEPT !.removed = (@ \cup gone) \ present]

AcceptOwnerEpoch(m, e) ==
  [m EXCEPT !.ownerEpoch = higher(@, e), !.epoch = higher(@, e)]

\* Past everything stamped or accepted so far, and never behind the clock.  Two
\* devices' clocks agree, and the counter is never near its width.
UnflooredEpoch(m) == higher(m.epoch, m.ownerEpoch) + 1
NextEpoch(m) == higher(higher(m.epoch, m.ownerEpoch) + 1, clock)

\* signedRoster: what the statement says, and the memory that has signed it.
Signed(m, n) ==
  LET e == NextEpoch(m) IN
  IF n = m.owner
  THEN AcceptOwnerEpoch([m EXCEPT !.epoch = e], e)
  ELSE [m EXCEPT !.epoch = e]

Statement(m, n, kind, to) ==
  [kind |-> kind, to |-> to, author |-> n, owner |-> m.owner, epoch |-> NextEpoch(m),
   members |-> m.invited \cup {n}, removed |-> IF n = m.owner THEN m.removed ELSE {}]

\* mergedRoomEntry: what is saved for the room, over what was saved before.  The
\* first form writes the live marks over the file's.
LiveEntry(m, prev) ==
  LET gone == m.removed \cup prev.removed IN
  [saved |-> TRUE, owner |-> IF prev.owner # None THEN prev.owner ELSE m.owner,
   epoch |-> m.epoch, ownerEpoch |-> m.ownerEpoch, removed |-> gone,
   invited |-> (IF m.invited = {} THEN prev.invited ELSE m.invited) \ gone,
   chain |-> IF m.chain = 0 THEN prev.chain ELSE m.chain,
   stale |-> IF m.chain = 0 /\ prev.chain # 0 THEN prev.stale ELSE m.stale]

MergedEntry(m, prev) ==
  LET gone == m.removed \cup prev.removed IN
  [saved |-> TRUE, owner |-> IF prev.owner # None THEN prev.owner ELSE m.owner,
   epoch |-> higher(m.epoch, prev.epoch),
   ownerEpoch |-> higher(m.ownerEpoch, prev.ownerEpoch), removed |-> gone,
   invited |-> (IF m.invited = {} THEN prev.invited ELSE m.invited) \ gone,
   chain |-> IF m.chain = 0 THEN prev.chain ELSE m.chain,
   stale |-> IF m.chain = 0 /\ prev.chain # 0 THEN prev.stale ELSE m.stale]

\* Device n's memory becomes m.
Keep(n, m) == room' = [room EXCEPT ![n] = m]

\* m is saved for device n, or the file cannot be read or written, which is logged.
Save(n, m) ==
  \/ /\ file' = [file EXCEPT ![n] = MergedEntry(m, @)]
     /\ UNCHANGED <<blind, upsets>>
  \/ /\ upsets < MaxUpsets
     /\ blind' = blind \cup {n} /\ upsets' = upsets + 1
     /\ UNCHANGED file
KeepAndSave(n, m) == Keep(n, m) /\ Save(n, m)

\* applyRoomEntry on a memory that holds nothing: tombstones first, members second.
Restored(m, e, self) ==
  IF ~e.saved THEN m
  ELSE AddAll([m EXCEPT !.encrypted = TRUE, !.owner = e.owner, !.removed = e.removed,
                        !.epoch = e.epoch, !.ownerEpoch = e.ownerEpoch,
                        !.chain = e.chain, !.stale = e.stale], e.invited, self)

\* The reference: what a device that forgot nothing would hold of the owner's
\* statements after one more of them.  The owner is the first to hear its own.
Hears(n, r) ==
  IF r.author = Owner /\ r.epoch > told[n].upTo
  THEN told' = [told EXCEPT ![n] = [upTo |-> r.epoch, gone |-> (@.gone \cup r.removed) \ r.members]]
  ELSE UNCHANGED told

-----------------------------------------------------------------------------
(* The user's calls *)

Idle(n) == call[n].pc = "none"
InStep(n, pc) == call[n].pc = pc
Goto(n, pc) == call' = [call EXCEPT ![n].pc = pc]
Return(n) == call' = [call EXCEPT ![n] = NoCall]

\* CreateEncryptedRoom: join, mark, pin, save.
CreateEncryptedRoom(n) ==
  /\ n = Owner /\ Idle(n) /\ ~room[n].encrypted
  /\ KeepAndSave(n, PinOwner([room[n] EXCEPT !.known = TRUE, !.joined = TRUE,
                                             !.encrypted = TRUE], n))
  /\ UNCHANGED <<call, pending, net, clock, minted, retired, told, calls>>

\* InviteToRoom up to the tombstone: refused without a pin, and to anybody but
\* the owner when the invitee was removed.
InviteToRoom(n, x) ==
  LET m == room[n] IN
  /\ Idle(n) /\ calls < MaxCalls
  /\ x # n /\ m.encrypted /\ m.known /\ m.owner # None
  /\ x \in m.removed => m.owner = n
  /\ Keep(n, Tombstone(m, {}, {x}))
  /\ call' = [call EXCEPT ![n] = [NoCall EXCEPT !.pc = "invite", !.whom = x,
                                                !.lifted = x \in m.removed]]
  /\ calls' = calls + 1
  /\ UNCHANGED <<file, pending, net, clock, minted, retired, told, blind, upsets>>

\* Recorded before anything is sent, so that the roster names the newcomer.
AddInvited(n) ==
  /\ InStep(n, "invite")
  /\ KeepAndSave(n, [room[n] EXCEPT !.invited = @ \cup {call[n].whom}])
  /\ Goto(n, "send")
  /\ UNCHANGED <<pending, net, clock, minted, retired, told, calls>>

\* The invitation goes out with a roster signed for it.
SendInvite(n) ==
  /\ InStep(n, "send")
  /\ net' = net \cup {Statement(room[n], n, "invite", call[n].whom)}
  /\ Keep(n, Signed(room[n], n))
  /\ Goto(n, "tell")
  /\ Hears(n, Statement(room[n], n, "invite", call[n].whom))
  /\ UNCHANGED <<file, pending, clock, minted, retired, blind, calls, upsets>>

\* It could not be sent: nobody was invited, and a lifted tombstone is laid again.
InviteFails(n) ==
  LET x == call[n].whom
      m == [Signed(room[n], n) EXCEPT !.invited = @ \ {x}] IN
  /\ InStep(n, "send")
  /\ KeepAndSave(n, Tombstone(m, IF call[n].lifted THEN {x} ELSE {}, {}))
  /\ Return(n)
  /\ UNCHANGED <<pending, net, clock, minted, retired, told, calls>>

\* distributeRoster to everybody on the list but the one the call is about.
\* A copy that could not be sent is one that is never delivered.
DistributeRoster(n) ==
  LET tell == room[n].invited \ {call[n].whom} IN
  /\ InStep(n, "tell")
  /\ net' = net \cup {Statement(room[n], n, "roster", t) : t \in tell}
  /\ Keep(n, Signed(room[n], n))
  /\ Return(n)
  /\ Hears(n, Statement(room[n], n, "roster", n))
  /\ UNCHANGED <<file, pending, clock, minted, retired, blind, calls, upsets>>

\* RotateRoomKey with somebody to drop: only the owner may, and the name leaves
\* the list before it is tombstoned.
RemoveMember(n, x) ==
  LET m == room[n] IN
  /\ Idle(n) /\ calls < MaxCalls
  /\ m.encrypted /\ m.known /\ m.owner = n /\ x # n
  /\ Keep(n, [m EXCEPT !.invited = @ \ {x}])
  /\ call' = [call EXCEPT ![n] = [NoCall EXCEPT !.pc = "remove", !.whom = x]]
  /\ calls' = calls + 1
  /\ UNCHANGED <<file, pending, net, clock, minted, retired, told, blind, upsets>>

LayTombstone(n) ==
  /\ InStep(n, "remove")
  /\ KeepAndSave(n, Tombstone([room[n] EXCEPT !.stale = TRUE], {call[n].whom}, {}))
  /\ retired' = [retired EXCEPT ![n] = minted[n]]
  /\ Goto(n, "tell")
  /\ UNCHANGED <<pending, net, clock, minted, told, calls>>

\* A device disappeared from an account: the chain is replaced, nobody is told.
RotateAfterDeviceRemoval(n) ==
  /\ Idle(n) /\ calls < MaxCalls
  /\ room[n].joined /\ room[n].encrypted
  /\ KeepAndSave(n, [room[n] EXCEPT !.stale = TRUE])
  /\ retired' = [retired EXCEPT ![n] = minted[n]]
  /\ calls' = calls + 1
  /\ UNCHANGED <<call, pending, net, clock, minted, told>>

-----------------------------------------------------------------------------
(* What arrives *)

Rosters(n) == {r \in net : r.kind = "roster" /\ r.to = n}

\* applyRoster's first three conditions: a pin, the same owner, a member's word.
Admissible(n, r) ==
  LET m == room[n] IN
  m.owner # None /\ r.owner = m.owner /\ r.author \in {m.owner, n} \cup m.invited

\* A room we hold no record of.
RosterForUnknownRoom(n, r) ==
  /\ ~room[n].known
  /\ Hears(n, r)
  /\ UNCHANGED <<room, file, call, pending, net, clock, minted, retired, blind,
                 calls, upsets>>

\* aheadOfOwner.
AheadOfOwner(m, e) == e > m.ownerEpoch

\* No authority, or the owner's and not ahead of the last one.
RosterRefused(n, r) ==
  /\ room[n].known
  /\ Admissible(n, r) => r.author = room[n].owner /\ ~AheadOfOwner(room[n], r.epoch)
  /\ Hears(n, r)
  /\ UNCHANGED <<room, file, call, pending, net, clock, minted, retired, blind,
                 calls, upsets>>

\* Anybody's but the owner's only adds.
MembersRoster(n, r) ==
  /\ room[n].known /\ Admissible(n, r) /\ r.author # room[n].owner
  /\ KeepAndSave(n, AddAll(room[n], r.members, n))
  /\ UNCHANGED <<call, pending, net, clock, minted, retired, told,
                 calls>>

\* The names a removal is news of.  The first form is a diff against our own list.
MissingFromList(m, r) == m.invited \ r.members
NewlyRemoved(m, r) == r.removed \ m.removed

\* The owner's replaces the list, lays and lifts tombstones, and retires our
\* chain if it names anybody new as removed.
OwnersRoster(n, r) ==
  LET m    == room[n]
      news == NewlyRemoved(m, r) # {}
      next == AcceptOwnerEpoch(SetAll(Tombstone(m, r.removed, r.members), r.members, n), r.epoch)
  IN
  /\ m.known /\ Admissible(n, r) /\ r.author = m.owner /\ AheadOfOwner(m, r.epoch)
  /\ KeepAndSave(n, [next EXCEPT !.stale = @ \/ news])
  /\ retired' = IF next.removed \subseteq m.removed THEN retired
                ELSE [retired EXCEPT ![n] = minted[n]]
  /\ Hears(n, r)
  /\ UNCHANGED <<call, pending, net, clock, minted, calls>>

\* An invitation to a room we are in carries chains and nothing else; any other
\* waits for the user, in place of whatever was waiting.
InviteArrives(n, r) ==
  /\ r.kind = "invite" /\ r.to = n
  /\ \/ /\ room[n].joined /\ r.author \in room[n].invited
        /\ Save(n, room[n])
        /\ UNCHANGED pending
     \/ /\ ~room[n].joined
        /\ pending' = [pending EXCEPT ![n] = r]
        /\ UNCHANGED <<file, blind, upsets>>
  /\ UNCHANGED <<room, call, net, clock, minted, retired, told, calls>>

\* AcceptRoomInvite, once the roster verifies, up to the pin: join, then the first half
\* of adoptInviteState.
AcceptRoomInvite(n) ==
  LET r == pending[n] IN
  /\ r # NoInvite /\ Idle(n)
  /\ Keep(n, PinOwner([room[n] EXCEPT !.known = TRUE, !.joined = TRUE, !.encrypted = TRUE,
                                      !.invited = @ \cup {r.author}], r.owner))
  /\ call' = [call EXCEPT ![n] = [NoCall EXCEPT !.pc = "adopt", !.whom = r.author, !.what = r]]
  /\ pending' = [pending EXCEPT ![n] = NoInvite]
  /\ UNCHANGED <<file, net, clock, minted, retired, told, blind, calls, upsets>>

\* The rest: what the owner says of removals, then the members.
AdoptRoster(n) ==
  LET r    == call[n].what
      m    == room[n]
      next == IF r.author = r.owner
              THEN Tombstone(AcceptOwnerEpoch(m, r.epoch), r.removed, r.members)
              ELSE m
  IN
  /\ InStep(n, "adopt")
  /\ KeepAndSave(n, AddAll(next, r.members, n))
  /\ retired' = IF next.removed \subseteq m.removed THEN retired
                ELSE [retired EXCEPT ![n] = minted[n]]
  /\ Return(n)
  /\ Hears(n, r)
  /\ UNCHANGED <<pending, net, clock, minted, calls>>

DeclineRoomInvite(n) ==
  /\ pending[n] # NoInvite
  /\ pending' = [pending EXCEPT ![n] = NoInvite]
  /\ UNCHANGED <<room, file, call, net, clock, minted, retired, told, blind,
                 calls, upsets>>

-----------------------------------------------------------------------------
(* Sending, saving, leaving, restarting *)

\* A message needs a new chain: minted, broadcast, and saved before it seals.
ReplaceChain(n) ==
  LET m == room[n] IN
  /\ m.joined /\ m.encrypted /\ (m.chain = 0 \/ m.stale)
  /\ minted[n] < MaxChains
  /\ minted' = [minted EXCEPT ![n] = @ + 1]
  /\ KeepAndSave(n, [m EXCEPT !.chain = minted[n] + 1, !.stale = FALSE])
  /\ UNCHANGED <<call, pending, net, clock, retired, told, calls>>

\* A reservation runs out, or the room is flushed at shutdown.
SaveRoomKeys(n) ==
  /\ room[n].joined /\ room[n].encrypted
  /\ Save(n, room[n])
  /\ UNCHANGED <<room, call, pending, net, clock, minted, retired, told,
                 calls>>

\* Leaving closes the connection and keeps the room; joining again opens it.
LeaveRoom(n) ==
  /\ room[n].joined /\ upsets < MaxUpsets
  /\ Keep(n, [room[n] EXCEPT !.joined = FALSE])
  /\ upsets' = upsets + 1
  /\ UNCHANGED <<file, call, pending, net, clock, minted, retired, told, blind, calls>>

JoinRoom(n) ==
  /\ room[n].known /\ ~room[n].joined
  /\ Keep(n, [room[n] EXCEPT !.joined = TRUE])
  /\ UNCHANGED <<file, call, pending, net, clock, minted, retired, told, blind, calls, upsets>>

\* The process ends, and starts again with what the room file says - or, when it
\* cannot be read, with nothing.  The room list survives in the history file.  By
\* then the clock has passed every stamp the old process ran ahead of it with.
Restart(n, readable) ==
  LET m == [NoMemory EXCEPT !.known = room[n].known] IN
  /\ upsets < MaxUpsets /\ room[n].known
  /\ Keep(n, IF readable THEN Restored(m, file[n], n) ELSE m)
  /\ blind' = IF readable THEN blind ELSE blind \cup {n}
  /\ clock' = higher(clock, room[n].epoch + 1)
  /\ call' = [call EXCEPT ![n] = NoCall]
  /\ pending' = [pending EXCEPT ![n] = NoInvite]
  /\ upsets' = upsets + 1
  /\ UNCHANGED <<file, net, minted, retired, told, calls>>

-----------------------------------------------------------------------------
UserStep(n) ==
  \/ CreateEncryptedRoom(n)
  \/ \E x \in Devices : InviteToRoom(n, x) \/ RemoveMember(n, x)
  \/ AddInvited(n) \/ SendInvite(n) \/ InviteFails(n)
  \/ LayTombstone(n) \/ DistributeRoster(n)
  \/ RotateAfterDeviceRemoval(n)
  \/ AcceptRoomInvite(n) \/ AdoptRoster(n) \/ DeclineRoomInvite(n)
  \/ ReplaceChain(n) \/ SaveRoomKeys(n) \/ LeaveRoom(n) \/ JoinRoom(n)

Delivery(n) ==
  \/ \E r \in Rosters(n) : \/ RosterForUnknownRoom(n, r) \/ RosterRefused(n, r)
                           \/ MembersRoster(n, r) \/ OwnersRoster(n, r)
  \/ \E r \in net : InviteArrives(n, r)

Next ==
  \/ \E n \in Devices : UserStep(n) \/ Delivery(n)
  \/ \E n \in Devices, readable \in BOOLEAN : Restart(n, readable)

Spec == Init /\ [][Next]_vars

-----------------------------------------------------------------------------
(* Properties *)

\* Whoever the owner's statements delivered to a device name as removed is not on
\* that device's list when no call is half done there, whatever other members'
\* rosters, replays, late or lost copies and restarts did since, while the device
\* has its room file (roomMembers.removed, "Removal is durable until the owner says
\* otherwise").
RemovalsStick ==
  \A n \in Devices \ blind :
    room[n].known /\ Idle(n) => told[n].gone \cap room[n].invited = {}

\* A chain that existed when a removal was learned is never sealed under again:
\* it is marked for replacement, over restarts too (applyRoster's newlyRemoved,
\* roomkeys.Room.Stale).  A device that lost its file is chain_stale_lost's story.
RetiredChainsStayRetired ==
  \A n \in Devices \ blind :
    room[n].chain # 0 /\ ~room[n].stale => room[n].chain > retired[n]

\* The owner never signs two different statements with one epoch, nor names the
\* same person present and removed (nextEpoch, "claimed immediately so two of ours
\* cannot collide").
OwnersWordIsOne ==
  \A r, q \in net :
    r.author = Owner =>
      /\ r.members \cap r.removed = {}
      /\ q.author = Owner /\ q.epoch = r.epoch => q.members = r.members /\ q.removed = r.removed

\* What the room file holds against a replay never goes back: neither the pin nor
\* the epochs, though memory may start again from nothing (mergedRoomEntry, "the
\* anti-rollback marks only ever ratchet").
SavedMarksOnlyRatchet ==
  [][\A n \in Devices :
       /\ file'[n].ownerEpoch >= file[n].ownerEpoch /\ file'[n].epoch >= file[n].epoch
       /\ file[n].owner # None => file'[n].owner = file[n].owner]_vars

\* Nobody the room file calls removed is a member in memory: a restart changes
\* no member's standing (a tombstone "is durable, not permanent").
ReinvitationIsSaved ==
  \A n \in Devices \ blind : Idle(n) => room[n].invited \cap file[n].removed = {}

\* The schedules in which a device does one thing at a time, answers a first
\* invitation before the owner's next removal reaches it, and is not invited
\* again to a room it knows.
Calm ==
  \A n \in Devices :
    /\ ~room[n].known \/ InStep(n, "adopt") => told[n].gone = {}
    /\ room[n].known => pending[n] = NoInvite

Undisturbed ==
  \A n \in Devices : ~Idle(n) => room'[n] = room[n] \/ call'[n] # call[n]

CalmSpec == Init /\ [][Next /\ Calm' /\ Undisturbed]_vars
=============================================================================
