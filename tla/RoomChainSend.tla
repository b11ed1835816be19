--------------------------- MODULE RoomChainSend ---------------------------
(***************************************************************************)
(* The sending half of an encrypted room on ONE device, from the user's    *)
(* send to the ciphertext, with the room file it depends on.               *)
(*                                                                         *)
(* Every goroutine that touches a room's chain is a job: a SENDER runs     *)
(* SendRoomMessage (ensure a chain, broadcast it, reserve positions, seal),*)
(* a KEEPER runs saveRoomKeys, a removal (MarkChainStale, then save) or    *)
(* restoreRoomKeys.  roomCrypto.mu is held only inside one step; the file  *)
(* work runs under no lock at all, so jobs interleave between any two      *)
(* steps, and the process may die between any two steps.                   *)
(***************************************************************************)
EXTENDS Integers

CONSTANTS
  Rooms, Chains, Senders, Keepers,
  None,          \* "no chain" and "no room"
  Block,         \* chainReservationBlock
  MaxSends,      \* bound: messages sealed or sent in the clear
  MaxLoads,      \* bound: crashes, sign-offs and restores, all told
  MaxUnreadable  \* bound: restores that find the room file unreadable

ASSUME ChainsAssumption == None \notin Chains /\ None \notin Rooms
ASSUME JobsAssumption   == Senders \cap Keepers = {}
ASSUME BlockAssumption  == Block \in Nat \ {0}
ASSUME BoundAssumption  ==
  MaxSends \in Nat /\ MaxLoads \in Nat /\ MaxUnreadable \in Nat

VARIABLES
  up,        \* signed on: the room file has been restored, rooms can be used
  mem,       \* roomCrypto: what memory holds for each room
  disk,      \* the room file: what is saved for each room
  job,       \* what each goroutine is doing
  minted,    \* history: the chains ever minted for each room
  given,     \* history: the chains whose broadcast reached the room
  retired,   \* history: the chains a SAVED removal has ended
  sealed,    \* history: every ciphertext made
  clear,     \* history: every message sent in the clear
  sent,      \* history: how many messages went out, the number of the next
  loads,     \* history: which installation of state from the file this is
  unreadable \* history: restores that failed

vars == <<up, mem, disk, job, minted, given, retired, sealed, clear, sent, loads, unreadable>>

Jobs == Senders \cup Keepers

\* roomKeys, less what only the reading half uses.
RoomKeys == [encrypted : BOOLEAN, out : Chains \cup {None}, idx : Nat,
             reserved : Nat, shared : BOOLEAN, stale : BOOLEAN]

NoRoomKeys == [encrypted |-> FALSE, out |-> None, idx |-> 0,
               reserved |-> 0, shared |-> FALSE, stale |-> FALSE]

\* roomkeys.Room, less the membership.  Out is stored ALREADY wound to `through`.
Entry == [known : BOOLEAN, out : Chains \cup {None}, through : Nat,
          shared : BOOLEAN, stale : BOOLEAN]

NoEntry == [known |-> FALSE, out |-> None, through |-> 0, shared |-> FALSE, stale |-> FALSE]

NoFile == [r \in Rooms |-> NoEntry]

SendSteps == {"mint", "broadcast", "markShared", "reserve", "raise", "seal"}
FileSteps == {"load", "export", "exportStale", "write"}
RestoreSteps == {"restoreLoad", "restoreChains", "restoreStale"}

Steps == {"idle"} \cup SendSteps \cup FileSteps \cup RestoreSteps

\* A goroutine: where it is, its room, the chain it is distributing, the
\* reservation it wants, the file as it read it, and - for a removal - the
\* chains the removal ends.
Job == {j \in [pc : Steps, room : Rooms \cup {None}, chain : Chains \cup {None},
                want : Nat, file : [Rooms -> Entry], ends : SUBSET Chains] :
          /\ j.pc \in SendSteps \cup FileSteps => j.room \in Rooms
          /\ j.pc = "broadcast" => j.chain \in Chains}

Idle == [pc |-> "idle", room |-> None, chain |-> None, want |-> 0,
         file |-> NoFile, ends |-> {}]

TypeOK ==
  /\ up \in BOOLEAN
  /\ mem \in [Rooms -> RoomKeys]
  /\ disk \in [Rooms -> Entry]
  /\ job \in [Jobs -> Job]
  /\ minted \in [Rooms -> SUBSET Chains]
  /\ given \subseteq Chains
  /\ retired \subseteq Chains
  /\ sealed \subseteq [chain : Chains, pos : Nat, msg : Nat, load : Nat]
  /\ clear \subseteq [room : Rooms, msg : Nat]
  /\ sent \in Nat
  /\ loads \in Nat
  /\ unreadable \in Nat

Init ==
  /\ up = FALSE
  /\ mem = [r \in Rooms |-> NoRoomKeys]
  /\ disk = NoFile
  /\ job = [t \in Jobs |-> Idle]
  /\ minted = [r \in Rooms |-> {}]
  /\ given = {}
  /\ retired = {}
  /\ sealed = {}
  /\ clear = {}
  /\ sent = 0
  /\ loads = 0
  /\ unreadable = 0

-----------------------------------------------------------------------------
(* Helpers *)

At(t, pc) == job[t].pc = pc
Room(t) == job[t].room
Become(t, j) == job' = [job EXCEPT ![t] = j]
Goto(t, pc) == Become(t, [job[t] EXCEPT !.pc = pc])
Finish(t) == Become(t, Idle)

AllMinted == UNION {minted[r] : r \in Rooms}

larger(a, b) == IF a > b THEN a ELSE b

\* Sealing is allowed: a chain, handed out, not due for replacement.
Usable(k) == k.out # None /\ k.shared /\ ~k.stale

\* The next position is promised.
PromisedToo(k) == k.idx <= k.reserved
Promised(k) == k.idx < k.reserved

\* Chain.Next: the position is used, and the chain moves past it.
NextPosition(k) == [k EXCEPT !.idx = @ + 1]

\* A promise only grows.
PromisedTo(k, want) == [k EXCEPT !.reserved = larger(@, want)]

\* A promise that was not written is taken back, unless it has moved on since.
NotRolledBack(k, want) == k
RolledBack(k, want) == IF k.reserved = want THEN [k EXCEPT !.reserved = k.idx] ELSE k

\* A chain just minted: nobody has it, nothing of it is promised.
Fresh(k, c) == [k EXCEPT !.out = c, !.idx = 0, !.stale = FALSE, !.shared = FALSE, !.reserved = 0]

\* EnsureOutboundChain's test, in a room somebody decided was encrypted.
NeedsChain(k) == k.encrypted /\ (k.out = None \/ k.stale)

-----------------------------------------------------------------------------
(* Sending: SendRoomMessage *)

\* The call arrives and EnsureOutboundChain looks for a chain under the lock.
StartSend(s, r) ==
  /\ At(s, "idle") /\ up /\ sent < MaxSends
  /\ Become(s, [Idle EXCEPT !.pc = IF NeedsChain(mem[r]) THEN "mint" ELSE "reserve",
                         !.room = r])
  /\ UNCHANGED <<up, mem, disk, minted, given, retired, sealed, clear, sent, loads, unreadable>>

\* NewChain ran outside the lock; under it, the test is made again, and what
\* was minted is dropped if another send got there first.
MintChain(s, c) ==
  LET r == Room(s) IN
  /\ At(s, "mint")
  /\ IF NeedsChain(mem[r])
     THEN /\ c \notin AllMinted
          /\ mem' = [mem EXCEPT ![r] = Fresh(@, c)]
          /\ minted' = [minted EXCEPT ![r] = @ \cup {c}]
          /\ Become(s, [job[s] EXCEPT !.pc = "broadcast", !.chain = c])
     ELSE /\ Goto(s, "reserve")
          /\ UNCHANGED <<mem, minted>>
  /\ UNCHANGED <<up, disk, given, retired, sealed, clear, sent, loads, unreadable>>

\* The send gives up before anything is sealed: no randomness, no device key,
\* not in the room any more, or the broadcast itself failed.
SendFails(s) ==
  /\ At(s, "mint") \/ At(s, "broadcast")
  /\ Finish(s)
  /\ UNCHANGED <<up, mem, disk, minted, given, retired, sealed, clear, sent, loads, unreadable>>

\* ensureRoomChainDistributed hands the view to every member it has keys for
\* (to nobody, in a room with nobody else in it).
BroadcastChain(s) ==
  /\ At(s, "broadcast")
  /\ given' = given \cup {job[s].chain}
  /\ Goto(s, "markShared")
  /\ UNCHANGED <<up, mem, disk, minted, retired, sealed, clear, sent, loads, unreadable>>

\* The mark goes on whatever chain the room has by now.
MarkChainShared(s) ==
  /\ At(s, "markShared")
  /\ mem' = [mem EXCEPT ![Room(s)] = [@ EXCEPT !.shared = TRUE]]
  /\ Goto(s, "reserve")
  /\ UNCHANGED <<up, disk, minted, given, retired, sealed, clear, sent, loads, unreadable>>

\* reserveChainPositions, first critical section: is the next position promised?
CheckReservation(s) ==
  LET k == mem[Room(s)] IN
  /\ At(s, "reserve")
  /\ IF k.out # None /\ ~Promised(k)
     THEN Become(s, [job[s] EXCEPT !.pc = "raise", !.want = k.idx + Block])
     ELSE Goto(s, "seal")
  /\ UNCHANGED <<up, mem, disk, minted, given, retired, sealed, clear, sent, loads, unreadable>>

\* Second critical section: memory promises a block, then persistRoomChain.
RaiseReservation(s) ==
  /\ At(s, "raise")
  /\ mem' = [mem EXCEPT ![Room(s)] = PromisedTo(@, job[s].want)]
  /\ Goto(s, "load")
  /\ UNCHANGED <<up, disk, minted, given, retired, sealed, clear, sent, loads, unreadable>>

\* sealRoomMessage under the lock: seal and advance, refuse, or - in a room not
\* known to be encrypted - send the text as it is.
SealRoomMessage(s) ==
  LET r == Room(s)
      k == mem[r] IN
  /\ At(s, "seal")
  /\ Finish(s)
  /\ \/ /\ Usable(k) /\ Promised(k)
        /\ sealed' = sealed \cup {[chain |-> k.out, pos |-> k.idx, msg |-> sent, load |-> loads]}
        /\ mem' = [mem EXCEPT ![r] = NextPosition(k)]
        /\ sent' = sent + 1
        /\ UNCHANGED clear
     \/ /\ Usable(k) /\ ~Promised(k)
        /\ UNCHANGED <<mem, sealed, clear, sent>>
     \/ /\ ~Usable(k) /\ k.encrypted
        /\ UNCHANGED <<mem, sealed, clear, sent>>
     \/ /\ ~Usable(k) /\ ~k.encrypted
        /\ clear' = clear \cup {[room |-> r, msg |-> sent]}
        /\ sent' = sent + 1
        /\ UNCHANGED <<mem, sealed>>
  /\ UNCHANGED <<up, disk, minted, given, retired, loads, unreadable>>

-----------------------------------------------------------------------------
(* The room file: persistRoomChain (a sender's) and saveRoomKeys (a keeper's) *)

\* A save for some other reason: an invitation, a roster, the flush at shutdown.
StartSave(v, r) ==
  /\ At(v, "idle") /\ up /\ mem[r].encrypted
  /\ Become(v, [Idle EXCEPT !.pc = "load", !.room = r])
  /\ UNCHANGED <<up, mem, disk, minted, given, retired, sealed, clear, sent, loads, unreadable>>

\* Somebody is removed: mark the chain, then save (applyRoster, rekeyRoom).
MarkChainStale(v, r) ==
  /\ At(v, "idle") /\ up /\ mem[r].encrypted
  /\ mem' = [mem EXCEPT ![r] = [@ EXCEPT !.stale = TRUE]]
  /\ Become(v, [Idle EXCEPT !.pc = "load", !.room = r, !.ends = minted[r]])
  /\ UNCHANGED <<up, disk, minted, given, retired, sealed, clear, sent, loads, unreadable>>

LoadFile(t) ==
  /\ At(t, "load")
  /\ Become(t, [job[t] EXCEPT !.pc = "export", !.file = disk])
  /\ UNCHANGED <<up, mem, disk, minted, given, retired, sealed, clear, sent, loads, unreadable>>

\* RoomChainState: the chain wound to its reservation, or, where memory has no
\* chain and the file does, what the file says (mergedRoomEntry).
FileOnly(k, prev) == k.out = None /\ prev.out # None

ExportedAsUsed(k, prev) ==
  IF FileOnly(k, prev)
  THEN [prev EXCEPT !.known = TRUE]
  ELSE [known |-> TRUE, out |-> k.out, shared |-> k.out # None /\ k.shared, stale |-> FALSE,
        through |-> k.idx]

ExportedChain(k, prev) ==
  IF FileOnly(k, prev)
  THEN [prev EXCEPT !.known = TRUE]
  ELSE [known |-> TRUE, out |-> k.out, shared |-> k.out # None /\ k.shared, stale |-> FALSE,
        through |-> IF k.out = None THEN 0 ELSE larger(k.reserved, k.idx)]

ExportChain(t) ==
  LET r == Room(t)
      f == job[t].file IN
  /\ At(t, "export")
  /\ Become(t, [job[t] EXCEPT !.pc = IF FileOnly(mem[r], f[r]) THEN "write" ELSE "exportStale",
                              !.file = [f EXCEPT ![r] = ExportedChain(mem[r], @)]])
  /\ UNCHANGED <<up, mem, disk, minted, given, retired, sealed, clear, sent, loads, unreadable>>

\* RoomChainStale takes the lock a second time.
ExportStale(t) ==
  LET r == Room(t)
      f == job[t].file IN
  /\ At(t, "exportStale")
  /\ Become(t, [job[t] EXCEPT !.pc = "write",
                              !.file = [f EXCEPT ![r] = [@ EXCEPT !.stale = mem[r].stale]]])
  /\ UNCHANGED <<up, mem, disk, minted, given, retired, sealed, clear, sent, loads, unreadable>>

\* roomkeys.Save replaces the whole file, every room of it as this job read it.
\* A removal is on record from here on.
WriteFile(t) ==
  /\ At(t, "write")
  /\ disk' = job[t].file
  /\ retired' = retired \cup job[t].ends
  /\ IF t \in Senders
     THEN Become(t, [Idle EXCEPT !.pc = "seal", !.room = Room(t)])
     ELSE Finish(t)
  /\ UNCHANGED <<up, mem, minted, given, sealed, clear, sent, loads, unreadable>>

\* Reading or writing failed.  A sender takes its promise back and reports; a
\* keeper only logs.
FileFails(t) ==
  LET r == Room(t) IN
  /\ At(t, "load") \/ At(t, "write")
  /\ Finish(t)
  /\ mem' = IF t \in Senders
            THEN [mem EXCEPT ![r] = RolledBack(@, job[t].want)]
            ELSE mem
  /\ UNCHANGED <<up, disk, minted, given, retired, sealed, clear, sent, loads, unreadable>>

-----------------------------------------------------------------------------
(* Signing on and off, and dying *)

\* restoreRoomKeys: at sign-on, and again when a device transfer is applied.
StartRestore(v) ==
  /\ At(v, "idle")
  /\ ~up \/ loads < MaxLoads
  /\ Goto(v, "restoreLoad")
  /\ UNCHANGED <<up, mem, disk, minted, given, retired, sealed, clear, sent, loads, unreadable>>

RestoreLoad(v) ==
  /\ At(v, "restoreLoad")
  /\ Become(v, [job[v] EXCEPT !.pc = "restoreChains", !.file = disk])
  /\ UNCHANGED <<up, mem, disk, minted, given, retired, sealed, clear, sent, loads, unreadable>>

\* The keyring or the file cannot be read: logged, and sign-on goes on without.
RestoreFails(v) ==
  /\ At(v, "restoreLoad") /\ unreadable < MaxUnreadable
  /\ unreadable' = unreadable + 1
  /\ up' = TRUE
  /\ Finish(v)
  /\ UNCHANGED <<mem, disk, minted, given, retired, sealed, clear, sent, loads>>

\* RestoreChainState: the saved chain replaces whatever memory had.  The first
\* two forms resume one position early, and take a room without a chain for an
\* ordinary one.
RestoredEarly(k, e) ==
  IF ~e.known THEN k
  ELSE IF e.out = None THEN [k EXCEPT !.encrypted = TRUE]
  ELSE [k EXCEPT !.encrypted = TRUE, !.out = e.out, !.idx = larger(e.through, 1) - 1,
                 !.reserved = e.through, !.shared = e.shared]

RestoredIfChain(k, e) ==
  IF e.out = None THEN k
  ELSE [k EXCEPT !.encrypted = TRUE, !.out = e.out, !.idx = e.through,
                 !.reserved = e.through, !.shared = e.shared]

Restored(k, e) ==
  IF ~e.known THEN k
  ELSE IF e.out = None THEN [k EXCEPT !.encrypted = TRUE]
  ELSE [k EXCEPT !.encrypted = TRUE, !.out = e.out, !.idx = e.through,
                 !.reserved = e.through, !.shared = e.shared]

RestoreChains(v) ==
  /\ At(v, "restoreChains")
  /\ mem' = [r \in Rooms |-> Restored(mem[r], job[v].file[r])]
  /\ loads' = loads + 1
  /\ Goto(v, "restoreStale")
  /\ UNCHANGED <<up, disk, minted, given, retired, sealed, clear, sent, unreadable>>

\* applyRoomEntry marks what was saved as stale, which clears no mark.
NotMarked(k, e) == k
Marked(k, e) == [k EXCEPT !.stale = @ \/ e.stale]

RestoreStale(v) ==
  /\ At(v, "restoreStale")
  /\ mem' = [r \in Rooms |-> Marked(mem[r], job[v].file[r])]
  /\ up' = TRUE
  /\ Finish(v)
  /\ UNCHANGED <<disk, minted, given, retired, sealed, clear, sent, loads, unreadable>>

\* The room turns out to be encrypted: created so, joined by invitation, or a
\* chain was broadcast to us in it.
MarkRoomEncrypted(r) ==
  /\ up /\ ~mem[r].encrypted
  /\ mem' = [mem EXCEPT ![r] = [@ EXCEPT !.encrypted = TRUE]]
  /\ UNCHANGED <<up, disk, job, minted, given, retired, sealed, clear, sent, loads, unreadable>>

\* The session ends and the process lives on: memory keeps its chains.
SignOff ==
  /\ up /\ loads < MaxLoads
  /\ up' = FALSE
  /\ loads' = loads + 1
  /\ UNCHANGED <<mem, disk, job, minted, given, retired, sealed, clear, sent, unreadable>>

\* The process dies, or quits: memory and every job are gone, the file stays.
Crash ==
  /\ loads < MaxLoads
  /\ up' = FALSE
  /\ mem' = [r \in Rooms |-> NoRoomKeys]
  /\ job' = [t \in Jobs |-> Idle]
  /\ loads' = loads + 1
  /\ UNCHANGED <<disk, minted, given, retired, sealed, clear, sent, unreadable>>

-----------------------------------------------------------------------------
SenderStep(s) ==
  \/ \E r \in Rooms : StartSend(s, r)
  \/ \E c \in Chains : MintChain(s, c)
  \/ SendFails(s) \/ BroadcastChain(s) \/ MarkChainShared(s)
  \/ CheckReservation(s) \/ RaiseReservation(s) \/ SealRoomMessage(s)

KeeperStep(v) ==
  \/ \E r \in Rooms : StartSave(v, r) \/ MarkChainStale(v, r)
  \/ StartRestore(v) \/ RestoreLoad(v) \/ RestoreFails(v)
  \/ RestoreChains(v) \/ RestoreStale(v)

FileStep(t) ==
  LoadFile(t) \/ ExportChain(t) \/ ExportStale(t) \/ WriteFile(t) \/ FileFails(t)

Next ==
  \/ \E s \in Senders : SenderStep(s)
  \/ \E v \in Keepers : KeeperStep(v)
  \/ \E t \in Jobs : FileStep(t)
  \/ \E r \in Rooms : MarkRoomEncrypted(r)
  \/ SignOff
  \/ Crash

Spec == Init /\ [][Next]_vars

\* The window in which a job's view of the file, or of a reservation, must not
\* go out of date.  Nothing in the code keeps two jobs out of it.
InWindow(t) ==
  job[t].pc \in FileSteps \cup RestoreSteps \cup {"mint", "raise", "seal"}

OneInWindow == \A t, u \in Jobs : InWindow(t) /\ InWindow(u) => t = u

\* The schedules in which the windows happen not to overlap.
OneWindowSpec == Init /\ [][Next /\ OneInWindow']_vars

-----------------------------------------------------------------------------
(* Properties *)

\* However sends, saves and removals interleave, no position of a chain seals
\* two messages between two installations of state from the file: the lock held
\* across the seal is what room_e2ee.go counts on.
NoReuseInMemory ==
  \A x, y \in sealed :
    x.chain = y.chain /\ x.pos = y.pos /\ x.load = y.load => x = y

\* No position of a chain seals two messages, ever: not after a crash, a failed
\* write, a sign-off or a restore (roomkeys.Room.Out, "no index can ever seal twice").
NoPositionReused ==
  \A x, y \in sealed : x.chain = y.chain /\ x.pos = y.pos => x = y

\* The promise reserveChainPositions makes: when a message is about to be sealed
\* the record on disk already reserves past the position it will use.
PromiseOnDisk ==
  \A s \in Senders :
    LET k == mem[Room(s)]
        e == disk[Room(s)] IN
    At(s, "seal") /\ Usable(k) /\ Promised(k)
      => e.out = k.out /\ k.idx < e.through

\* Memory never claims more positions used than it has reserved, whatever a failed write
\* rolls back, and a send that got as far as sealing finds its position reserved: the
\* refusal in sealRoomMessage "should be impossible after reserveChainPositions".
PositionsAreReserved ==
  /\ \A r \in Rooms : mem[r].idx <= mem[r].reserved
  /\ \A s \in Senders :
       At(s, "seal") /\ Usable(mem[Room(s)]) => mem[Room(s)].idx < mem[Room(s)].reserved

\* Nothing is sealed under a chain the room was not handed: chainShared exists
\* because "a chain nobody has been given seals messages nobody can read".
SealedOnlyGiven == \A x \in sealed : x.chain \in given

\* Once a removal is on record, no chain that existed when it happened seals anything
\* again, over crashes and restores (RoomChainStale, roomkeys.Room.Stale), unless a
\* restore could not read that record.
RetiredNeverSeals ==
  [][\A x \in sealed' \ sealed : x.chain \in retired => unreadable > 0]_vars

\* What mergedRoomEntry is for: a removal made in a session whose restore never ran, and
\* saved in it, ends the chain it found in the file all the same (roomkeys.Room.Stale:
\* the mark is "the ONLY record" of the removal).
RemovalOutlivesRestarts ==
  [][\A x \in sealed' \ sealed : x.chain \notin retired]_vars

\* A room whose saved entry says it is encrypted never gets a message in the
\* clear (roomKeys.encrypted: it "must not silently turn the room back"), unless a
\* restore could not read that entry.
NeverClearWhenSaved ==
  [][\A x \in clear' \ clear : disk[x.room].known => unreadable > 0]_vars

\* The whole sending machinery implements chains that only move forward.
Ledger == INSTANCE ForwardChains
  WITH log <- {[chain |-> x.chain, pos |-> x.pos, msg |-> x.msg] : x \in sealed}

ChainsOnlyMoveForward == Ledger!Spec
=============================================================================
