------------------------ MODULE RoomChainSend_proof ------------------------
(***************************************************************************)
(* What RoomChainSend guarantees for any rooms, any number of sends and    *)
(* saves in flight, any reservation block and any bound: first within one  *)
(* installation of state, then over crashes.  As long as no two jobs are   *)
(* in the window together (OneWindowSpec), the promise a send makes is on  *)
(* disk before the ciphertext exists, and no position of a chain ever      *)
(* seals twice - whatever dies, fails or is restored in between.  If every *)
(* restore could read the file as well, a removal on record ends its chain *)
(* for good, and a room on record as encrypted never gets a message in the *)
(* clear.                                                                  *)
(***************************************************************************)
EXTENDS RoomChainSend, TLAPS


\* What a step does to memory, room by room.
LEMMA KeysType ==
  ASSUME NEW k \in RoomKeys, NEW e \in Entry
  PROVE  /\ NextPosition(k) \in RoomKeys
         /\ \A w \in Nat : RolledBack(k, w) \in RoomKeys
         /\ ExportedChain(k, e) \in Entry
         /\ Restored(k, e) \in RoomKeys
         /\ Marked(k, e) \in RoomKeys
<1>1. NextPosition(k) \in RoomKeys
  BY DEF NextPosition, RoomKeys
<1>2. \A w \in Nat : RolledBack(k, w) \in RoomKeys
  BY DEF RolledBack, RoomKeys
<1>3. ExportedChain(k, e) \in Entry
  BY DEF ExportedChain, Entry, RoomKeys, larger
<1>4. Restored(k, e) \in RoomKeys
  BY DEF Restored, Entry, RoomKeys
<1>5. Marked(k, e) \in RoomKeys
  BY DEF Marked, Entry, RoomKeys
<1>6. QED BY <1>1, <1>2, <1>3, <1>4, <1>5

LEMMA KeysSetType ==
  ASSUME NEW k \in RoomKeys
  PROVE  /\ \A c \in Chains : Fresh(k, c) \in RoomKeys
         /\ [k EXCEPT !.shared = TRUE] \in RoomKeys
         /\ [k EXCEPT !.stale = TRUE] \in RoomKeys
         /\ [k EXCEPT !.encrypted = TRUE] \in RoomKeys
         /\ \A n \in Nat : PromisedTo(k, n) \in RoomKeys
  BY DEF RoomKeys, Fresh, PromisedTo, larger

LEMMA IdleType == Idle \in Job /\ Idle.pc = "idle"
<1>1. NoFile \in [Rooms -> Entry]
  BY DEF NoFile, NoEntry, Entry
<1>2. QED BY <1>1 DEF Idle, Job, Steps, SendSteps, FileSteps

\* A job that goes on, with the same room.
LEMMA GotoType ==
  ASSUME NEW j \in Job, NEW pc \in Steps,
         pc \in SendSteps \cup FileSteps => j.room \in Rooms,
         pc = "broadcast" => j.chain \in Chains
  PROVE  [j EXCEPT !.pc = pc] \in Job
  BY DEF Job

\* A job that starts on a room.
LEMMA StartType ==
  ASSUME NEW pc \in Steps \ {"broadcast"}, NEW r \in Rooms, NEW C \in SUBSET Chains
  PROVE  /\ [Idle EXCEPT !.pc = pc, !.room = r] \in Job
         /\ [Idle EXCEPT !.pc = pc, !.room = r, !.ends = C] \in Job
<1>1. NoFile \in [Rooms -> Entry]
  BY DEF NoFile, NoEntry, Entry
<1>2. QED BY <1>1 DEF Idle, Job, Steps

\* A job that takes another look at the file.
LEMMA FileType ==
  ASSUME NEW j \in Job, NEW pc \in Steps \ {"broadcast"}, NEW f \in [Rooms -> Entry],
         pc \in SendSteps \cup FileSteps => j.room \in Rooms
  PROVE  [j EXCEPT !.pc = pc, !.file = f] \in Job
  BY DEF Job

LEMMA StepNames ==
  /\ SendSteps \subseteq Steps /\ FileSteps \subseteq Steps /\ RestoreSteps \subseteq Steps
  /\ "mint" \in SendSteps /\ "broadcast" \in SendSteps /\ "markShared" \in SendSteps
  /\ "reserve" \in SendSteps /\ "raise" \in SendSteps /\ "seal" \in SendSteps
  /\ "load" \in FileSteps /\ "export" \in FileSteps /\ "exportStale" \in FileSteps
  /\ "write" \in FileSteps
  /\ "restoreLoad" \in RestoreSteps /\ "restoreChains" \in RestoreSteps
  /\ "restoreStale" \in RestoreSteps
  /\ (SendSteps \cup FileSteps) \cap RestoreSteps = {}
  BY DEF Steps, SendSteps, FileSteps, RestoreSteps

LEMMA RoomType ==
  ASSUME TypeOK, NEW t \in Jobs, job[t].pc \in SendSteps \cup FileSteps
  PROVE  Room(t) \in Rooms /\ mem[Room(t)] \in RoomKeys
  BY DEF TypeOK, Room, Job

LEMMA TypeInit == Init => TypeOK
<1>1. NoRoomKeys \in RoomKeys /\ NoEntry \in Entry
  BY DEF NoRoomKeys, RoomKeys, NoEntry, Entry
<1>2. ASSUME Init PROVE TypeOK
  <2>1. mem \in [Rooms -> RoomKeys] /\ disk \in [Rooms -> Entry]
    BY <1>1, <1>2 DEF Init, NoFile
  <2>2. job \in [Jobs -> Job]
    BY <1>2, IdleType DEF Init
  <2>3. QED BY <1>2, <2>1, <2>2 DEF Init, TypeOK
<1>3. QED BY <1>2

LEMMA TypeSender ==
  ASSUME TypeOK, NEW s \in Senders, SenderStep(s)
  PROVE  TypeOK'
<1> USE DEF TypeOK, Jobs, At, Goto, Become
<1>a. job[s] \in Job /\ s \in Jobs OBVIOUS
<1>1. ASSUME NEW r \in Rooms, StartSend(s, r) PROVE TypeOK'
  <2>1. PICK pc \in {"mint", "reserve"} : Become(s, [Idle EXCEPT !.pc = pc, !.room = r])
    BY <1>1 DEF StartSend
  <2>2. [Idle EXCEPT !.pc = pc, !.room = r] \in Job
    BY StartType, StepNames
  <2>3. QED BY <1>1, <2>1, <2>2 DEF StartSend
<1>2. ASSUME NEW c \in Chains, MintChain(s, c) PROVE TypeOK'
  <2>1. Room(s) \in Rooms /\ mem[Room(s)] \in RoomKeys
    BY <1>2, RoomType, StepNames DEF MintChain
  <2>2. [job[s] EXCEPT !.pc = "broadcast", !.chain = c] \in Job
    BY <1>a, <2>1, StepNames DEF Job, Room
  <2>3. [job[s] EXCEPT !.pc = "reserve"] \in Job
    BY <1>a, <2>1, GotoType, StepNames DEF Room
  <2>4. Fresh(mem[Room(s)], c) \in RoomKeys
    BY <2>1, KeysSetType
  <2>5. QED BY <1>2, <2>1, <2>2, <2>3, <2>4 DEF MintChain
<1>3. CASE SendFails(s)
  BY <1>3, IdleType DEF SendFails, Finish
<1>4. CASE BroadcastChain(s)
  <2>1. Room(s) \in Rooms /\ job[s].chain \in Chains
    BY <1>4, RoomType, StepNames DEF BroadcastChain, Job
  <2>2. [job[s] EXCEPT !.pc = "markShared"] \in Job
    BY <1>a, <2>1, GotoType, StepNames DEF Room
  <2>3. QED BY <1>4, <2>1, <2>2 DEF BroadcastChain
<1>5. CASE MarkChainShared(s)
  <2>1. Room(s) \in Rooms /\ mem[Room(s)] \in RoomKeys
    BY <1>5, RoomType, StepNames DEF MarkChainShared
  <2>2. [job[s] EXCEPT !.pc = "reserve"] \in Job
    BY <1>a, <2>1, GotoType, StepNames DEF Room
  <2>3. [mem[Room(s)] EXCEPT !.shared = TRUE] \in RoomKeys
    BY <2>1, KeysSetType
  <2>4. QED BY <1>5, <2>1, <2>2, <2>3 DEF MarkChainShared
<1>6. CASE CheckReservation(s)
  <2>1. Room(s) \in Rooms /\ mem[Room(s)] \in RoomKeys
    BY <1>6, RoomType, StepNames DEF CheckReservation
  <2>0. mem[Room(s)].idx + Block \in Nat
    BY <2>1, BlockAssumption DEF RoomKeys
  <2>2. [job[s] EXCEPT !.pc = "raise", !.want = mem[Room(s)].idx + Block] \in Job
    BY <1>a, <2>0, <2>1, StepNames DEF Job, Room
  <2>3. [job[s] EXCEPT !.pc = "seal"] \in Job
    BY <1>a, <2>1, GotoType, StepNames DEF Room
  <2>4. QED BY <1>6, <2>2, <2>3 DEF CheckReservation
<1>7. CASE RaiseReservation(s)
  <2>1. Room(s) \in Rooms /\ mem[Room(s)] \in RoomKeys
    BY <1>7, RoomType, StepNames DEF RaiseReservation
  <2>2. [job[s] EXCEPT !.pc = "load"] \in Job
    BY <1>a, <2>1, GotoType, StepNames DEF Room
  <2>0. job[s].want \in Nat
    BY <1>a DEF Job
  <2>3. PromisedTo(mem[Room(s)], job[s].want) \in RoomKeys
    BY <2>0, <2>1, KeysSetType
  <2>4. QED BY <1>7, <2>1, <2>2, <2>3 DEF RaiseReservation
<1>8. CASE SealRoomMessage(s)
  <2>1. Room(s) \in Rooms /\ mem[Room(s)] \in RoomKeys
    BY <1>8, RoomType, StepNames DEF SealRoomMessage
  <2>2. NextPosition(mem[Room(s)]) \in RoomKeys
    BY <2>1, KeysType DEF NextPosition, RoomKeys
  <2>3. mem' \in [Rooms -> RoomKeys]
    BY <1>8, <2>1, <2>2 DEF SealRoomMessage
  <2>4. sealed' \subseteq [chain : Chains, pos : Nat, msg : Nat, load : Nat]
    BY <1>8, <2>1 DEF SealRoomMessage, Usable, RoomKeys
  <2>5. clear' \subseteq [room : Rooms, msg : Nat] /\ sent' \in Nat
    BY <1>8, <2>1 DEF SealRoomMessage
  <2>6. QED BY <1>8, <2>3, <2>4, <2>5, IdleType DEF SealRoomMessage, Finish
<1>9. QED BY <1>1, <1>2, <1>3, <1>4, <1>5, <1>6, <1>7, <1>8 DEF SenderStep

LEMMA TypeKeeper ==
  ASSUME TypeOK, NEW v \in Keepers, KeeperStep(v)
  PROVE  TypeOK'
<1> USE DEF TypeOK, Jobs, At, Goto, Become
<1>a. job[v] \in Job /\ v \in Jobs OBVIOUS
<1>1. ASSUME NEW r \in Rooms, StartSave(v, r) PROVE TypeOK'
  <2>1. [Idle EXCEPT !.pc = "load", !.room = r] \in Job
    BY StartType, StepNames
  <2>2. QED BY <1>1, <2>1 DEF StartSave
<1>2. ASSUME NEW r \in Rooms, MarkChainStale(v, r) PROVE TypeOK'
  <2>1. [Idle EXCEPT !.pc = "load", !.room = r, !.ends = minted[r]] \in Job
    BY StartType, StepNames
  <2>2. [mem[r] EXCEPT !.stale = TRUE] \in RoomKeys
    BY KeysSetType
  <2>3. QED BY <1>2, <2>1, <2>2 DEF MarkChainStale
<1>3. CASE StartRestore(v)
  <2>1. [job[v] EXCEPT !.pc = "restoreLoad"] \in Job
    BY <1>a, GotoType, StepNames
  <2>2. QED BY <1>3, <2>1 DEF StartRestore
<1>4. CASE RestoreLoad(v)
  <2>1. [job[v] EXCEPT !.pc = "restoreChains", !.file = disk] \in Job
    BY <1>a, FileType, StepNames
  <2>2. QED BY <1>4, <2>1 DEF RestoreLoad
<1>5. CASE RestoreFails(v)
  BY <1>5, IdleType DEF RestoreFails, Finish
<1>6. CASE RestoreChains(v)
  <2>1. [job[v] EXCEPT !.pc = "restoreStale"] \in Job
    BY <1>a, GotoType, StepNames
  <2>2. \A r \in Rooms : Restored(mem[r], job[v].file[r]) \in RoomKeys
    BY <1>a, KeysType DEF Job
  <2>3. QED BY <1>6, <2>1, <2>2 DEF RestoreChains
<1>7. CASE RestoreStale(v)
  <2>1. \A r \in Rooms : Marked(mem[r], job[v].file[r]) \in RoomKeys
    BY <1>a, KeysType DEF Job
  <2>2. QED BY <1>7, <2>1, IdleType DEF RestoreStale, Finish
<1>8. QED BY <1>1, <1>2, <1>3, <1>4, <1>5, <1>6, <1>7 DEF KeeperStep

LEMMA TypeFile ==
  ASSUME TypeOK, NEW t \in Jobs, FileStep(t)
  PROVE  TypeOK'
<1> USE DEF TypeOK, At, Goto, Become
<1>a. job[t] \in Job /\ job[t].file \in [Rooms -> Entry] /\ job[t].want \in Nat
  BY DEF Job
<1>b. ASSUME job[t].pc \in FileSteps
      PROVE  Room(t) \in Rooms /\ mem[Room(t)] \in RoomKeys
  BY <1>b, RoomType
<1>1. CASE LoadFile(t)
  <2>1. [job[t] EXCEPT !.pc = "export", !.file = disk] \in Job
    BY <1>1, <1>a, <1>b, FileType, StepNames DEF LoadFile, Room
  <2>2. QED BY <1>1, <2>1 DEF LoadFile
<1>2. CASE ExportChain(t)
  <2>1. Room(t) \in Rooms /\ mem[Room(t)] \in RoomKeys
    BY <1>2, <1>b, StepNames DEF ExportChain
  <2> DEFINE f == [job[t].file EXCEPT ![Room(t)] = ExportedChain(mem[Room(t)], @)]
  <2>2. f \in [Rooms -> Entry]
    BY <1>a, <2>1, KeysType
  <2>3. PICK pc \in {"write", "exportStale"} : Become(t, [job[t] EXCEPT !.pc = pc, !.file = f])
    BY <1>2 DEF ExportChain
  <2>4. [job[t] EXCEPT !.pc = pc, !.file = f] \in Job
    BY <1>a, <2>1, <2>2, FileType, StepNames DEF Room
  <2>5. QED BY <1>2, <2>3, <2>4 DEF ExportChain
<1>3. CASE ExportStale(t)
  <2>1. Room(t) \in Rooms /\ mem[Room(t)].stale \in BOOLEAN
    BY <1>3, <1>b, StepNames DEF ExportStale, RoomKeys
  <2> DEFINE f == [job[t].file EXCEPT ![Room(t)] = [@ EXCEPT !.stale = mem[Room(t)].stale]]
  <2>2. f \in [Rooms -> Entry]
    BY <1>a, <2>1 DEF Entry
  <2>3. [job[t] EXCEPT !.pc = "write", !.file = f] \in Job
    BY <1>a, <2>1, <2>2, FileType, StepNames DEF Room
  <2>4. QED BY <1>3, <2>3 DEF ExportStale
<1>4. CASE WriteFile(t)
  <2>1. Room(t) \in Rooms
    BY <1>4, <1>b, StepNames DEF WriteFile
  <2>2. [Idle EXCEPT !.pc = "seal", !.room = Room(t)] \in Job
    BY <2>1, StartType, StepNames
  <2>3. job[t].ends \subseteq Chains
    BY <1>a DEF Job
  <2>4. QED BY <1>4, <1>a, <2>2, <2>3, IdleType DEF WriteFile, Finish
<1>5. CASE FileFails(t)
  <2>1. Room(t) \in Rooms /\ mem[Room(t)] \in RoomKeys
    BY <1>5, <1>b, StepNames DEF FileFails
  <2>2. RolledBack(mem[Room(t)], job[t].want) \in RoomKeys
    BY <1>a, <2>1 DEF RolledBack, RoomKeys
  <2>3. QED BY <1>5, <2>1, <2>2, IdleType DEF FileFails, Finish
<1>6. QED BY <1>1, <1>2, <1>3, <1>4, <1>5 DEF FileStep

LEMMA TypeProcess ==
  ASSUME TypeOK, SignOff \/ Crash
  PROVE  TypeOK'
<1>1. up' \in BOOLEAN
  BY DEF SignOff, Crash
<1>2. loads' \in Nat
  <2>1. loads \in Nat BY DEF TypeOK
  <2>2. loads' = loads + 1 BY DEF SignOff, Crash
  <2>3. QED BY <2>1, <2>2
<1>3. mem' \in [Rooms -> RoomKeys] /\ job' \in [Jobs -> Job]
  <2>1. NoRoomKeys \in RoomKeys
    BY DEF NoRoomKeys, RoomKeys
  <2>2. QED BY <2>1, IdleType DEF TypeOK, SignOff, Crash
<1>4. QED BY <1>1, <1>2, <1>3 DEF TypeOK, SignOff, Crash

LEMMA TypeStep == TypeOK /\ [Next]_vars => TypeOK'
<1> SUFFICES ASSUME TypeOK, [Next]_vars PROVE TypeOK'
  OBVIOUS
<1>1. ASSUME NEW r \in Rooms, MarkRoomEncrypted(r) PROVE TypeOK'
  <2>1. [mem[r] EXCEPT !.encrypted = TRUE] \in RoomKeys
    BY KeysSetType DEF TypeOK
  <2>2. QED BY <1>1, <2>1 DEF MarkRoomEncrypted, TypeOK
<1>2. CASE UNCHANGED vars
  BY <1>2 DEF vars, TypeOK
<1>3. QED BY <1>1, <1>2, TypeSender, TypeKeeper, TypeFile, TypeProcess DEF Next

\* Memory, the file and every goroutine's place keep their types, whatever
\* interleaves with whatever.
THEOREM TypeCorrect == Spec => []TypeOK
<1>1. QED BY TypeInit, TypeStep, PTL DEF Spec

-----------------------------------------------------------------------------
(* One position, one message, for as long as memory lasts *)

Belongs(c, r) == c \in minted[r] \cup {None}

\* A chain is one room's: in memory, in the file, and in every copy of it.
ChainsBelong ==
  /\ \A q, r \in Rooms : q # r => minted[q] \cap minted[r] = {}
  /\ \A r \in Rooms : Belongs(mem[r].out, r)
  /\ \A r \in Rooms : Belongs(disk[r].out, r)
  /\ \A t \in Jobs, r \in Rooms : Belongs(job[t].file[r].out, r)
  /\ \A x \in sealed : \E r \in Rooms : x.chain \in minted[r]

\* What was sealed since the last load lies behind where memory's chain stands.
SealedBehind ==
  \A x \in sealed :
    /\ x.load <= loads
    /\ \A r \in Rooms : x.load = loads /\ mem[r].out = x.chain => x.pos < mem[r].idx

MemoryInv == TypeOK /\ ChainsBelong /\ SealedBehind /\ NoReuseInMemory

LEMMA MemoryInit == Init => MemoryInv
<1> SUFFICES ASSUME Init PROVE MemoryInv
  OBVIOUS
<1>1. TypeOK BY TypeInit
<1>2. \A r \in Rooms : mem[r].out = None /\ disk[r].out = None
  BY DEF Init, NoRoomKeys, NoFile, NoEntry
<1>3. \A t \in Jobs, r \in Rooms : job[t].file[r].out = None
  BY DEF Init, Idle, NoFile, NoEntry
<1>4. \A r \in Rooms : minted[r] = {} BY DEF Init
<1>5. sealed = {} BY DEF Init
<1>6. QED BY <1>1, <1>2, <1>3, <1>4, <1>5
      DEF MemoryInv, ChainsBelong, Belongs, SealedBehind, NoReuseInMemory

\* Which chain each operator leaves a room with.
LEMMA WhichChain ==
  ASSUME NEW k \in RoomKeys, NEW e \in Entry
  PROVE  /\ NextPosition(k).out = k.out
         /\ NextPosition(k).idx = k.idx + 1
         /\ \A w \in Nat : RolledBack(k, w).out = k.out /\ RolledBack(k, w).idx = k.idx
         /\ \A w \in Nat : PromisedTo(k, w).out = k.out /\ PromisedTo(k, w).idx = k.idx
         /\ ExportedChain(k, e).out \in {k.out, e.out}
         /\ Restored(k, e).out \in {k.out, e.out}
         /\ Marked(k, e).out = k.out /\ Marked(k, e).idx = k.idx
         /\ \A c \in Chains : Fresh(k, c).out = c
  BY DEF NextPosition, RolledBack, PromisedTo, ExportedChain, FileOnly, Restored, Marked,
         Fresh, RoomKeys, Entry

\* What every step but minting leaves alone: the chains minted, and in memory, in
\* the file and in a job's copy of it no chain of a room that was not there before.
ChainsStay ==
  /\ minted' = minted
  /\ \A r \in Rooms : mem'[r].out \in {mem[r].out, None, disk[r].out}
                                      \cup {job[t].file[r].out : t \in Jobs}
  /\ \A r \in Rooms : disk'[r].out \in {disk[r].out} \cup {job[t].file[r].out : t \in Jobs}
  /\ \A t \in Jobs, r \in Rooms :
       job'[t].file[r].out \in {job[t].file[r].out, None, disk[r].out, mem[r].out}
  /\ \A x \in sealed' \ sealed : \E r \in Rooms : x.chain = mem[r].out /\ x.chain # None

LEMMA StayBelong ==
  ASSUME ChainsBelong, ChainsStay
  PROVE  ChainsBelong'
<1>1. \A r \in Rooms : Belongs(mem'[r].out, r)
  BY DEF ChainsBelong, ChainsStay, Belongs
<1>2. \A r \in Rooms : Belongs(disk'[r].out, r)
  BY DEF ChainsBelong, ChainsStay, Belongs
<1>3. \A t \in Jobs, r \in Rooms : Belongs(job'[t].file[r].out, r)
  BY DEF ChainsBelong, ChainsStay, Belongs
<1>4. \A x \in sealed' : \E r \in Rooms : x.chain \in minted[r]
  BY DEF ChainsBelong, ChainsStay, Belongs
<1>5. QED BY <1>1, <1>2, <1>3, <1>4 DEF ChainsBelong, ChainsStay, Belongs

\* What a step that only moves a job along leaves alone.
LEMMA JobFiles ==
  ASSUME TypeOK, NEW t \in Jobs, NEW j, Become(t, j),
         \A r \in Rooms : j.file[r].out \in {job[t].file[r].out, None, disk[r].out, mem[r].out}
  PROVE  \A u \in Jobs, r \in Rooms :
           job'[u].file[r].out \in {job[u].file[r].out, None, disk[r].out, mem[r].out}
  BY DEF Become, TypeOK

LEMMA IdleFile == \A r \in Rooms : Idle.file[r].out = None
  BY DEF Idle, NoFile, NoEntry

\* A step that seals nothing, and either loads state or leaves every chain where it is.
Quiet ==
  /\ sealed' = sealed
  /\ \/ loads' = loads + 1
     \/ /\ loads' = loads
        /\ \A r \in Rooms : mem'[r].out = mem[r].out /\ mem'[r].idx = mem[r].idx

LEMMA QuietBehind ==
  ASSUME TypeOK, SealedBehind, NoReuseInMemory, Quiet
  PROVE  SealedBehind' /\ NoReuseInMemory'
<1>1. NoReuseInMemory' BY DEF Quiet, NoReuseInMemory
<1>2. loads \in Nat /\ \A x \in sealed : x.load \in Nat
  BY DEF TypeOK
<1>3. SealedBehind'
  <2>1. CASE loads' = loads + 1
    BY <1>2, <2>1 DEF Quiet, SealedBehind
  <2>2. CASE loads' = loads /\ \A r \in Rooms : mem'[r].out = mem[r].out /\ mem'[r].idx = mem[r].idx
    BY <1>2, <2>2 DEF Quiet, SealedBehind
  <2>3. QED BY <2>1, <2>2 DEF Quiet
<1>4. QED BY <1>1, <1>3

\* One room's memory changes, its chain and the position in it do not.
LEMMA SameChain ==
  ASSUME TypeOK, NEW r \in Rooms, NEW k, mem' = [mem EXCEPT ![r] = k],
         k.out = mem[r].out, k.idx = mem[r].idx
  PROVE  \A q \in Rooms : mem'[q].out = mem[q].out /\ mem'[q].idx = mem[q].idx
  BY DEF TypeOK

\* A step that moves one job along and leaves every room its chain.
LEMMA JobMoves ==
  ASSUME TypeOK, NEW t \in Jobs, NEW j, Become(t, j),
         \A r \in Rooms : j.file[r].out \in {job[t].file[r].out, None, disk[r].out, mem[r].out},
         minted' = minted, disk' = disk, sealed' = sealed, loads' = loads,
         \A r \in Rooms : mem'[r].out = mem[r].out /\ mem'[r].idx = mem[r].idx
  PROVE  ChainsStay /\ Quiet
<1>1. \A u \in Jobs, r \in Rooms :
        job'[u].file[r].out \in {job[u].file[r].out, None, disk[r].out, mem[r].out}
  BY JobFiles
<1>2. QED BY <1>1 DEF ChainsStay, Quiet

LEMMA SenderQuiet ==
  ASSUME TypeOK, NEW s \in Senders,
         \/ \E r \in Rooms : StartSend(s, r)
         \/ SendFails(s) \/ BroadcastChain(s) \/ MarkChainShared(s)
         \/ CheckReservation(s) \/ RaiseReservation(s)
  PROVE  ChainsStay /\ Quiet
<1> USE DEF At, Goto, Finish, Jobs
<1>a. job[s] \in Job /\ s \in Jobs BY DEF TypeOK
<1>1. ASSUME NEW r \in Rooms, StartSend(s, r) PROVE ChainsStay /\ Quiet
  <2>1. PICK pc \in {"mint", "reserve"} : Become(s, [Idle EXCEPT !.pc = pc, !.room = r])
    BY <1>1 DEF StartSend
  <2> DEFINE j == [Idle EXCEPT !.pc = pc, !.room = r]
  <2>2. Become(s, j) /\ \A q \in Rooms : j.file[q].out = None
    BY <2>1, IdleFile DEF Idle
  <2>3. /\ minted' = minted /\ disk' = disk /\ sealed' = sealed /\ loads' = loads
        /\ \A q \in Rooms : mem'[q].out = mem[q].out /\ mem'[q].idx = mem[q].idx
    BY <1>1 DEF StartSend
  <2> HIDE DEF j
  <2>4. QED BY <1>a, <2>2, <2>3, JobMoves
<1>2. CASE SendFails(s)
  BY <1>2, <1>a, IdleFile, JobMoves DEF SendFails
<1>3. CASE BroadcastChain(s)
  <2>1. \A q \in Rooms : [job[s] EXCEPT !.pc = "markShared"].file[q].out = job[s].file[q].out
    BY <1>a DEF Job
  <2>2. QED BY <1>3, <1>a, <2>1, JobMoves DEF BroadcastChain
<1>4. CASE MarkChainShared(s)
  <2> DEFINE j == [job[s] EXCEPT !.pc = "reserve"]
  <2>1. Become(s, j) /\ j.file = job[s].file
    BY <1>4, <1>a DEF MarkChainShared, Job
  <2>2. Room(s) \in Rooms /\ mem[Room(s)] \in RoomKeys
    BY <1>4, <1>a, RoomType, StepNames DEF MarkChainShared
  <2>3. \A q \in Rooms : mem'[q].out = mem[q].out /\ mem'[q].idx = mem[q].idx
    BY <1>4, <2>2, SameChain DEF MarkChainShared, RoomKeys
  <2>4. minted' = minted /\ disk' = disk /\ sealed' = sealed /\ loads' = loads
    BY <1>4 DEF MarkChainShared
  <2> HIDE DEF j
  <2>5. QED BY <1>a, <2>1, <2>3, <2>4, JobMoves
<1>5. CASE CheckReservation(s)
  <2>1. \A w : [job[s] EXCEPT !.pc = "raise", !.want = w].file = job[s].file
    BY <1>a DEF Job
  <2>2. [job[s] EXCEPT !.pc = "seal"].file = job[s].file
    BY <1>a DEF Job
  <2>3. QED BY <1>5, <1>a, <2>1, <2>2, JobMoves DEF CheckReservation
<1>6. CASE RaiseReservation(s)
  <2> DEFINE j == [job[s] EXCEPT !.pc = "load"]
  <2>1. Become(s, j) /\ j.file = job[s].file
    BY <1>6, <1>a DEF RaiseReservation, Job
  <2>2. Room(s) \in Rooms /\ mem[Room(s)] \in RoomKeys /\ job[s].want \in Nat
    BY <1>6, <1>a, RoomType, StepNames DEF RaiseReservation, Job
  <2>3. \A q \in Rooms : mem'[q].out = mem[q].out /\ mem'[q].idx = mem[q].idx
    BY <1>6, <2>2, SameChain DEF RaiseReservation, RoomKeys, PromisedTo
  <2>4. minted' = minted /\ disk' = disk /\ sealed' = sealed /\ loads' = loads
    BY <1>6 DEF RaiseReservation
  <2> HIDE DEF j
  <2>5. QED BY <1>a, <2>1, <2>3, <2>4, JobMoves
<1>7. QED BY <1>1, <1>2, <1>3, <1>4, <1>5, <1>6

LEMMA KeeperQuiet ==
  ASSUME TypeOK, NEW v \in Keepers, KeeperStep(v)
  PROVE  ChainsStay /\ Quiet
<1> USE DEF At, Goto, Finish, Jobs
<1>a. job[v] \in Job /\ v \in Jobs /\ job[v].file \in [Rooms -> Entry]
  BY DEF TypeOK, Job
<1>b. \A r \in Rooms : mem[r] \in RoomKeys /\ disk[r] \in Entry
  BY DEF TypeOK
<1>1. ASSUME NEW r \in Rooms, StartSave(v, r) PROVE ChainsStay /\ Quiet
  <2> DEFINE j == [Idle EXCEPT !.pc = "load", !.room = r]
  <2>1. Become(v, j) /\ \A q \in Rooms : j.file[q].out = None
    BY <1>1, IdleFile DEF StartSave, Idle
  <2>2. /\ minted' = minted /\ disk' = disk /\ sealed' = sealed /\ loads' = loads
        /\ \A q \in Rooms : mem'[q].out = mem[q].out /\ mem'[q].idx = mem[q].idx
    BY <1>1 DEF StartSave
  <2> HIDE DEF j
  <2>3. QED BY <1>a, <2>1, <2>2, JobMoves
<1>2. ASSUME NEW r \in Rooms, MarkChainStale(v, r) PROVE ChainsStay /\ Quiet
  <2> DEFINE j == [Idle EXCEPT !.pc = "load", !.room = r, !.ends = minted[r]]
  <2>1. Become(v, j) /\ \A q \in Rooms : j.file[q].out = None
    BY <1>2, IdleFile DEF MarkChainStale, Idle
  <2>2. \A q \in Rooms : mem'[q].out = mem[q].out /\ mem'[q].idx = mem[q].idx
    BY <1>2, <1>b, SameChain DEF MarkChainStale, RoomKeys
  <2>3. minted' = minted /\ disk' = disk /\ sealed' = sealed /\ loads' = loads
    BY <1>2 DEF MarkChainStale
  <2> HIDE DEF j
  <2>4. QED BY <1>a, <2>1, <2>2, <2>3, JobMoves
<1>3. CASE StartRestore(v)
  <2> DEFINE j == [job[v] EXCEPT !.pc = "restoreLoad"]
  <2>1. Become(v, j) /\ j.file = job[v].file
    BY <1>3, <1>a DEF StartRestore, Job
  <2>2. /\ minted' = minted /\ disk' = disk /\ sealed' = sealed /\ loads' = loads
        /\ \A r \in Rooms : mem'[r].out = mem[r].out /\ mem'[r].idx = mem[r].idx
    BY <1>3 DEF StartRestore
  <2> HIDE DEF j
  <2>3. QED BY <1>a, <2>1, <2>2, JobMoves
<1>4. CASE RestoreLoad(v)
  <2>1. [job[v] EXCEPT !.pc = "restoreChains", !.file = disk].file = disk
    BY <1>a DEF Job
  <2>2. QED BY <1>4, <1>a, <2>1, JobMoves DEF RestoreLoad
<1>5. CASE RestoreFails(v)
  BY <1>5, <1>a, IdleFile, JobMoves DEF RestoreFails
<1>6. CASE RestoreChains(v)
  <2>1. [job[v] EXCEPT !.pc = "restoreStale"].file = job[v].file
    BY <1>a DEF Job
  <2>2. \A r \in Rooms : mem'[r].out \in {mem[r].out, job[v].file[r].out}
    BY <1>6, <1>a, <1>b, WhichChain DEF RestoreChains
  <2>3. QED BY <1>6, <1>a, <2>1, <2>2, JobFiles DEF RestoreChains, ChainsStay, Quiet
<1>7. CASE RestoreStale(v)
  <2>1. \A r \in Rooms : mem'[r].out = mem[r].out /\ mem'[r].idx = mem[r].idx
    BY <1>7, <1>a, <1>b, WhichChain DEF RestoreStale
  <2>2. QED BY <1>7, <1>a, <2>1, IdleFile, JobFiles DEF RestoreStale, ChainsStay, Quiet
<1>8. QED BY <1>1, <1>2, <1>3, <1>4, <1>5, <1>6, <1>7 DEF KeeperStep


LEMMA FileQuiet ==
  ASSUME TypeOK, NEW t \in Jobs, FileStep(t)
  PROVE  ChainsStay /\ Quiet
<1> USE DEF At, Finish
<1>a. job[t] \in Job /\ job[t].file \in [Rooms -> Entry] /\ job[t].want \in Nat
  BY DEF TypeOK, Job
<1>b. ASSUME job[t].pc \in FileSteps
      PROVE  Room(t) \in Rooms /\ mem[Room(t)] \in RoomKeys
  BY <1>b, RoomType
<1>1. CASE LoadFile(t)
  <2> DEFINE j == [job[t] EXCEPT !.pc = "export", !.file = disk]
  <2>1. Become(t, j) /\ j.file = disk
    BY <1>1, <1>a DEF LoadFile, Job
  <2>2. /\ minted' = minted /\ disk' = disk /\ sealed' = sealed /\ loads' = loads
        /\ \A q \in Rooms : mem'[q].out = mem[q].out /\ mem'[q].idx = mem[q].idx
    BY <1>1 DEF LoadFile
  <2> HIDE DEF j
  <2>3. QED BY <2>1, <2>2, JobMoves
<1>2. CASE ExportChain(t)
  <2>1. Room(t) \in Rooms /\ mem[Room(t)] \in RoomKeys
    BY <1>2, <1>b, StepNames DEF ExportChain
  <2> DEFINE f == [job[t].file EXCEPT ![Room(t)] = ExportedChain(mem[Room(t)], @)]
  <2>2. \A q \in Rooms : f[q].out \in {job[t].file[q].out, mem[q].out}
    BY <1>a, <2>1, WhichChain
  <2>3. PICK pc \in {"write", "exportStale"} : Become(t, [job[t] EXCEPT !.pc = pc, !.file = f])
    BY <1>2 DEF ExportChain
  <2> DEFINE j == [job[t] EXCEPT !.pc = pc, !.file = f]
  <2>4. Become(t, j) /\ j.file = f
    BY <1>a, <2>3 DEF Job
  <2>5. /\ minted' = minted /\ disk' = disk /\ sealed' = sealed /\ loads' = loads
        /\ \A q \in Rooms : mem'[q].out = mem[q].out /\ mem'[q].idx = mem[q].idx
    BY <1>2 DEF ExportChain
  <2> HIDE DEF j, f
  <2>6. QED BY <2>2, <2>4, <2>5, JobMoves
<1>3. CASE ExportStale(t)
  <2>1. Room(t) \in Rooms
    BY <1>3, <1>b, StepNames DEF ExportStale
  <2> DEFINE f == [job[t].file EXCEPT ![Room(t)] = [@ EXCEPT !.stale = mem[Room(t)].stale]]
             j == [job[t] EXCEPT !.pc = "write", !.file = f]
  <2>2. \A q \in Rooms : f[q].out = job[t].file[q].out
    BY <1>a, <2>1 DEF Entry
  <2>3. Become(t, j) /\ j.file = f
    BY <1>3, <1>a DEF ExportStale, Job
  <2>4. /\ minted' = minted /\ disk' = disk /\ sealed' = sealed /\ loads' = loads
        /\ \A q \in Rooms : mem'[q].out = mem[q].out /\ mem'[q].idx = mem[q].idx
    BY <1>3 DEF ExportStale
  <2> HIDE DEF j, f
  <2>5. QED BY <2>2, <2>3, <2>4, JobMoves
<1>4. CASE WriteFile(t)
  <2>1. PICK j : Become(t, j) /\ \A q \in Rooms : j.file[q].out = None
    <3> DEFINE go == [Idle EXCEPT !.pc = "seal", !.room = Room(t)]
    <3>1. Become(t, go) \/ Become(t, Idle)
      BY <1>4 DEF WriteFile
    <3>2. \A q \in Rooms : go.file[q].out = None
      BY IdleFile DEF Idle
    <3> HIDE DEF go
    <3>3. QED BY <3>1, <3>2, IdleFile
  <2>2. \A u \in Jobs, r \in Rooms :
          job'[u].file[r].out \in {job[u].file[r].out, None, disk[r].out, mem[r].out}
    BY <2>1, JobFiles
  <2>3. QED BY <1>4, <2>2 DEF WriteFile, ChainsStay, Quiet
<1>5. CASE FileFails(t)
  <2>1. Room(t) \in Rooms /\ mem[Room(t)] \in RoomKeys
    BY <1>5, <1>b, StepNames DEF FileFails
  <2>2. \A q \in Rooms : mem'[q].out = mem[q].out /\ mem'[q].idx = mem[q].idx
    <3>1. CASE t \in Senders
      <4> DEFINE k == RolledBack(mem[Room(t)], job[t].want)
      <4>1. mem' = [mem EXCEPT ![Room(t)] = k]
        BY <1>5, <3>1 DEF FileFails
      <4>2. k.out = mem[Room(t)].out /\ k.idx = mem[Room(t)].idx
        BY <1>a, <2>1 DEF RolledBack, RoomKeys
      <4> HIDE DEF k
      <4>3. QED BY <2>1, <4>1, <4>2, SameChain
    <3>2. CASE t \notin Senders
      BY <1>5, <3>2 DEF FileFails
    <3>3. QED BY <3>1, <3>2
  <2>3. QED BY <1>5, <2>2, IdleFile, JobMoves DEF FileFails
<1>6. QED BY <1>1, <1>2, <1>3, <1>4, <1>5 DEF FileStep

LEMMA MintBehind ==
  ASSUME MemoryInv, NEW s \in Senders, NEW c \in Chains, MintChain(s, c)
  PROVE  ChainsBelong' /\ SealedBehind' /\ NoReuseInMemory'
<1>a. /\ TypeOK /\ ChainsBelong /\ SealedBehind /\ NoReuseInMemory
      /\ s \in Jobs /\ job[s] \in Job
      /\ Room(s) \in Rooms /\ mem[Room(s)] \in RoomKeys
  BY RoomType, StepNames DEF MemoryInv, MintChain, At, Jobs, TypeOK
<1>1. CASE ~NeedsChain(mem[Room(s)])
  <2> DEFINE j == [job[s] EXCEPT !.pc = "reserve"]
  <2>1. Become(s, j) /\ j.file = job[s].file
    BY <1>1, <1>a DEF MintChain, Goto, Job
  <2>2. /\ minted' = minted /\ disk' = disk /\ sealed' = sealed /\ loads' = loads
        /\ \A q \in Rooms : mem'[q].out = mem[q].out /\ mem'[q].idx = mem[q].idx
    BY <1>1 DEF MintChain
  <2> HIDE DEF j
  <2>3. ChainsStay /\ Quiet
    BY <1>a, <2>1, <2>2, JobMoves
  <2>4. QED BY <1>a, <2>3, StayBelong, QuietBehind
<1>2. CASE NeedsChain(mem[Room(s)])
  <2> DEFINE j == [job[s] EXCEPT !.pc = "broadcast", !.chain = c]
  <2>1. /\ c \notin AllMinted
        /\ mem' = [mem EXCEPT ![Room(s)] = Fresh(@, c)]
        /\ minted' = [minted EXCEPT ![Room(s)] = @ \cup {c}]
        /\ Become(s, j) /\ disk' = disk /\ sealed' = sealed /\ loads' = loads
    BY <1>2 DEF MintChain
  <2>2. j.file = job[s].file
    BY <1>a DEF Job
  <2> HIDE DEF j
  <2>3. \A t \in Jobs, r \in Rooms : job'[t].file[r].out = job[t].file[r].out
    BY <1>a, <2>1, <2>2 DEF Become, TypeOK
  <2>4. \A r \in Rooms : minted[r] \subseteq minted'[r] /\ minted'[r] \subseteq minted[r] \cup {c}
    BY <1>a, <2>1 DEF TypeOK
  <2>5. \A r \in Rooms : r # Room(s) => minted'[r] = minted[r] /\ mem'[r] = mem[r]
    BY <1>a, <2>1 DEF TypeOK
  <2>6. mem'[Room(s)].out = c /\ c \in minted'[Room(s)]
    BY <1>a, <2>1, WhichChain DEF TypeOK, Fresh, RoomKeys
  <2>7. \A r \in Rooms : c \notin minted[r]
    BY <2>1 DEF AllMinted
  <2>8. ChainsBelong'
    <3>1. \A q, r \in Rooms : q # r => minted'[q] \cap minted'[r] = {}
      BY <1>a, <2>4, <2>5, <2>7 DEF ChainsBelong
    <3>2. \A r \in Rooms : mem'[r].out \in minted'[r] \cup {None}
      BY <1>a, <2>5, <2>6 DEF ChainsBelong, Belongs
    <3>3. \A r \in Rooms : disk'[r].out \in minted'[r] \cup {None}
      BY <1>a, <2>1, <2>4 DEF ChainsBelong, Belongs
    <3>4. \A t \in Jobs, r \in Rooms : job'[t].file[r].out \in minted'[r] \cup {None}
      BY <1>a, <2>3, <2>4 DEF ChainsBelong, Belongs
    <3>5. \A x \in sealed' : \E r \in Rooms : x.chain \in minted'[r]
      BY <1>a, <2>1, <2>4 DEF ChainsBelong
    <3>6. QED BY <3>1, <3>2, <3>3, <3>4, <3>5 DEF ChainsBelong, Belongs
  <2>9. \A x \in sealed : x.chain # c
    BY <1>a, <2>7 DEF ChainsBelong
  <2>10. SealedBehind'
    BY <1>a, <2>1, <2>5, <2>6, <2>9 DEF SealedBehind
  <2>11. NoReuseInMemory'
    BY <1>a, <2>1 DEF NoReuseInMemory
  <2>12. QED BY <2>8, <2>10, <2>11
<1>3. QED BY <1>1, <1>2

LEMMA SealBehind ==
  ASSUME MemoryInv, NEW s \in Senders, SealRoomMessage(s)
  PROVE  ChainsBelong' /\ SealedBehind' /\ NoReuseInMemory'
<1>a. /\ TypeOK /\ ChainsBelong /\ SealedBehind /\ NoReuseInMemory
      /\ s \in Jobs /\ job[s] \in Job
      /\ Room(s) \in Rooms /\ mem[Room(s)] \in RoomKeys
  BY RoomType, StepNames DEF MemoryInv, SealRoomMessage, At, Jobs, TypeOK
<1>b. Become(s, Idle) /\ minted' = minted /\ disk' = disk /\ loads' = loads
  BY DEF SealRoomMessage, Finish
<1>1. CASE sealed' = sealed /\ mem' = mem
  <2>1. ChainsStay /\ Quiet
    BY <1>a, <1>b, <1>1, IdleFile, JobMoves
  <2>2. QED BY <1>a, <2>1, StayBelong, QuietBehind
<1>2. CASE ~(sealed' = sealed /\ mem' = mem)
  <2> DEFINE r == Room(s)
             k == mem[r]
             new == [chain |-> k.out, pos |-> k.idx, msg |-> sent, load |-> loads]
  <2>1. /\ k.out # None
        /\ sealed' = sealed \cup {new}
        /\ mem' = [mem EXCEPT ![r] = NextPosition(k)]
    BY <1>2 DEF SealRoomMessage, Usable
  <2>2. /\ k \in RoomKeys /\ r \in Rooms /\ k.idx \in Nat /\ mem \in [Rooms -> RoomKeys]
        /\ loads \in Nat
    BY <1>a DEF RoomKeys, TypeOK
  <2>3. \A q \in Rooms : mem'[q].out = mem[q].out
    BY <2>1, <2>2 DEF NextPosition, RoomKeys
  <2>4. mem'[r].idx = k.idx + 1 /\ \A q \in Rooms : q # r => mem'[q].idx = mem[q].idx
    BY <2>1, <2>2 DEF NextPosition, RoomKeys
  <2>5. new.chain = k.out /\ new.pos = k.idx /\ new.load = loads
    OBVIOUS
  <2> HIDE DEF new
  <2>6. \A q \in Rooms : mem[q].out = k.out => q = r
    BY <1>a, <2>1, <2>2 DEF ChainsBelong, Belongs
  <2>7. ChainsBelong'
    <3>1. \A u \in Jobs, q \in Rooms :
            job'[u].file[q].out \in {job[u].file[q].out, None, disk[q].out, mem[q].out}
      BY <1>a, <1>b, IdleFile, JobFiles
    <3>2. ChainsStay
      BY <1>b, <2>1, <2>2, <2>3, <2>5, <3>1 DEF ChainsStay
    <3>3. QED BY <1>a, <3>2, StayBelong
  <2>8. \A x \in sealed : x.chain = k.out /\ x.load = loads => x.pos < k.idx
    BY <1>a, <2>2 DEF SealedBehind
  <2>9. \A x \in sealed : x.pos \in Nat
    BY <1>a DEF TypeOK
  <2>10. SealedBehind'
    <3>1. \A x \in sealed, q \in Rooms :
            x.load = loads /\ mem'[q].out = x.chain => x.pos < mem'[q].idx
      BY <1>a, <2>2, <2>3, <2>4, <2>9 DEF SealedBehind
    <3>2. \A q \in Rooms : mem'[q].out = new.chain => new.pos < mem'[q].idx
      BY <2>2, <2>3, <2>4, <2>5, <2>6
    <3>3. \A x \in sealed' : x.load <= loads
      BY <1>a, <2>1, <2>2, <2>5 DEF SealedBehind
    <3>4. QED BY <1>b, <2>1, <3>1, <3>2, <3>3 DEF SealedBehind
  <2>11. NoReuseInMemory'
    BY <1>a, <2>1, <2>2, <2>5, <2>8, <2>9 DEF NoReuseInMemory
  <2>12. QED BY <2>7, <2>10, <2>11
<1>3. QED BY <1>1, <1>2

LEMMA MemoryStep == MemoryInv /\ [Next]_vars => MemoryInv'
<1> SUFFICES ASSUME MemoryInv, [Next]_vars PROVE MemoryInv'
  OBVIOUS
<1>a. TypeOK /\ ChainsBelong /\ SealedBehind /\ NoReuseInMemory
  BY DEF MemoryInv
<1>b. TypeOK' BY <1>a, TypeStep
<1>c. ASSUME ChainsStay, Quiet PROVE MemoryInv'
  BY <1>a, <1>b, <1>c, StayBelong, QuietBehind DEF MemoryInv
<1>1. ASSUME NEW s \in Senders, SenderStep(s) PROVE MemoryInv'
  <2>1. CASE \E c \in Chains : MintChain(s, c)
    BY <1>b, <2>1, MintBehind DEF MemoryInv
  <2>2. CASE SealRoomMessage(s)
    BY <1>b, <2>2, SealBehind DEF MemoryInv
  <2>3. CASE \/ \E r \in Rooms : StartSend(s, r)
             \/ SendFails(s) \/ BroadcastChain(s) \/ MarkChainShared(s)
             \/ CheckReservation(s) \/ RaiseReservation(s)
    BY <1>a, <1>c, <2>3, SenderQuiet
  <2>4. QED BY <1>1, <2>1, <2>2, <2>3 DEF SenderStep
<1>2. ASSUME NEW v \in Keepers, KeeperStep(v) PROVE MemoryInv'
  BY <1>a, <1>c, <1>2, KeeperQuiet
<1>3. ASSUME NEW t \in Jobs, FileStep(t) PROVE MemoryInv'
  BY <1>a, <1>c, <1>3, FileQuiet
<1>4. ASSUME NEW r \in Rooms, MarkRoomEncrypted(r) PROVE MemoryInv'
  <2>1. \A q \in Rooms : mem'[q].out = mem[q].out /\ mem'[q].idx = mem[q].idx
    BY <1>4, <1>a, SameChain DEF MarkRoomEncrypted, TypeOK, RoomKeys
  <2>2. ChainsStay /\ Quiet
    BY <1>4, <2>1 DEF MarkRoomEncrypted, ChainsStay, Quiet
  <2>3. QED BY <1>c, <2>2
<1>5. CASE SignOff \/ Crash
  <2>1. \A q \in Rooms : mem'[q].out \in {mem[q].out, None}
    BY <1>5 DEF SignOff, Crash, NoRoomKeys
  <2>2. \A u \in Jobs, q \in Rooms : job'[u].file[q].out \in {job[u].file[q].out, None}
    BY <1>5, IdleFile DEF SignOff, Crash
  <2>3. minted' = minted /\ disk' = disk /\ sealed' = sealed /\ loads' = loads + 1
    BY <1>5 DEF SignOff, Crash
  <2>4. ChainsStay /\ Quiet
    BY <2>1, <2>2, <2>3 DEF ChainsStay, Quiet
  <2>5. QED BY <1>c, <2>4
<1>6. CASE UNCHANGED vars
  <2>1. ChainsStay /\ Quiet
    BY <1>6 DEF vars, ChainsStay, Quiet
  <2>2. QED BY <1>c, <2>1
<1>7. QED BY <1>1, <1>2, <1>3, <1>4, <1>5, <1>6 DEF Next

\* Until state is next loaded from the file, no position of a chain seals two
\* messages, however many sends, saves, removals and failed writes overlap.
THEOREM OnePositionOneMessage == Spec => []NoReuseInMemory
<1>1. MemoryInv => NoReuseInMemory BY DEF MemoryInv
<1>2. QED BY <1>1, MemoryInit, MemoryStep, PTL DEF Spec

-----------------------------------------------------------------------------
(* Over crashes and restores. *)


\* Everything sealed lies behind where memory's chain stands, ...
BehindMemory ==
  \A x \in sealed, r \in Rooms : mem[r].out = x.chain => x.pos < mem[r].idx

\* ... and behind where the saved chain would resume.
BehindDisk ==
  \A x \in sealed, r \in Rooms : disk[r].out = x.chain => x.pos < disk[r].through

\* A promise being written.
Pending(t, r) == t \in Senders /\ job[t].pc \in FileSteps /\ job[t].room = r

\* A promise made in memory is the file's promise too.
Backed(r) ==
  mem[r].out # None /\ mem[r].reserved > mem[r].idx
    => disk[r].out = mem[r].out /\ mem[r].reserved <= disk[r].through

PromisesBacked ==
  \A r \in Rooms : (\A t \in Jobs : ~Pending(t, r)) => Backed(r)

\* What the file a job is about to write says of its room: memory's chain, wound
\* to its reservation, or, without one in memory, what the file says already.
Exported(r, f) ==
  /\ \A q \in Rooms \ {r} : f[q] = disk[q]
  /\ mem[r].out = None =>
       f[r].out = disk[r].out /\ (f[r].out # None => f[r].through = disk[r].through)
  /\ mem[r].out # None =>
       f[r].out = mem[r].out /\ f[r].through = larger(mem[r].reserved, mem[r].idx)

\* What a job's copy of the file, and the reservation it wants, are worth.
JobOK(t) ==
  LET j == job[t] IN
  /\ j.pc = "raise" => j.want > mem[j.room].reserved
  /\ t \in Senders /\ j.pc \in FileSteps => mem[j.room].reserved = j.want
  /\ j.pc \in {"export", "restoreChains", "restoreStale"} => j.file = disk
  /\ j.pc \in {"exportStale", "write"} => Exported(j.room, j.file)

JobsOK == \A t \in Jobs : JobOK(t)

DurableInv == BehindMemory /\ BehindDisk /\ PromisesBacked /\ JobsOK /\ NoPositionReused

-----------------------------------------------------------------------------
LEMMA DurableInit == Init => DurableInv /\ OneInWindow
<1> SUFFICES ASSUME Init PROVE DurableInv /\ OneInWindow
  OBVIOUS
<1>1. sealed = {} /\ \A r \in Rooms : mem[r].out = None
  BY DEF Init, NoRoomKeys
<1>2. \A t \in Jobs : job[t].pc = "idle"
  BY IdleType DEF Init
<1>3. BehindMemory /\ BehindDisk /\ PromisesBacked /\ NoPositionReused
  BY <1>1 DEF BehindMemory, BehindDisk, PromisesBacked, Backed, NoPositionReused
<1>4. JobsOK
  BY <1>2 DEF JobsOK, JobOK, FileSteps
<1>5. OneInWindow
  BY <1>2 DEF OneInWindow, InWindow, FileSteps, RestoreSteps
<1>6. QED BY <1>3, <1>4, <1>5 DEF DurableInv

\* A step that moves job t along: what was sealed, the file, and every room's
\* chain, position and promise stay as they are.
Inert(t) ==
  /\ disk' = disk /\ sealed' = sealed
  /\ \A r \in Rooms : /\ mem'[r].out = mem[r].out
                      /\ mem'[r].idx = mem[r].idx
                      /\ mem'[r].reserved = mem[r].reserved
  /\ \A u \in Jobs \ {t} : job'[u] = job[u]

LEMMA RoomOfJob ==
  ASSUME TypeOK, NEW t \in Jobs
  PROVE  job[t].pc \in SendSteps \cup FileSteps => job[t].room \in Rooms
  BY DEF TypeOK, Job

LEMMA InertStep ==
  ASSUME TypeOK, DurableInv, NEW t \in Jobs, Inert(t), JobOK(t)',
         \A r \in Rooms : Pending(t, r) => Pending(t, r)'
  PROVE  DurableInv'
<1>1. BehindMemory' /\ BehindDisk' /\ NoPositionReused'
  BY DEF DurableInv, Inert, BehindMemory, BehindDisk, NoPositionReused
<1>2. PromisesBacked'
  <2>1. \A u \in Jobs, r \in Rooms : Pending(u, r) => Pending(u, r)'
    BY DEF Inert, Pending
  <2>2. \A r \in Rooms : Backed(r) => Backed(r)'
    BY DEF Inert, Backed
  <2>3. QED BY <2>1, <2>2 DEF DurableInv, PromisesBacked
<1>3. ASSUME NEW u \in Jobs, u # t PROVE JobOK(u)'
  <2>1. JobOK(u) /\ job'[u] = job[u]
    BY <1>3 DEF DurableInv, JobsOK, Inert
  <2>2. \A f : \A r \in Rooms : Exported(r, f) => Exported(r, f)'
    BY DEF Inert, Exported
  <2>3. job[u].pc \in FileSteps \cup {"raise"} => job[u].room \in Rooms
    BY RoomOfJob, StepNames
  <2>4. QED BY <2>1, <2>2, <2>3, StepNames DEF JobOK, Inert
<1>4. QED BY <1>1, <1>2, <1>3 DEF DurableInv, JobsOK

LEMMA OneJob ==
  ASSUME TypeOK, NEW t \in Jobs, NEW j, Become(t, j)
  PROVE  job'[t] = j /\ \A u \in Jobs \ {t} : job'[u] = job[u]
  BY DEF Become, TypeOK

\* Idle, or not yet at the file: nothing is asked of such a job.
LEMMA NothingAsked ==
  ASSUME NEW t \in Jobs,
         job'[t].pc \notin FileSteps \cup {"raise", "restoreChains", "restoreStale"}
  PROVE  JobOK(t)'
  BY DEF JobOK, FileSteps

\* One room's memory changes, its chain, position and promise do not.
LEMMA SamePromise ==
  ASSUME TypeOK, NEW r \in Rooms, NEW k, mem' = [mem EXCEPT ![r] = k],
         k.out = mem[r].out, k.idx = mem[r].idx, k.reserved = mem[r].reserved
  PROVE  \A q \in Rooms : /\ mem'[q].out = mem[q].out
                          /\ mem'[q].idx = mem[q].idx
                          /\ mem'[q].reserved = mem[q].reserved
  BY DEF TypeOK

LEMMA FileStepNames ==
  /\ {"idle", "mint", "broadcast", "markShared", "reserve", "seal", "restoreLoad"}
       \cap (FileSteps \cup {"raise", "restoreChains", "restoreStale"}) = {}
  /\ FileSteps = {"load", "export", "exportStale", "write"}
  BY DEF FileSteps

\* The sender's steps before its promise, and after it failed to get that far.
LEMMA SenderInert ==
  ASSUME TypeOK, DurableInv, NEW s \in Senders,
         \/ \E r \in Rooms : StartSend(s, r)
         \/ SendFails(s) \/ BroadcastChain(s) \/ MarkChainShared(s) \/ CheckReservation(s)
  PROVE  DurableInv'
<1> USE DEF At, Goto, Finish, Jobs
<1>a. job[s] \in Job /\ s \in Jobs BY DEF TypeOK
<1>b. ASSUME Inert(s), job'[s].pc \notin FileSteps \cup {"raise", "restoreChains", "restoreStale"},
             job[s].pc \notin FileSteps
      PROVE  DurableInv'
  BY <1>a, <1>b, InertStep, NothingAsked DEF Pending
<1>1. ASSUME NEW r \in Rooms, StartSend(s, r) PROVE DurableInv'
  <2>1. PICK pc \in {"mint", "reserve"} : Become(s, [Idle EXCEPT !.pc = pc, !.room = r])
    BY <1>1 DEF StartSend
  <2>2. [Idle EXCEPT !.pc = pc, !.room = r].pc = pc
    BY DEF Idle
  <2>3. job'[s].pc = pc /\ \A u \in Jobs \ {s} : job'[u] = job[u]
    BY <1>a, <2>1, <2>2, OneJob
  <2>4. Inert(s)
    BY <1>1, <2>3 DEF StartSend, Inert
  <2>5. QED BY <1>1, <1>b, <2>3, <2>4, FileStepNames DEF StartSend
<1>2. CASE SendFails(s)
  <2>1. job'[s].pc = "idle" /\ \A u \in Jobs \ {s} : job'[u] = job[u]
    BY <1>2, <1>a, OneJob, IdleType DEF SendFails
  <2>2. Inert(s)
    BY <1>2, <2>1 DEF SendFails, Inert
  <2>3. QED BY <1>2, <1>b, <2>1, <2>2, FileStepNames DEF SendFails
<1>3. CASE BroadcastChain(s)
  <2>1. [job[s] EXCEPT !.pc = "markShared"].pc = "markShared"
    BY <1>a DEF Job
  <2>2. job'[s].pc = "markShared" /\ \A u \in Jobs \ {s} : job'[u] = job[u]
    BY <1>3, <1>a, <2>1, OneJob DEF BroadcastChain
  <2>3. Inert(s)
    BY <1>3, <2>2 DEF BroadcastChain, Inert
  <2>4. QED BY <1>3, <1>b, <2>2, <2>3, FileStepNames DEF BroadcastChain
<1>4. CASE MarkChainShared(s)
  <2>1. [job[s] EXCEPT !.pc = "reserve"].pc = "reserve"
    BY <1>a DEF Job
  <2>2. job'[s].pc = "reserve" /\ \A u \in Jobs \ {s} : job'[u] = job[u]
    BY <1>4, <1>a, <2>1, OneJob DEF MarkChainShared
  <2>3. Room(s) \in Rooms /\ mem[Room(s)] \in RoomKeys
    BY <1>4, <1>a, RoomType, StepNames DEF MarkChainShared
  <2> DEFINE k == [mem[Room(s)] EXCEPT !.shared = TRUE]
  <2>4. /\ mem' = [mem EXCEPT ![Room(s)] = k]
        /\ k.out = mem[Room(s)].out /\ k.idx = mem[Room(s)].idx
        /\ k.reserved = mem[Room(s)].reserved
    BY <1>4, <2>3 DEF MarkChainShared, RoomKeys
  <2> HIDE DEF k
  <2>5. Inert(s)
    BY <1>4, <2>2, <2>3, <2>4, SamePromise DEF MarkChainShared, Inert
  <2>6. QED BY <1>4, <1>b, <2>2, <2>5, FileStepNames DEF MarkChainShared
<1>5. CASE CheckReservation(s)
  <2> DEFINE k == mem[Room(s)]
             up1 == [job[s] EXCEPT !.pc = "raise", !.want = k.idx + Block]
             on == [job[s] EXCEPT !.pc = "seal"]
  <2>1. Room(s) \in Rooms /\ k \in RoomKeys
    BY <1>5, <1>a, RoomType, StepNames DEF CheckReservation
  <2>2. on.pc = "seal" /\ up1.pc = "raise" /\ up1.want = k.idx + Block /\ up1.room = Room(s)
    BY <1>a DEF Job, Room
  <2>3. ~Promised(k) => k.idx + Block > k.reserved
    BY <2>1, BlockAssumption DEF Promised, RoomKeys
  <2>4. Become(s, on) \/ (~Promised(k) /\ Become(s, up1))
    BY <1>5 DEF CheckReservation
  <2>5. disk' = disk /\ sealed' = sealed /\ mem' = mem /\ job[s].pc = "reserve"
    BY <1>5 DEF CheckReservation
  <2> HIDE DEF on, up1
  <2>6. Inert(s)
    BY <1>a, <2>4, <2>5, OneJob DEF Inert
  <2>7. CASE Become(s, on)
    BY <1>a, <1>b, <2>2, <2>5, <2>6, <2>7, OneJob, FileStepNames
  <2>8. CASE ~Promised(k) /\ Become(s, up1)
    <3>1. job'[s] = up1
      BY <1>a, <2>8, OneJob
    <3>2. JobOK(s)'
      BY <2>2, <2>3, <2>5, <2>8, <3>1, FileStepNames DEF JobOK
    <3>3. QED BY <1>a, <2>5, <2>6, <3>2, InertStep, FileStepNames DEF Pending
  <2>9. QED BY <2>4, <2>7, <2>8
<1>6. QED BY <1>1, <1>2, <1>3, <1>4, <1>5

\* A keeper's steps up to the file, and those of a restore that change no chain.
LEMMA KeeperInert ==
  ASSUME TypeOK, DurableInv, NEW v \in Keepers,
         \/ \E r \in Rooms : StartSave(v, r) \/ MarkChainStale(v, r)
         \/ StartRestore(v) \/ RestoreLoad(v) \/ RestoreFails(v) \/ RestoreStale(v)
  PROVE  DurableInv'
<1> USE DEF At, Goto, Finish
<1>a. job[v] \in Job /\ v \in Jobs /\ v \notin Senders
  BY JobsAssumption DEF TypeOK, Jobs
<1>b. ASSUME Inert(v), JobOK(v)' PROVE DurableInv'
  BY <1>a, <1>b, InertStep DEF Pending
<1>1. ASSUME NEW r \in Rooms, StartSave(v, r) PROVE DurableInv'
  <2>1. [Idle EXCEPT !.pc = "load", !.room = r].pc = "load"
    BY DEF Idle
  <2>2. job'[v].pc = "load" /\ \A u \in Jobs \ {v} : job'[u] = job[u]
    BY <1>1, <1>a, <2>1, OneJob DEF StartSave
  <2>3. Inert(v)
    BY <1>1, <2>2 DEF StartSave, Inert
  <2>4. JobOK(v)'
    BY <1>a, <2>2 DEF JobOK
  <2>5. QED BY <1>b, <2>3, <2>4
<1>2. ASSUME NEW r \in Rooms, MarkChainStale(v, r) PROVE DurableInv'
  <2>1. [Idle EXCEPT !.pc = "load", !.room = r, !.ends = minted[r]].pc = "load"
    BY DEF Idle
  <2>2. job'[v].pc = "load" /\ \A u \in Jobs \ {v} : job'[u] = job[u]
    BY <1>2, <1>a, <2>1, OneJob DEF MarkChainStale
  <2> DEFINE k == [mem[r] EXCEPT !.stale = TRUE]
  <2>3. /\ mem' = [mem EXCEPT ![r] = k]
        /\ k.out = mem[r].out /\ k.idx = mem[r].idx /\ k.reserved = mem[r].reserved
    BY <1>2 DEF MarkChainStale, TypeOK, RoomKeys
  <2> HIDE DEF k
  <2>4. Inert(v)
    BY <1>2, <2>2, <2>3, SamePromise DEF MarkChainStale, Inert
  <2>5. JobOK(v)'
    BY <1>a, <2>2 DEF JobOK
  <2>6. QED BY <1>b, <2>4, <2>5
<1>3. CASE StartRestore(v)
  <2>1. [job[v] EXCEPT !.pc = "restoreLoad"].pc = "restoreLoad"
    BY <1>a DEF Job
  <2>2. job'[v].pc = "restoreLoad" /\ \A u \in Jobs \ {v} : job'[u] = job[u]
    BY <1>3, <1>a, <2>1, OneJob DEF StartRestore
  <2>3. Inert(v)
    BY <1>3, <2>2 DEF StartRestore, Inert
  <2>4. QED BY <1>a, <1>b, <2>2, <2>3, NothingAsked, FileStepNames
<1>4. CASE RestoreLoad(v)
  <2> DEFINE j == [job[v] EXCEPT !.pc = "restoreChains", !.file = disk]
  <2>1. Become(v, j) /\ j.pc = "restoreChains" /\ j.file = disk
    BY <1>4, <1>a DEF RestoreLoad, Job
  <2> HIDE DEF j
  <2>2. job'[v] = j /\ \A u \in Jobs \ {v} : job'[u] = job[u]
    BY <1>a, <2>1, OneJob
  <2>3. Inert(v)
    BY <1>4, <2>2 DEF RestoreLoad, Inert
  <2>4. JobOK(v)'
    BY <1>4, <1>a, <2>1, <2>2 DEF JobOK, RestoreLoad
  <2>5. QED BY <1>b, <2>3, <2>4
<1>5. CASE RestoreFails(v)
  <2>1. job'[v].pc = "idle" /\ \A u \in Jobs \ {v} : job'[u] = job[u]
    BY <1>5, <1>a, OneJob, IdleType DEF RestoreFails
  <2>2. Inert(v)
    BY <1>5, <2>1 DEF RestoreFails, Inert
  <2>3. QED BY <1>a, <1>b, <2>1, <2>2, NothingAsked, FileStepNames
<1>6. CASE RestoreStale(v)
  <2>1. job'[v].pc = "idle" /\ \A u \in Jobs \ {v} : job'[u] = job[u]
    BY <1>6, <1>a, OneJob, IdleType DEF RestoreStale
  <2>2. \A r \in Rooms : mem'[r] = Marked(mem[r], job[v].file[r])
    BY <1>6 DEF RestoreStale
  <2>3. \A e : \A k \in RoomKeys : /\ Marked(k, e).out = k.out
                                   /\ Marked(k, e).idx = k.idx
                                   /\ Marked(k, e).reserved = k.reserved
    BY DEF Marked, RoomKeys
  <2>4. Inert(v)
    BY <1>6, <2>1, <2>2, <2>3 DEF RestoreStale, Inert, TypeOK
  <2>5. QED BY <1>a, <1>b, <2>1, <2>4, NothingAsked, FileStepNames
<1>7. QED BY <1>1, <1>2, <1>3, <1>4, <1>5, <1>6

\* What a job writes into its copy of the file is what memory would resume from.
LEMMA ExportedIsMemory ==
  ASSUME NEW k \in RoomKeys, NEW e \in Entry
  PROVE  /\ k.out = None => /\ ExportedChain(k, e).out = e.out
                            /\ e.out # None => ExportedChain(k, e).through = e.through
         /\ k.out # None => /\ ExportedChain(k, e).out = k.out
                            /\ ExportedChain(k, e).through = larger(k.reserved, k.idx)
  BY DEF ExportedChain, FileOnly, RoomKeys, Entry

\* Reading the file and preparing what to write.
LEMMA FileInert ==
  ASSUME TypeOK, DurableInv, NEW t \in Jobs, LoadFile(t) \/ ExportChain(t) \/ ExportStale(t)
  PROVE  DurableInv'
<1> USE DEF At
<1>a. /\ job[t] \in Job /\ job[t].file \in [Rooms -> Entry] /\ JobOK(t)
      /\ job[t].room \in Rooms /\ mem[job[t].room] \in RoomKeys /\ job[t].pc \in FileSteps
  BY RoomType, StepNames DEF TypeOK, Job, DurableInv, JobsOK, Room,
                             LoadFile, ExportChain, ExportStale
<1>b. disk' = disk /\ sealed' = sealed /\ mem' = mem /\ disk \in [Rooms -> Entry]
  BY DEF LoadFile, ExportChain, ExportStale, TypeOK
\* It goes on to another of the file steps, with its room and its promise.
<1>c. ASSUME NEW j, Become(t, j), j.pc \in FileSteps, j.room = job[t].room,
             j.want = job[t].want,
             j.pc = "export" => j.file = disk,
             j.pc \in {"exportStale", "write"} => Exported(j.room, j.file)
      PROVE  DurableInv'
  <2>1. job'[t] = j /\ \A u \in Jobs \ {t} : job'[u] = job[u]
    BY <1>c, OneJob
  <2>2. Inert(t)
    BY <1>b, <2>1 DEF Inert
  <2>3. Exported(j.room, j.file) => Exported(j.room, j.file)'
    BY <1>b, <2>1 DEF Exported
  <2>4. JobOK(t)'
    BY <1>a, <1>b, <1>c, <2>1, <2>3, FileStepNames DEF JobOK
  <2>5. \A r \in Rooms : Pending(t, r) => Pending(t, r)'
    BY <1>c, <2>1 DEF Pending
  <2>6. QED BY <2>2, <2>4, <2>5, InertStep
<1>1. CASE LoadFile(t)
  <2> DEFINE j == [job[t] EXCEPT !.pc = "export", !.file = disk]
  <2>1. /\ Become(t, j) /\ j.pc = "export" /\ j.file = disk
        /\ j.room = job[t].room /\ j.want = job[t].want
    BY <1>1, <1>a DEF LoadFile, Job
  <2> HIDE DEF j
  <2>2. QED BY <1>c, <2>1, FileStepNames
<1>2. CASE ExportChain(t)
  <2> DEFINE r == job[t].room
             f == [job[t].file EXCEPT ![r] = ExportedChain(mem[r], @)]
  <2>1. PICK pc \in {"write", "exportStale"} : Become(t, [job[t] EXCEPT !.pc = pc, !.file = f])
    BY <1>2 DEF ExportChain, Room
  <2>2. job[t].file = disk
    BY <1>2, <1>a DEF ExportChain, JobOK
  <2>3. /\ f[r] = ExportedChain(mem[r], disk[r])
        /\ \A q \in Rooms \ {r} : f[q] = disk[q]
    BY <1>a, <1>b, <2>2
  <2>4. Exported(r, f)
    BY <1>a, <1>b, <2>3, ExportedIsMemory DEF Exported
  <2> DEFINE j == [job[t] EXCEPT !.pc = pc, !.file = f]
  <2>5. /\ Become(t, j) /\ j.pc = pc /\ j.file = f
        /\ j.room = r /\ j.want = job[t].want
    BY <1>a, <2>1 DEF Job
  <2> HIDE DEF j, f
  <2>6. QED BY <1>c, <2>1, <2>4, <2>5, FileStepNames
<1>3. CASE ExportStale(t)
  <2> DEFINE r == job[t].room
             f == [job[t].file EXCEPT ![r] = [@ EXCEPT !.stale = mem[r].stale]]
             j == [job[t] EXCEPT !.pc = "write", !.file = f]
  <2>1. Exported(r, job[t].file)
    BY <1>3, <1>a DEF ExportStale, JobOK
  <2>2. /\ f[r].out = job[t].file[r].out /\ f[r].through = job[t].file[r].through
        /\ \A q \in Rooms \ {r} : f[q] = job[t].file[q]
    BY <1>a DEF Entry
  <2>3. /\ Become(t, j) /\ j.pc = "write" /\ j.file = f
        /\ j.room = r /\ j.want = job[t].want
    BY <1>3, <1>a DEF ExportStale, Room, Job
  <2> HIDE DEF j, f
  <2>4. Exported(r, f)
    BY <2>1, <2>2 DEF Exported
  <2>5. QED BY <1>c, <2>3, <2>4, FileStepNames
<1>4. QED BY <1>1, <1>2, <1>3

-----------------------------------------------------------------------------
(* The steps in the window *)

\* While one job is in the window, nothing is asked of the others.
LEMMA OthersOut ==
  ASSUME OneInWindow, NEW t \in Jobs, InWindow(t),
         \A u \in Jobs \ {t} : job'[u] = job[u]
  PROVE  /\ \A u \in Jobs \ {t} : JobOK(u)'
         /\ \A u \in Jobs \ {t}, r \in Rooms : ~Pending(u, r) /\ ~Pending(u, r)'
<1>1. \A u \in Jobs \ {t} : ~InWindow(u)
  BY DEF OneInWindow
<1>2. \A u \in Jobs \ {t} : job'[u].pc \notin FileSteps \cup {"raise", "restoreChains", "restoreStale"}
  BY <1>1 DEF InWindow, RestoreSteps
<1>3. \A u \in Jobs \ {t} : JobOK(u)'
  BY <1>2, NothingAsked
<1>4. QED BY <1>1, <1>2, <1>3 DEF InWindow, Pending

LEMMA WindowNames ==
  /\ "mint" \notin FileSteps /\ "raise" \notin FileSteps /\ "seal" \notin FileSteps
  /\ "broadcast" \notin FileSteps \cup {"raise", "restoreChains", "restoreStale"}
  /\ "reserve" \notin FileSteps \cup {"raise", "restoreChains", "restoreStale"}
  /\ "restoreChains" \notin FileSteps
  /\ {"restoreLoad", "restoreChains", "restoreStale"} = RestoreSteps
  BY DEF FileSteps, RestoreSteps

\* A fresh chain has sealed nothing and promised nothing.
LEMMA MintDurable ==
  ASSUME MemoryInv, DurableInv, OneInWindow, NEW s \in Senders, NEW c \in Chains, MintChain(s, c)
  PROVE  DurableInv'
<1>a. /\ TypeOK /\ ChainsBelong /\ s \in Jobs /\ job[s] \in Job /\ InWindow(s)
      /\ Room(s) \in Rooms /\ mem[Room(s)] \in RoomKeys
      /\ disk' = disk /\ sealed' = sealed /\ job[s].pc = "mint"
  BY RoomType, StepNames DEF MemoryInv, MintChain, At, Jobs, TypeOK, InWindow
<1>b. PICK j \in {[job[s] EXCEPT !.pc = "reserve"], [job[s] EXCEPT !.pc = "broadcast", !.chain = c]} :
        Become(s, j)
  BY DEF MintChain, Goto
<1>c. j.pc \in {"reserve", "broadcast"}
  BY <1>a DEF Job
<1>d. job'[s] = j /\ \A u \in Jobs \ {s} : job'[u] = job[u]
  BY <1>a, <1>b, OneJob
<1>1. JobsOK'
  BY <1>a, <1>c, <1>d, OthersOut, NothingAsked, WindowNames DEF JobsOK
<1>2. \A r \in Rooms : mem'[r] = mem[r] \/ (r = Room(s) /\ mem'[r] = Fresh(mem[r], c) /\ c \notin AllMinted)
  BY <1>a DEF MintChain, TypeOK
<1>3. \A r \in Rooms : c \notin AllMinted => c \notin minted[r]
  BY DEF AllMinted
<1>4. \A x \in sealed : c \notin AllMinted => x.chain # c
  BY <1>a, <1>3 DEF ChainsBelong
<1>5. \A k \in RoomKeys : /\ Fresh(k, c).out = c /\ Fresh(k, c).idx = 0
                          /\ Fresh(k, c).reserved = 0
  BY DEF Fresh, RoomKeys
<1>6. BehindMemory'
  BY <1>a, <1>2, <1>4, <1>5 DEF DurableInv, BehindMemory, TypeOK
<1>7. \A r \in Rooms : Backed(r)'
  <2>1. \A r \in Rooms : \A u \in Jobs : ~Pending(u, r)
    BY <1>a, <1>d, OthersOut, WindowNames DEF Pending
  <2>2. \A r \in Rooms : Backed(r)
    BY <2>1 DEF DurableInv, PromisesBacked
  <2>3. QED BY <1>a, <1>2, <1>5, <2>2 DEF Backed, TypeOK
<1>8. QED BY <1>1, <1>6, <1>7, <1>a
      DEF DurableInv, BehindDisk, PromisesBacked, NoPositionReused

\* The promise is made in memory, and is being written from here on.
LEMMA RaiseDurable ==
  ASSUME MemoryInv, DurableInv, OneInWindow, NEW s \in Senders, RaiseReservation(s)
  PROVE  DurableInv'
<1>0. job[s].room \in Rooms
  BY RoomOfJob, StepNames DEF MemoryInv, RaiseReservation, At, Jobs
<1>z. PICK r \in Rooms : r = job[s].room
  BY <1>0
<1> DEFINE k == PromisedTo(mem[r], job[s].want)
           j == [job[s] EXCEPT !.pc = "load"]
<1>a. /\ TypeOK /\ s \in Jobs /\ job[s] \in Job /\ InWindow(s)
      /\ r \in Rooms /\ mem[r] \in RoomKeys /\ JobOK(s)
      /\ disk' = disk /\ sealed' = sealed /\ job[s].pc = "raise"
      /\ mem' = [mem EXCEPT ![r] = k] /\ Become(s, j)
  BY <1>z, RoomType, StepNames
     DEF MemoryInv, DurableInv, JobsOK, RaiseReservation, At, Goto, Jobs, TypeOK, InWindow, Room
<1>b. j.pc = "load" /\ j.room = r /\ j.want = job[s].want /\ job[s].want \in Nat
  BY <1>a, <1>z DEF Job
<1>c. k.out = mem[r].out /\ k.idx = mem[r].idx /\ k.reserved = job[s].want
  BY <1>a, <1>b, <1>z DEF JobOK, PromisedTo, larger, RoomKeys
<1>d. /\ mem'[r] = k /\ \A q \in Rooms \ {r} : mem'[q] = mem[q]
      /\ job'[s] = j /\ \A u \in Jobs \ {s} : job'[u] = job[u]
  BY <1>a, OneJob DEF TypeOK
<1> HIDE DEF j, k
<1>1. JobOK(s)'
  BY <1>b, <1>c, <1>d DEF JobOK
<1>2. JobsOK'
  BY <1>1, <1>a, <1>d, OthersOut DEF JobsOK
<1>3. BehindMemory'
  BY <1>a, <1>c, <1>d DEF DurableInv, BehindMemory
<1>4. PromisesBacked'
  <2>1. \A q \in Rooms : \A u \in Jobs : ~Pending(u, q)
    BY <1>a, <1>d, OthersOut, WindowNames DEF Pending
  <2>2. \A q \in Rooms \ {r} : Backed(q)'
    BY <2>1, <1>a, <1>d DEF DurableInv, PromisesBacked, Backed
  <2>3. Pending(s, r)'
    BY <1>b, <1>d, FileStepNames DEF Pending
  <2>4. QED BY <1>a, <2>2, <2>3 DEF PromisesBacked
<1>5. QED BY <1>2, <1>3, <1>4, <1>a DEF DurableInv, BehindDisk, NoPositionReused

\* The seal: the position is memory's next, and the file has promised it.
LEMMA SealDurable ==
  ASSUME MemoryInv, DurableInv, OneInWindow, NEW s \in Senders, SealRoomMessage(s)
  PROVE  DurableInv'
<1> DEFINE r == job[s].room
           k == mem[r]
           new == [chain |-> k.out, pos |-> k.idx, msg |-> sent, load |-> loads]
<1>a. /\ TypeOK /\ ChainsBelong /\ s \in Jobs /\ InWindow(s)
      /\ r \in Rooms /\ k \in RoomKeys /\ k.idx \in Nat
      /\ disk' = disk /\ job[s].pc = "seal" /\ Become(s, Idle)
  BY RoomType, StepNames
     DEF MemoryInv, SealRoomMessage, At, Finish, Jobs, TypeOK, InWindow, Room, RoomKeys
<1>b. job'[s] = Idle /\ \A u \in Jobs \ {s} : job'[u] = job[u]
  BY <1>a, OneJob
<1>c. JobsOK'
  BY <1>a, <1>b, IdleType, OthersOut, NothingAsked, FileStepNames DEF JobsOK
<1>d. \A q \in Rooms : Backed(q)
  BY <1>a, <1>b, OthersOut, WindowNames DEF Pending, DurableInv, PromisesBacked
<1>1. CASE sealed' = sealed /\ mem' = mem
  BY <1>1, <1>a, <1>c, <1>d
     DEF DurableInv, BehindMemory, BehindDisk, PromisesBacked, Backed, NoPositionReused
<1>2. CASE ~(sealed' = sealed /\ mem' = mem)
  <2>1. /\ k.out # None /\ k.idx < k.reserved
        /\ sealed' = sealed \cup {new}
        /\ mem' = [mem EXCEPT ![r] = NextPosition(k)]
    BY <1>2 DEF SealRoomMessage, Usable, Promised, Room
  <2>2. new.chain = k.out /\ new.pos = k.idx
    OBVIOUS
  <2>3. /\ mem'[r].out = k.out /\ mem'[r].idx = k.idx + 1 /\ mem'[r].reserved = k.reserved
        /\ \A q \in Rooms \ {r} : mem'[q] = mem[q]
    BY <1>a, <2>1 DEF NextPosition, RoomKeys, TypeOK
  <2>4. \A q \in Rooms \ {r} : mem[q].out # k.out /\ disk[q].out # k.out
    BY <1>a, <2>1 DEF ChainsBelong, Belongs
  <2>5. disk[r].out = k.out /\ k.reserved <= disk[r].through
    BY <1>a, <1>d, <2>1 DEF Backed, RoomKeys
  <2>6. \A x \in sealed : x.chain = k.out => x.pos < k.idx
    BY <1>a DEF DurableInv, BehindMemory
  <2>7. \A x \in sealed : x.pos \in Nat
    BY <1>a DEF TypeOK
  <2>8. disk[r].through \in Nat /\ k.reserved \in Nat
    BY <1>a DEF TypeOK, Entry, RoomKeys
  <2> HIDE DEF new
  <2>9. BehindMemory'
    <3>1. \A x \in sealed, q \in Rooms : mem'[q].out = x.chain => x.pos < mem'[q].idx
      BY <1>a, <2>3, <2>6, <2>7 DEF DurableInv, BehindMemory
    <3>2. \A q \in Rooms : mem'[q].out = new.chain => new.pos < mem'[q].idx
      BY <1>a, <2>2, <2>3, <2>4
    <3>3. QED BY <2>1, <3>1, <3>2 DEF BehindMemory
  <2>10. BehindDisk'
    <3>1. \A x \in sealed, q \in Rooms : disk[q].out = x.chain => x.pos < disk[q].through
      BY DEF DurableInv, BehindDisk
    <3>2. \A q \in Rooms : disk[q].out = new.chain => new.pos < disk[q].through
      BY <1>a, <2>1, <2>2, <2>4, <2>5, <2>8
    <3>3. QED BY <1>a, <2>1, <3>1, <3>2 DEF BehindDisk
  <2>11. NoPositionReused'
    BY <1>a, <2>1, <2>2, <2>6, <2>7 DEF DurableInv, NoPositionReused
  <2>12. PromisesBacked'
    <3>1. \A q \in Rooms : Backed(q)'
      BY <1>a, <1>d, <2>3, <2>5 DEF Backed
    <3>2. QED BY <3>1 DEF PromisesBacked
  <2>13. QED BY <1>c, <2>9, <2>10, <2>11, <2>12 DEF DurableInv
<1>3. QED BY <1>1, <1>2

\* The write: the file resumes where memory's chain would.
LEMMA WriteDurable ==
  ASSUME MemoryInv, DurableInv, OneInWindow, NEW t \in Jobs, WriteFile(t)
  PROVE  DurableInv'
<1>0. job[t].room \in Rooms
  BY RoomOfJob, StepNames DEF MemoryInv, WriteFile, At
<1>z. PICK r \in Rooms : r = job[t].room
  BY <1>0
<1>a. /\ TypeOK /\ job[t].pc = "write" /\ InWindow(t)
      /\ mem' = mem /\ sealed' = sealed /\ disk' = job[t].file
      /\ mem[r] \in RoomKeys /\ Exported(r, job[t].file)
  BY <1>z, RoomType, StepNames
     DEF MemoryInv, DurableInv, JobsOK, JobOK, WriteFile, At, InWindow, TypeOK
<1>b. PICK j \in {[Idle EXCEPT !.pc = "seal", !.room = Room(t)], Idle} : Become(t, j)
  BY DEF WriteFile, Finish
<1>c. j.pc \in {"seal", "idle"}
  BY IdleType DEF Idle
<1>d. job'[t] = j /\ \A u \in Jobs \ {t} : job'[u] = job[u]
  BY <1>a, <1>b, OneJob
<1>1. JobsOK'
  BY <1>a, <1>c, <1>d, OthersOut, NothingAsked, FileStepNames DEF JobsOK
<1>e. larger(mem[r].reserved, mem[r].idx) >= mem[r].idx
      /\ larger(mem[r].reserved, mem[r].idx) >= mem[r].reserved
      /\ mem[r].idx \in Nat /\ mem[r].reserved \in Nat
  BY <1>a DEF larger, RoomKeys
<1>f. /\ \A q \in Rooms \ {r} : disk'[q] = disk[q]
      /\ mem[r].out = None =>
           disk'[r].out = disk[r].out /\ (disk'[r].out # None => disk'[r].through = disk[r].through)
      /\ mem[r].out # None =>
           disk'[r].out = mem[r].out /\ disk'[r].through = larger(mem[r].reserved, mem[r].idx)
  BY <1>a DEF Exported
<1>2. BehindDisk'
  <2>1. \A x \in sealed : x.pos \in Nat /\ x.chain # None
    BY <1>a, ChainsAssumption DEF TypeOK
  <2>2. \A x \in sealed, q \in Rooms \ {r} : disk'[q].out = x.chain => x.pos < disk'[q].through
    BY <1>f DEF DurableInv, BehindDisk
  <2>3. \A x \in sealed : disk'[r].out = x.chain => x.pos < disk'[r].through
    <3>1. CASE mem[r].out = None
      BY <1>f, <2>1, <3>1 DEF DurableInv, BehindDisk
    <3>2. CASE mem[r].out # None
      <4>1. \A x \in sealed : mem[r].out = x.chain => x.pos < mem[r].idx
        BY DEF DurableInv, BehindMemory
      <4> DEFINE through == larger(mem[r].reserved, mem[r].idx)
      <4>2. through >= mem[r].idx /\ through \in Nat /\ disk'[r].through = through
            /\ disk'[r].out = mem[r].out
        BY <1>e, <1>f, <3>2 DEF larger
      <4> HIDE DEF through
      <4>3. QED BY <1>e, <2>1, <4>1, <4>2
    <3>3. QED BY <3>1, <3>2
  <2>4. QED BY <1>a, <2>2, <2>3 DEF BehindDisk
<1>3. PromisesBacked'
  <2>1. \A q \in Rooms \ {r} : \A u \in Jobs : ~Pending(u, q)
    BY <1>a, <1>d, <1>z, OthersOut DEF Pending
  <2>2. \A q \in Rooms \ {r} : Backed(q)'
    BY <2>1, <1>a, <1>f DEF DurableInv, PromisesBacked, Backed
  <2>3. Backed(r)'
    BY <1>a, <1>e, <1>f DEF Backed
  <2>4. QED BY <2>2, <2>3 DEF PromisesBacked
<1>4. QED BY <1>1, <1>2, <1>3, <1>a DEF DurableInv, BehindMemory, NoPositionReused

\* A write that failed: the promise is taken back to where the chain stands.
LEMMA FailDurable ==
  ASSUME MemoryInv, DurableInv, OneInWindow, NEW t \in Jobs, FileFails(t)
  PROVE  DurableInv'
<1>0. job[t].room \in Rooms
  BY RoomOfJob, StepNames DEF MemoryInv, FileFails, At
<1>z. PICK r \in Rooms : r = job[t].room
  BY <1>0
<1>a. /\ TypeOK /\ job[t].pc \in FileSteps /\ InWindow(t) /\ Become(t, Idle)
      /\ sealed' = sealed /\ disk' = disk /\ mem[r] \in RoomKeys /\ JobOK(t)
  BY <1>z, FileStepNames DEF MemoryInv, DurableInv, JobsOK, FileFails, At, Finish, InWindow, TypeOK
<1>b. job'[t].pc = "idle" /\ \A u \in Jobs \ {t} : job'[u] = job[u]
  BY <1>a, OneJob, IdleType
<1>1. JobsOK'
  BY <1>a, <1>b, OthersOut, NothingAsked, FileStepNames DEF JobsOK
<1>c. \A q \in Rooms : q # r \/ t \notin Senders => \A u \in Jobs : ~Pending(u, q)
  BY <1>a, <1>b, <1>z, OthersOut DEF Pending
<1>d. \A q \in Rooms : q # r \/ t \notin Senders => Backed(q) /\ mem'[q] = mem[q]
  <2>1. \A q \in Rooms : q # r \/ t \notin Senders => Backed(q)
    BY <1>c DEF DurableInv, PromisesBacked
  <2>2. \A q \in Rooms : q # r \/ t \notin Senders => mem'[q] = mem[q]
    BY <1>z DEF FileFails, Room, MemoryInv, TypeOK
  <2>3. QED BY <2>1, <2>2
<1>e. t \in Senders => /\ mem'[r].out = mem[r].out /\ mem'[r].idx = mem[r].idx
                       /\ mem'[r].reserved = mem[r].idx
  <2> SUFFICES ASSUME t \in Senders
               PROVE  /\ mem'[r].out = mem[r].out /\ mem'[r].idx = mem[r].idx
                      /\ mem'[r].reserved = mem[r].idx
    OBVIOUS
  <2>1. mem[r].reserved = job[t].want
    BY <1>a, <1>z DEF JobOK
  <2>2. mem' = [mem EXCEPT ![r] = RolledBack(mem[r], job[t].want)]
    BY <1>z DEF FileFails, Room
  <2>3. mem'[r] = RolledBack(mem[r], job[t].want)
    BY <1>a, <2>2 DEF TypeOK
  <2>4. QED BY <1>a, <2>1, <2>3 DEF RolledBack, RoomKeys
<1>2. \A q \in Rooms : mem'[q].out = mem[q].out /\ mem'[q].idx = mem[q].idx
  BY <1>d, <1>e
<1>3. \A q \in Rooms : Backed(q)'
  <2>1. mem[r].idx \in Nat
    BY <1>a DEF RoomKeys
  <2>2. QED BY <1>a, <1>d, <1>e, <2>1 DEF Backed
<1>4. BehindMemory'
  BY <1>a, <1>2 DEF DurableInv, BehindMemory
<1>5. QED BY <1>1, <1>3, <1>4, <1>a DEF DurableInv, BehindDisk, PromisesBacked, NoPositionReused

\* A restore: memory resumes where the file says, past everything sealed.
LEMMA RestoreDurable ==
  ASSUME MemoryInv, DurableInv, OneInWindow, NEW v \in Keepers, RestoreChains(v)
  PROVE  DurableInv'
<1> DEFINE j == [job[v] EXCEPT !.pc = "restoreStale"]
<1>a. /\ TypeOK /\ v \in Jobs /\ v \notin Senders /\ job[v].pc = "restoreChains" /\ InWindow(v)
      /\ sealed' = sealed /\ disk' = disk /\ job[v] \in Job /\ Become(v, j)
      /\ job[v].file = disk
  BY JobsAssumption, WindowNames
     DEF MemoryInv, DurableInv, JobsOK, JobOK, RestoreChains, At, Goto, InWindow, TypeOK, Jobs
<1>b. j.pc = "restoreStale" /\ j.file = disk
  BY <1>a DEF Job
<1> HIDE DEF j
<1>c. job'[v] = j /\ \A u \in Jobs \ {v} : job'[u] = job[u]
  BY <1>a, OneJob
<1>1. JobsOK'
  <2>1. JobOK(v)'
    BY <1>a, <1>b, <1>c DEF JobOK
  <2>2. QED BY <2>1, <1>a, <1>c, OthersOut DEF JobsOK
<1>d. \A q \in Rooms : /\ mem[q] \in RoomKeys /\ disk[q] \in Entry
                       /\ mem'[q] = Restored(mem[q], disk[q])
  BY <1>a DEF RestoreChains, TypeOK
<1>e. \A k \in RoomKeys, e \in Entry :
        LET n == Restored(k, e) IN
        \/ n.out = k.out /\ n.idx = k.idx /\ n.reserved = k.reserved
        \/ n.out = e.out /\ n.idx = e.through /\ n.reserved = e.through
  BY DEF Restored, RoomKeys, Entry
<1>f. \A q \in Rooms :
        \/ /\ mem'[q].out = mem[q].out /\ mem'[q].idx = mem[q].idx
           /\ mem'[q].reserved = mem[q].reserved
        \/ /\ mem'[q].out = disk[q].out /\ mem'[q].idx = disk[q].through
           /\ mem'[q].reserved = disk[q].through
  BY <1>d, <1>e
<1>2. BehindMemory'
  BY <1>a, <1>f DEF DurableInv, BehindMemory, BehindDisk
<1>3. \A q \in Rooms : Backed(q)'
  <2>1. \A q \in Rooms : \A u \in Jobs : ~Pending(u, q)
    BY <1>a, <1>c, OthersOut DEF Pending
  <2>2. \A q \in Rooms : Backed(q) /\ disk[q].through \in Nat
    BY <2>1, <1>d DEF DurableInv, PromisesBacked, Entry
  <2>3. QED BY <1>a, <1>f, <2>2 DEF Backed
<1>4. QED BY <1>1, <1>2, <1>3, <1>a DEF DurableInv, BehindDisk, PromisesBacked, NoPositionReused

\* The process dies: memory resumes nothing, the file stays what it was.
LEMMA ProcessDurable ==
  ASSUME TypeOK, DurableInv, SignOff \/ Crash
  PROVE  DurableInv'
<1>1. CASE SignOff
  <2>1. /\ mem' = mem /\ disk' = disk /\ sealed' = sealed /\ job' = job
    BY <1>1 DEF SignOff
  <2>2. QED BY <2>1 DEF DurableInv, BehindMemory, BehindDisk, PromisesBacked, Backed, Pending,
                        JobsOK, JobOK, Exported, NoPositionReused
<1>2. CASE Crash
  <2>1. /\ disk' = disk /\ sealed' = sealed
        /\ \A r \in Rooms : mem'[r].out = None
        /\ \A t \in Jobs : job'[t].pc = "idle"
    BY <1>2, IdleType DEF Crash, NoRoomKeys
  <2>2. \A x \in sealed : x.chain # None
    BY ChainsAssumption DEF TypeOK
  <2>3. JobsOK'
    BY <2>1, NothingAsked, FileStepNames DEF JobsOK
  <2>4. QED BY <2>1, <2>2, <2>3
            DEF DurableInv, BehindMemory, BehindDisk, PromisesBacked, Backed, NoPositionReused
<1>3. QED BY <1>1, <1>2

Inv == MemoryInv /\ OneInWindow /\ DurableInv

LEMMA DurableStep == Inv /\ [Next /\ OneInWindow']_vars => Inv'
<1> SUFFICES ASSUME Inv, [Next /\ OneInWindow']_vars PROVE Inv'
  OBVIOUS
<1>a. MemoryInv /\ TypeOK /\ OneInWindow /\ DurableInv
  BY DEF Inv, MemoryInv
<1>b. MemoryInv'
  BY <1>a, MemoryStep
<1>c. OneInWindow'
  <2>1. CASE UNCHANGED vars
    BY <1>a, <2>1 DEF vars, OneInWindow, InWindow
  <2>2. QED BY <2>1
<1>d. DurableInv'
  <2>1. ASSUME NEW s \in Senders, SenderStep(s) PROVE DurableInv'
    BY <1>a, <2>1, SenderInert, MintDurable, RaiseDurable, SealDurable DEF SenderStep
  <2>2. ASSUME NEW v \in Keepers, KeeperStep(v) PROVE DurableInv'
    BY <1>a, <2>2, KeeperInert, RestoreDurable DEF KeeperStep
  <2>3. ASSUME NEW t \in Jobs, FileStep(t) PROVE DurableInv'
    BY <1>a, <2>3, FileInert, WriteDurable, FailDurable DEF FileStep
  <2>4. ASSUME NEW r \in Rooms, MarkRoomEncrypted(r) PROVE DurableInv'
    <3> DEFINE k == [mem[r] EXCEPT !.encrypted = TRUE]
    <3>1. /\ mem' = [mem EXCEPT ![r] = k]
          /\ k.out = mem[r].out /\ k.idx = mem[r].idx /\ k.reserved = mem[r].reserved
      BY <1>a, <2>4 DEF MarkRoomEncrypted, TypeOK, RoomKeys
    <3> HIDE DEF k
    <3>2. \A q \in Rooms : /\ mem'[q].out = mem[q].out /\ mem'[q].idx = mem[q].idx
                           /\ mem'[q].reserved = mem[q].reserved
      BY <1>a, <3>1, SamePromise
    <3>3. disk' = disk /\ sealed' = sealed /\ job' = job
      BY <2>4 DEF MarkRoomEncrypted
    <3>4. ASSUME NEW t \in Jobs PROVE DurableInv'
      <4>1. Inert(t) /\ \A q \in Rooms : Pending(t, q) => Pending(t, q)'
        BY <3>2, <3>3 DEF Inert, Pending
      <4>2. \A f : \A q \in Rooms : Exported(q, f) => Exported(q, f)'
        BY <3>2, <3>3 DEF Exported
      <4>3. job[t].pc \in FileSteps \cup {"raise"} => job[t].room \in Rooms
        BY <1>a, RoomOfJob, StepNames
      <4>4. JobOK(t)'
        BY <1>a, <3>2, <3>3, <4>2, <4>3, StepNames DEF DurableInv, JobsOK, JobOK
      <4>5. QED BY <1>a, <4>1, <4>4, InertStep
    <3>5. CASE Jobs = {}
      BY <1>a, <3>2, <3>3, <3>5
         DEF DurableInv, BehindMemory, BehindDisk, PromisesBacked, Backed, JobsOK, NoPositionReused
    <3>6. QED BY <3>4, <3>5
  <2>5. CASE SignOff \/ Crash
    BY <1>a, <2>5, ProcessDurable
  <2>6. CASE UNCHANGED vars
    <3>1. /\ mem' = mem /\ disk' = disk /\ sealed' = sealed /\ job' = job
      BY <2>6 DEF vars
    <3>2. QED BY <1>a, <3>1
              DEF DurableInv, BehindMemory, BehindDisk, PromisesBacked, Backed, Pending,
                  JobsOK, JobOK, Exported, NoPositionReused
  <2>7. QED BY <2>1, <2>2, <2>3, <2>4, <2>5, <2>6 DEF Next
<1>e. QED BY <1>b, <1>c, <1>d DEF Inv

LEMMA InvHolds == OneWindowSpec => []Inv
<1>1. Init => Inv
  BY MemoryInit, DurableInit DEF Inv
<1>2. QED BY <1>1, DurableStep, PTL DEF OneWindowSpec

\* While no two goroutines are in the window together, no position of a chain
\* ever seals two messages, over any number of crashes, failed writes, sign-offs
\* and restores, for any reservation block (roomkeys.Room.Out).
THEOREM NeverReused == OneWindowSpec => []NoPositionReused
<1>1. Inv => NoPositionReused BY DEF Inv, DurableInv
<1>2. QED BY <1>1, InvHolds, PTL

\* While no two goroutines are in the window together, a message about to be
\* sealed has its position promised on disk (reserveChainPositions).
THEOREM PromiseKept == OneWindowSpec => []PromiseOnDisk
<1>1. Inv => PromiseOnDisk
  <2> SUFFICES ASSUME Inv, NEW s \in Senders,
                      At(s, "seal"), Usable(mem[Room(s)]), Promised(mem[Room(s)])
               PROVE  disk[Room(s)].out = mem[Room(s)].out /\ mem[Room(s)].idx < disk[Room(s)].through
    BY DEF PromiseOnDisk
  <2>1. s \in Jobs /\ InWindow(s) /\ Room(s) \in Rooms /\ mem[Room(s)] \in RoomKeys
    BY RoomType, StepNames DEF Inv, MemoryInv, At, InWindow, Jobs
  <2>2. \A u \in Jobs \ {s} : ~InWindow(u)
    BY <2>1 DEF Inv, OneInWindow
  <2>3. \A u \in Jobs : ~Pending(u, Room(s))
    BY <2>2, WindowNames DEF Pending, InWindow, At
  <2>4. Backed(Room(s))
    BY <2>1, <2>3 DEF Inv, DurableInv, PromisesBacked
  <2>5. disk[Room(s)].through \in Nat
    BY <2>1 DEF Inv, MemoryInv, TypeOK, Entry
  <2>6. QED BY <2>1, <2>4, <2>5 DEF Backed, Usable, Promised, RoomKeys
<1>2. QED BY <1>1, InvHolds, PTL

-----------------------------------------------------------------------------
(* The machinery implements chains that only move forward *)

Log == {[chain |-> x.chain, pos |-> x.pos, msg |-> x.msg] : x \in sealed}

\* Only the seal writes the log, and past everything its chain has in it.
LEMMA LogStep == Inv /\ [Next /\ OneInWindow']_vars => [Ledger!Next]_Log
<1> SUFFICES ASSUME Inv, [Next /\ OneInWindow']_vars PROVE Ledger!Next \/ Log' = Log
  OBVIOUS
<1>1. CASE sealed' = sealed
  BY <1>1 DEF Log
<1>2. CASE sealed' # sealed
  <2>1. PICK s \in Senders : SealRoomMessage(s)
    BY <1>2 DEF Next, SenderStep, KeeperStep, FileStep, vars, StartSend, MintChain, SendFails,
            BroadcastChain, MarkChainShared, CheckReservation, RaiseReservation,
            StartSave, MarkChainStale, StartRestore, RestoreLoad, RestoreFails, RestoreChains,
            RestoreStale, LoadFile, ExportChain, ExportStale, WriteFile, FileFails,
            MarkRoomEncrypted, SignOff, Crash
  <2> DEFINE k == mem[Room(s)]
             new == [chain |-> k.out, pos |-> k.idx, msg |-> sent, load |-> loads]
  <2>2. k.out # None /\ sealed' = sealed \cup {new}
    BY <1>2, <2>1 DEF SealRoomMessage, Usable
  <2>3. Room(s) \in Rooms /\ k \in RoomKeys /\ sent \in Nat
    BY <2>1, RoomType, StepNames DEF Inv, MemoryInv, SealRoomMessage, At, Jobs, TypeOK
  <2>4. PICK m \in Ledger!Messages : m = [chain |-> k.out, pos |-> k.idx, msg |-> sent]
    BY <2>2, <2>3 DEF Ledger!Messages, RoomKeys
  <2>5. new.chain = m.chain /\ new.pos = m.pos /\ new.msg = m.msg
    BY <2>4
  <2>6. \A y \in Log : y.chain = m.chain => y.pos < m.pos
    BY <2>3, <2>4 DEF Log, Inv, DurableInv, BehindMemory
  <2> HIDE DEF new
  <2>7. [chain |-> new.chain, pos |-> new.pos, msg |-> new.msg] = m
    BY <2>4, <2>5
  <2>8. Log' = {[chain |-> x.chain, pos |-> x.pos, msg |-> x.msg] : x \in sealed'}
    BY DEF Log
  <2>9. Log' = Log \cup {m}
    BY <2>2, <2>7, <2>8, Zenon DEF Log
  <2>10. Ledger!Seal(m)
    BY <2>6, <2>9 DEF Ledger!Seal, Log
  <2>11. m \in {[chain |-> x.chain, pos |-> x.pos, msg |-> x.msg] : x \in sealed'}
    BY <2>8, <2>9, Zenon
  <2>12. Ledger!Next
    BY <2>10, <2>11 DEF Ledger!Next
  <2>13. QED BY <2>12
<1>3. QED BY <1>1, <1>2

\* The sending machinery implements ForwardChains: each seal is past every
\* earlier one of its chain, and nothing else adds to what was sealed.
THEOREM ImplementsForwardChains == OneWindowSpec => ChainsOnlyMoveForward
<1>1. Init => Ledger!Init
  BY DEF Init, Ledger!Init
<1>2. Inv /\ [Next /\ OneInWindow']_vars
        => [Ledger!Next]_{[chain |-> x.chain, pos |-> x.pos, msg |-> x.msg] : x \in sealed}
  BY LogStep DEF Log
<1>3. QED BY <1>1, <1>2, InvHolds, PTL DEF OneWindowSpec, ChainsOnlyMoveForward, Ledger!Spec

-----------------------------------------------------------------------------
(* Positions are reserved, removals are kept *)

\* The process has rooms to use, or a job that uses them.
Alive == up \/ \E t \in Jobs : job[t].pc \in SendSteps \cup FileSteps \cup {"restoreStale"}

\* Then memory has whatever the file has.
Loaded ==
  Alive => \A r \in Rooms : /\ disk[r].out # None => mem[r].out # None
                            /\ disk[r].known => mem[r].encrypted

\* A chain that a saved removal ended is due for replacement, in the file and in memory
\* (where a restore under way is about to mark it).
DiskMarked == \A r \in Rooms : disk[r].out \in retired => disk[r].stale

MemMarked ==
  \A r \in Rooms : mem[r].out \in retired =>
    mem[r].stale \/ (disk[r].stale /\ \E v \in Jobs : job[v].pc = "restoreStale")

RoomsKept ==
  /\ retired \subseteq AllMinted
  /\ \A r \in Rooms : /\ mem[r].idx <= mem[r].reserved
                      /\ mem[r].out # None => mem[r].encrypted
                      /\ disk[r].out # None => disk[r].known

\* What a job counts on until it has written and sealed.
JobKept(t) ==
  LET j == job[t]
      k == mem[j.room] IN
  /\ t \in Senders /\ j.pc \in FileSteps => k.idx < k.reserved
  /\ t \in Senders /\ j.pc = "seal" => k.out = None \/ k.idx < k.reserved
  /\ j.pc \in FileSteps \cup {"raise"} => k.encrypted
  /\ j.ends # {} => j.pc \in FileSteps /\ j.ends = minted[j.room] /\ k.stale
  /\ j.pc \in {"exportStale", "write"} => j.file[j.room].known
  /\ j.pc = "write" /\ k.out # None => j.file[j.room].stale = k.stale

KeptInv ==
  /\ RoomsKept
  /\ \A t \in Jobs : JobKept(t)
  /\ unreadable = 0 => Loaded /\ DiskMarked /\ MemMarked

LEMMA KeptInit == Init => KeptInv
<1> SUFFICES ASSUME Init PROVE KeptInv
  OBVIOUS
<1>1. \A r \in Rooms : /\ mem[r].out = None /\ mem[r].idx = 0 /\ mem[r].reserved = 0
                       /\ disk[r].out = None
  BY DEF Init, NoRoomKeys, NoFile, NoEntry
<1>2. \A t \in Jobs : job[t].pc = "idle" /\ job[t].ends = {}
  BY DEF Init, Idle
<1>3. retired = {} /\ up = FALSE
  BY DEF Init
<1>4. ~Alive
  BY <1>2, <1>3 DEF Alive, SendSteps, FileSteps
<1>5. \A t \in Jobs : JobKept(t)
  BY <1>2, FileStepNames DEF JobKept
<1>6. QED BY <1>1, <1>3, <1>4, <1>5 DEF KeptInv, RoomsKept, Loaded, DiskMarked, MemMarked

\* A room's chain, as far as what is kept goes.
Same(r) ==
  /\ mem'[r].out = mem[r].out /\ mem'[r].idx = mem[r].idx
  /\ mem'[r].reserved = mem[r].reserved /\ mem'[r].stale = mem[r].stale
  /\ mem[r].encrypted => mem'[r].encrypted

LEMMA StillKept ==
  ASSUME TypeOK, NEW t \in Jobs, JobKept(t), job'[t] = job[t], minted' = minted,
         \A r \in Rooms : Same(r)
  PROVE  JobKept(t)'
<1>1. job[t].pc \in FileSteps \cup {"raise", "seal"} => job[t].room \in Rooms
  BY RoomOfJob, StepNames
<1>2. QED BY <1>1, FileStepNames DEF JobKept, Same

\* Steps that change no chain, no file and no removal.
LEMMA CalmKept ==
  ASSUME TypeOK, KeptInv, UNCHANGED <<disk, minted, retired>>, \A r \in Rooms : Same(r),
         \A t \in Jobs : job'[t] = job[t] \/ (JobKept(t)' /\ job[t].pc # "restoreStale"),
         unreadable' = 0 => unreadable = 0 /\ (Alive' => Alive)
  PROVE  KeptInv'
<1>1. \A t \in Jobs : JobKept(t)'
  BY StillKept DEF KeptInv
<1>2. RoomsKept'
  BY DEF KeptInv, RoomsKept, AllMinted, Same
<1>3. unreadable' = 0 => Loaded' /\ DiskMarked'
  BY DEF KeptInv, Loaded, DiskMarked, Same
<1>4. unreadable' = 0 => MemMarked'
  <2>1. \A v \in Jobs : job[v].pc = "restoreStale" => job'[v].pc = "restoreStale"
    OBVIOUS
  <2>2. QED BY <2>1 DEF KeptInv, MemMarked, Same
<1>5. QED BY <1>1, <1>2, <1>3, <1>4 DEF KeptInv

\* A job asked for nothing.
LEMMA NothingKept ==
  ASSUME NEW t \in Jobs, job'[t].pc \notin FileSteps \cup {"raise", "seal"}, job'[t].ends = {}
  PROVE  JobKept(t)'
  BY FileStepNames DEF JobKept

\* Nothing is asked of the jobs outside the window.
LEMMA AsideKept ==
  ASSUME NEW t \in Jobs, JobKept(t), job'[t] = job[t], ~InWindow(t)
  PROVE  JobKept(t)'
<1>1. job[t].pc \notin FileSteps \cup {"raise", "seal"}
  BY DEF InWindow
<1>2. job[t].ends = {}
  BY <1>1 DEF JobKept
<1>3. QED BY <1>1, <1>2, NothingKept

\* The job at work is the only one in the window.
LEMMA OnlyOne ==
  ASSUME OneInWindow, NEW t \in Jobs, InWindow(t)
  PROVE  \A u \in Jobs \ {t} : ~InWindow(u) /\ job[u].pc # "restoreStale"
  BY DEF OneInWindow, InWindow, RestoreSteps

\* The sender's steps before its promise, and after it failed to get that far.
LEMMA SenderCalm ==
  ASSUME TypeOK, KeptInv, NEW s \in Senders,
         \/ \E r \in Rooms : StartSend(s, r)
         \/ SendFails(s) \/ BroadcastChain(s) \/ MarkChainShared(s) \/ CheckReservation(s)
  PROVE  KeptInv'
<1> USE DEF At, Goto, Finish, Jobs
<1>a. job[s] \in Job /\ s \in Jobs /\ JobKept(s) BY DEF TypeOK, KeptInv
<1>b. /\ UNCHANGED <<disk, minted, retired, unreadable, up>>
      /\ Alive /\ job[s].pc \notin FileSteps \cup {"restoreStale"}
  BY <1>a, FileStepNames, StepNames
     DEF StartSend, SendFails, BroadcastChain, MarkChainShared, CheckReservation, Alive
<1>c. job[s].ends = {}
  BY <1>a, <1>b DEF JobKept
<1>d. ASSUME NEW j, Become(s, j), \A r \in Rooms : Same(r), job'[s] = j => JobKept(s)'
      PROVE  KeptInv'
  BY <1>a, <1>b, <1>d, OneJob, CalmKept
<1>e. mem' = mem => \A r \in Rooms : Same(r)
  BY DEF Same
<1>1. ASSUME NEW r \in Rooms, StartSend(s, r) PROVE KeptInv'
  <2>1. PICK pc \in {"mint", "reserve"} : Become(s, [Idle EXCEPT !.pc = pc, !.room = r])
    BY <1>1 DEF StartSend
  <2> DEFINE j == [Idle EXCEPT !.pc = pc, !.room = r]
  <2>2. j.pc = pc /\ j.ends = {}
    BY DEF Idle
  <2> HIDE DEF j
  <2>3. job'[s] = j => JobKept(s)'
    BY <1>a, <2>2, NothingKept, FileStepNames
  <2>4. QED BY <1>1, <1>d, <1>e, <2>1, <2>3 DEF StartSend, j
<1>2. CASE SendFails(s)
  <2>1. Idle.pc = "idle" /\ Idle.ends = {}
    BY DEF Idle
  <2>2. job'[s] = Idle => JobKept(s)'
    BY <1>a, <2>1, NothingKept, FileStepNames
  <2>3. QED BY <1>2, <1>d, <1>e, <2>2 DEF SendFails
<1>3. CASE BroadcastChain(s)
  <2> DEFINE j == [job[s] EXCEPT !.pc = "markShared"]
  <2>1. j.pc = "markShared" /\ j.ends = {}
    BY <1>a, <1>c DEF Job
  <2> HIDE DEF j
  <2>2. job'[s] = j => JobKept(s)'
    BY <1>a, <2>1, NothingKept, FileStepNames
  <2>3. QED BY <1>3, <1>d, <1>e, <2>2 DEF BroadcastChain, j
<1>4. CASE MarkChainShared(s)
  <2> DEFINE j == [job[s] EXCEPT !.pc = "reserve"]
  <2>1. j.pc = "reserve" /\ j.ends = {}
    BY <1>a, <1>c DEF Job
  <2> HIDE DEF j
  <2>2. job'[s] = j => JobKept(s)'
    BY <1>a, <2>1, NothingKept, FileStepNames
  <2>3. Room(s) \in Rooms /\ mem[Room(s)] \in RoomKeys
    BY <1>4, <1>a, RoomType, StepNames DEF MarkChainShared
  <2> DEFINE k == [mem[Room(s)] EXCEPT !.shared = TRUE]
  <2>4. /\ mem' = [mem EXCEPT ![Room(s)] = k]
        /\ k.out = mem[Room(s)].out /\ k.idx = mem[Room(s)].idx
        /\ k.reserved = mem[Room(s)].reserved /\ k.stale = mem[Room(s)].stale
        /\ k.encrypted = mem[Room(s)].encrypted
    BY <1>4, <2>3 DEF MarkChainShared, RoomKeys
  <2> HIDE DEF k
  <2>5. \A r \in Rooms : Same(r)
    BY <2>3, <2>4 DEF Same, TypeOK
  <2>6. QED BY <1>4, <1>d, <2>2, <2>5 DEF MarkChainShared, j
<1>5. CASE CheckReservation(s)
  <2> DEFINE k == mem[Room(s)]
             up1 == [job[s] EXCEPT !.pc = "raise", !.want = k.idx + Block]
             on == [job[s] EXCEPT !.pc = "seal"]
  <2>1. Room(s) \in Rooms /\ k \in RoomKeys
    BY <1>5, <1>a, RoomType, StepNames DEF CheckReservation
  <2>2. /\ on.pc = "seal" /\ on.room = Room(s) /\ on.ends = {}
        /\ up1.pc = "raise" /\ up1.room = Room(s) /\ up1.ends = {}
    BY <1>a, <1>c DEF Job, Room
  <2>3. \/ k.out # None /\ Become(s, up1)
        \/ (k.out = None \/ k.idx < k.reserved) /\ Become(s, on)
    BY <1>5 DEF CheckReservation, Promised
  <2>4. mem' = mem
    BY <1>5 DEF CheckReservation
  <2> HIDE DEF on, up1
  <2>5. k.out # None => k.encrypted
    BY <2>1 DEF KeptInv, RoomsKept
  <2>6. k.out # None /\ job'[s] = up1 => JobKept(s)'
    BY <2>2, <2>4, <2>5, FileStepNames DEF JobKept
  <2>7. (k.out = None \/ k.idx < k.reserved) /\ job'[s] = on => JobKept(s)'
    BY <2>2, <2>4, FileStepNames DEF JobKept
  <2>8. QED BY <1>d, <1>e, <2>3, <2>4, <2>6, <2>7
<1>6. QED BY <1>1, <1>2, <1>3, <1>4, <1>5

\* A keeper's steps up to the file, and up to what a restore read.
LEMMA KeeperCalm ==
  ASSUME TypeOK, KeptInv, NEW v \in Keepers,
         \/ \E r \in Rooms : StartSave(v, r)
         \/ StartRestore(v) \/ RestoreLoad(v) \/ RestoreFails(v)
  PROVE  KeptInv'
<1> USE DEF At, Goto, Finish
<1>a. job[v] \in Job /\ v \in Jobs /\ v \notin Senders /\ JobKept(v)
  BY JobsAssumption DEF TypeOK, KeptInv, Jobs
<1>b. /\ UNCHANGED <<disk, minted, retired, mem>>
      /\ job[v].pc \in {"idle", "restoreLoad"}
  BY DEF StartSave, StartRestore, RestoreLoad, RestoreFails
<1>c. job[v].ends = {} /\ job[v].pc # "restoreStale"
  BY <1>a, <1>b, FileStepNames DEF JobKept
<1>d. ASSUME NEW j, Become(v, j), job'[v] = j => JobKept(v)',
             unreadable' = 0 => unreadable = 0 /\ (Alive' => Alive)
      PROVE  KeptInv'
  <2>1. \A r \in Rooms : Same(r)
    BY <1>b DEF Same
  <2>2. QED BY <1>a, <1>b, <1>c, <1>d, <2>1, OneJob, CalmKept
<1>1. ASSUME NEW r \in Rooms, StartSave(v, r) PROVE KeptInv'
  <2> DEFINE j == [Idle EXCEPT !.pc = "load", !.room = r]
  <2>1. j.pc = "load" /\ j.room = r /\ j.ends = {}
    BY DEF Idle
  <2>2. Become(v, j) /\ mem'[r].encrypted /\ Alive /\ unreadable' = unreadable
    BY <1>1, <1>b DEF StartSave, Alive
  <2> HIDE DEF j
  <2>3. job'[v] = j => JobKept(v)'
    BY <1>a, <2>1, <2>2 DEF JobKept
  <2>4. QED BY <1>d, <2>2, <2>3
<1>2. CASE StartRestore(v) \/ RestoreLoad(v)
  <2> DEFINE s == [job[v] EXCEPT !.pc = "restoreLoad"]
             l == [job[v] EXCEPT !.pc = "restoreChains", !.file = disk]
  <2>1. s.pc = "restoreLoad" /\ s.ends = {} /\ l.pc = "restoreChains" /\ l.ends = {}
    BY <1>a, <1>c DEF Job
  <2>2. (Become(v, s) \/ Become(v, l)) /\ up' = up /\ unreadable' = unreadable
    BY <1>2 DEF StartRestore, RestoreLoad
  <2> HIDE DEF s, l
  <2>3. PICK j \in {s, l} : Become(v, j)
    BY <2>2
  <2>4. j.pc \in {"restoreLoad", "restoreChains"} /\ j.ends = {}
    BY <2>1, <2>3
  <2>5. job'[v] = j /\ \A u \in Jobs \ {v} : job'[u] = job[u]
    BY <1>a, <2>3, OneJob
  <2>6. JobKept(v)'
    BY <1>a, <2>4, <2>5, NothingKept, FileStepNames
  <2>7. Alive' => Alive
    <3>1. job'[v].pc \notin SendSteps \cup FileSteps \cup {"restoreStale"}
      BY <2>4, <2>5 DEF SendSteps, FileSteps
    <3>2. QED BY <2>2, <2>5, <3>1 DEF Alive
  <2>8. QED BY <1>d, <2>2, <2>3, <2>6, <2>7
<1>3. CASE RestoreFails(v)
  <2>1. Become(v, Idle) /\ unreadable' # 0
    BY <1>3 DEF RestoreFails, TypeOK
  <2>2. Idle.pc = "idle" /\ Idle.ends = {}
    BY DEF Idle
  <2>3. job'[v] = Idle => JobKept(v)'
    BY <1>a, <2>2, NothingKept, FileStepNames
  <2>4. QED BY <1>d, <2>1, <2>3
<1>4. QED BY <1>1, <1>2, <1>3

\* Reading the file and preparing what to write: the mark is written as memory has it.
LEMMA FileCalm ==
  ASSUME TypeOK, KeptInv, NEW t \in Jobs, LoadFile(t) \/ ExportChain(t) \/ ExportStale(t)
  PROVE  KeptInv'
<1> USE DEF At
<1> DEFINE r == job[t].room
<1>a. /\ job[t] \in Job /\ job[t].file \in [Rooms -> Entry] /\ JobKept(t)
      /\ r \in Rooms /\ mem[r] \in RoomKeys /\ job[t].pc \in FileSteps
  BY RoomType, StepNames DEF TypeOK, Job, KeptInv, Room, LoadFile, ExportChain, ExportStale
<1>b. /\ UNCHANGED <<disk, minted, retired, mem, unreadable, up>> /\ Alive
      /\ job[t].pc # "restoreStale"
  BY <1>a DEF LoadFile, ExportChain, ExportStale, Alive
<1>c. ASSUME NEW j, Become(t, j), j.pc \in FileSteps, j.room = r, j.ends = job[t].ends,
             j.pc \in {"exportStale", "write"} => j.file[r].known,
             j.pc = "write" /\ mem[r].out # None => j.file[r].stale = mem[r].stale
      PROVE  KeptInv'
  <2>1. job'[t] = j /\ \A u \in Jobs \ {t} : job'[u] = job[u]
    BY <1>c, OneJob
  <2>2. j.pc # "seal"
    BY <1>c, WindowNames
  <2>3. JobKept(t)'
    BY <1>a, <1>b, <1>c, <2>1, <2>2 DEF JobKept
  <2>4. \A q \in Rooms : Same(q)
    BY <1>b DEF Same
  <2>5. QED BY <1>b, <2>1, <2>3, <2>4, CalmKept
<1>1. CASE LoadFile(t)
  <2> DEFINE j == [job[t] EXCEPT !.pc = "export", !.file = disk]
  <2>1. Become(t, j) /\ j.pc = "export" /\ j.room = r /\ j.ends = job[t].ends
    BY <1>1, <1>a DEF LoadFile, Job
  <2> HIDE DEF j
  <2>2. QED BY <1>c, <2>1, FileStepNames
<1>2. CASE ExportChain(t)
  <2> DEFINE f == [job[t].file EXCEPT ![r] = ExportedChain(mem[r], @)]
  <2>1. PICK pc \in {"write", "exportStale"} :
          /\ Become(t, [job[t] EXCEPT !.pc = pc, !.file = f])
          /\ pc = "write" => mem[r].out = None
    BY <1>2 DEF ExportChain, Room, FileOnly
  <2>2. f[r].known
    BY <1>a DEF ExportedChain, Entry
  <2> DEFINE j == [job[t] EXCEPT !.pc = pc, !.file = f]
  <2>3. Become(t, j) /\ j.pc = pc /\ j.room = r /\ j.ends = job[t].ends /\ j.file = f
    BY <1>a, <2>1 DEF Job
  <2> HIDE DEF j, f
  <2>4. QED BY <1>c, <2>1, <2>2, <2>3, FileStepNames
<1>3. CASE ExportStale(t)
  <2> DEFINE f == [job[t].file EXCEPT ![r] = [@ EXCEPT !.stale = mem[r].stale]]
             j == [job[t] EXCEPT !.pc = "write", !.file = f]
  <2>1. job[t].file[r].known
    BY <1>3, <1>a DEF ExportStale, JobKept
  <2>2. f[r].known /\ f[r].stale = mem[r].stale
    BY <1>a, <2>1 DEF Entry
  <2>3. Become(t, j) /\ j.pc = "write" /\ j.room = r /\ j.ends = job[t].ends /\ j.file = f
    BY <1>3, <1>a DEF ExportStale, Room, Job
  <2> HIDE DEF j, f
  <2>4. QED BY <1>c, <2>2, <2>3, FileStepNames
<1>4. QED BY <1>1, <1>2, <1>3

\* Steps outside every job.
LEMMA RestCalm ==
  ASSUME TypeOK, KeptInv, SignOff \/ Crash \/ \E r \in Rooms : MarkRoomEncrypted(r)
  PROVE  KeptInv'
<1>1. CASE SignOff
  <2>1. \A r \in Rooms : Same(r)
    BY <1>1 DEF SignOff, Same
  <2>2. Alive' => Alive
    BY <1>1 DEF SignOff, Alive
  <2>3. QED BY <1>1, <2>1, <2>2, CalmKept DEF SignOff
<1>2. ASSUME NEW r \in Rooms, MarkRoomEncrypted(r) PROVE KeptInv'
  <2> DEFINE k == [mem[r] EXCEPT !.encrypted = TRUE]
  <2>1. /\ mem' = [mem EXCEPT ![r] = k] /\ k.encrypted
        /\ k.out = mem[r].out /\ k.idx = mem[r].idx /\ k.reserved = mem[r].reserved
        /\ k.stale = mem[r].stale
    BY <1>2 DEF MarkRoomEncrypted, TypeOK, RoomKeys
  <2> HIDE DEF k
  <2>2. \A q \in Rooms : Same(q)
    BY <2>1 DEF Same, TypeOK
  <2>3. Alive' => Alive
    BY <1>2 DEF MarkRoomEncrypted, Alive
  <2>4. QED BY <1>2, <2>2, <2>3, CalmKept DEF MarkRoomEncrypted
<1>3. CASE Crash
  <2>1. /\ disk' = disk /\ retired' = retired /\ minted' = minted /\ ~up' /\ unreadable' = unreadable
        /\ \A r \in Rooms : mem'[r].out = None /\ mem'[r].idx = 0 /\ mem'[r].reserved = 0
        /\ \A t \in Jobs : job'[t].pc = "idle" /\ job'[t].ends = {}
    BY <1>3 DEF Crash, NoRoomKeys, Idle
  <2>2. \A t \in Jobs : JobKept(t)'
    BY <2>1, NothingKept, FileStepNames
  <2>3. ~Alive'
    BY <2>1 DEF Alive, SendSteps, FileSteps
  <2>4. None \notin retired
    BY ChainsAssumption DEF TypeOK
  <2>5. QED BY <2>1, <2>2, <2>3, <2>4
            DEF KeptInv, RoomsKept, AllMinted, Loaded, DiskMarked, MemMarked
<1>4. QED BY <1>1, <1>2, <1>3

\* Steps of the one job in the window that leave the file and the removals on record.
LEMMA WindowKept ==
  ASSUME TypeOK, KeptInv, OneInWindow, NEW t \in Jobs, InWindow(t),
         \A u \in Jobs \ {t} : job'[u] = job[u], JobKept(t)',
         UNCHANGED <<disk, retired, unreadable>>, retired \subseteq AllMinted', Alive,
         \A r \in Rooms :
           /\ mem'[r].idx <= mem'[r].reserved
           /\ mem'[r].out # None => mem'[r].encrypted
           /\ mem[r].out # None => mem'[r].out # None
           /\ mem[r].encrypted => mem'[r].encrypted
           /\ unreadable = 0 /\ mem'[r].out \in retired => mem'[r].stale
  PROVE  KeptInv'
<1>1. \A u \in Jobs : JobKept(u)'
  BY OnlyOne, AsideKept DEF KeptInv
<1>2. RoomsKept'
  BY DEF KeptInv, RoomsKept
<1>3. unreadable = 0 => Loaded' /\ DiskMarked' /\ MemMarked'
  BY DEF KeptInv, Loaded, DiskMarked, MemMarked
<1>4. QED BY <1>1, <1>2, <1>3 DEF KeptInv

\* The one job in the window is not a restore, so memory's marks are the file's.
LEMMA MarksInMemory ==
  ASSUME KeptInv, OneInWindow, NEW t \in Jobs, InWindow(t), job[t].pc # "restoreStale"
  PROVE  unreadable = 0 => \A r \in Rooms : mem[r].out \in retired => mem[r].stale
<1>1. \A v \in Jobs : job[v].pc # "restoreStale"
  BY OnlyOne
<1>2. QED BY <1>1 DEF KeptInv, MemMarked

\* The new chain is nobody's old one, and the room it is for stays encrypted.
LEMMA MintKept ==
  ASSUME MemoryInv, KeptInv, OneInWindow, NEW s \in Senders, NEW c \in Chains, MintChain(s, c)
  PROVE  KeptInv'
<1> DEFINE r == job[s].room
<1>a. /\ TypeOK /\ s \in Jobs /\ job[s] \in Job /\ InWindow(s) /\ JobKept(s)
      /\ r \in Rooms /\ mem[r] \in RoomKeys /\ job[s].pc = "mint"
      /\ UNCHANGED <<disk, retired, unreadable, up>> /\ Alive
  BY RoomType, StepNames
     DEF MemoryInv, KeptInv, MintChain, At, Room, Jobs, TypeOK, InWindow, Alive
<1>b. job[s].ends = {}
  BY <1>a, WindowNames DEF JobKept
<1>c. ASSUME NEW j, Become(s, j), j.pc \in {"reserve", "broadcast"}, j.ends = {}
      PROVE  /\ JobKept(s)' /\ \A u \in Jobs \ {s} : job'[u] = job[u]
  <2>1. job'[s] = j /\ \A u \in Jobs \ {s} : job'[u] = job[u]
    BY <1>a, <1>c, OneJob
  <2>2. JobKept(s)'
    BY <1>a, <1>c, <2>1, NothingKept, FileStepNames, WindowNames
  <2>3. QED BY <2>1, <2>2
<1>1. CASE NeedsChain(mem[r])
  <2> DEFINE k == Fresh(mem[r], c)
             j == [job[s] EXCEPT !.pc = "broadcast", !.chain = c]
  <2>1. /\ mem' = [mem EXCEPT ![r] = k] /\ c \notin AllMinted /\ Become(s, j)
        /\ minted' = [minted EXCEPT ![r] = @ \cup {c}]
    BY <1>1 DEF MintChain, Room
  <2>2. /\ k.out = c /\ k.idx = 0 /\ k.reserved = 0 /\ k.encrypted
        /\ j.pc = "broadcast" /\ j.ends = {}
    BY <1>1, <1>a, <1>b DEF Fresh, NeedsChain, RoomKeys, Job
  <2> HIDE DEF k, j
  <2>3. JobKept(s)' /\ \A u \in Jobs \ {s} : job'[u] = job[u]
    BY <1>c, <2>1, <2>2
  <2>4. mem'[r] = k /\ \A q \in Rooms \ {r} : mem'[q] = mem[q]
    BY <1>a, <2>1 DEF TypeOK
  <2>5. \A q \in Rooms : minted[q] \subseteq minted'[q]
    BY <1>a, <2>1 DEF TypeOK
  <2>6. AllMinted \subseteq AllMinted'
    BY <2>5 DEF AllMinted
  <2>7. c \notin retired /\ retired \subseteq AllMinted' /\ c # None
    BY <2>1, <2>6, ChainsAssumption DEF KeptInv, RoomsKept
  <2>8. unreadable = 0 => \A q \in Rooms : mem[q].out \in retired => mem[q].stale
    BY <1>a, MarksInMemory
  <2>9. \A q \in Rooms :
          /\ mem'[q].idx <= mem'[q].reserved
          /\ mem'[q].out # None => mem'[q].encrypted
          /\ mem[q].out # None => mem'[q].out # None
          /\ mem[q].encrypted => mem'[q].encrypted
          /\ unreadable = 0 /\ mem'[q].out \in retired => mem'[q].stale
    BY <1>a, <2>2, <2>4, <2>7, <2>8 DEF KeptInv, RoomsKept
  <2>10. QED BY <1>a, <2>3, <2>7, <2>9, WindowKept
<1>2. CASE ~NeedsChain(mem[r])
  <2> DEFINE j == [job[s] EXCEPT !.pc = "reserve"]
  <2>1. mem' = mem /\ minted' = minted /\ Become(s, j)
    BY <1>2 DEF MintChain, Room, Goto
  <2>2. j.pc = "reserve" /\ j.ends = {}
    BY <1>a, <1>b DEF Job
  <2> HIDE DEF j
  <2>3. JobKept(s)' /\ \A u \in Jobs \ {s} : job'[u] = job[u]
    BY <1>c, <2>1, <2>2
  <2>4. \A q \in Rooms : Same(q)
    BY <2>1 DEF Same
  <2>5. QED BY <1>a, <2>1, <2>3, <2>4, CalmKept
<1>3. QED BY <1>1, <1>2

\* The promise covers the next position.
LEMMA RaiseKept ==
  ASSUME MemoryInv, DurableInv, KeptInv, OneInWindow, NEW s \in Senders, RaiseReservation(s)
  PROVE  KeptInv'
<1> DEFINE r == job[s].room
           k == PromisedTo(mem[r], job[s].want)
           j == [job[s] EXCEPT !.pc = "load"]
<1>a. /\ TypeOK /\ s \in Jobs /\ job[s] \in Job /\ InWindow(s) /\ JobKept(s) /\ JobOK(s)
      /\ r \in Rooms /\ mem[r] \in RoomKeys /\ job[s].pc = "raise"
      /\ UNCHANGED <<disk, retired, unreadable, minted>> /\ Alive
      /\ mem' = [mem EXCEPT ![r] = k] /\ Become(s, j)
  BY RoomType, StepNames
     DEF MemoryInv, DurableInv, JobsOK, KeptInv, RaiseReservation, At, Goto, Room, Jobs, TypeOK,
         InWindow, Alive
<1>b. job[s].ends = {} /\ mem[r].encrypted /\ mem[r].idx <= mem[r].reserved
  BY <1>a, WindowNames DEF JobKept, KeptInv, RoomsKept
<1>c. j.pc = "load" /\ j.room = r /\ j.ends = {} /\ job[s].want \in Nat
  BY <1>a, <1>b DEF Job
<1>d. /\ k.out = mem[r].out /\ k.stale = mem[r].stale /\ k.encrypted
      /\ k.idx < k.reserved /\ k.idx <= k.reserved
  BY <1>a, <1>b, <1>c DEF JobOK, PromisedTo, larger, RoomKeys
<1> HIDE DEF j, k
<1>e. /\ mem'[r] = k /\ \A q \in Rooms \ {r} : mem'[q] = mem[q]
      /\ job'[s] = j /\ \A u \in Jobs \ {s} : job'[u] = job[u]
  BY <1>a, OneJob DEF TypeOK
<1>1. JobKept(s)'
  BY <1>c, <1>d, <1>e, FileStepNames DEF JobKept
<1>2. unreadable = 0 => \A q \in Rooms : mem[q].out \in retired => mem[q].stale
  BY <1>a, MarksInMemory
<1>3. \A q \in Rooms :
        /\ mem'[q].idx <= mem'[q].reserved
        /\ mem'[q].out # None => mem'[q].encrypted
        /\ mem[q].out # None => mem'[q].out # None
        /\ mem[q].encrypted => mem'[q].encrypted
        /\ unreadable = 0 /\ mem'[q].out \in retired => mem'[q].stale
  BY <1>a, <1>d, <1>e, <1>2 DEF KeptInv, RoomsKept
<1>4. retired \subseteq AllMinted'
  BY <1>a DEF KeptInv, RoomsKept, AllMinted
<1>5. QED BY <1>a, <1>e, <1>1, <1>3, <1>4, WindowKept

\* The seal uses a position that is promised.
LEMMA SealKept ==
  ASSUME MemoryInv, KeptInv, OneInWindow, NEW s \in Senders, SealRoomMessage(s)
  PROVE  KeptInv'
<1> DEFINE r == job[s].room
           k == mem[r]
<1>a. /\ TypeOK /\ s \in Jobs /\ InWindow(s) /\ r \in Rooms /\ k \in RoomKeys
      /\ job[s].pc = "seal" /\ UNCHANGED <<disk, retired, unreadable, minted>> /\ Alive
      /\ Become(s, Idle)
  BY RoomType, StepNames
     DEF MemoryInv, SealRoomMessage, At, Finish, Room, Jobs, TypeOK, InWindow, Alive
<1>b. Idle.pc = "idle" /\ Idle.ends = {}
  BY DEF Idle
<1>c. job'[s] = Idle /\ \A u \in Jobs \ {s} : job'[u] = job[u]
  BY <1>a, OneJob
<1>1. JobKept(s)'
  BY <1>a, <1>b, <1>c, NothingKept, FileStepNames
<1>2. mem' = mem \/ (k.idx < k.reserved /\ mem' = [mem EXCEPT ![r] = NextPosition(k)])
  BY DEF SealRoomMessage, Promised, Room
<1>3. /\ NextPosition(k).out = k.out /\ NextPosition(k).idx = k.idx + 1
      /\ NextPosition(k).reserved = k.reserved /\ NextPosition(k).stale = k.stale
      /\ NextPosition(k).encrypted = k.encrypted
      /\ k.idx < k.reserved => k.idx + 1 <= k.reserved
  BY <1>a DEF NextPosition, RoomKeys
<1>4. unreadable = 0 => \A q \in Rooms : mem[q].out \in retired => mem[q].stale
  BY <1>a, MarksInMemory
<1>5. \A q \in Rooms : \/ mem'[q] = mem[q]
                       \/ q = r /\ k.idx < k.reserved /\ mem'[q] = NextPosition(k)
  BY <1>a, <1>2 DEF TypeOK
<1>6. \A q \in Rooms :
        /\ mem'[q].idx <= mem'[q].reserved
        /\ mem'[q].out # None => mem'[q].encrypted
        /\ mem[q].out # None => mem'[q].out # None
        /\ mem[q].encrypted => mem'[q].encrypted
        /\ unreadable = 0 /\ mem'[q].out \in retired => mem'[q].stale
  BY <1>a, <1>3, <1>4, <1>5 DEF KeptInv, RoomsKept
<1>7. retired \subseteq AllMinted'
  BY <1>a DEF KeptInv, RoomsKept, AllMinted
<1>8. QED BY <1>a, <1>c, <1>1, <1>6, <1>7, WindowKept

\* A promise taken back leaves the position where it was.
LEMMA FailKept ==
  ASSUME MemoryInv, KeptInv, OneInWindow, NEW t \in Jobs, FileFails(t)
  PROVE  KeptInv'
<1> DEFINE r == job[t].room
           k == RolledBack(mem[r], job[t].want)
<1>a. /\ TypeOK /\ InWindow(t) /\ r \in Rooms /\ mem[r] \in RoomKeys /\ job[t].pc \in FileSteps
      /\ job[t].pc # "restoreStale"
      /\ UNCHANGED <<disk, retired, unreadable, minted>> /\ Alive /\ Become(t, Idle)
  BY RoomType, StepNames, FileStepNames
     DEF MemoryInv, FileFails, At, Finish, Room, TypeOK, InWindow, Alive
<1>b. Idle.pc = "idle" /\ Idle.ends = {}
  BY DEF Idle
<1>c. job'[t] = Idle /\ \A u \in Jobs \ {t} : job'[u] = job[u]
  BY <1>a, OneJob
<1>1. JobKept(t)'
  BY <1>a, <1>b, <1>c, NothingKept, FileStepNames
<1>2. \A q \in Rooms : mem'[q] = mem[q] \/ (q = r /\ mem'[q] = k)
  BY <1>a DEF FileFails, Room, TypeOK
<1>3. /\ k.out = mem[r].out /\ k.idx = mem[r].idx /\ k.stale = mem[r].stale
      /\ k.encrypted = mem[r].encrypted /\ k.reserved \in {mem[r].reserved, k.idx}
      /\ k.idx \in Nat
  BY <1>a DEF RolledBack, RoomKeys
<1>4. unreadable = 0 => \A q \in Rooms : mem[q].out \in retired => mem[q].stale
  BY <1>a, MarksInMemory
<1> HIDE DEF k
<1>5. \A q \in Rooms :
        /\ mem'[q].idx <= mem'[q].reserved
        /\ mem'[q].out # None => mem'[q].encrypted
        /\ mem[q].out # None => mem'[q].out # None
        /\ mem[q].encrypted => mem'[q].encrypted
        /\ unreadable = 0 /\ mem'[q].out \in retired => mem'[q].stale
  BY <1>a, <1>2, <1>3, <1>4 DEF KeptInv, RoomsKept
<1>6. retired \subseteq AllMinted'
  BY <1>a DEF KeptInv, RoomsKept, AllMinted
<1>7. QED BY <1>a, <1>c, <1>1, <1>5, <1>6, WindowKept

\* The marks the file has reach memory.
LEMMA RestoreStaleKept ==
  ASSUME MemoryInv, DurableInv, KeptInv, OneInWindow, NEW v \in Keepers, RestoreStale(v)
  PROVE  KeptInv'
<1>a. /\ TypeOK /\ v \in Jobs /\ InWindow(v) /\ job[v].pc = "restoreStale" /\ job[v].file = disk
      /\ UNCHANGED <<disk, retired, unreadable, minted>> /\ Alive /\ Become(v, Idle)
  BY WindowNames
     DEF MemoryInv, DurableInv, JobsOK, JobOK, RestoreStale, At, Finish, InWindow, Alive, Jobs
<1>b. Idle.pc = "idle" /\ Idle.ends = {}
  BY DEF Idle
<1>c. job'[v] = Idle /\ \A u \in Jobs \ {v} : job'[u] = job[u]
  BY <1>a, OneJob
<1>1. JobKept(v)'
  BY <1>a, <1>b, <1>c, NothingKept, FileStepNames
<1>2. \A q \in Rooms : mem[q] \in RoomKeys /\ disk[q] \in Entry /\ mem'[q] = Marked(mem[q], disk[q])
  BY <1>a DEF RestoreStale, TypeOK
<1>3. \A q \in Rooms :
        /\ mem'[q].out = mem[q].out /\ mem'[q].idx = mem[q].idx
        /\ mem'[q].reserved = mem[q].reserved /\ mem'[q].encrypted = mem[q].encrypted
        /\ mem[q].stale \/ disk[q].stale => mem'[q].stale
  BY <1>2 DEF Marked, RoomKeys, Entry
<1>4. \A q \in Rooms :
        /\ mem'[q].idx <= mem'[q].reserved
        /\ mem'[q].out # None => mem'[q].encrypted
        /\ mem[q].out # None => mem'[q].out # None
        /\ mem[q].encrypted => mem'[q].encrypted
        /\ unreadable = 0 /\ mem'[q].out \in retired => mem'[q].stale
  BY <1>3 DEF KeptInv, RoomsKept, MemMarked
<1>5. retired \subseteq AllMinted'
  BY <1>a DEF KeptInv, RoomsKept, AllMinted
<1>6. QED BY <1>a, <1>c, <1>1, <1>4, <1>5, WindowKept

\* A removal marks the chain it ends, and its job is the one in the window from here on.
LEMMA StaleKept ==
  ASSUME MemoryInv, KeptInv, OneInWindow', NEW v \in Keepers, NEW r \in Rooms, MarkChainStale(v, r)
  PROVE  KeptInv'
<1> DEFINE k == [mem[r] EXCEPT !.stale = TRUE]
           j == [Idle EXCEPT !.pc = "load", !.room = r, !.ends = minted[r]]
<1>a. /\ TypeOK /\ v \in Jobs /\ v \notin Senders /\ Alive /\ mem[r] \in RoomKeys
      /\ mem[r].encrypted /\ job[v].pc = "idle"
      /\ UNCHANGED <<disk, retired, unreadable, minted>>
      /\ mem' = [mem EXCEPT ![r] = k] /\ Become(v, j)
  BY JobsAssumption DEF MemoryInv, MarkChainStale, At, Jobs, TypeOK, Alive
<1>b. /\ j.pc = "load" /\ j.room = r /\ j.ends = minted[r]
      /\ k.out = mem[r].out /\ k.idx = mem[r].idx /\ k.reserved = mem[r].reserved
      /\ k.stale /\ k.encrypted
  BY <1>a DEF Idle, RoomKeys
<1> HIDE DEF j, k
<1>c. /\ mem'[r] = k /\ \A q \in Rooms \ {r} : mem'[q] = mem[q]
      /\ job'[v] = j /\ \A u \in Jobs \ {v} : job'[u] = job[u]
  BY <1>a, OneJob DEF TypeOK
<1>d. \A u \in Jobs \ {v} : ~InWindow(u)
  BY <1>a, <1>b, <1>c, FileStepNames DEF OneInWindow, InWindow
<1>1. JobKept(v)'
  BY <1>a, <1>b, <1>c, FileStepNames DEF JobKept
<1>2. \A u \in Jobs : JobKept(u)'
  BY <1>1, <1>c, <1>d, AsideKept DEF KeptInv
<1>3. RoomsKept'
  BY <1>a, <1>b, <1>c DEF KeptInv, RoomsKept, AllMinted
<1>4. \A u \in Jobs : job[u].pc # "restoreStale"
  BY <1>a, <1>d DEF InWindow, RestoreSteps
<1>5. unreadable = 0 => Loaded' /\ DiskMarked' /\ MemMarked'
  BY <1>a, <1>b, <1>c, <1>4 DEF KeptInv, Loaded, DiskMarked, MemMarked
<1>6. QED BY <1>a, <1>2, <1>3, <1>5 DEF KeptInv

\* The write of a removal puts the mark on record with the chain it ends.
LEMMA WriteKept ==
  ASSUME MemoryInv, DurableInv, KeptInv, OneInWindow, NEW t \in Jobs, WriteFile(t)
  PROVE  KeptInv'
<1> DEFINE r == job[t].room
           f == job[t].file
           ends == job[t].ends
<1>a. /\ TypeOK /\ ChainsBelong /\ InWindow(t) /\ JobKept(t) /\ r \in Rooms /\ mem[r] \in RoomKeys
      /\ job[t].pc = "write" /\ Exported(r, f) /\ Alive
      /\ disk' = f /\ retired' = retired \cup ends /\ UNCHANGED <<mem, minted, unreadable>>
  BY RoomType, StepNames
     DEF MemoryInv, DurableInv, JobsOK, JobOK, KeptInv, WriteFile, At, Room, InWindow, Alive
<1>b. /\ f[r].known /\ mem[r].encrypted /\ ends \in {{}, minted[r]}
      /\ ends # {} => mem[r].stale
      /\ mem[r].out # None => f[r].stale = mem[r].stale
      /\ t \in Senders => mem[r].idx < mem[r].reserved
  BY <1>a, FileStepNames DEF JobKept
<1> DEFINE on == [Idle EXCEPT !.pc = "seal", !.room = r]
<1>c. (Become(t, on) /\ t \in Senders) \/ Become(t, Idle)
  BY DEF WriteFile, Finish, Room
<1>x. /\ on.pc = "seal" /\ on.room = r /\ on.ends = {}
      /\ Idle.pc = "idle" /\ Idle.ends = {}
  BY DEF Idle
<1> HIDE DEF on
<1>y. PICK j \in {on, Idle} : Become(t, j) /\ (j = on => t \in Senders)
  BY <1>c, <1>x
<1>d. j.ends = {} /\ (j.pc = "idle" \/ (j.pc = "seal" /\ j.room = r /\ t \in Senders))
  BY <1>x, <1>y
<1>e. job'[t] = j /\ \A u \in Jobs \ {t} : job'[u] = job[u]
  BY <1>a, <1>y, OneJob
<1>1. JobKept(t)'
  BY <1>a, <1>b, <1>d, <1>e, FileStepNames DEF JobKept
<1>2. \A u \in Jobs : JobKept(u)'
  BY <1>1, <1>a, <1>e, OnlyOne, AsideKept DEF KeptInv
<1>3. RoomsKept'
  <2>1. minted[r] \subseteq AllMinted
    BY <1>a DEF AllMinted
  <2>2. retired' \subseteq AllMinted'
    BY <1>a, <1>b, <2>1 DEF KeptInv, RoomsKept, AllMinted
  <2>3. \A q \in Rooms : disk'[q].out # None => disk'[q].known
    BY <1>a, <1>b DEF Exported, KeptInv, RoomsKept
  <2>4. QED BY <1>a, <2>2, <2>3 DEF KeptInv, RoomsKept
<1>4. ASSUME unreadable = 0 PROVE Loaded' /\ DiskMarked' /\ MemMarked'
  <2>1. \A q \in Rooms : /\ disk[q].out # None => mem[q].out # None
                         /\ disk[q].known => mem[q].encrypted
    BY <1>a, <1>4 DEF KeptInv, Loaded
  <2>2. \A q \in Rooms : mem[q].out \in retired => mem[q].stale
    BY <1>a, <1>4, MarksInMemory, FileStepNames
  <2>3. /\ mem[r].out = None => f[r].out = None
        /\ mem[r].out # None => f[r].out = mem[r].out
    BY <1>a, <2>1 DEF Exported
  <2>4. None \notin ends /\ None \notin retired
    BY <1>a, <1>b, ChainsAssumption DEF TypeOK
  <2>5. \A q \in Rooms \ {r} : disk[q].out \notin ends /\ mem[q].out \notin ends
    BY <1>a, <1>b, <2>4 DEF ChainsBelong, Belongs
  <2>6. \A q \in Rooms \ {r} : f[q] = disk[q]
    BY <1>a DEF Exported
  <2>7. Loaded'
    BY <1>a, <1>b, <2>1, <2>3, <2>6 DEF Loaded
  <2>8. DiskMarked'
    <3>1. \A q \in Rooms \ {r} : disk'[q].out \in retired' => disk'[q].stale
      BY <1>a, <1>4, <2>5, <2>6 DEF KeptInv, DiskMarked
    <3>2. disk'[r].out \in retired' => disk'[r].stale
      BY <1>a, <1>b, <2>2, <2>3, <2>4
    <3>3. QED BY <3>1, <3>2 DEF DiskMarked
  <2>9. MemMarked'
    <3>1. \A q \in Rooms : mem'[q].out \in retired' => mem'[q].stale
      BY <1>a, <1>b, <2>2, <2>5
    <3>2. QED BY <3>1 DEF MemMarked
  <2>10. QED BY <2>7, <2>8, <2>9
<1>5. QED BY <1>a, <1>2, <1>3, <1>4 DEF KeptInv

\* A restore brings back what the file has, with the mark to follow.
LEMMA RestoreChainsKept ==
  ASSUME MemoryInv, DurableInv, KeptInv, OneInWindow, NEW v \in Keepers, RestoreChains(v)
  PROVE  KeptInv'
<1> DEFINE j == [job[v] EXCEPT !.pc = "restoreStale"]
<1>a. /\ TypeOK /\ v \in Jobs /\ InWindow(v) /\ JobKept(v) /\ job[v] \in Job
      /\ job[v].pc = "restoreChains" /\ job[v].file = disk
      /\ UNCHANGED <<disk, retired, minted, unreadable>> /\ Become(v, j)
  BY WindowNames
     DEF MemoryInv, DurableInv, JobsOK, JobOK, KeptInv, RestoreChains, At, Goto, InWindow, TypeOK,
         Jobs
<1>b. j.pc = "restoreStale" /\ j.ends = {}
  BY <1>a, WindowNames DEF Job, JobKept
<1> HIDE DEF j
<1>c. job'[v] = j /\ \A u \in Jobs \ {v} : job'[u] = job[u]
  BY <1>a, OneJob
<1>1. JobKept(v)'
  BY <1>a, <1>b, <1>c, NothingKept, StepNames, FileStepNames
<1>2. \A u \in Jobs : JobKept(u)'
  BY <1>1, <1>a, <1>c, OnlyOne, AsideKept DEF KeptInv
<1>d. \A q \in Rooms : mem[q] \in RoomKeys /\ disk[q] \in Entry /\ mem'[q] = Restored(mem[q], disk[q])
  BY <1>a DEF RestoreChains, TypeOK
<1>e. \A k \in RoomKeys, e \in Entry :
        LET n == Restored(k, e) IN
        /\ n.stale = k.stale
        /\ e.known \/ k.encrypted => n.encrypted
        /\ \/ /\ n.out = k.out /\ n.idx = k.idx /\ n.reserved = k.reserved
              /\ ~e.known \/ e.out = None
           \/ n.out = e.out /\ n.idx = e.through /\ n.reserved = e.through /\ e.known
  BY DEF Restored, RoomKeys, Entry
<1>f. \A q \in Rooms :
        /\ mem'[q].stale = mem[q].stale
        /\ disk[q].known \/ mem[q].encrypted => mem'[q].encrypted
        /\ \/ /\ mem'[q].out = mem[q].out /\ mem'[q].idx = mem[q].idx
              /\ mem'[q].reserved = mem[q].reserved /\ (~disk[q].known \/ disk[q].out = None)
           \/ /\ mem'[q].out = disk[q].out /\ mem'[q].idx = disk[q].through
              /\ mem'[q].reserved = disk[q].through /\ disk[q].known
  BY <1>d, <1>e
<1>g. \A q \in Rooms : disk[q].through <= disk[q].through
  BY <1>d DEF Entry
<1>3. RoomsKept'
  BY <1>a, <1>f, <1>g DEF KeptInv, RoomsKept, AllMinted
<1>4. ASSUME unreadable = 0 PROVE Loaded' /\ DiskMarked' /\ MemMarked'
  <2>1. \A q \in Rooms : disk[q].out # None => disk[q].known
    BY DEF KeptInv, RoomsKept
  <2>2. \A q \in Rooms : mem[q].out \in retired => mem[q].stale
    BY <1>a, <1>4, MarksInMemory, StepNames
  <2>3. Loaded'
    BY <1>a, <1>f, <2>1 DEF Loaded
  <2>4. DiskMarked'
    BY <1>a, <1>4 DEF KeptInv, DiskMarked
  <2>5. \E u \in Jobs : job'[u].pc = "restoreStale"
    BY <1>a, <1>b, <1>c
  <2>6. \A q \in Rooms : mem'[q].out \in retired => mem'[q].stale \/ disk[q].stale
    BY <1>f, <1>4, <2>2 DEF KeptInv, DiskMarked
  <2>7. QED BY <1>a, <2>3, <2>4, <2>5, <2>6 DEF MemMarked
<1>5. QED BY <1>a, <1>2, <1>3, <1>4 DEF KeptInv

LEMMA KeptStep == Inv /\ KeptInv /\ [Next /\ OneInWindow']_vars => KeptInv'
<1> SUFFICES ASSUME Inv, KeptInv, [Next /\ OneInWindow']_vars PROVE KeptInv'
  OBVIOUS
<1>a. MemoryInv /\ TypeOK /\ OneInWindow /\ DurableInv
  BY DEF Inv, MemoryInv
<1>1. ASSUME NEW s \in Senders, SenderStep(s) PROVE KeptInv'
  BY <1>a, <1>1, SenderCalm, MintKept, RaiseKept, SealKept DEF SenderStep
<1>2. ASSUME NEW v \in Keepers, KeeperStep(v), OneInWindow' PROVE KeptInv'
  BY <1>a, <1>2, KeeperCalm, StaleKept, RestoreChainsKept, RestoreStaleKept DEF KeeperStep
<1>3. ASSUME NEW t \in Jobs, FileStep(t) PROVE KeptInv'
  BY <1>a, <1>3, FileCalm, WriteKept, FailKept DEF FileStep
<1>4. CASE SignOff \/ Crash \/ \E r \in Rooms : MarkRoomEncrypted(r)
  BY <1>a, <1>4, RestCalm
<1>5. CASE UNCHANGED vars
  BY <1>5 DEF vars, KeptInv, RoomsKept, AllMinted, JobKept, Loaded, Alive, DiskMarked, MemMarked
<1>6. QED BY <1>1, <1>2, <1>3, <1>4, <1>5 DEF Next

LEMMA KeptHolds == OneWindowSpec => [](Inv /\ KeptInv)
<1>1. Init => KeptInv
  BY KeptInit
<1>2. QED BY <1>1, KeptStep, InvHolds, PTL DEF OneWindowSpec

\* While no two goroutines are in the window together, memory never claims more positions
\* used than it has reserved, and a send about to seal finds its own reserved: the refusal
\* in sealRoomMessage "should be impossible after reserveChainPositions".
THEOREM ReservationsHold == OneWindowSpec => []PositionsAreReserved
<1>1. Inv /\ KeptInv => PositionsAreReserved
  BY DEF KeptInv, RoomsKept, JobKept, PositionsAreReserved, At, Room, Usable, Jobs
<1>2. QED BY <1>1, KeptHolds, PTL

\* What a seal finds: in a session that read the file, no mark of a saved removal is
\* missing, and no room the file knows is taken for an ordinary one.
LEMMA SealFinds ==
  ASSUME Inv, KeptInv, NEW s \in Senders, SealRoomMessage(s), unreadable = 0
  PROVE  /\ \A x \in sealed' \ sealed : x.chain \notin retired
         /\ \A x \in clear' \ clear : ~disk[x.room].known
<1> DEFINE r == job[s].room
           k == mem[r]
<1>a. /\ TypeOK /\ OneInWindow /\ s \in Jobs /\ InWindow(s) /\ r \in Rooms /\ k \in RoomKeys
      /\ job[s].pc = "seal" /\ Alive
  BY RoomType, StepNames DEF Inv, MemoryInv, SealRoomMessage, At, Room, Jobs, InWindow, Alive
<1>b. k.out \in retired => k.stale
  BY <1>a, MarksInMemory
<1>c. disk[r].known => k.encrypted
  BY <1>a DEF KeptInv, Loaded
<1>1. \A x \in sealed' \ sealed : x.chain = k.out /\ ~k.stale
  BY DEF SealRoomMessage, Usable, Room
<1>2. \A x \in clear' \ clear : x.room = r /\ ~k.encrypted
  BY DEF SealRoomMessage, Room
<1>3. QED BY <1>b, <1>c, <1>1, <1>2

\* Only a seal makes a ciphertext or sends in the clear.
LEMMA OnlySealsSend ==
  ASSUME [Next]_vars, NEW G,
         \A s \in Senders : SealRoomMessage(s) => G,
         sealed' = sealed /\ clear' = clear => G
  PROVE  G
  BY DEF Next, SenderStep, KeeperStep, FileStep, vars, StartSend, MintChain, SendFails,
         BroadcastChain, MarkChainShared, CheckReservation, RaiseReservation,
         StartSave, MarkChainStale, StartRestore, RestoreLoad, RestoreFails, RestoreChains,
         RestoreStale, LoadFile, ExportChain, ExportStale, WriteFile, FileFails,
         MarkRoomEncrypted, SignOff, Crash

\* While no two goroutines are in the window together and every restore could read the
\* file, a chain that a saved removal has ended never seals again, over any number of
\* crashes, sign-offs and restores (roomkeys.Room.Stale, RoomChainStale).
THEOREM RemovalsHold == OneWindowSpec => RetiredNeverSeals
<1> DEFINE A == \A x \in sealed' \ sealed : x.chain \in retired => unreadable > 0
<1>1. Inv /\ KeptInv /\ [Next /\ OneInWindow']_vars => [A]_vars
  <2> SUFFICES ASSUME Inv, KeptInv, [Next]_vars PROVE A
    OBVIOUS
  <2>1. unreadable \in Nat
    BY DEF Inv, MemoryInv, TypeOK
  <2>2. \A s \in Senders : SealRoomMessage(s) => A
    BY <2>1, SealFinds
  <2>3. sealed' = sealed => A
    OBVIOUS
  <2> HIDE DEF A
  <2>4. QED BY <2>2, <2>3, OnlySealsSend
<1>2. QED BY <1>1, KeptHolds, PTL DEF OneWindowSpec, RetiredNeverSeals

\* While no two goroutines are in the window together and every restore could read the
\* file, a room the file has as encrypted never gets a message in the clear
\* (roomKeys.encrypted).
THEOREM EncryptedStaysEncrypted == OneWindowSpec => NeverClearWhenSaved
<1> DEFINE A == \A x \in clear' \ clear : disk[x.room].known => unreadable > 0
<1>1. Inv /\ KeptInv /\ [Next /\ OneInWindow']_vars => [A]_vars
  <2> SUFFICES ASSUME Inv, KeptInv, [Next]_vars PROVE A
    OBVIOUS
  <2>1. unreadable \in Nat
    BY DEF Inv, MemoryInv, TypeOK
  <2>2. \A s \in Senders : SealRoomMessage(s) => A
    BY <2>1, SealFinds
  <2>3. clear' = clear => A
    OBVIOUS
  <2> HIDE DEF A
  <2>4. QED BY <2>2, <2>3, OnlySealsSend
<1>2. QED BY <1>1, KeptHolds, PTL DEF OneWindowSpec, NeverClearWhenSaved

=============================================================================
