----------------------- MODULE SessionHistory_proof -----------------------
(***************************************************************************)
(* Theorems about SessionHistory, for any accounts, threads and bounds:    *)
(* types; and, when no two sessions and no two savers overlap, that each   *)
(* account's file holds only its own threads under its own key, that only  *)
(* the user takes a thread out of it, and that what was taken out stays    *)
(* out.                                                                    *)
(***************************************************************************)
EXTENDS SessionHistory, SequenceTheorems, TLAPS

\* No key in use, or in a saver's hands, is one that was never minted.
KeyTypes == hist.key <= minted /\ \A s \in {"timer", "user"} : savers[s] # None => savers[s].key <= minted

Types == TypeOK /\ KeyTypes

-----------------------------------------------------------------------------
(* Types. *)

FormType  == form \in Form \cup {None} /\ status \in {"signing-on", "online", "offline", "error"}
             /\ signKey \in Accounts \cup {None}
LoopType  == loops \in Seq(Loop) /\ cur \in 0..Len(loops)
HistType  == hist \in [account : Accounts \cup {None}, key : Keys] /\ hist.key <= minted
StoreType == store \subseteq Threads /\ on \in BOOLEAN /\ timer \in {"off", "set", "waning"}
SaverType ==
  /\ savers \in [{"timer", "user"} -> Saver \cup {None}]
  /\ \A s \in {"timer", "user"} : savers[s] # None => savers[s].key <= minted
DiskType  ==
  /\ minted \in Keys /\ keyring \in [Accounts -> 0..minted]
  /\ file \in [Accounts -> [key : 0..minted, has : SUBSET Threads] \cup {None}]
  /\ unsaved \subseteq Threads
RestType  == removed \in [Threads -> {"no", "memory", "file"}] /\ upsets \in 0..MaxUpsets

LEMMA TypeParts ==
  Types <=> FormType /\ LoopType /\ HistType /\ StoreType /\ SaverType /\ DiskType /\ RestType
  BY DEF Types, TypeOK, KeyTypes, FormType, LoopType, HistType, StoreType, SaverType, DiskType,
         RestType

LEMMA TypePartsNext ==
  Types' <=> FormType' /\ LoopType' /\ HistType' /\ StoreType' /\ SaverType' /\ DiskType'
             /\ RestType'
  BY DEF Types, TypeOK, KeyTypes, FormType, LoopType, HistType, StoreType, SaverType, DiskType,
         RestType

LEMMA TypesStay ==
  ASSUME Types
  PROVE  /\ UNCHANGED <<form, status, signKey>> => FormType'
         /\ UNCHANGED <<loops, cur>> => LoopType'
         /\ UNCHANGED <<hist, minted>> => HistType'
         /\ UNCHANGED <<store, on, timer>> => StoreType'
         /\ UNCHANGED <<savers, minted>> => SaverType'
         /\ UNCHANGED disk => DiskType'
         /\ UNCHANGED <<removed, upsets>> => RestType'
  BY DEF Types, TypeOK, KeyTypes, FormType, LoopType, HistType, StoreType, SaverType, DiskType,
         RestType, disk

LEMMA UpsetType ==
  ASSUME Types, NEW kind, NEW b
  PROVE  /\ Upset(kind) => upsets' \in 0..MaxUpsets
         /\ UpsetIf(b, kind) => upsets' \in 0..MaxUpsets
  BY HistoryBounds DEF Types, TypeOK, Upset, UpsetIf

LEMMA TypesInit == Init => Types
<1> SUFFICES ASSUME Init PROVE Types
  OBVIOUS
<1>1. Len(loops) = 0 /\ loops \in Seq(Loop)
  BY DEF Init
<1>2. PICK old \in SUBSET Accounts :
        file = [a \in Accounts |-> IF a \in old THEN [key |-> 0, has |-> Of(a)] ELSE None]
  BY DEF Init
<1>3. file \in [Accounts -> [key : 0..minted, has : SUBSET Threads] \cup {None}]
  BY <1>2 DEF Init, Of
<1>4. 0 \in Keys /\ 0 \in 0..minted /\ 0 \in 0..MaxUpsets
  BY HistoryBounds DEF Init, Keys
<1>5. savers \in [{"timer", "user"} -> Saver \cup {None}] /\ \A s \in {"timer", "user"} : savers[s] = None
  BY DEF Init, NoSavers
<1>6. hist \in [account : Accounts \cup {None}, key : Keys] /\ hist.key = 0
  BY <1>4 DEF Init, NoHist
<1>7. removed \in [Threads -> {"no", "memory", "file"}]
  BY DEF Init
<1>8. keyring \in [Accounts -> 0..minted] /\ minted \in Keys
  BY <1>4 DEF Init
<1>a. FormType
  BY DEF Init, FormType
<1>b. LoopType
  BY <1>1 DEF Init, LoopType
<1>c. StoreType
  BY DEF Init, StoreType
<1>9. FormType /\ LoopType /\ StoreType
  BY <1>a, <1>b, <1>c
<1>10. HistType /\ SaverType /\ DiskType /\ RestType
  BY <1>3, <1>4, <1>5, <1>6, <1>7, <1>8 DEF Init, HistType, SaverType, DiskType, RestType
<1>11. QED BY <1>9, <1>10, TypeParts

\* What SetsKey leaves: a key that has been minted, for this account or none.
LEMMA SetsKeyType ==
  ASSUME Types, NEW a \in Accounts, NEW ring \in [Accounts -> 0..minted], NEW kept, NEW reachable,
         SetsKey(a, ring, kept, reachable)
  PROVE  /\ HistType' /\ minted' \in Keys /\ minted <= minted' /\ keyring' \in [Accounts -> 0..minted']
         /\ hist'.account = hist.account
         /\ hist'.key \in {0, keyring'[a]} /\ \A b \in Accounts \ {a} : keyring'[b] = ring[b]
         /\ keyring'[a] # ring[a] => ring[a] = 0
         /\ ~kept => hist'.key = 0
<1>1. hist \in [account : Accounts \cup {None}, key : Keys] /\ minted \in Nat /\ MaxKeys \in Nat
      /\ minted <= MaxKeys
  BY HistoryBounds DEF Types, TypeOK, Keys
<1>2. \A k \in Keys : [hist EXCEPT !.key = k] \in [account : Accounts \cup {None}, key : Keys]
                      /\ [hist EXCEPT !.key = k].key = k
                      /\ [hist EXCEPT !.key = k].account = hist.account
  BY <1>1
<1>3. CASE ~kept \/ ~reachable
  <2>1. hist' = [hist EXCEPT !.key = 0] /\ keyring' = ring /\ minted' = minted
    BY <1>3 DEF SetsKey
  <2>2. 0 \in Keys
    BY <1>1 DEF Keys
  <2>3. QED BY <1>1, <1>2, <2>1, <2>2 DEF HistType, Types, TypeOK
<1>4. CASE kept /\ reachable /\ ring[a] # 0
  <2>1. hist' = [hist EXCEPT !.key = ring[a]] /\ keyring' = ring /\ minted' = minted
    BY <1>4 DEF SetsKey
  <2>2. ring[a] \in Keys /\ ring[a] <= minted
    BY <1>1 DEF Keys
  <2>3. QED BY <1>1, <1>2, <1>4, <2>1, <2>2 DEF HistType, Types, TypeOK
<1>5. CASE kept /\ reachable /\ ring[a] = 0
  <2>1. minted < MaxKeys /\ minted' = minted + 1 /\ hist' = [hist EXCEPT !.key = minted']
        /\ keyring' = [ring EXCEPT ![a] = minted']
    BY <1>5 DEF SetsKey
  <2>2. minted' \in Keys /\ minted <= minted'
    BY <1>1, <2>1 DEF Keys
  <2>3. keyring' \in [Accounts -> 0..minted'] /\ keyring'[a] = minted'
        /\ \A b \in Accounts \ {a} : keyring'[b] = ring[b]
    BY <1>1, <2>1
  <2>4. QED BY <1>1, <1>2, <1>5, <2>1, <2>2, <2>3 DEF HistType
<1>6. QED BY <1>3, <1>4, <1>5

LEMMA AccountOfForm ==
  ASSUME Types, form # None
  PROVE  form \in Form /\ form.account \in Accounts
  BY DEF Types, TypeOK, Form

\* The step after this one, for the same account.
LEMMA Proceeds ==
  ASSUME Types, NEW step \in DOMAIN After, At(step), Proceed
  PROVE  form' \in Form /\ form'.step = After[step] /\ form'.account = form.account
<1>1. form \in Form /\ form.step = step
  BY AccountOfForm DEF At
<1>2. After[step] \in Steps
  BY DEF After, Steps
<1>3. QED BY <1>1, <1>2 DEF Proceed, Form

LEMMA LoopFacts ==
  ASSUME Types
  PROVE  /\ Len(loops) \in Nat /\ DOMAIN loops = 1..Len(loops) /\ cur \in 0..Len(loops)
         /\ \A i \in DOMAIN loops : loops[i] \in Loop
<1>1. loops \in Seq(Loop) /\ cur \in 0..Len(loops)
  BY DEF Types, TypeOK
<1>2. Len(loops) \in Nat /\ DOMAIN loops = 1..Len(loops)
  BY <1>1, LenProperties
<1>3. QED BY <1>1, <1>2, ElementOfSeq

\* One loop changes, the others and their number do not.
LEMMA LoopSet ==
  ASSUME Types, NEW i \in DOMAIN loops, NEW l \in Loop, loops' = [loops EXCEPT ![i] = l]
  PROVE  /\ loops' \in Seq(Loop) /\ Len(loops') = Len(loops) /\ DOMAIN loops' = DOMAIN loops
         /\ loops'[i] = l /\ \A j \in DOMAIN loops : j # i => loops'[j] = loops[j]
<1>1. loops \in Seq(Loop) /\ DOMAIN loops = 1..Len(loops)
  BY LoopFacts DEF Types, TypeOK
<1>2. /\ loops' \in Seq(Loop) /\ Len(loops') = Len(loops)
      /\ \A j \in 1 .. Len(loops) : loops'[j] = IF j=i THEN l ELSE loops[j]
  BY <1>1, ExceptSeq
<1>3. DOMAIN loops' = 1..Len(loops')
  BY <1>2, LenProperties
<1>4. QED BY <1>1, <1>2, <1>3

LEMMA LoopGoesTo ==
  ASSUME Types, NEW i \in DOMAIN loops, NEW pc \in {"run", "reset", "gone", "done"}, LoopGoes(i, pc)
  PROVE  /\ loops' \in Seq(Loop) /\ Len(loops') = Len(loops) /\ DOMAIN loops' = DOMAIN loops
         /\ loops'[i].pc = pc /\ loops'[i].account = loops[i].account
         /\ loops'[i].ending = loops[i].ending /\ loops'[i].attest = loops[i].attest
         /\ \A j \in DOMAIN loops : j # i => loops'[j] = loops[j]
<1> DEFINE l == [loops[i] EXCEPT !.pc = pc]
<1>1. loops[i] \in Loop
  BY LoopFacts
<1>2. l \in Loop /\ l.pc = pc /\ l.account = loops[i].account /\ l.ending = loops[i].ending
      /\ l.attest = loops[i].attest
  BY <1>1 DEF Loop
<1>3. loops' = [loops EXCEPT ![i] = l]
  BY DEF LoopGoes
<1> HIDE DEF l
<1>4. QED BY <1>2, <1>3, LoopSet

LEMMA LoopAnswers ==
  ASSUME Types, NEW i \in DOMAIN loops, AnswerAttestChallenge(i)
  PROVE  /\ loops' \in Seq(Loop) /\ Len(loops') = Len(loops) /\ DOMAIN loops' = DOMAIN loops
         /\ loops'[i].pc = loops[i].pc /\ loops'[i].account = loops[i].account
         /\ loops'[i].ending = loops[i].ending
         /\ loops'[i].attest = IF cur = 0 \/ signKey = loops[i].account THEN "settled" ELSE "other"
         /\ \A j \in DOMAIN loops : j # i => loops'[j] = loops[j]
<1> DEFINE how == IF cur = 0 \/ signKey = loops[i].account THEN "settled" ELSE "other"
           l   == [loops[i] EXCEPT !.attest = how]
<1>1. loops[i] \in Loop /\ how \in {"settled", "other"}
  BY LoopFacts
<1>2. loops' = [loops EXCEPT ![i].attest = how]
  BY DEF AnswerAttestChallenge
<1> HIDE DEF how
<1>3. l \in Loop /\ l.pc = loops[i].pc /\ l.account = loops[i].account /\ l.ending = loops[i].ending
      /\ l.attest = how
  BY <1>1 DEF Loop
<1>4. loops' = [loops EXCEPT ![i] = l]
  BY <1>2
<1> HIDE DEF l
<1>5. QED BY <1>3, <1>4, LoopSet DEF how

LEMMA LoopEnding ==
  ASSUME Types, cur # 0, loops' = [loops EXCEPT ![cur].ending = TRUE]
  PROVE  /\ loops' \in Seq(Loop) /\ Len(loops') = Len(loops) /\ DOMAIN loops' = DOMAIN loops
         /\ loops'[cur].pc = loops[cur].pc /\ loops'[cur].account = loops[cur].account
         /\ loops'[cur].ending = TRUE /\ loops'[cur].attest = loops[cur].attest
         /\ \A j \in DOMAIN loops : j # cur => loops'[j] = loops[j]
<1> DEFINE l == [loops[cur] EXCEPT !.ending = TRUE]
<1>1. cur \in DOMAIN loops /\ loops[cur] \in Loop
  BY LoopFacts
<1>2. l \in Loop /\ l.pc = loops[cur].pc /\ l.account = loops[cur].account /\ l.ending = TRUE
      /\ l.attest = loops[cur].attest
  BY <1>1 DEF Loop
<1>3. loops' = [loops EXCEPT ![cur] = l]
  OBVIOUS
<1> HIDE DEF l
<1>4. QED BY <1>1, <1>2, <1>3, LoopSet

LEMMA LoopOver ==
  ASSUME Types, NEW i \in DOMAIN loops, loops' = [loops EXCEPT ![i] = Over]
  PROVE  /\ loops' \in Seq(Loop) /\ Len(loops') = Len(loops) /\ DOMAIN loops' = DOMAIN loops
         /\ loops'[i].pc = "done" /\ loops'[i].account = None /\ loops'[i].ending = FALSE
         /\ loops'[i].attest = "settled"
         /\ \A j \in DOMAIN loops : j # i => loops'[j] = loops[j]
<1>1. Over \in Loop /\ Over.pc = "done" /\ Over.account = None /\ Over.ending = FALSE
      /\ Over.attest = "settled"
  BY DEF Over, Loop
<1>2. QED BY <1>1, LoopSet

LEMMA LoopStarts ==
  ASSUME Types, GoOnline
  PROVE  /\ loops' \in Seq(Loop) /\ Len(loops') = Len(loops) + 1 /\ cur' = Len(loops) + 1
         /\ DOMAIN loops' = 1..(Len(loops) + 1)
         /\ loops'[Len(loops) + 1].pc = "run" /\ loops'[Len(loops) + 1].account = form.account
         /\ loops'[Len(loops) + 1].ending = FALSE /\ loops'[Len(loops) + 1].attest = "asked"
         /\ \A j \in DOMAIN loops : loops'[j] = loops[j]
<1> DEFINE l == [account |-> form.account, pc |-> "run", ending |-> FALSE, attest |-> "asked"]
<1>1. form.account \in Accounts
  BY AccountOfForm DEF GoOnline, At
<1>2. l \in Loop /\ l.pc = "run" /\ l.account = form.account /\ l.ending = FALSE /\ l.attest = "asked"
  BY <1>1 DEF Loop
<1>3. loops' = Append(loops, l) /\ cur' = Len(loops')
  BY DEF GoOnline
<1> HIDE DEF l
<1>4. loops \in Seq(Loop) /\ Len(loops) \in Nat /\ DOMAIN loops = 1..Len(loops)
  BY LoopFacts DEF Types, TypeOK
<1>5. /\ loops' \in Seq(Loop) /\ Len(loops') = Len(loops) + 1
      /\ \A j \in 1..Len(loops) : loops'[j] = loops[j]
      /\ loops'[Len(loops) + 1] = l
  BY <1>2, <1>3, <1>4, AppendProperties
<1>6. DOMAIN loops' = 1..Len(loops')
  BY <1>5, LenProperties
<1>7. QED BY <1>2, <1>3, <1>4, <1>5, <1>6

Who == {"timer", "user"}

LEMMA SaverFacts ==
  ASSUME Types, NEW s \in Who, savers[s] # None
  PROVE  savers[s] \in Saver /\ savers[s].key <= minted
  BY DEF Who, Types, TypeOK, KeyTypes

\* Changing one saver.
LEMMA SaverSet ==
  ASSUME Types, NEW s \in Who, NEW v \in Saver \cup {None}, v # None => v.key <= minted,
         savers' = [savers EXCEPT ![s] = v], minted' >= minted, minted' \in Keys
  PROVE  SaverType' /\ savers'[s] = v /\ \A o \in Who : o # s => savers'[o] = savers[o]
<1>1. savers \in [Who -> Saver \cup {None}] /\ minted \in Nat /\ minted' \in Nat
  BY HistoryBounds DEF Types, TypeOK, Who, Keys
<1>2. savers' \in [Who -> Saver \cup {None}] /\ savers'[s] = v
      /\ \A o \in Who : o # s => savers'[o] = savers[o]
  BY <1>1
<1>3. \A o \in Who : savers'[o] # None => savers'[o].key <= minted'
  <2> SUFFICES ASSUME NEW o \in Who, savers'[o] # None PROVE savers'[o].key <= minted'
    OBVIOUS
  <2>1. CASE o = s
    <3>1. v \in Saver /\ v.key \in Nat /\ v.key <= minted
      BY <1>2, <2>1, HistoryBounds DEF Saver, Keys
    <3>2. QED BY <1>1, <1>2, <2>1, <3>1
  <2>2. CASE o # s
    <3>1. savers[o] # None /\ savers'[o] = savers[o]
      BY <1>2, <2>2
    <3>2. savers[o].key \in Nat /\ savers[o].key <= minted
      BY <3>1, SaverFacts, HistoryBounds DEF Saver, Keys
    <3>3. QED BY <1>1, <3>1, <3>2
  <2>3. QED BY <2>1, <2>2
<1>4. QED BY <1>2, <1>3 DEF SaverType, Who

\* A save in the account's name and under its key, from what is in memory.
LEMMA SaveFacts ==
  ASSUME Types, NEW op \in {"flush", "persist", "signoff"}
  PROVE  /\ Save(op) \in Saver /\ Save(op).key = hist.key /\ Save(op).account = hist.account
         /\ Save(op).pc = "chats" /\ Save(op).op = op /\ Save(op).has = {} /\ Save(op) # None
         /\ Save(op).key <= minted
<1>1. hist.account \in Accounts \cup {None} /\ hist.key \in Keys /\ hist.key <= minted
  BY DEF Types, TypeOK, KeyTypes
<1>2. QED BY <1>1, NoneAssumption DEF Save, Saver

LEMMA SaveFromFacts ==
  ASSUME Types, NEW op \in {"flush", "persist", "signoff"}, NEW pc \in {"unlink", "off"}, NEW v,
         v = [Save(op) EXCEPT !.pc = pc]
  PROVE  /\ v \in Saver /\ v.key = hist.key /\ v.account = hist.account
         /\ v.pc = pc /\ v.op = op /\ v.has = {} /\ v # None /\ v.key <= minted
<1> DEFINE w == Save(op)
<1>1. w \in Saver /\ w.key = hist.key /\ w.account = hist.account /\ w.op = op /\ w.has = {}
      /\ w.key <= minted
  BY SaveFacts
<1>2. v = [w EXCEPT !.pc = pc]
  OBVIOUS
<1> HIDE DEF w
<1>3. v \in Saver /\ v.key = w.key /\ v.account = w.account /\ v.pc = pc /\ v.op = w.op
      /\ v.has = w.has
  BY <1>1, <1>2 DEF Saver
<1>4. QED BY <1>1, <1>3, NoneAssumption

\* What a saver becomes when it has nothing left to write.
Ended(v, w) ==
  IF v.op = "signoff"
  THEN w \in Saver /\ w.key = v.key /\ w.account = v.account /\ w.pc = "off" /\ w.op = v.op
       /\ w.has = v.has
  ELSE w = None

LEMMA DoneFacts ==
  ASSUME Types, NEW s \in Who, savers[s] # None, Done(s), minted' >= minted, minted' \in Keys
  PROVE  /\ SaverType' /\ Ended(savers[s], savers'[s])
         /\ \A o \in Who : o # s => savers'[o] = savers[o]
<1> DEFINE v == savers[s]
           w == IF v.op = "signoff" THEN [v EXCEPT !.pc = "off"] ELSE None
<1>1. v \in Saver /\ v.key <= minted
  BY SaverFacts
<1>2. savers' = [savers EXCEPT ![s] = w]
  BY DEF Done
<1>3. Ended(v, w) /\ w \in Saver \cup {None} /\ (w # None => w.key <= minted)
  BY <1>1 DEF Ended, Saver
<1> HIDE DEF w, v
<1>4. SaverType' /\ savers'[s] = w /\ \A o \in Who : o # s => savers'[o] = savers[o]
  BY <1>2, <1>3, SaverSet
<1>5. QED BY <1>3, <1>4 DEF v

LEMMA TakeChatsFacts ==
  ASSUME Types, NEW s \in Who, TakeChats(s)
  PROVE  /\ SaverType' /\ savers'[s] \in Saver /\ savers'[s] # None
         /\ savers'[s].pc = "rooms" /\ savers'[s].has = store \cap Chats
         /\ savers'[s].op = savers[s].op
         /\ savers'[s].account = savers[s].account /\ savers'[s].key = savers[s].key
         /\ \A o \in Who : o # s => savers'[o] = savers[o]
<1> DEFINE v == savers[s]
           w == [v EXCEPT !.pc = "rooms", !.has = store \cap Chats]
<1>1. v \in Saver /\ v.key <= minted
  BY SaverFacts DEF TakeChats, SaverAt
<1>2. savers' = [savers EXCEPT ![s] = w]
  BY DEF TakeChats
<1>3. store \cap Chats \subseteq Threads /\ minted \in Keys /\ minted' = minted /\ minted \in Nat
  BY HistoryBounds DEF Threads, Types, TypeOK, Keys, TakeChats, disk
<1>4. w \in Saver /\ w.pc = "rooms" /\ w.has = store \cap Chats /\ w.op = v.op
      /\ w.account = v.account /\ w.key = v.key
  BY <1>1, <1>3 DEF Saver
<1>5. w # None /\ w.key <= minted /\ minted' >= minted
  BY <1>1, <1>3, <1>4, NoneAssumption
<1> HIDE DEF w, v
<1>6. SaverType' /\ savers'[s] = w /\ \A o \in Who : o # s => savers'[o] = savers[o]
  BY <1>2, <1>3, <1>4, <1>5, SaverSet
<1>7. QED BY <1>4, <1>5, <1>6 DEF v

LEMMA TakeRoomsFacts ==
  ASSUME Types, NEW s \in Who, TakeRooms(s),
         NEW all, all = savers[s].has \cup (store \cap Rooms)
  PROVE  /\ SaverType' /\ \A o \in Who : o # s => savers'[o] = savers[o]
         /\ NextOf(savers[s].op, all) = "skip" => Ended(savers[s], savers'[s])
         /\ NextOf(savers[s].op, all) # "skip" =>
              /\ savers'[s] \in Saver /\ savers'[s] # None
              /\ savers'[s].pc = NextOf(savers[s].op, all) /\ savers'[s].has = all
              /\ savers'[s].op = savers[s].op
              /\ savers'[s].account = savers[s].account /\ savers'[s].key = savers[s].key
<1> DEFINE v == savers[s]
           pc == NextOf(v.op, all)
           w == [v EXCEPT !.pc = pc, !.has = all]
<1>1. v \in Saver /\ v.key <= minted /\ savers[s] # None
  BY SaverFacts DEF TakeRooms, SaverAt
<1>2. all \subseteq Threads /\ minted \in Keys /\ minted' = minted /\ minted \in Nat /\ minted' >= minted
  BY <1>1, HistoryBounds DEF Threads, Types, TypeOK, Keys, TakeRooms, disk, Saver
<1>3. pc \in {"write", "clear", "skip"}
  BY DEF NextOf
<1>4. CASE pc = "skip"
  <2>1. Done(s)
    BY <1>4 DEF TakeRooms
  <2>2. QED BY <1>1, <1>2, <1>4, <2>1, DoneFacts
<1>5. CASE pc # "skip"
  <2>1. savers' = [savers EXCEPT ![s] = w]
    BY <1>5 DEF TakeRooms
  <2>2. w \in Saver /\ w.pc = pc /\ w.has = all /\ w.op = v.op /\ w.account = v.account
        /\ w.key = v.key
    BY <1>1, <1>2, <1>3, <1>5 DEF Saver
  <2>3. w # None /\ w.key <= minted
    BY <1>1, <2>2, NoneAssumption
  <2> HIDE DEF w
  <2>4. SaverType' /\ savers'[s] = w /\ \A o \in Who : o # s => savers'[o] = savers[o]
    BY <1>2, <2>1, <2>2, <2>3, SaverSet
  <2>5. QED BY <1>5, <2>2, <2>3, <2>4
<1>6. QED BY <1>4, <1>5

LEMMA Bounds ==
  ASSUME Types
  PROVE  /\ minted \in Nat /\ MaxKeys \in Nat /\ minted \in Keys /\ minted >= minted
         /\ 0 \in Keys /\ 0 \in 0..minted /\ 0 <= minted
  BY HistoryBounds DEF Types, TypeOK, Keys

LEMMA FormStepTypes ==
  ASSUME Types, FormStep
  PROVE  Types'
<1>a. minted \in Nat /\ 0 \in Keys /\ 0 <= minted
  BY Bounds
<1>b. hist \in [account : Accounts \cup {None}, key : Keys] /\ hist.key <= minted
  BY DEF Types, TypeOK, KeyTypes
<1>1. CASE SetupHistoryKey
  <2>1. PICK reachable \in BOOLEAN :
          SetsKey(form.account, keyring, on, reachable) /\ UpsetIf(~reachable, "locked")
    BY <1>1 DEF SetupHistoryKey
  <2>2. form.account \in Accounts /\ keyring \in [Accounts -> 0..minted]
    BY <1>1, AccountOfForm DEF SetupHistoryKey, At, Types, TypeOK
  <2>3. HistType' /\ minted' \in Keys /\ minted <= minted' /\ keyring' \in [Accounts -> 0..minted']
    BY <2>1, <2>2, SetsKeyType
  <2>4. FormType'
    BY <1>1, Proceeds DEF SetupHistoryKey, FormType, Types, TypeOK, After
  <2>5. LoopType' /\ StoreType'
    BY <1>1, TypesStay DEF SetupHistoryKey
  <2>6. minted' \in Nat /\ minted' >= minted
    BY <1>a, <2>3 DEF Keys
  <2>7. SaverType'
    <3>1. savers' = savers
      BY <1>1 DEF SetupHistoryKey
    <3>2. \A s \in {"timer", "user"} : savers[s] # None => savers[s].key \in Nat /\ savers[s].key <= minted
      BY SaverFacts, HistoryBounds DEF Who, Saver, Keys
    <3>3. \A s \in {"timer", "user"} : savers[s] # None => savers[s].key <= minted'
      BY <1>a, <2>6, <3>2
    <3>4. QED BY <3>1, <3>3 DEF SaverType, Types, TypeOK
  <2>8. DiskType'
    <3>1. file' = file
      BY <1>1 DEF SetupHistoryKey
    <3>2. file \in [Accounts -> [key : 0..minted, has : SUBSET Threads] \cup {None}]
      BY DEF Types, TypeOK
    <3>3. 0..minted \subseteq 0..minted'
      BY <1>a, <2>6
    <3>4. file \in [Accounts -> [key : 0..minted', has : SUBSET Threads] \cup {None}]
      BY <3>2, <3>3
    <3>5. unsaved' = unsaved /\ unsaved \subseteq Threads
      BY <1>1 DEF SetupHistoryKey, Types, TypeOK
    <3>6. QED BY <2>3, <3>1, <3>4, <3>5 DEF DiskType
  <2>9. RestType'
    <3>1. upsets' \in 0..MaxUpsets
      BY <2>1, UpsetType
    <3>2. QED BY <1>1, <3>1 DEF SetupHistoryKey, RestType, Types, TypeOK
  <2>10. QED BY <2>3, <2>4, <2>5, <2>7, <2>8, <2>9, TypePartsNext
<1>2. CASE LoadHistory
  <2>1. form.account \in Accounts /\ form # None
    BY <1>2, AccountOfForm DEF LoadHistory, At
  <2>2. FormType'
    BY <1>2, Proceeds DEF LoadHistory, FormType, Types, TypeOK, After
  <2>3. LoopType' /\ SaverType' /\ DiskType' /\ RestType'
    BY <1>2, TypesStay DEF LoadHistory, disk
  <2>4. minted' = minted /\ on' = on /\ timer' = timer
    BY <1>2 DEF LoadHistory, disk
  <2>5. store' = store \/ store' = {} \/ (file[form.account] # None /\ store' = file[form.account].has)
    BY <1>2 DEF LoadHistory
  <2>6. store' \subseteq Threads
    BY <2>1, <2>5 DEF Types, TypeOK
  <2>7. hist' = hist \/ hist' = [hist EXCEPT !.key = 0]
    BY <1>2 DEF LoadHistory
  <2>8. hist' \in [account : Accounts \cup {None}, key : Keys] /\ hist'.key <= minted
    BY <1>a, <1>b, <2>7
  <2>9. StoreType' /\ HistType'
    BY <2>4, <2>6, <2>8 DEF StoreType, HistType, Types, TypeOK
  <2>10. QED BY <2>2, <2>3, <2>9, TypePartsNext
<1>3. CASE SetupSigningKey
  <2>1. FormType'
    BY <1>3, Proceeds, AccountOfForm DEF SetupSigningKey, FormType, Types, TypeOK, After, At
  <2>2. QED BY <1>3, <2>1, TypesStay, TypePartsNext DEF SetupSigningKey, disk
<1>4. CASE Connect
  <2>1. HistType' /\ StoreType' /\ SaverType' /\ DiskType'
    BY <1>4, TypesStay DEF Connect, disk
  <2>2. removed' = removed /\ signKey' = signKey
    BY <1>4 DEF Connect
  <2>3. CASE Login \/ Handshake \/ LoadBuddies
    <3>1. FormType'
      BY <2>2, <2>3, Proceeds DEF Login, Handshake, LoadBuddies, FormType, Types, TypeOK, After
    <3>2. LoopType' /\ RestType'
      BY <2>2, <2>3, TypesStay DEF Login, Handshake, LoadBuddies
    <3>3. QED BY <2>1, <3>1, <3>2, TypePartsNext
  <2>4. CASE GoOnline
    <3>1. FormType'
      BY <2>2, <2>4, Proceeds DEF GoOnline, FormType, Types, TypeOK, After
    <3>2. RestType'
      BY <2>2, <2>4, TypesStay DEF GoOnline
    <3>3. LoopType'
      <4>1. loops' \in Seq(Loop) /\ Len(loops') = Len(loops) + 1 /\ cur' = Len(loops) + 1
        BY <2>4, LoopStarts
      <4>2. Len(loops) \in Nat
        BY LoopFacts
      <4>3. QED BY <4>1, <4>2 DEF LoopType
    <3>4. QED BY <2>1, <3>1, <3>2, <3>3, TypePartsNext
  <2>5. CASE \E step \in {"login", "bos", "list", "online"} : Refused(step)
    <3>1. form' = None /\ status' = "error" /\ UNCHANGED <<loops, cur>>
      BY <2>5 DEF Refused, SignOnFails
    <3>2. FormType' /\ LoopType'
      BY <2>2, <3>1, TypesStay DEF FormType, Types, TypeOK
    <3>3. upsets' \in 0..MaxUpsets
      BY <2>5, UpsetType DEF Refused, Types, TypeOK
    <3>4. RestType'
      BY <2>2, <3>3 DEF RestType, Types, TypeOK
    <3>5. QED BY <2>1, <3>2, <3>4, TypePartsNext
  <2>6. QED BY <1>4, <2>3, <2>4, <2>5 DEF Connect
<1>5. CASE PersistsFor
  <2>1. FormType'
    BY <1>5, Proceeds DEF PersistsFor, FormType, Types, TypeOK, After
  <2>2. form.account \in Accounts /\ hist' = [hist EXCEPT !.account = form.account] /\ minted' = minted
    BY <1>5, AccountOfForm DEF PersistsFor, At, disk
  <2>3. HistType'
    BY <1>b, <2>2 DEF HistType
  <2>4. StoreType'
    BY <1>5 DEF PersistsFor, StoreType, Types, TypeOK, ScheduleSave
  <2>5. QED BY <1>5, <2>1, <2>3, <2>4, TypesStay, TypePartsNext DEF PersistsFor, disk
<1>6. CASE SignedOn
  <2>1. FormType'
    BY <1>6 DEF SignedOn, FormType, Types, TypeOK
  <2>2. QED BY <1>6, <2>1, TypesStay, TypePartsNext DEF SignedOn, disk
<1>7. QED BY <1>1, <1>2, <1>3, <1>4, <1>5, <1>6 DEF FormStep

LEMMA LoopTypes ==
  ASSUME Types, NEW i \in DOMAIN loops,
         \/ LoopStep(i) \/ LoopEnds(i) \/ \E thread \in Threads : MessageArrives(i, thread)
  PROVE  Types'
<1>a. Len(loops) \in Nat /\ cur \in 0..Len(loops) /\ minted \in Nat /\ 0 \in Keys /\ 0 <= minted
  BY LoopFacts, Bounds
<1>1. CASE AnswerAttestChallenge(i)
  <2>1. loops' \in Seq(Loop) /\ Len(loops') = Len(loops)
    BY <1>1, LoopAnswers
  <2>2. LoopType'
    BY <1>1, <1>a, <2>1 DEF LoopType, AnswerAttestChallenge
  <2>3. QED BY <1>1, <2>2, TypesStay, TypePartsNext DEF AnswerAttestChallenge, disk
<1>2. CASE LoopEnds(i)
  <2>1. loops' \in Seq(Loop) /\ Len(loops') = Len(loops)
    BY <1>2, LoopGoesTo DEF LoopEnds
  <2>2. LoopType'
    BY <1>2, <1>a, <2>1 DEF LoopType, LoopEnds
  <2>3. upsets' \in 0..MaxUpsets
    BY <1>2, UpsetType DEF LoopEnds, Types, TypeOK
  <2>4. RestType'
    BY <1>2, <2>3 DEF RestType, LoopEnds, Types, TypeOK
  <2>5. QED BY <1>2, <2>2, <2>4, TypesStay, TypePartsNext DEF LoopEnds, disk
<1>3. CASE ResetStore(i)
  <2>1. loops' \in Seq(Loop) /\ Len(loops') = Len(loops)
    BY <1>3, LoopGoesTo DEF ResetStore
  <2>2. LoopType'
    BY <1>3, <1>a, <2>1 DEF LoopType, ResetStore
  <2>3. upsets' \in 0..MaxUpsets
    BY <1>3, UpsetType DEF ResetStore
  <2>4. RestType'
    BY <1>3, <2>3 DEF RestType, ResetStore, Types, TypeOK
  <2>5. StoreType'
    BY <1>3 DEF StoreType, ResetStore, Types, TypeOK
  <2>6. QED BY <1>3, <2>2, <2>4, <2>5, TypesStay, TypePartsNext DEF ResetStore, disk
<1>4. CASE OnDisconnect(i)
  <2>1. loops' \in Seq(Loop) /\ Len(loops') = Len(loops)
    BY <1>4, LoopOver DEF OnDisconnect
  <2>2. LoopType'
    BY <1>4, <1>a, <2>1 DEF LoopType, OnDisconnect
  <2>3. upsets' \in 0..MaxUpsets
    BY <1>4, UpsetType DEF OnDisconnect
  <2>4. RestType'
    BY <1>4, <2>3 DEF RestType, OnDisconnect, Types, TypeOK
  <2>5. StoreType'
    BY <1>4 DEF StoreType, OnDisconnect, Types, TypeOK
  <2>6. HistType'
    BY <1>4, <1>a DEF HistType, OnDisconnect, NoHist, disk
  <2>7. FormType'
    BY <1>4 DEF FormType, OnDisconnect, Types, TypeOK
  <2>8. QED BY <1>4, <2>2, <2>4, <2>5, <2>6, <2>7, TypesStay, TypePartsNext DEF OnDisconnect, disk
<1>5. ASSUME NEW thread \in Threads, MessageArrives(i, thread) PROVE Types'
  <2>1. removed' = [removed EXCEPT ![thread] = IF @ = "no" THEN "no" ELSE "memory"] /\ upsets' = upsets
    BY <1>5 DEF MessageArrives
  <2>2. removed' \in [Threads -> {"no", "memory", "file"}]
    BY <2>1 DEF Types, TypeOK
  <2>3. RestType'
    BY <2>1, <2>2 DEF RestType, Types, TypeOK
  <2>4. StoreType'
    BY <1>5 DEF StoreType, MessageArrives, ScheduleSave, Types, TypeOK
  <2>5. QED BY <1>5, <2>3, <2>4, TypesStay, TypePartsNext DEF MessageArrives, conn, disk
<1>6. QED BY <1>1, <1>2, <1>3, <1>4, <1>5 DEF LoopStep

LEMMA SaverStepTypes ==
  ASSUME Types, NEW s \in Who, SaverStep(s)
  PROVE  Types'
<1>a. minted \in Nat /\ minted \in Keys /\ minted >= minted
  BY Bounds
<1>1. CASE TakeChats(s)
  <2>1. SaverType'
    BY <1>1, TakeChatsFacts
  <2>2. QED BY <1>1, <2>1, TypesStay, TypePartsNext DEF TakeChats, conn, disk
<1>2. CASE TakeRooms(s)
  <2>1. SaverType'
    BY <1>2, TakeRoomsFacts
  <2>2. QED BY <1>2, <2>1, TypesStay, TypePartsNext DEF TakeRooms, conn, disk
<1>3. CASE Write(s)
  <2>1. savers[s] # None /\ Done(s) /\ minted' = minted
    BY <1>3 DEF Write, SaverAt
  <2>2. SaverType'
    BY <1>a, <2>1, DoneFacts
  <2>3. savers[s] \in Saver /\ savers[s].key \in 0..minted /\ savers[s].has \subseteq Threads
    BY <1>a, <2>1, SaverFacts, HistoryBounds DEF Saver, Keys
  <2>4. file' \in [Accounts -> [key : 0..minted, has : SUBSET Threads] \cup {None}]
    <3>1. [key |-> savers[s].key, has |-> savers[s].has] \in [key : 0..minted, has : SUBSET Threads]
      BY <2>3
    <3>2. QED BY <1>3, <3>1 DEF Write, Types, TypeOK
  <2>5. DiskType'
    BY <1>3, <2>4 DEF DiskType, Write, Types, TypeOK
  <2>6. removed' \in [Threads -> {"no", "memory", "file"}]
    BY <1>3 DEF Write, Types, TypeOK
  <2>7. RestType'
    BY <1>3, <2>6 DEF RestType, Write, Types, TypeOK
  <2>8. QED BY <1>3, <2>2, <2>5, <2>7, TypesStay, TypePartsNext DEF Write, conn
<1>4. CASE ClearFile(s)
  <2>1. savers[s] # None /\ Done(s) /\ minted' = minted
    BY <1>4 DEF ClearFile, SaverAt, disk
  <2>2. SaverType'
    BY <1>a, <2>1, DoneFacts
  <2>3. DiskType'
    BY <1>4 DEF DiskType, ClearFile, Types, TypeOK
  <2>4. QED BY <1>4, <2>2, <2>3, TypesStay, TypePartsNext DEF ClearFile, conn
<1>5. CASE SaveFails(s)
  <2>1. savers[s] # None /\ Done(s) /\ minted' = minted
    BY <1>5 DEF SaveFails, SaverAt
  <2>2. SaverType'
    BY <1>a, <2>1, DoneFacts
  <2>3. RestType'
    <3>1. upsets' \in 0..MaxUpsets
      BY <1>5, UpsetType DEF SaveFails
    <3>2. removed' \in [Threads -> {"no", "memory", "file"}]
      BY <1>5 DEF SaveFails, StillThere, Types, TypeOK
    <3>3. QED BY <3>1, <3>2 DEF RestType
  <2>4. DiskType'
    <3>1. savers[s].has \subseteq Threads
      BY <1>a, <2>1, SaverFacts DEF Saver
    <3>2. QED BY <1>5, <3>1 DEF DiskType, SaveFails, Types, TypeOK
  <2>5. QED BY <1>5, <2>2, <2>3, <2>4, TypesStay, TypePartsNext DEF SaveFails, conn
<1>6. QED BY <1>1, <1>2, <1>3, <1>4, <1>5 DEF SaverStep

LEMMA SaversRunTypes ==
  ASSUME Types, TimerFires \/ Unlink \/ UnlinkFails \/ ClientSignOff
  PROVE  Types'
<1>a. minted \in Nat /\ minted \in Keys /\ minted >= minted /\ "timer" \in Who /\ "user" \in Who
  BY Bounds DEF Who
<1>1. CASE TimerFires
  <2>1. SaverType'
    <3>1. CASE Persisting
      <4>1. savers' = [savers EXCEPT !["timer"] = Save("flush")] /\ minted' = minted
        BY <1>1, <3>1 DEF TimerFires, disk
      <4>2. QED BY <1>a, <4>1, SaveFacts, SaverSet
    <3>2. CASE ~Persisting
      BY <1>1, <3>2, TypesStay DEF TimerFires, disk
    <3>3. QED BY <3>1, <3>2
  <2>2. StoreType'
    BY <1>1 DEF StoreType, TimerFires, Types, TypeOK
  <2>3. upsets' \in 0..MaxUpsets
    BY <1>1, UpsetType DEF TimerFires
  <2>4. RestType'
    BY <1>1, <2>3 DEF RestType, TimerFires, Types, TypeOK
  <2>5. QED BY <1>1, <2>1, <2>2, <2>4, TypesStay, TypePartsNext DEF TimerFires, conn, disk
<1>2. CASE Unlink
  <2> DEFINE a == savers["user"].account
  <2>1. PICK reachable \in BOOLEAN :
          /\ UpsetIf(~reachable, "locked")
          /\ LET ring == IF reachable THEN [keyring EXCEPT ![a] = 0] ELSE keyring
             IN  IF hist.account # None THEN SetsKey(hist.account, ring, on, reachable)
                 ELSE keyring' = ring /\ UNCHANGED <<hist, minted>>
    BY <1>2 DEF Unlink
  <2> DEFINE ring == IF reachable THEN [keyring EXCEPT ![a] = 0] ELSE keyring
  <2>2. keyring \in [Accounts -> 0..minted] /\ hist.account \in Accounts \cup {None}
        /\ file \in [Accounts -> [key : 0..minted, has : SUBSET Threads] \cup {None}]
    BY DEF Types, TypeOK
  <2>3. ring \in [Accounts -> 0..minted]
    <3>1. 0 \in 0..minted
      BY Bounds
    <3>2. [keyring EXCEPT ![a] = 0] \in [Accounts -> 0..minted]
      BY <2>2, <3>1
    <3>3. QED BY <2>2, <3>2
  <2>4. IF hist.account # None THEN SetsKey(hist.account, ring, on, reachable)
        ELSE keyring' = ring /\ UNCHANGED <<hist, minted>>
    BY <2>1
  <2> HIDE DEF ring
  <2>5. HistType' /\ minted' \in Keys /\ minted <= minted' /\ keyring' \in [Accounts -> 0..minted']
    <3>1. CASE hist.account # None
      BY <2>2, <2>3, <2>4, <3>1, SetsKeyType
    <3>2. CASE hist.account = None
      BY <1>a, <2>3, <2>4, <3>2, TypesStay
    <3>3. QED BY <3>1, <3>2
  <2>6. minted' \in Nat /\ minted' >= minted
    BY <1>a, <2>5 DEF Keys
  <2>7. SaverType'
    <3>1. savers' = [savers EXCEPT !["user"] = None]
      BY <1>2 DEF Unlink
    <3>2. QED BY <1>a, <2>5, <2>6, <3>1, SaverSet
  <2>8. DiskType'
    <3>1. file' = [file EXCEPT ![a] = None]
      BY <1>2 DEF Unlink
    <3>2. 0..minted \subseteq 0..minted'
      BY <1>a, <2>6
    <3>3. file' \in [Accounts -> [key : 0..minted', has : SUBSET Threads] \cup {None}]
      BY <2>2, <3>1, <3>2
    <3>4. unsaved' = unsaved /\ unsaved \subseteq Threads
      BY <1>2 DEF Unlink, Types, TypeOK
    <3>5. QED BY <2>5, <3>3, <3>4 DEF DiskType
  <2>9. RestType'
    <3>1. upsets' \in 0..MaxUpsets
      BY <2>1, UpsetType
    <3>2. removed' = [t \in Threads |-> IF t \in Of(a) \ store THEN "file" ELSE removed[t]]
      BY <1>2 DEF Unlink
    <3>3. removed' \in [Threads -> {"no", "memory", "file"}]
      BY <3>2 DEF Types, TypeOK
    <3>4. QED BY <3>1, <3>3 DEF RestType
  <2>10. FormType' /\ LoopType' /\ StoreType'
    BY <1>2, TypesStay DEF Unlink, conn
  <2>11. QED BY <2>5, <2>7, <2>8, <2>9, <2>10, TypePartsNext
<1>3. CASE ClientSignOff
  <2>1. SaverType'
    <3>1. savers' = [savers EXCEPT !["user"] = None] /\ minted' = minted
      BY <1>3 DEF ClientSignOff, disk
    <3>2. QED BY <1>a, <3>1, SaverSet
  <2>2. LoopType'
    <3>1. loops' \in Seq(Loop) /\ Len(loops') \in Nat
      <4>1. CASE cur = 0
        BY <1>3, <4>1, LoopFacts DEF ClientSignOff, Types, TypeOK
      <4>2. CASE cur # 0
        BY <1>3, <4>2, LoopEnding, LoopFacts DEF ClientSignOff
      <4>3. QED BY <4>1, <4>2
    <3>2. QED BY <1>3, <3>1 DEF LoopType, ClientSignOff
  <2>3. FormType'
    BY <1>3 DEF FormType, ClientSignOff, Types, TypeOK
  <2>4. QED BY <1>3, <2>1, <2>2, <2>3, TypesStay, TypePartsNext DEF ClientSignOff, disk
<1>4. CASE UnlinkFails
  <2>1. SaverType'
    <3>1. savers' = [savers EXCEPT !["user"] = None] /\ minted' = minted
      BY <1>4 DEF UnlinkFails, disk
    <3>2. QED BY <1>a, <3>1, SaverSet
  <2>2. RestType'
    <3>1. upsets' \in 0..MaxUpsets
      BY <1>4, UpsetType DEF UnlinkFails
    <3>2. removed' \in [Threads -> {"no", "memory", "file"}]
      BY <1>4 DEF UnlinkFails, Types, TypeOK
    <3>3. QED BY <3>1, <3>2 DEF RestType
  <2>3. QED BY <1>4, <2>1, <2>2, TypesStay, TypePartsNext DEF UnlinkFails, conn, disk
<1>5. QED BY <1>1, <1>2, <1>3, <1>4

\* A save the user's action ends with.
LEMMA UserSavesFacts ==
  ASSUME Types, NEW op \in {"flush", "persist"}, UserSaves(op), minted' = minted
  PROVE  /\ SaverType' /\ savers'["timer"] = savers["timer"]
         /\ Persisting => savers'["user"] = Save(op)
         /\ ~Persisting => savers' = savers
<1>a. minted \in Keys /\ minted >= minted /\ "timer" \in Who /\ "user" \in Who
  BY Bounds DEF Who
<1>1. CASE Persisting
  <2>1. savers' = [savers EXCEPT !["user"] = Save(op)]
    BY <1>1 DEF UserSaves
  <2>2. QED BY <1>a, <1>1, <2>1, SaveFacts, SaverSet
<1>2. CASE ~Persisting
  BY <1>2, TypesStay DEF UserSaves
<1>3. QED BY <1>1, <1>2

LEMMA RemovesFacts ==
  ASSUME Types, NEW thread \in Threads, Removes(thread)
  PROVE  /\ store' = store \ {thread} /\ removed' \in [Threads -> {"no", "memory", "file"}]
         /\ removed'[thread] = IF Persisting THEN "file" ELSE "memory"
         /\ \A t \in Threads \ {thread} : removed'[t] = removed[t]
  BY DEF Removes, Types, TypeOK

LEMMA UserTypes ==
  ASSUME Types, UserActs
  PROVE  Types'
<1>a. minted \in Nat /\ minted \in Keys /\ minted >= minted /\ "timer" \in Who /\ "user" \in Who
  BY Bounds DEF Who
<1>1. ASSUME NEW a \in Accounts, SignIn(a) PROVE Types'
  <2>1. [step |-> "key", account |-> a] \in Form
    BY DEF Form, Steps
  <2>2. FormType'
    BY <1>1, <2>1 DEF FormType, SignIn, Types, TypeOK
  <2>3. upsets' \in 0..MaxUpsets
    BY <1>1, UpsetType DEF SignIn
  <2>4. RestType'
    BY <1>1, <2>3 DEF RestType, SignIn, Types, TypeOK
  <2>5. QED BY <1>1, <2>2, <2>4, TypesStay, TypePartsNext DEF SignIn, disk
<1>2. ASSUME NEW thread \in store, ClearConversation(thread) \/ ForgetRoom(thread) PROVE Types'
  <2>1. thread \in Threads /\ minted' = minted
    BY <1>2 DEF Types, TypeOK, ClearConversation, ForgetRoom, disk
  <2>2. store' = store \ {thread} /\ removed' \in [Threads -> {"no", "memory", "file"}]
    BY <1>2, <2>1, RemovesFacts DEF ClearConversation, ForgetRoom
  <2>3. SaverType'
    BY <1>2, <2>1, UserSavesFacts DEF ClearConversation, ForgetRoom
  <2>4. upsets' \in 0..MaxUpsets
    BY <1>2, UpsetType DEF ClearConversation, ForgetRoom
  <2>5. StoreType'
    BY <1>2, <2>2 DEF StoreType, ClearConversation, ForgetRoom, Types, TypeOK
  <2>6. RestType'
    BY <2>2, <2>4 DEF RestType
  <2>7. FormType' /\ LoopType' /\ HistType' /\ DiskType'
    BY <1>2, TypesStay DEF ClearConversation, ForgetRoom, conn, disk
  <2>8. QED BY <2>3, <2>5, <2>6, <2>7, TypePartsNext
<1>3. CASE ClearHistory
  <2>1. savers' = [savers EXCEPT !["user"] = [Save("flush") EXCEPT !.pc = "unlink"]] /\ minted' = minted
    BY <1>3 DEF ClearHistory, disk
  <2>2. SaverType'
    BY <1>a, <2>1, SaveFromFacts, SaverSet
  <2>3. upsets' \in 0..MaxUpsets
    BY <1>3, UpsetType DEF ClearHistory
  <2>4. RestType' /\ StoreType'
    BY <1>3, <2>3 DEF RestType, StoreType, ClearHistory, Types, TypeOK
  <2>5. QED BY <1>3, <2>2, <2>4, TypesStay, TypePartsNext DEF ClearHistory, conn, disk
<1>4. CASE DisableHistory
  <2>1. upsets' \in 0..MaxUpsets
    BY <1>4, UpsetType DEF DisableHistory
  <2>2. RestType' /\ StoreType'
    BY <1>4, <2>1 DEF RestType, StoreType, DisableHistory, Types, TypeOK
  <2>3. QED BY <1>4, <2>2, TypesStay, TypePartsNext DEF DisableHistory, conn, disk
<1>5. CASE EnableHistory
  <2> DEFINE keyless == hist.account # None /\ hist.key = 0
  <2>1. /\ UpsetIf(Racing \/ keyless, IF Racing THEN "race" ELSE "toggle")
        /\ IF keyless THEN SetsKey(hist.account, keyring, TRUE, TRUE)
           ELSE UNCHANGED <<hist, keyring, minted>>
    BY <1>5 DEF EnableHistory
  <2>2. upsets' \in 0..MaxUpsets
    BY <2>1, UpsetType
  <2>3. RestType' /\ StoreType'
    BY <1>5, <2>2 DEF RestType, StoreType, EnableHistory, Types, TypeOK
  <2>4. keyring \in [Accounts -> 0..minted] /\ hist.account \in Accounts \cup {None}
    BY DEF Types, TypeOK
  <2>5. HistType' /\ minted' \in Keys /\ minted <= minted' /\ keyring' \in [Accounts -> 0..minted']
    <3>1. CASE keyless
      BY <2>1, <2>4, <3>1, SetsKeyType
    <3>2. CASE ~keyless
      BY <1>a, <2>1, <2>4, <3>2, TypesStay
    <3>3. QED BY <3>1, <3>2
  <2>6. minted' \in Nat /\ minted' >= minted
    BY <1>a, <2>5 DEF Keys
  <2>7. SaverType'
    <3>1. savers' = savers
      BY <1>5 DEF EnableHistory
    <3>2. \A s \in {"timer", "user"} : savers[s] # None => savers[s].key \in Nat /\ savers[s].key <= minted
      BY SaverFacts, HistoryBounds DEF Who, Saver, Keys
    <3>3. \A s \in {"timer", "user"} : savers[s] # None => savers[s].key <= minted'
      BY <1>a, <2>6, <3>2
    <3>4. QED BY <3>1, <3>3 DEF SaverType, Types, TypeOK
  <2>8. DiskType'
    <3>1. file' = file
      BY <1>5 DEF EnableHistory
    <3>2. file \in [Accounts -> [key : 0..minted, has : SUBSET Threads] \cup {None}]
      BY DEF Types, TypeOK
    <3>3. 0..minted \subseteq 0..minted'
      BY <1>a, <2>6
    <3>4. file \in [Accounts -> [key : 0..minted', has : SUBSET Threads] \cup {None}]
      BY <3>2, <3>3
    <3>5. unsaved' = unsaved /\ unsaved \subseteq Threads
      BY <1>5 DEF EnableHistory, Types, TypeOK
    <3>6. QED BY <2>5, <3>1, <3>4, <3>5 DEF DiskType
  <2>9. FormType' /\ LoopType'
    BY <1>5, TypesStay DEF EnableHistory, conn
  <2>10. QED BY <2>3, <2>5, <2>7, <2>8, <2>9, TypePartsNext
<1>6. CASE SignOff
  <2>1. minted' = minted
    BY <1>6 DEF SignOff, disk
  <2>2. SaverType'
    <3>1. CASE Persisting
      BY <1>a, <1>6, <2>1, <3>1, SaveFacts, SaverSet DEF SignOff
    <3>2. CASE ~Persisting
      BY <1>a, <1>6, <2>1, <3>2, SaveFromFacts, SaverSet DEF SignOff
    <3>3. QED BY <3>1, <3>2
  <2>3. upsets' \in 0..MaxUpsets
    BY <1>6, UpsetType DEF SignOff
  <2>4. RestType'
    BY <1>6, <2>3 DEF RestType, SignOff, Types, TypeOK
  <2>5. QED BY <1>6, <2>2, <2>4, TypesStay, TypePartsNext DEF SignOff, conn, disk
<1>7. QED BY <1>1, <1>2, <1>3, <1>4, <1>5, <1>6 DEF UserActs

LEMMA CrashTypes ==
  ASSUME Types, Crash
  PROVE  Types'
<1>1. FormType'
  BY DEF Crash, FormType, Types, TypeOK
<1>2. LoopType'
  <2> DEFINE n == Len(loops)
  <2>1. n \in Nat /\ DOMAIN loops = 1..n
    BY LoopFacts
  <2>2. loops' = [i \in 1..n |-> Over] /\ cur' = 0
    BY <2>1 DEF Crash
  <2>3. Over \in Loop
    BY DEF Over, Loop
  <2>4. loops' \in Seq(Loop) /\ Len(loops') = n
    BY <2>1, <2>2, <2>3
  <2>5. QED BY <2>1, <2>2, <2>4 DEF LoopType
<1>3. minted \in Nat /\ 0 \in Keys /\ 0 <= minted
  BY Bounds
<1>4. HistType' /\ StoreType'
  BY <1>3 DEF Crash, HistType, StoreType, NoHist, disk, Types, TypeOK
<1>5. SaverType'
  BY DEF Crash, SaverType, NoSavers
<1>6. removed' \in [Threads -> {"no", "memory", "file"}]
  BY DEF Crash, StillThere, Types, TypeOK
<1>7. upsets' \in 0..MaxUpsets
  BY UpsetType DEF Crash
<1>8. RestType'
  BY <1>6, <1>7 DEF RestType
<1>9. DiskType'
  BY TypesStay DEF Crash
<1>10. QED BY <1>1, <1>2, <1>4, <1>5, <1>8, <1>9, TypePartsNext

LEMMA TypesStep == Types /\ [Next]_vars => Types'
<1> SUFFICES ASSUME Types, [Next]_vars PROVE Types'
  OBVIOUS
<1>1. CASE Next
  <2>1. LoopRuns => \E i \in DOMAIN loops : LoopStep(i)
    BY DEF LoopRuns
  <2>2. SaversRun => \/ TimerFires \/ Unlink \/ UnlinkFails \/ ClientSignOff
                     \/ \E s \in Who : SaverStep(s)
    BY DEF SaversRun, Who
  <2>3. CASE TimerWanes
    <3>1. StoreType'
      BY <2>3 DEF TimerWanes, StoreType, Types, TypeOK
    <3>2. QED BY <2>3, <3>1, TypesStay, TypePartsNext DEF TimerWanes, conn, disk
  <2>4. QED BY <1>1, <2>1, <2>2, <2>3, FormStepTypes, LoopTypes, SaverStepTypes, SaversRunTypes,
              UserTypes, CrashTypes DEF Next
<1>2. CASE UNCHANGED vars
  BY <1>2, TypesStay, TypePartsNext DEF vars, conn, disk
<1>3. QED BY <1>1, <1>2

\* Sessions, savers, keys and files keep their types in every schedule, and no key in
\* use is one that was never minted.
THEOREM TypeCorrect == Spec => []TypeOK
<1>1. Types => TypeOK
  BY DEF Types
<1>2. QED BY TypesInit, TypesStep, <1>1, PTL DEF Spec

-----------------------------------------------------------------------------
(* The hypothesis and the inductive invariant. *)

\* One sign-on after the last session has finished, one saver at a time, no session
\* lost before its sign-on is done, no history switched on without a key.
Orderly == Upsets \cap {"overlap", "kicked", "race", "toggle"} = {}

Quiet == \A i \in DOMAIN loops : loops[i].pc = "done"

\* Only the last session's loop may be alive, and the client's session is that of a
\* loop that runs and was not told to end.
OneLoop ==
  /\ \A i \in DOMAIN loops : loops[i].pc # "done" => i = Len(loops)
  /\ \A i \in DOMAIN loops : cur = i <=> loops[i].pc = "run" /\ ~loops[i].ending

\* doSignOn's order: no session until its list is loaded, nothing saved and no account
\* to save for until it is the account's, the signing key before the login.
Signing ==
  form # None =>
    /\ savers["user"] = None
    /\ IF form.step \in {"account", "e2ee"} THEN cur # 0 /\ loops[cur].account = form.account
       ELSE Quiet
    /\ form.step \notin {"key", "load", "sign"} => signKey = form.account
    /\ form.step # "e2ee" => hist.account = None
    /\ form.step = "e2ee" => hist.account = form.account
    /\ form.step = "load" /\ ~on => hist.key = 0

\* Whose history is being kept, and by when nothing is.
Keeping ==
  /\ hist.account = None => timer = "off" /\ savers["timer"] = None
  /\ hist.account # None => \E i \in DOMAIN loops : loops[i].pc # "done" /\ loops[i].account = hist.account

\* The signing key in use is that of the session's account.
Signed ==
  /\ cur # 0 => signKey = loops[cur].account
  /\ \A i \in DOMAIN loops : loops[i].attest # "other"

\* The accounts the key in use, and the store, have been set up for.
KeyedFor(a)  == hist.account = a \/ (form # None /\ form.step # "key" /\ form.account = a)
LoadedFor(a) == hist.account = a \/ (form # None /\ form.step \notin {"key", "load"} /\ form.account = a)

Lives == \A i \in DOMAIN loops : loops[i].pc # "gone"

Gone == {t \in Threads : removed[t] # "no"}

\* The key in use is the account's own, and so is what the store holds; what its file
\* holds is in the store, or the user removed it.
Ours ==
  \A a \in Accounts :
    /\ KeyedFor(a) => hist.key \in {0, keyring[a]}
    /\ LoadedFor(a) /\ hist.key # 0 => store \subseteq Of(a)
    /\ LoadedFor(a) /\ hist.key # 0 /\ Lives /\ ~SaverAt("user", "unlink") => Kept(a) \subseteq store \cup Gone

Emptied == ~Lives => store = {}

\* A saver saves what the store still holds, for the account and under the key in use.
Saving(s) ==
  savers[s] # None =>
    /\ savers[s].account = hist.account /\ savers[s].key = hist.key
    /\ savers[s].has \subseteq store
    /\ savers[s].pc # "off" => hist.account # None
    /\ savers[s].pc \in {"chats", "rooms", "write", "clear"} => hist.key # 0
    /\ savers[s].pc = "clear" => savers[s].has = {}
    /\ savers[s].pc = "unlink" => store \subseteq Of(hist.account)
    /\ s = "timer" => savers[s].op = "flush"
    /\ ~Lives => s = "timer" /\ savers[s].pc \in {"chats", "rooms"}
    /\ Lives /\ savers[s].pc = "rooms" /\ hist.account # None =>
         Kept(hist.account) \cap Chats \subseteq savers[s].has \cup Gone
    /\ Lives /\ savers[s].pc \in {"write", "clear"} /\ hist.account # None =>
         Kept(hist.account) \subseteq savers[s].has \cup Gone

OneSaver == savers["user"] = None \/ savers["timer"] = None

Files ==
  \A a \in Accounts :
    /\ Kept(a) \subseteq Of(a)
    /\ file[a] # None => file[a].key \in {0, keyring[a]}

Good ==
  /\ OneLoop /\ Signing /\ Keeping /\ Signed /\ Ours /\ Emptied /\ OneSaver /\ Files
  /\ \A s \in {"timer", "user"} : Saving(s)

\* What was removed from the file is not in memory, and still in the file only while
\* the save that takes it out is under way and has something to write.
Settled ==
  \A t \in Threads : removed[t] = "file" =>
    /\ t \notin store
    /\ t \in Kept(t[1]) =>
         /\ savers["user"] # None /\ hist.account = t[1]
         /\ savers["user"].pc \in {"chats", "rooms", "write", "clear"}
         /\ savers["user"].op # "signoff"
         /\ savers["user"].op = "flush" /\ savers["user"].pc = "chats" => store # {}
         /\ savers["user"].op = "flush" /\ savers["user"].pc = "rooms" =>
              savers["user"].has \cup (store \cap Rooms) # {}

-----------------------------------------------------------------------------
(* What the invariant says of a state, used over and over. *)

LEMMA Where ==
  ASSUME Types, Good
  PROVE  /\ Len(loops) \in Nat /\ DOMAIN loops = 1..Len(loops) /\ cur \in 0..Len(loops)
         /\ \A i \in DOMAIN loops : loops[i].ending \in BOOLEAN
         /\ Quiet => cur = 0 /\ hist.account = None /\ timer = "off" /\ savers["timer"] = None /\ Lives
         /\ cur # 0 => /\ cur \in DOMAIN loops /\ cur = Len(loops) /\ Lives
                       /\ loops[cur].pc = "run" /\ loops[cur].ending = FALSE
         /\ form # None => Lives
         /\ \A i \in DOMAIN loops :
              /\ loops[i].pc = "run" /\ loops[i].ending => form = None /\ cur = 0
              /\ loops[i].pc \in {"reset", "gone"} => form = None /\ cur = 0
              /\ loops[i].pc # "done" /\ hist.account # None => loops[i].account = hist.account
              /\ loops[i].pc \in {"run", "reset"} => Lives
              /\ loops[i].pc = "gone" => ~Lives
<1>1. /\ Len(loops) \in Nat /\ DOMAIN loops = 1..Len(loops) /\ cur \in 0..Len(loops)
      /\ \A i \in DOMAIN loops : loops[i] \in Loop
  BY LoopFacts
<1>2. \A i \in DOMAIN loops : loops[i].ending \in BOOLEAN
  BY <1>1 DEF Loop
<1>3. OneLoop /\ Signing /\ Keeping
  BY DEF Good
<1>4. cur # 0 => cur \in DOMAIN loops /\ loops[cur].pc = "run" /\ loops[cur].ending = FALSE
  BY <1>1, <1>2, <1>3 DEF OneLoop
<1>5. cur # 0 => cur = Len(loops) /\ Lives
  BY <1>1, <1>3, <1>4 DEF OneLoop, Lives
<1>6. Quiet => cur = 0
  BY <1>4 DEF Quiet
<1>7. Quiet => hist.account = None /\ timer = "off" /\ savers["timer"] = None
  BY <1>3 DEF Quiet, Keeping
<1>8. Quiet => Lives
  BY DEF Quiet, Lives
<1>9. form # None => Quiet \/ cur # 0
  BY <1>3 DEF Signing
<1>10. ASSUME NEW i \in DOMAIN loops
       PROVE  /\ loops[i].pc = "run" /\ loops[i].ending => form = None /\ cur = 0
              /\ loops[i].pc \in {"reset", "gone"} => form = None /\ cur = 0
              /\ loops[i].pc # "done" /\ hist.account # None => loops[i].account = hist.account
              /\ loops[i].pc \in {"run", "reset"} => Lives
              /\ loops[i].pc = "gone" => ~Lives
  <2>1. loops[i].pc # "done" => i = Len(loops)
    BY <1>3 DEF OneLoop
  <2>2. loops[i].pc # "done" => ~Quiet
    BY DEF Quiet
  <2>3. loops[i].pc # "done" /\ hist.account # None => loops[i].account = hist.account
    BY <1>3, <2>1 DEF OneLoop, Keeping
  <2>4. loops[i].pc \in {"run", "reset"} => Lives
    BY <1>3, <2>1 DEF OneLoop, Lives
  <2>5. QED BY <1>2, <1>4, <1>5, <1>9, <2>1, <2>2, <2>3, <2>4 DEF Lives
<1>11. QED BY <1>1, <1>2, <1>4, <1>5, <1>6, <1>7, <1>8, <1>9, <1>10

\* What leaves a part's variables alone leaves the part.
LEMMA PartsStay ==
  ASSUME Good
  PROVE  /\ UNCHANGED <<loops, cur>> => OneLoop'
         /\ UNCHANGED <<form, savers, loops, cur, signKey, hist, on>> => Signing'
         /\ UNCHANGED <<hist, timer, savers, loops>> => Keeping'
         /\ UNCHANGED <<cur, signKey, loops>> => Signed'
         /\ UNCHANGED <<hist, form, keyring, store, loops, file, removed, savers>> => Ours'
         /\ UNCHANGED <<loops, store>> => Emptied'
         /\ UNCHANGED <<savers, hist, store, loops, file, removed>> => \A s \in Who : Saving(s)'
         /\ UNCHANGED savers => OneSaver'
         /\ UNCHANGED <<file, keyring>> => Files'
<1>1. OneLoop /\ Signing /\ Keeping /\ Signed /\ Ours /\ Emptied /\ OneSaver /\ Files
      /\ \A s \in Who : Saving(s)
  BY DEF Good, Who
<1>2. UNCHANGED <<loops, cur>> => OneLoop'
  BY <1>1 DEF OneLoop
<1>3. UNCHANGED <<form, savers, loops, cur, signKey, hist, on>> => Signing'
  BY <1>1 DEF Signing, Quiet
<1>4. UNCHANGED <<hist, timer, savers, loops>> => Keeping'
  BY <1>1 DEF Keeping
<1>5. UNCHANGED <<cur, signKey, loops>> => Signed'
  BY <1>1 DEF Signed
<1>6. UNCHANGED <<hist, form, keyring, store, loops, file, removed, savers>> => Ours'
  BY <1>1 DEF Ours, KeyedFor, LoadedFor, Lives, Gone, Kept, SaverAt
<1>7. UNCHANGED <<loops, store>> => Emptied'
  BY <1>1 DEF Emptied, Lives
<1>8. UNCHANGED <<savers, hist, store, loops, file, removed>> => \A s \in Who : Saving(s)'
  BY <1>1 DEF Saving, Lives, Gone, Kept
<1>9. (UNCHANGED savers => OneSaver') /\ (UNCHANGED <<file, keyring>> => Files')
  BY <1>1 DEF OneSaver, Files, Kept
<1>10. QED BY <1>2, <1>3, <1>4, <1>5, <1>6, <1>7, <1>8, <1>9

LEMMA GoodNext ==
  Good' <=> /\ OneLoop' /\ Signing' /\ Keeping' /\ Signed' /\ Ours' /\ Emptied' /\ OneSaver' /\ Files'
            /\ \A s \in Who : Saving(s)'
  BY DEF Good, Who

\* No upset of an orderly schedule is one of these.
LEMMA Ordered ==
  ASSUME Orderly, NEW b, NEW kind \in {"overlap", "kicked", "race", "toggle"}
  PROVE  ~Upset(kind) /\ (UpsetIf(b, kind) => ~b)
  BY DEF Orderly, Upset, UpsetIf

-----------------------------------------------------------------------------
(* Signing on. *)

LEMMA FilesKeyed ==
  ASSUME Types, Good, NEW a \in Accounts, file' = file, keyring' \in [Accounts -> 0..minted'],
         \A b \in Accounts \ {a} : keyring'[b] = keyring[b],
         keyring'[a] # keyring[a] => keyring[a] = 0
  PROVE  Files'
<1> SUFFICES ASSUME NEW b \in Accounts
             PROVE  /\ Kept(b)' \subseteq Of(b)
                    /\ file[b]' # None => file[b]'.key \in {0, keyring'[b]}
  BY DEF Files
<1>1. Kept(b)' = Kept(b) /\ file[b]' = file[b]
  BY DEF Kept
<1>2. Kept(b) \subseteq Of(b) /\ (file[b] # None => file[b].key \in {0, keyring[b]})
  BY DEF Good, Files
<1>3. QED BY <1>1, <1>2

LEMMA SetupHistoryKeyGood ==
  ASSUME Types, Good, SetupHistoryKey
  PROVE  Good'
<1>a. /\ form # None /\ form.step = "key" /\ form.account \in Accounts
      /\ UNCHANGED <<loops, cur, status, signKey, store, on, timer, savers, file, removed>>
  BY AccountOfForm DEF SetupHistoryKey, At
<1>f. form'.step = "load" /\ form'.account = form.account
  BY Proceeds DEF SetupHistoryKey, After
<1>q. /\ Quiet /\ hist.account = None /\ savers["user"] = None /\ savers["timer"] = None
  BY <1>a, Where DEF Good, Signing
<1>k. /\ keyring' \in [Accounts -> 0..minted'] /\ hist'.account = hist.account
      /\ hist'.key \in {0, keyring'[form.account]}
      /\ \A b \in Accounts \ {form.account} : keyring'[b] = keyring[b]
      /\ keyring'[form.account] # keyring[form.account] => keyring[form.account] = 0
      /\ ~on => hist'.key = 0
  <2>1. PICK reachable \in BOOLEAN : SetsKey(form.account, keyring, on, reachable)
    BY DEF SetupHistoryKey
  <2>2. keyring \in [Accounts -> 0..minted]
    BY DEF Types, TypeOK
  <2>3. QED BY <1>a, <2>1, <2>2, SetsKeyType
<1>1. OneLoop' /\ Signed' /\ Emptied' /\ OneSaver'
  BY <1>a, PartsStay
<1>2. Signing'
  BY <1>a, <1>f, <1>q, <1>k DEF Signing, Quiet
<1>3. Keeping'
  BY <1>a, <1>k DEF Good, Keeping
<1>4. Ours'
  <2>1. \A a \in Accounts : (KeyedFor(a)' => a = form.account) /\ ~LoadedFor(a)'
    BY <1>f, <1>q, <1>k, HistoryAssumption DEF KeyedFor, LoadedFor
  <2>2. QED BY <1>k, <2>1 DEF Ours
<1>5. \A s \in Who : Saving(s)'
  BY <1>a, <1>q DEF Saving, Who
<1>6. Files'
  BY <1>a, <1>k, FilesKeyed
<1>7. QED BY <1>1, <1>2, <1>3, <1>4, <1>5, <1>6, GoodNext

LEMMA LoadHistoryGood ==
  ASSUME Types, Good, LoadHistory, NEW me, me = form.account
  PROVE  Good'
<1> DEFINE f == file[me]
<1>a. /\ form # None /\ form.step = "load" /\ me \in Accounts
      /\ UNCHANGED <<loops, cur, status, signKey, on, timer, savers, keyring, minted, file, removed>>
  BY AccountOfForm DEF LoadHistory, At, disk
<1>f. form'.step = "sign" /\ form'.account = me
  BY Proceeds DEF LoadHistory, After
<1>q. /\ Quiet /\ hist.account = None /\ savers["user"] = None /\ savers["timer"] = None
      /\ (~on => hist.key = 0) /\ Lives
  BY <1>a, Where DEF Good, Signing
<1>k. hist.key \in {0, keyring[me]}
  BY <1>a DEF Good, Ours, KeyedFor
<1>h. hist' = hist \/ hist' = [hist EXCEPT !.key = 0]
  BY DEF LoadHistory
<1>g. hist'.account = None /\ hist'.key \in {0, hist.key}
  BY <1>q, <1>h DEF Types, TypeOK
<1>l. hist'.key # 0 => store' = Kept(me)
  <2> SUFFICES ASSUME hist'.key # 0 PROVE store' = Kept(me)
    OBVIOUS
  <2>1. on
    BY <1>q, <1>g
  <2>2. CASE f = None
    BY <2>1, <2>2 DEF LoadHistory, Kept
  <2>3. CASE f # None /\ Opens(f, hist.key)
    BY <2>1, <2>3 DEF LoadHistory, Kept
  <2>4. CASE f # None /\ ~Opens(f, hist.key)
    <3>1. hist' = [hist EXCEPT !.key = 0]
      BY <2>1, <2>4 DEF LoadHistory
    <3>2. QED BY <3>1 DEF Types, TypeOK
  <2>5. QED BY <2>2, <2>3, <2>4
<1>m. Kept(me)' = Kept(me) /\ Kept(me) \subseteq Of(me)
  BY <1>a DEF Good, Files, Kept
<1>1. OneLoop' /\ Signed' /\ OneSaver' /\ Files'
  BY <1>a, PartsStay
<1>2. Signing'
  BY <1>a, <1>f, <1>q, <1>g DEF Signing, Quiet
<1>3. Keeping'
  BY <1>a, <1>q, <1>g DEF Good, Keeping
<1>4. Ours'
  <2> SUFFICES ASSUME NEW a \in Accounts
               PROVE  /\ KeyedFor(a)' => hist'.key \in {0, keyring'[a]}
                      /\ LoadedFor(a)' /\ hist'.key # 0 => store' \subseteq Of(a)
                      /\ LoadedFor(a)' /\ hist'.key # 0 => Kept(a)' \subseteq store'
    BY DEF Ours
  <2>1. (KeyedFor(a)' => a = me) /\ (LoadedFor(a)' => a = me)
    BY <1>a, <1>f, <1>g, HistoryAssumption DEF KeyedFor, LoadedFor
  <2>2. QED BY <1>a, <1>g, <1>k, <1>l, <1>m, <2>1
<1>5. \A s \in Who : Saving(s)'
  BY <1>a, <1>q DEF Saving, Who
<1>6. Emptied'
  BY <1>a, <1>q DEF Emptied, Lives
<1>7. QED BY <1>1, <1>2, <1>3, <1>4, <1>5, <1>6, GoodNext

\* A step of the form that only goes on, or gives up: what was set up stays so.
LEMMA OursStays ==
  ASSUME Good, UNCHANGED <<hist, keyring, store, loops, file, removed, savers>>,
         form' # None => form # None /\ form'.account = form.account
                         /\ form.step \notin {"key", "load"}
  PROVE  Ours'
<1>1. \A a \in Accounts : (KeyedFor(a)' => KeyedFor(a)) /\ (LoadedFor(a)' => LoadedFor(a))
  BY DEF KeyedFor, LoadedFor
<1>2. Gone' = Gone /\ Lives' = Lives /\ SaverAt("user", "unlink")' = SaverAt("user", "unlink")
      /\ \A a \in Accounts : Kept(a)' = Kept(a)
  BY DEF Gone, Lives, SaverAt, Kept
<1>3. QED BY <1>1, <1>2 DEF Good, Ours

LEMMA SetupSigningKeyGood ==
  ASSUME Types, Good, SetupSigningKey
  PROVE  Good'
<1>a. /\ form # None /\ form.step = "sign" /\ signKey' = form.account
      /\ UNCHANGED <<loops, cur, status, store, hist, on, timer, savers, disk, removed>>
  BY DEF SetupSigningKey, At
<1>f. form'.step = "login" /\ form'.account = form.account
  BY Proceeds DEF SetupSigningKey, After
<1>q. Quiet /\ cur = 0 /\ hist.account = None /\ savers["user"] = None
  BY <1>a, Where DEF Good, Signing
<1>1. OneLoop' /\ Keeping' /\ Emptied' /\ OneSaver' /\ Files' /\ \A s \in Who : Saving(s)'
  BY <1>a, PartsStay DEF disk
<1>2. Signing'
  BY <1>a, <1>f, <1>q DEF Signing, Quiet
<1>3. Signed'
  BY <1>a, <1>q DEF Good, Signed
<1>4. Ours'
  BY <1>a, <1>f, OursStays DEF disk
<1>5. QED BY <1>1, <1>2, <1>3, <1>4, GoodNext

LEMMA ConnectGood ==
  ASSUME Types, Good, Connect
  PROVE  Good'
<1>a. UNCHANGED <<signKey, store, hist, on, timer, savers, keyring, minted, file, removed>>
  BY DEF Connect, disk
<1>1. CASE Login \/ Handshake \/ LoadBuddies
  <2>1. /\ form # None /\ form.step \in {"login", "bos", "list"} /\ UNCHANGED <<loops, cur>>
    BY <1>1 DEF Login, Handshake, LoadBuddies, At
  <2>2. form'.step \in {"bos", "list", "online"} /\ form'.account = form.account
    BY <1>1, Proceeds DEF Login, Handshake, LoadBuddies, After
  <2>3. Quiet /\ signKey = form.account /\ savers["user"] = None /\ hist.account = None
    BY <2>1 DEF Good, Signing
  <2>4. Signing'
    BY <1>a, <2>1, <2>2, <2>3 DEF Signing, Quiet
  <2>5. Ours'
    BY <1>a, <2>1, <2>2, OursStays
  <2>6. QED BY <1>a, <2>1, <2>4, <2>5, PartsStay, GoodNext
<1>2. CASE GoOnline
  <2> DEFINE n == Len(loops)
  <2>1. form # None /\ form.step = "online"
    BY <1>2 DEF GoOnline, At
  <2>2. form'.step = "account" /\ form'.account = form.account
    BY <1>2, Proceeds DEF GoOnline, After
  <2>3. /\ Quiet /\ signKey = form.account /\ savers["user"] = None /\ savers["timer"] = None
        /\ hist.account = None /\ cur = 0 /\ timer = "off" /\ Lives
    BY <2>1, Where DEF Good, Signing
  <2>4. /\ n \in Nat /\ DOMAIN loops = 1..n /\ Len(loops') = n + 1 /\ cur' = n + 1
        /\ DOMAIN loops' = 1..(n + 1) /\ loops'[n + 1].pc = "run"
        /\ loops'[n + 1].account = form.account
        /\ loops'[n + 1].ending = FALSE /\ loops'[n + 1].attest = "asked"
        /\ \A j \in 1..n : loops'[j] = loops[j]
    BY <1>2, LoopStarts, LoopFacts
  <2> HIDE DEF n
  <2>5. \A j \in 1..n : loops'[j].pc = "done"
    BY <2>3, <2>4 DEF Quiet
  <2>6. \A j \in 1..(n + 1) : j \in 1..n \/ j = n + 1
    BY <2>4
  <2>7. OneLoop'
    BY <2>4, <2>5, <2>6 DEF OneLoop
  <2>8. Signing'
    BY <1>a, <2>2, <2>3, <2>4 DEF Signing
  <2>9. Keeping'
    BY <1>a, <2>3 DEF Keeping
  <2>10. Signed'
    BY <1>a, <2>3, <2>4, <2>6 DEF Good, Signed
  <2>11. Lives' /\ Emptied'
    BY <2>4, <2>5, <2>6 DEF Lives, Emptied
  <2>12. Ours'
    <3>1. \A a \in Accounts : (KeyedFor(a)' => KeyedFor(a)) /\ (LoadedFor(a)' => LoadedFor(a))
      BY <1>a, <2>1, <2>2 DEF KeyedFor, LoadedFor
    <3>2. Gone' = Gone /\ SaverAt("user", "unlink")' = SaverAt("user", "unlink")
          /\ \A a \in Accounts : Kept(a)' = Kept(a)
      BY <1>a DEF Gone, SaverAt, Kept
    <3>3. QED BY <1>a, <2>3, <3>1, <3>2 DEF Good, Ours
  <2>13. \A s \in Who : Saving(s)'
    BY <1>a, <2>3 DEF Saving, Who
  <2>14. QED BY <1>a, <2>7, <2>8, <2>9, <2>10, <2>11, <2>12, <2>13, PartsStay, GoodNext
<1>3. CASE \E step \in {"login", "bos", "list", "online"} : Refused(step)
  <2>1. form' = None /\ UNCHANGED <<loops, cur>>
    BY <1>3 DEF Refused, SignOnFails
  <2>2. Signing'
    BY <2>1 DEF Signing
  <2>3. Ours'
    BY <1>a, <2>1, OursStays
  <2>4. QED BY <1>a, <2>1, <2>2, <2>3, PartsStay, GoodNext
<1>4. QED BY <1>1, <1>2, <1>3 DEF Connect

LEMMA PersistsForGood ==
  ASSUME Types, Good, PersistsFor
  PROVE  Good'
<1> DEFINE me == form.account
<1>a. /\ form # None /\ form.step = "account" /\ me \in Accounts /\ minted' = minted
      /\ UNCHANGED <<loops, cur, signKey, store, on, savers, keyring, file, removed>>
  BY AccountOfForm DEF PersistsFor, At, disk
<1>f. form'.step = "e2ee" /\ form'.account = me
  BY Proceeds DEF PersistsFor, After
<1>q. /\ hist.account = None /\ savers["user"] = None /\ savers["timer"] = None
      /\ cur # 0 /\ loops[cur].account = me /\ signKey = me
  BY <1>a DEF Good, Signing, Keeping
<1>c. cur \in DOMAIN loops /\ loops[cur].pc = "run"
  BY <1>q, Where
<1>h. hist' = [hist EXCEPT !.account = me]
  BY DEF PersistsFor
<1>g. hist'.account = me /\ hist'.key = hist.key
  BY <1>h DEF Types, TypeOK
<1>n. me # None
  BY <1>a, HistoryAssumption
<1>1. OneLoop' /\ Signed' /\ Emptied' /\ OneSaver' /\ Files'
  BY <1>a, PartsStay
<1>2. Signing'
  BY <1>a, <1>f, <1>q, <1>g DEF Signing
<1>3. Keeping'
  BY <1>a, <1>c, <1>q, <1>g, <1>n DEF Keeping
<1>4. Ours'
  <2>1. \A a \in Accounts : (KeyedFor(a)' => KeyedFor(a)) /\ (LoadedFor(a)' => LoadedFor(a))
    BY <1>a, <1>f, <1>g DEF KeyedFor, LoadedFor
  <2>2. Gone' = Gone /\ Lives' = Lives /\ SaverAt("user", "unlink")' = SaverAt("user", "unlink")
        /\ \A a \in Accounts : Kept(a)' = Kept(a)
    BY <1>a DEF Gone, Lives, SaverAt, Kept
  <2>3. QED BY <1>a, <1>g, <2>1, <2>2 DEF Good, Ours
<1>5. \A s \in Who : Saving(s)'
  BY <1>a, <1>q DEF Saving, Who
<1>6. QED BY <1>1, <1>2, <1>3, <1>4, <1>5, GoodNext

LEMMA FormGood ==
  ASSUME Types, Good, FormStep
  PROVE  Good'
<1>1. CASE SignedOn
  <2>1. form' = None /\ UNCHANGED <<loops, cur, signKey, store, hist, on, timer, savers, disk, removed>>
    BY <1>1 DEF SignedOn
  <2>2. Signing'
    BY <2>1 DEF Signing
  <2>3. Ours'
    BY <2>1, OursStays DEF disk
  <2>4. QED BY <2>1, <2>2, <2>3, PartsStay, GoodNext DEF disk
<1>2. QED BY <1>1, SetupHistoryKeyGood, LoadHistoryGood, SetupSigningKeyGood, ConnectGood,
          PersistsForGood DEF FormStep

-----------------------------------------------------------------------------
(* The read loop and its end. *)

LEMMA AnswerGood ==
  ASSUME Types, Good, NEW i \in DOMAIN loops, AnswerAttestChallenge(i)
  PROVE  Good'
<1>a. /\ UNCHANGED <<form, cur, status, signKey, store, hist, on, timer, savers, disk, removed>>
      /\ loops[i].pc = "run"
  BY DEF AnswerAttestChallenge
<1>b. /\ Len(loops') = Len(loops) /\ DOMAIN loops' = DOMAIN loops
      /\ loops'[i].attest = IF cur = 0 \/ signKey = loops[i].account THEN "settled" ELSE "other"
      /\ \A j \in DOMAIN loops : /\ loops'[j].pc = loops[j].pc /\ loops'[j].account = loops[j].account
                                 /\ loops'[j].ending = loops[j].ending
                                 /\ j # i => loops'[j].attest = loops[j].attest
  BY LoopAnswers
<1>c. cur # 0 => cur = i
  BY <1>a, Where DEF Good, OneLoop
<1>d. Quiet' = Quiet /\ Lives' = Lives /\ (cur # 0 => cur \in DOMAIN loops)
  BY <1>b, Where DEF Quiet, Lives
<1>1. OneLoop'
  BY <1>a, <1>b DEF Good, OneLoop
<1>2. Signing'
  BY <1>a, <1>b, <1>d DEF Good, Signing
<1>3. Keeping'
  BY <1>a, <1>b DEF Good, Keeping
<1>4. Signed'
  BY <1>a, <1>b, <1>c, <1>d DEF Good, Signed
<1>5. Ours'
  BY <1>a, <1>d DEF Good, Ours, KeyedFor, LoadedFor, Gone, SaverAt, Kept, disk
<1>6. Emptied'
  BY <1>a, <1>d DEF Good, Emptied
<1>7. \A s \in Who : Saving(s)'
  BY <1>a, <1>d DEF Good, Saving, Gone, Kept, Who, disk
<1>8. QED BY <1>a, <1>1, <1>2, <1>3, <1>4, <1>5, <1>6, <1>7, PartsStay, GoodNext DEF disk

LEMMA LoopEndsGood ==
  ASSUME Types, Orderly, Good, NEW i \in DOMAIN loops, LoopEnds(i)
  PROVE  Good'
<1>a. /\ UNCHANGED <<form, status, signKey, store, hist, on, timer, savers, disk, removed>>
      /\ loops[i].pc = "run" /\ cur' = IF cur = i THEN 0 ELSE cur
  BY DEF LoopEnds
<1>b. /\ Len(loops') = Len(loops) /\ DOMAIN loops' = DOMAIN loops
      /\ loops'[i].pc = "reset"
      /\ \A j \in DOMAIN loops : /\ loops'[j].account = loops[j].account
                                 /\ loops'[j].ending = loops[j].ending
                                 /\ loops'[j].attest = loops[j].attest
                                 /\ j # i => loops'[j].pc = loops[j].pc
  BY LoopGoesTo DEF LoopEnds
<1>c. form = None
  <2>1. loops[i].ending \/ Upset(IF form # None THEN "kicked" ELSE "drop")
    BY DEF LoopEnds
  <2>2. QED BY <1>a, <2>1, Ordered, Where
<1>d. Lives /\ Lives' /\ cur' = 0
  <2>1. Lives /\ (cur # 0 => cur = i)
    BY <1>a, Where DEF Good, OneLoop
  <2>2. QED BY <1>a, <1>b, <2>1 DEF Lives
<1>1. OneLoop'
  <2>1. \A j \in DOMAIN loops : loops[j].pc = "run" => j = i
    BY <1>a DEF Good, OneLoop
  <2>2. \A j \in DOMAIN loops : j # 0
    BY Where
  <2>3. QED BY <1>a, <1>b, <1>d, <2>1, <2>2 DEF Good, OneLoop
<1>2. Signing'
  BY <1>a, <1>c DEF Signing
<1>3. Keeping'
  BY <1>a, <1>b DEF Good, Keeping
<1>4. Signed'
  BY <1>a, <1>b, <1>d DEF Good, Signed
<1>5. Ours'
  BY <1>a, <1>d DEF Good, Ours, KeyedFor, LoadedFor, Gone, SaverAt, Kept, disk
<1>6. Emptied'
  BY <1>d DEF Emptied
<1>7. \A s \in Who : Saving(s)'
  BY <1>a, <1>d DEF Good, Saving, Gone, Kept, Who, disk
<1>8. QED BY <1>a, <1>1, <1>2, <1>3, <1>4, <1>5, <1>6, <1>7, PartsStay, GoodNext DEF disk

LEMMA ResetStoreGood ==
  ASSUME Types, Orderly, Good, NEW i \in DOMAIN loops, ResetStore(i)
  PROVE  Good'
<1>a. /\ UNCHANGED <<form, cur, status, signKey, hist, on, timer, savers, disk, removed>>
      /\ loops[i].pc = "reset" /\ store' = {}
  BY DEF ResetStore
<1>b. /\ Len(loops') = Len(loops) /\ DOMAIN loops' = DOMAIN loops
      /\ loops'[i].pc = "gone"
      /\ \A j \in DOMAIN loops : /\ loops'[j].account = loops[j].account
                                 /\ loops'[j].ending = loops[j].ending
                                 /\ loops'[j].attest = loops[j].attest
                                 /\ j # i => loops'[j].pc = loops[j].pc
  BY LoopGoesTo DEF ResetStore
<1>c. form = None /\ cur = 0 /\ savers["timer"] = None /\ savers["user"] = None
  <2>1. savers = NoSavers
    BY Ordered DEF ResetStore
  <2>2. QED BY <1>a, <2>1, Where DEF NoSavers
<1>d. ~Lives'
  BY <1>b DEF Lives
<1>1. OneLoop'
  BY <1>a, <1>b DEF Good, OneLoop
<1>2. Signing'
  BY <1>a, <1>c DEF Signing
<1>3. Keeping'
  BY <1>a, <1>b DEF Good, Keeping
<1>4. Signed'
  BY <1>a, <1>b, <1>c DEF Good, Signed
<1>5. Ours'
  <2>1. \A a \in Accounts : KeyedFor(a)' <=> KeyedFor(a)
    BY <1>a DEF KeyedFor
  <2>2. QED BY <1>a, <1>d, <2>1 DEF Good, Ours, disk
<1>6. Emptied'
  BY <1>a DEF Emptied
<1>7. \A s \in Who : Saving(s)'
  BY <1>a, <1>c DEF Saving, Who
<1>8. QED BY <1>a, <1>1, <1>2, <1>3, <1>4, <1>5, <1>6, <1>7, PartsStay, GoodNext DEF disk

LEMMA OnDisconnectGood ==
  ASSUME Types, Orderly, Good, NEW i \in DOMAIN loops, OnDisconnect(i)
  PROVE  Good'
<1>a. /\ UNCHANGED <<form, cur, signKey, store, on, savers, disk, removed>>
      /\ loops[i].pc = "gone" /\ hist' = NoHist /\ timer' = "off"
  BY DEF OnDisconnect
<1>b. /\ Len(loops') = Len(loops) /\ DOMAIN loops' = DOMAIN loops
      /\ loops'[i].pc = "done" /\ loops'[i].attest = "settled"
      /\ \A j \in DOMAIN loops : j # i => loops'[j] = loops[j]
  BY LoopOver DEF OnDisconnect
<1>c. form = None /\ cur = 0 /\ savers["timer"] = None /\ savers["user"] = None
  <2>1. savers = NoSavers
    BY Ordered DEF OnDisconnect
  <2>2. QED BY <1>a, <2>1, Where DEF NoSavers
<1>d. hist'.account = None /\ hist'.key = 0
  BY <1>a DEF NoHist
<1>1. OneLoop'
  <2>1. \A j \in DOMAIN loops : j # 0
    BY Where
  <2>2. QED BY <1>a, <1>b, <1>c, <2>1 DEF Good, OneLoop
<1>2. Signing'
  BY <1>a, <1>c DEF Signing
<1>3. Keeping'
  BY <1>a, <1>c, <1>d DEF Keeping
<1>4. Signed'
  BY <1>a, <1>b, <1>c DEF Good, Signed
<1>5. Ours'
  BY <1>a, <1>c, <1>d, HistoryAssumption DEF Ours, KeyedFor, LoadedFor
<1>6. Emptied'
  <2>1. ~Lives
    BY <1>a DEF Lives
  <2>2. QED BY <1>a, <2>1 DEF Good, Emptied
<1>7. \A s \in Who : Saving(s)'
  BY <1>a, <1>c DEF Saving, Who
<1>8. QED BY <1>a, <1>1, <1>2, <1>3, <1>4, <1>5, <1>6, <1>7, PartsStay, GoodNext DEF disk

LEMMA MessageArrivesGood ==
  ASSUME Types, Good, NEW i \in DOMAIN loops, NEW thread \in Threads, MessageArrives(i, thread)
  PROVE  Good'
<1>a. /\ UNCHANGED <<form, loops, cur, status, signKey, hist, on, savers, keyring, minted, file>>
      /\ loops[i].pc = "run" /\ thread \in Of(loops[i].account) /\ store' = store \cup {thread}
      /\ timer' = IF on /\ hist.account # None THEN "set" ELSE timer
  BY DEF MessageArrives, conn, disk, ScheduleSave
<1>b. \A t \in Threads : removed'[t] # "no" <=> removed[t] # "no"
  BY DEF MessageArrives, Types, TypeOK
<1>c. Gone' = Gone /\ Lives' = Lives /\ Lives
      /\ SaverAt("user", "unlink")' = SaverAt("user", "unlink")
      /\ \A a \in Accounts : Kept(a)' = Kept(a)
  BY <1>a, <1>b, Where DEF Gone, Lives, SaverAt, Kept
<1>d. \A a \in Accounts : LoadedFor(a) => a = loops[i].account
  <2> SUFFICES ASSUME NEW a \in Accounts, LoadedFor(a) PROVE a = loops[i].account
    OBVIOUS
  <2>1. CASE hist.account = a
    BY <1>a, <2>1, Where, HistoryAssumption
  <2>2. CASE form # None /\ form.account = a
    <3>1. ~Quiet
      BY <1>a DEF Quiet
    <3>2. cur # 0 /\ loops[cur].account = a
      BY <2>2, <3>1 DEF Good, Signing
    <3>3. cur = i
      BY <1>a, <3>2, Where DEF Good, OneLoop
    <3>4. QED BY <3>2, <3>3
  <2>3. QED BY <2>1, <2>2 DEF LoadedFor
<1>1. OneLoop' /\ Signed' /\ Signing' /\ OneSaver' /\ Files'
  BY <1>a, PartsStay
<1>2. Keeping'
  BY <1>a DEF Good, Keeping
<1>3. Ours'
  <2>1. \A a \in Accounts : (KeyedFor(a)' <=> KeyedFor(a)) /\ (LoadedFor(a)' <=> LoadedFor(a))
    BY <1>a DEF KeyedFor, LoadedFor
  <2>2. QED BY <1>a, <1>c, <1>d, <2>1 DEF Good, Ours
<1>4. Emptied'
  BY <1>c DEF Emptied
<1>5. ASSUME NEW s \in Who PROVE Saving(s)'
  <2> SUFFICES ASSUME savers[s] # None PROVE Saving(s)'
    BY <1>a DEF Saving
  <2>1. Saving(s)
    BY DEF Good, Who
  <2>2. savers[s].pc = "unlink" => store' \subseteq Of(hist.account)
    BY <1>a, <2>1, Where DEF Saving
  <2>3. hist.account # None => Kept(hist.account)' = Kept(hist.account)
    BY <1>a DEF Kept
  <2>4. QED BY <1>a, <1>c, <2>1, <2>2, <2>3 DEF Saving
<1>6. QED BY <1>1, <1>2, <1>3, <1>4, <1>5, GoodNext

LEMMA LoopGood ==
  ASSUME Types, Orderly, Good, NEW i \in DOMAIN loops,
         \/ LoopStep(i) \/ LoopEnds(i) \/ \E thread \in Threads : MessageArrives(i, thread)
  PROVE  Good'
  BY AnswerGood, LoopEndsGood, ResetStoreGood, OnDisconnectGood, MessageArrivesGood DEF LoopStep

-----------------------------------------------------------------------------
(* Saving. *)

LEMMA TimerFiresGood ==
  ASSUME Types, Orderly, Good, TimerFires
  PROVE  Good'
<1>a. /\ UNCHANGED <<form, loops, cur, status, signKey, store, hist, on, keyring, minted, file, removed>>
      /\ savers["timer"] = None /\ timer' = "off"
  BY DEF TimerFires, conn, disk
<1>b. savers["user"] = None
  BY Ordered DEF TimerFires
<1>c. savers'["user"] = None /\ (~Persisting => savers' = savers)
      /\ (Persisting => savers'["timer"] = Save("flush"))
  <2>1. savers \in [Who -> Saver \cup {None}]
    BY DEF Types, TypeOK, Who
  <2>2. QED BY <1>b, <2>1 DEF TimerFires, Who
<1>d. ~SaverAt("user", "unlink") /\ ~SaverAt("user", "unlink")'
  BY <1>b, <1>c DEF SaverAt
<1>1. OneLoop' /\ Signed' /\ Emptied' /\ Files'
  BY <1>a, PartsStay
<1>2. Signing'
  BY <1>a, <1>c DEF Good, Signing, Quiet
<1>3. Keeping'
  BY <1>a, <1>c DEF Good, Keeping, Persisting
<1>4. Ours'
  BY <1>a, <1>d DEF Good, Ours, KeyedFor, LoadedFor, Gone, Kept, Lives
<1>5. OneSaver'
  BY <1>c DEF OneSaver
<1>6. Saving("user")'
  BY <1>c DEF Saving
<1>7. Saving("timer")'
  <2>1. CASE Persisting
    <3>1. /\ savers'["timer"].key = hist.key /\ savers'["timer"].account = hist.account
          /\ savers'["timer"].pc = "chats" /\ savers'["timer"].op = "flush"
          /\ savers'["timer"].has = {}
      BY <1>c, <2>1, SaveFacts
    <3>2. QED BY <1>a, <2>1, <3>1 DEF Saving, Persisting
  <2>2. CASE ~Persisting
    BY <1>a, <1>c, <2>2 DEF Saving
  <2>3. QED BY <2>1, <2>2
<1>8. QED BY <1>1, <1>2, <1>3, <1>4, <1>5, <1>6, <1>7, GoodNext DEF Who

LEMMA TimerWanesGood ==
  ASSUME Good, TimerWanes
  PROVE  Good'
<1>1. /\ UNCHANGED <<form, loops, cur, signKey, store, hist, on, savers, keyring, file, removed>>
      /\ timer = "set"
  BY DEF TimerWanes, conn, disk
<1>2. Keeping'
  BY <1>1 DEF Good, Keeping
<1>3. QED BY <1>1, <1>2, PartsStay, GoodNext

\* A saver of the two goes on and the other is not there.
LEMMA SaverGoesOn ==
  ASSUME Types, Good, NEW s \in Who, savers[s] # None,
         UNCHANGED <<form, loops, cur, signKey, store, hist, on, timer, keyring, minted>>,
         \A o \in Who : o # s => savers'[o] = savers[o],
         savers[s].pc # "unlink", ~SaverAt(s, "unlink")'
  PROVE  /\ OneLoop' /\ Signing' /\ Keeping' /\ Signed' /\ Emptied' /\ OneSaver'
         /\ \A o \in Who : o # s => Saving(o)'
         /\ ~SaverAt("user", "unlink") /\ ~SaverAt("user", "unlink")'
         /\ Lives' = Lives /\ Saving(s)
<1>1. \A o \in Who : o # s => savers[o] = None /\ savers'[o] = None
  BY DEF Good, OneSaver, Who
<1>2. OneLoop' /\ Signed' /\ Emptied'
  BY PartsStay
<1>3. s = "timer" \/ s = "user"
  BY DEF Who
<1>4. s = "user" => form = None
  BY DEF Good, Signing
<1>5. Signing'
  <2>1. CASE s = "user"
    BY <1>4, <2>1 DEF Signing
  <2>2. CASE s = "timer"
    <3>1. savers'["user"] = savers["user"]
      BY <2>2 DEF Who
    <3>2. QED BY <3>1 DEF Good, Signing, Quiet
  <2>3. QED BY <1>3, <2>1, <2>2
<1>6. Keeping'
  <2>1. s = "timer" => hist.account # None
    BY DEF Good, Keeping
  <2>2. s = "user" => savers'["timer"] = savers["timer"]
    BY DEF Who
  <2>3. QED BY <1>3, <2>1, <2>2 DEF Good, Keeping
<1>7. OneSaver'
  BY <1>1, <1>3 DEF OneSaver, Who
<1>8. \A o \in Who : o # s => Saving(o)'
  BY <1>1 DEF Saving
<1>9. ~SaverAt("user", "unlink") /\ ~SaverAt("user", "unlink")'
  BY <1>1, <1>3 DEF SaverAt, Who
<1>10. Lives' = Lives /\ Saving(s)
  BY DEF Lives, Good, Who
<1>11. QED BY <1>2, <1>5, <1>6, <1>7, <1>8, <1>9, <1>10

\* Whose file a saver at work writes, and that all it holds is in its hands or in memory.
LEMMA AtWork ==
  ASSUME Types, Good, NEW s \in Who, savers[s] # None,
         savers[s].pc \in {"chats", "rooms", "write", "clear"}
  PROVE  /\ savers[s].account = hist.account /\ hist.account \in Accounts /\ hist.key # 0
         /\ savers[s].key = hist.key /\ hist.key = keyring[hist.account]
         /\ savers[s].has \subseteq store /\ store \subseteq Of(hist.account)
         /\ ~SaverAt("user", "unlink")
         /\ Lives => Kept(hist.account) \subseteq store \cup Gone
<1>1. Saving(s) /\ OneSaver /\ Ours
  BY DEF Good, Who
<1>2. hist.account \in Accounts
  BY <1>1 DEF Saving, Types, TypeOK
<1>3. ~SaverAt("user", "unlink")
  BY <1>1 DEF OneSaver, SaverAt, Who
<1>4. QED BY <1>1, <1>2, <1>3 DEF Saving, Ours, KeyedFor, LoadedFor

LEMMA TakeChatsGood ==
  ASSUME Types, Good, NEW s \in Who, TakeChats(s)
  PROVE  Good'
<1>a. /\ UNCHANGED <<form, loops, cur, status, signKey, store, hist, on, timer, keyring, minted, file,
                     removed>>
      /\ savers[s] # None /\ savers[s].pc = "chats"
  BY DEF TakeChats, SaverAt, conn, disk
<1>b. /\ savers'[s].pc = "rooms" /\ savers'[s].has = store \cap Chats
      /\ savers'[s].op = savers[s].op
      /\ savers'[s].account = savers[s].account /\ savers'[s].key = savers[s].key
      /\ \A o \in Who : o # s => savers'[o] = savers[o]
  BY TakeChatsFacts
<1>c. ~SaverAt(s, "unlink")'
  BY <1>b DEF SaverAt
<1>d. /\ OneLoop' /\ Signing' /\ Keeping' /\ Signed' /\ Emptied' /\ OneSaver'
      /\ \A o \in Who : o # s => Saving(o)'
      /\ ~SaverAt("user", "unlink") /\ ~SaverAt("user", "unlink")'
      /\ Lives' = Lives /\ Saving(s)
  BY <1>a, <1>b, <1>c, SaverGoesOn
<1>1. Ours' /\ Files'
  BY <1>a, <1>d DEF Good, Ours, KeyedFor, LoadedFor, Gone, Kept, Files
<1>2. Saving(s)'
  <2>1. Lives => Kept(hist.account) \cap Chats \subseteq (store \cap Chats) \cup Gone
    BY <1>a, AtWork
  <2>2. Gone' = Gone /\ Kept(hist.account)' = Kept(hist.account)
    BY <1>a DEF Gone, Kept
  <2>3. QED BY <1>a, <1>b, <1>d, <2>1, <2>2 DEF Saving
<1>3. QED BY <1>d, <1>1, <1>2, GoodNext

LEMMA TakeRoomsGood ==
  ASSUME Types, Good, NEW s \in Who, TakeRooms(s),
         NEW all, all = savers[s].has \cup (store \cap Rooms)
  PROVE  Good'
<1>a. /\ UNCHANGED <<form, loops, cur, status, signKey, store, hist, on, timer, keyring, minted, file,
                     removed>>
      /\ savers[s] # None /\ savers[s].pc = "rooms"
  BY DEF TakeRooms, SaverAt, conn, disk
<1> DEFINE pc == NextOf(savers[s].op, all)
<1>b. /\ \A o \in Who : o # s => savers'[o] = savers[o]
      /\ pc = "skip" => Ended(savers[s], savers'[s])
      /\ pc # "skip" => /\ savers'[s].pc = pc /\ savers'[s].has = all
                        /\ savers'[s].op = savers[s].op
                        /\ savers'[s].account = savers[s].account /\ savers'[s].key = savers[s].key
  BY TakeRoomsFacts
<1>p. /\ pc \in {"write", "clear", "skip"} /\ (pc = "clear" => all = {} /\ savers[s].op = "persist")
      /\ (pc = "write" => all # {})
  BY DEF NextOf
<1> HIDE DEF pc
<1>c. ~SaverAt(s, "unlink")'
  BY <1>b, <1>p DEF SaverAt, Ended
<1>d. /\ OneLoop' /\ Signing' /\ Keeping' /\ Signed' /\ Emptied' /\ OneSaver'
      /\ \A o \in Who : o # s => Saving(o)'
      /\ ~SaverAt("user", "unlink") /\ ~SaverAt("user", "unlink")'
      /\ Lives' = Lives /\ Saving(s)
  BY <1>a, <1>b, <1>c, SaverGoesOn
<1>1. Ours' /\ Files'
  BY <1>a, <1>d DEF Good, Ours, KeyedFor, LoadedFor, Gone, Kept, Files
<1>w. /\ savers[s].has \subseteq store /\ hist.account \in Accounts
      /\ Lives => Kept(hist.account) \subseteq store \cup Gone
  BY <1>a, AtWork
<1>l. ~Lives => all = {} /\ s = "timer" /\ savers[s].op = "flush"
  <2>1. ~Lives => store = {}
    BY DEF Good, Emptied
  <2>2. QED BY <1>a, <1>d, <1>w, <2>1 DEF Saving
<1>2. CASE pc = "skip"
  <2>1. CASE savers[s].op = "signoff"
    <3>1. Lives /\ s # "timer"
      BY <1>a, <1>d, <1>l, <2>1 DEF Saving
    <3>2. /\ savers'[s].key = savers[s].key /\ savers'[s].account = savers[s].account
          /\ savers'[s].pc = "off" /\ savers'[s].has = savers[s].has
      BY <1>2, <1>b, <2>1 DEF Ended
    <3>3. Saving(s)'
      BY <1>a, <1>d, <3>1, <3>2 DEF Saving
    <3>4. QED BY <1>d, <1>1, <3>3, GoodNext
  <2>2. CASE savers[s].op # "signoff"
    <3>1. savers'[s] = None
      BY <1>2, <1>b, <2>2 DEF Ended
    <3>2. Saving(s)'
      BY <3>1 DEF Saving
    <3>3. QED BY <1>d, <1>1, <3>2, GoodNext
  <2>3. QED BY <2>1, <2>2
<1>3. CASE pc # "skip"
  <2>1. Lives
    BY <1>3, <1>l, <1>p
  <2>2. Kept(hist.account) \subseteq Threads
    BY <1>w DEF Kept, Types, TypeOK
  <2>3. Kept(hist.account) \cap Chats \subseteq savers[s].has \cup Gone
    BY <1>a, <1>d, <1>w, <2>1, HistoryAssumption DEF Saving
  <2>4. Kept(hist.account) \subseteq all \cup Gone
    BY <1>w, <2>1, <2>2, <2>3 DEF Threads
  <2>5. Gone' = Gone /\ Kept(hist.account)' = Kept(hist.account) /\ all \subseteq store
    BY <1>a, <1>w DEF Gone, Kept
  <2>6. Saving(s)'
    BY <1>a, <1>b, <1>d, <1>p, <1>3, <2>1, <2>4, <2>5 DEF Saving
  <2>7. QED BY <1>d, <1>1, <2>6, GoodNext
<1>4. QED BY <1>2, <1>3

\* What writing and clearing do to the file, and that nothing is lost by it.
LEMMA FileWritten ==
  ASSUME Types, Good, NEW s \in Who, Write(s) \/ ClearFile(s)
  PROVE  /\ savers[s] # None /\ savers[s].pc \in {"write", "clear"} /\ Done(s)
         /\ Kept(hist.account)' = savers[s].has
         /\ \A a \in Accounts : a # hist.account => Kept(a)' = Kept(a) /\ file'[a] = file[a]
         /\ file'[hist.account] # None => file'[hist.account].key = hist.key
         /\ Gone \ savers[s].has \subseteq Gone'
         /\ Lives /\ Kept(hist.account) \subseteq savers[s].has \cup Gone
<1>1. savers[s] # None /\ savers[s].pc \in {"write", "clear"} /\ Done(s)
  BY DEF Write, ClearFile, SaverAt
<1>2. /\ savers[s].account = hist.account /\ hist.account \in Accounts /\ savers[s].key = hist.key
  BY <1>1, AtWork
<1>3. Saving(s)
  BY DEF Good, Who
<1>4. Lives /\ Kept(hist.account) \subseteq savers[s].has \cup Gone
  BY <1>1, <1>2, <1>3, HistoryAssumption DEF Saving
<1>5. hist' = hist /\ hist.key \in Keys /\ savers[s].has \in SUBSET Threads
  BY <1>1, SaverFacts DEF Write, ClearFile, Types, TypeOK, Saver
<1> DEFINE f == IF Write(s) THEN [key |-> hist.key, has |-> savers[s].has] ELSE None
<1>6. file' = [file EXCEPT ![hist.account] = f]
  BY <1>2 DEF Write, ClearFile
<1>7. f # None => Write(s) /\ f.key = hist.key /\ f.has = savers[s].has
  OBVIOUS
<1>8. f = None => savers[s].has = {}
  <2>1. Write(s) => [key |-> hist.key, has |-> savers[s].has] # None
    BY <1>5, NoneAssumption
  <2>2. ClearFile(s) => savers[s].has = {}
    BY <1>3 DEF ClearFile, SaverAt, Saving
  <2>3. QED BY <2>1, <2>2
<1> HIDE DEF f
<1>9. file'[hist.account] = f /\ \A a \in Accounts : a # hist.account => file'[a] = file[a]
  BY <1>2, <1>6 DEF Types, TypeOK
<1>10. Kept(hist.account)' = savers[s].has
  BY <1>5, <1>7, <1>8, <1>9 DEF Kept
<1>11. \A a \in Accounts : a # hist.account => Kept(a)' = Kept(a)
  BY <1>9 DEF Kept
<1>12. Gone \ savers[s].has \subseteq Gone'
  BY DEF Gone, Write, ClearFile
<1>13. QED BY <1>1, <1>4, <1>7, <1>9, <1>10, <1>11, <1>12

LEMMA FileWrittenGood ==
  ASSUME Types, Good, NEW s \in Who, Write(s) \/ ClearFile(s)
  PROVE  Good'
<1>a. UNCHANGED <<form, loops, cur, status, signKey, store, hist, on, timer, keyring, minted>>
  BY DEF Write, ClearFile, conn, disk
<1>b. /\ savers[s] # None /\ savers[s].pc \in {"write", "clear"} /\ Done(s)
      /\ Kept(hist.account)' = savers[s].has
      /\ \A a \in Accounts : a # hist.account => Kept(a)' = Kept(a) /\ file'[a] = file[a]
      /\ file'[hist.account] # None => file'[hist.account].key = hist.key
      /\ Gone \ savers[s].has \subseteq Gone' /\ Lives
  BY FileWritten
<1>c. /\ Ended(savers[s], savers'[s]) /\ \A o \in Who : o # s => savers'[o] = savers[o]
  <2>1. minted' >= minted /\ minted' \in Keys
    BY <1>a, Bounds
  <2>2. QED BY <1>b, <2>1, DoneFacts
<1>d. ~SaverAt(s, "unlink")'
  BY <1>c DEF Ended, SaverAt
<1>e. /\ OneLoop' /\ Signing' /\ Keeping' /\ Signed' /\ Emptied' /\ OneSaver'
      /\ \A o \in Who : o # s => Saving(o)'
      /\ ~SaverAt("user", "unlink") /\ ~SaverAt("user", "unlink")'
      /\ Lives' = Lives /\ Saving(s)
  BY <1>a, <1>b, <1>c, <1>d, SaverGoesOn
<1>w. /\ hist.account \in Accounts /\ hist.key = keyring[hist.account]
      /\ savers[s].has \subseteq store /\ store \subseteq Of(hist.account)
  BY <1>b, AtWork
<1>1. Ours'
  <2> SUFFICES ASSUME NEW a \in Accounts
               PROVE  /\ KeyedFor(a)' => hist'.key \in {0, keyring'[a]}
                      /\ LoadedFor(a)' /\ hist'.key # 0 => store' \subseteq Of(a)
                      /\ LoadedFor(a)' /\ hist'.key # 0 => Kept(a)' \subseteq store' \cup Gone'
    BY DEF Ours
  <2>1. (KeyedFor(a)' <=> KeyedFor(a)) /\ (LoadedFor(a)' <=> LoadedFor(a))
    BY <1>a DEF KeyedFor, LoadedFor
  <2>2. LoadedFor(a) /\ hist.key # 0 /\ a # hist.account => Kept(a)' \subseteq store \cup Gone'
    <3>1. LoadedFor(a) /\ hist.key # 0 => Kept(a) \subseteq store \cup Gone
      BY <1>b, <1>e DEF Good, Ours
    <3>2. QED BY <1>b, <1>w, <3>1
  <2>3. Kept(hist.account)' \subseteq store
    BY <1>b, <1>w
  <2>4. QED BY <1>a, <2>1, <2>2, <2>3 DEF Good, Ours
<1>2. Files'
  <2> SUFFICES ASSUME NEW a \in Accounts
               PROVE  /\ Kept(a)' \subseteq Of(a)
                      /\ file'[a] # None => file'[a].key \in {0, keyring'[a]}
    BY DEF Files
  <2>1. CASE a = hist.account
    BY <1>a, <1>b, <1>w, <2>1
  <2>2. CASE a # hist.account
    BY <1>a, <1>b, <2>2 DEF Good, Files
  <2>3. QED BY <2>1, <2>2
<1>3. Saving(s)'
  <2>1. CASE savers[s].op = "signoff"
    <3>1. /\ savers'[s].key = savers[s].key /\ savers'[s].account = savers[s].account
          /\ savers'[s].pc = "off" /\ savers'[s].has = savers[s].has
      BY <1>c, <2>1 DEF Ended
    <3>2. s # "timer"
      BY <1>b, <1>e, <2>1 DEF Saving
    <3>3. QED BY <1>a, <1>b, <1>e, <3>1, <3>2 DEF Saving
  <2>2. CASE savers[s].op # "signoff"
    BY <1>c, <2>2 DEF Ended, Saving
  <2>3. QED BY <2>1, <2>2
<1>4. QED BY <1>e, <1>1, <1>2, <1>3, GoodNext

LEMMA SaveFailsGood ==
  ASSUME Types, Good, NEW s \in Who, SaveFails(s)
  PROVE  Good'
<1>a. /\ UNCHANGED <<form, loops, cur, status, signKey, store, hist, on, timer, keyring, minted, file>>
      /\ savers[s] # None /\ savers[s].pc \in {"write", "clear"} /\ Done(s)
  BY DEF SaveFails, SaverAt, conn
<1>g. Gone' = Gone
  BY DEF SaveFails, StillThere, Gone, Types, TypeOK
<1>b. /\ Ended(savers[s], savers'[s]) /\ \A o \in Who : o # s => savers'[o] = savers[o]
  <2>1. minted' >= minted /\ minted' \in Keys
    BY <1>a, Bounds
  <2>2. QED BY <1>a, <2>1, DoneFacts
<1>c. ~SaverAt(s, "unlink")'
  BY <1>b DEF Ended, SaverAt
<1>d. /\ OneLoop' /\ Signing' /\ Keeping' /\ Signed' /\ Emptied' /\ OneSaver'
      /\ \A o \in Who : o # s => Saving(o)'
      /\ ~SaverAt("user", "unlink") /\ ~SaverAt("user", "unlink")'
      /\ Lives' = Lives /\ Saving(s)
  BY <1>a, <1>b, <1>c, SaverGoesOn
<1>1. Ours' /\ Files'
  BY <1>a, <1>d, <1>g DEF Good, Ours, KeyedFor, LoadedFor, Kept, Files
<1>2. Saving(s)'
  <2>1. CASE savers[s].op = "signoff"
    <3>1. Lives /\ s # "timer"
      BY <1>a, <1>d, <2>1 DEF Saving
    <3>2. /\ savers'[s].key = savers[s].key /\ savers'[s].account = savers[s].account
          /\ savers'[s].pc = "off" /\ savers'[s].has = savers[s].has
      BY <1>b, <2>1 DEF Ended
    <3>3. QED BY <1>a, <1>d, <3>1, <3>2 DEF Saving
  <2>2. CASE savers[s].op # "signoff"
    <3>1. savers'[s] = None
      BY <1>b, <2>2 DEF Ended
    <3>2. QED BY <3>1 DEF Saving
  <2>3. QED BY <2>1, <2>2
<1>3. QED BY <1>d, <1>1, <1>2, GoodNext

LEMMA UnlinkFailsGood ==
  ASSUME Types, Good, UnlinkFails, NEW me, me = hist.account
  PROVE  Good'
<1>a. /\ UNCHANGED <<form, loops, cur, status, signKey, store, hist, on, timer, keyring, minted, file>>
      /\ savers["user"] # None /\ savers["user"].pc = "unlink"
      /\ savers' = [savers EXCEPT !["user"] = None]
  BY DEF UnlinkFails, conn, disk, SaverAt
<1>b. /\ Saving("user") /\ savers["timer"] = None /\ form = None /\ me \in Accounts
      /\ savers["user"].account = me /\ store \subseteq Of(me)
  BY <1>a DEF Good, Saving, OneSaver, Signing, Types, TypeOK
<1>c. savers'["user"] = None /\ savers'["timer"] = None
  BY <1>a, <1>b DEF Types, TypeOK
<1>d. Of(me) \subseteq store \cup Gone'
  <2>1. \A t \in Of(me) \ store : removed'[t] # "no"
    BY <1>b DEF UnlinkFails, Of
  <2>2. QED BY <2>1 DEF Gone, Of
<1>1. OneLoop' /\ Signed' /\ Emptied' /\ Files'
  BY <1>a, PartsStay
<1>2. Signing'
  BY <1>a, <1>b DEF Signing
<1>3. Keeping'
  BY <1>a, <1>b, <1>c DEF Good, Keeping
<1>4. Ours'
  <2>1. \A a \in Accounts : (KeyedFor(a)' => KeyedFor(a)) /\ (LoadedFor(a)' => a = me)
    BY <1>a, <1>b DEF KeyedFor, LoadedFor
  <2>2. Kept(me)' \subseteq Of(me)
    BY <1>1, <1>b DEF Files
  <2>3. QED BY <1>a, <1>b, <1>d, <2>1, <2>2 DEF Good, Ours
<1>5. OneSaver' /\ \A s \in Who : Saving(s)'
  BY <1>c DEF OneSaver, Saving, Who
<1>6. QED BY <1>1, <1>2, <1>3, <1>4, <1>5, GoodNext

LEMMA UnlinkGood ==
  ASSUME Types, Good, Unlink, NEW me, me = hist.account
  PROVE  Good'
<1>a. UNCHANGED <<form, loops, cur, status, signKey, store, on, timer>>
      /\ savers["user"] # None /\ savers["user"].pc = "unlink"
      /\ savers' = [savers EXCEPT !["user"] = None]
  BY DEF Unlink, conn, SaverAt
<1>b. /\ Saving("user") /\ savers["timer"] = None /\ form = None /\ me \in Accounts
      /\ savers["user"].account = me /\ store \subseteq Of(me)
  BY <1>a DEF Good, Saving, OneSaver, Signing, Types, TypeOK
<1>c. savers'["user"] = None /\ savers'["timer"] = None
  BY <1>a, <1>b DEF Types, TypeOK
<1>d. PICK reachable \in BOOLEAN :
        LET ring == IF reachable THEN [keyring EXCEPT ![me] = 0] ELSE keyring
        IN  SetsKey(me, ring, on, reachable)
  BY <1>b, HistoryAssumption DEF Unlink
<1> DEFINE ring == IF reachable THEN [keyring EXCEPT ![me] = 0] ELSE keyring
<1>e. ring \in [Accounts -> 0..minted] /\ \A b \in Accounts \ {me} : ring[b] = keyring[b]
  <2>1. keyring \in [Accounts -> 0..minted] /\ 0 \in 0..minted
    BY Bounds DEF Types, TypeOK
  <2>2. [keyring EXCEPT ![me] = 0] \in [Accounts -> 0..minted]
        /\ \A b \in Accounts \ {me} : [keyring EXCEPT ![me] = 0][b] = keyring[b]
    BY <2>1
  <2>3. QED BY <2>1, <2>2
<1>f. SetsKey(me, ring, on, reachable)
  BY <1>d
<1> HIDE DEF ring
<1>g. /\ hist'.account = me /\ hist'.key \in {0, keyring'[me]}
      /\ \A b \in Accounts \ {me} : keyring'[b] = keyring[b]
  BY <1>b, <1>e, <1>f, SetsKeyType
<1>h. file' = [file EXCEPT ![me] = None]
  BY <1>b DEF Unlink
<1>i. /\ Kept(me)' = {} /\ file'[me] = None
      /\ \A b \in Accounts \ {me} : Kept(b)' = Kept(b) /\ file'[b] = file[b]
  BY <1>b, <1>h DEF Kept, Types, TypeOK
<1>1. OneLoop' /\ Signed' /\ Emptied'
  BY <1>a, PartsStay
<1>2. Signing'
  BY <1>a, <1>b DEF Signing
<1>3. Keeping'
  BY <1>a, <1>b, <1>c, <1>g, HistoryAssumption DEF Good, Keeping
<1>4. Ours'
  <2>1. \A a \in Accounts : (KeyedFor(a)' => a = me) /\ (LoadedFor(a)' => a = me)
    BY <1>a, <1>b, <1>g DEF KeyedFor, LoadedFor
  <2>2. QED BY <1>a, <1>b, <1>g, <1>i, <2>1 DEF Ours
<1>5. OneSaver' /\ \A s \in Who : Saving(s)'
  BY <1>c DEF OneSaver, Saving, Who
<1>6. Files'
  <2> SUFFICES ASSUME NEW a \in Accounts
               PROVE  /\ Kept(a)' \subseteq Of(a)
                      /\ file'[a] # None => file'[a].key \in {0, keyring'[a]}
    BY DEF Files
  <2>1. CASE a = me
    BY <1>i, <2>1
  <2>2. CASE a # me
    BY <1>g, <1>i, <2>2 DEF Good, Files
  <2>3. QED BY <2>1, <2>2
<1>7. QED BY <1>1, <1>2, <1>3, <1>4, <1>5, <1>6, GoodNext

LEMMA ClientSignOffGood ==
  ASSUME Types, Good, ClientSignOff
  PROVE  Good'
<1>a. /\ UNCHANGED <<form, signKey, store, hist, on, timer, keyring, minted, file, removed>>
      /\ savers["user"] # None /\ savers["user"].pc = "off"
      /\ savers' = [savers EXCEPT !["user"] = None] /\ cur' = 0
  BY DEF ClientSignOff, disk, SaverAt
<1>b. savers["timer"] = None /\ form = None
  BY <1>a DEF Good, OneSaver, Signing
<1>c. savers'["user"] = None /\ savers'["timer"] = None
  BY <1>a, <1>b DEF Types, TypeOK
<1>d. /\ Len(loops') = Len(loops) /\ DOMAIN loops' = DOMAIN loops
      /\ \A j \in DOMAIN loops : /\ loops'[j].account = loops[j].account
                                 /\ loops'[j].pc = loops[j].pc
                                 /\ loops'[j].attest = loops[j].attest
                                 /\ j # cur => loops'[j].ending = loops[j].ending
      /\ cur # 0 => loops'[cur].ending
  <2>1. CASE cur = 0
    BY <2>1 DEF ClientSignOff
  <2>2. CASE cur # 0
    BY <2>2, LoopEnding DEF ClientSignOff
  <2>3. QED BY <2>1, <2>2
<1>e. ~SaverAt("user", "unlink") /\ ~SaverAt("user", "unlink")' /\ Lives' = Lives
  BY <1>a, <1>c, <1>d DEF SaverAt, Lives
<1>1. OneLoop'
  <2>1. \A j \in DOMAIN loops : j # 0
    BY Where
  <2>2. QED BY <1>a, <1>d, <2>1 DEF Good, OneLoop
<1>2. Signing'
  BY <1>a, <1>b DEF Signing
<1>3. Keeping'
  BY <1>a, <1>b, <1>c, <1>d DEF Good, Keeping
<1>4. Signed'
  BY <1>a, <1>d DEF Good, Signed
<1>5. Ours'
  BY <1>a, <1>e DEF Good, Ours, KeyedFor, LoadedFor, Gone, Kept
<1>6. Emptied'
  BY <1>a, <1>e DEF Good, Emptied
<1>7. OneSaver' /\ \A s \in Who : Saving(s)'
  BY <1>c DEF OneSaver, Saving, Who
<1>8. QED BY <1>a, <1>1, <1>2, <1>3, <1>4, <1>5, <1>6, <1>7, PartsStay, GoodNext

-----------------------------------------------------------------------------
(* What the user does, and a crash. *)

\* A user acts in a session that lives and that no saver is at work for.
LEMMA Undisturbed ==
  ASSUME Types, Orderly, Good, User, UpsetIf(Racing, "race") \/ ~Racing
  PROVE  /\ form = None /\ savers["user"] = None /\ savers["timer"] = None /\ cur # 0 /\ Lives
         /\ \A s \in Who : savers[s] = None /\ ~SaverAt(s, "unlink")
<1>1. ~Racing
  BY Ordered
<1>2. QED BY <1>1, Where DEF User, Racing, SaverAt, Who

\* One saver starts where there was none.
LEMMA SaverStarts ==
  ASSUME Types, Good, form' = None, UNCHANGED <<loops, cur, signKey, hist>>,
         savers["user"] = None, savers["timer"] = None, savers'["timer"] = None,
         (timer' # "off" => timer # "off" \/ hist.account # None)
  PROVE  /\ OneLoop' /\ Signing' /\ Keeping' /\ Signed' /\ OneSaver' /\ Saving("timer")'
         /\ Lives' = Lives
<1>1. OneLoop' /\ Signed'
  BY PartsStay
<1>2. Signing' /\ OneSaver' /\ Saving("timer")'
  BY DEF Signing, OneSaver, Saving
<1>3. Keeping'
  BY DEF Good, Keeping
<1>4. QED BY <1>1, <1>2, <1>3 DEF Lives

LEMMA RemovingGood ==
  ASSUME Types, Orderly, Good, NEW thread \in store, NEW op \in {"flush", "persist"},
         User, ~Racing, Removes(thread), UserSaves(op),
         UNCHANGED <<conn, hist, on, timer, disk>>
  PROVE  Good'
<1>a. /\ form = None /\ savers["user"] = None /\ savers["timer"] = None /\ cur # 0 /\ Lives
      /\ ~SaverAt("user", "unlink")
  BY Undisturbed DEF Who
<1>b. /\ UNCHANGED <<form, loops, cur, signKey, keyring, minted, file>>
  BY DEF conn, disk
<1>c. thread \in Threads
  BY DEF Types, TypeOK
<1>d. /\ store' = store \ {thread} /\ removed'[thread] # "no"
      /\ \A t \in Threads \ {thread} : removed'[t] = removed[t]
  BY <1>c, RemovesFacts
<1>e. Gone' = Gone \cup {thread} /\ \A a \in Accounts : Kept(a)' = Kept(a)
  BY <1>b, <1>c, <1>d DEF Gone, Kept
<1>f. /\ savers'["timer"] = None
      /\ Persisting => savers'["user"] = Save(op)
      /\ ~Persisting => savers' = savers
  BY <1>a, <1>b, UserSavesFacts
<1>s. Persisting => /\ savers'["user"].key = hist.key /\ savers'["user"].account = hist.account
                    /\ savers'["user"].pc = "chats" /\ savers'["user"].has = {}
  BY <1>f, SaveFacts
<1>1. /\ OneLoop' /\ Signing' /\ Keeping' /\ Signed' /\ OneSaver' /\ Saving("timer")'
      /\ Lives' = Lives
  BY <1>a, <1>b, <1>f, SaverStarts
<1>2. Ours'
  BY <1>a, <1>b, <1>d, <1>e, <1>1 DEF Good, Ours, KeyedFor, LoadedFor
<1>3. Emptied' /\ Files'
  BY <1>a, <1>b, <1>1, PartsStay DEF Emptied
<1>4. Saving("user")'
  <2>1. CASE Persisting
    BY <1>a, <1>b, <1>s, <1>1, <2>1 DEF Saving, Persisting
  <2>2. CASE ~Persisting
    BY <1>a, <1>f, <2>2 DEF Saving
  <2>3. QED BY <2>1, <2>2
<1>5. QED BY <1>1, <1>2, <1>3, <1>4, GoodNext DEF Who

LEMMA UserGood ==
  ASSUME Types, Orderly, Good, UserActs
  PROVE  Good'
<1>1. ASSUME NEW a \in Accounts, SignIn(a) PROVE Good'
  <2>1. /\ UNCHANGED <<loops, cur, signKey, store, hist, on, timer, savers, disk, removed>>
        /\ form' = [step |-> "key", account |-> a] /\ savers["user"] = None
    BY <1>1 DEF SignIn
  <2>2. Quiet
    <3>1. ~(\E i \in DOMAIN loops : loops[i].pc # "done")
      BY <1>1, Ordered DEF SignIn
    <3>2. QED BY <3>1 DEF Quiet
  <2>3. hist.account = None /\ savers["timer"] = None
    BY <2>2, Where
  <2>4. form'.step = "key" /\ form'.account = a
    BY <2>1
  <2>5. Signing'
    BY <2>1, <2>2, <2>3, <2>4 DEF Signing, Quiet
  <2>6. Ours'
    BY <2>1, <2>3, <2>4, HistoryAssumption DEF Ours, KeyedFor, LoadedFor
  <2>7. QED BY <2>1, <2>5, <2>6, PartsStay, GoodNext DEF disk
<1>2. ASSUME NEW thread \in store, ClearConversation(thread) PROVE Good'
  <2>1. ~Racing
    BY <1>2, Ordered DEF ClearConversation
  <2>2. QED BY <1>2, <2>1, RemovingGood DEF ClearConversation
<1>3. ASSUME NEW thread \in store, ForgetRoom(thread) PROVE Good'
  <2>1. ~Racing
    BY <1>3, Ordered DEF ForgetRoom
  <2>2. QED BY <1>3, <2>1, RemovingGood DEF ForgetRoom
<1>4. CASE ClearHistory
  <2>1. /\ UNCHANGED <<form, loops, cur, signKey, hist, on, timer, keyring, minted, file, removed>>
        /\ store' = {} /\ hist.account # None
        /\ savers' = [savers EXCEPT !["user"] = [Save("flush") EXCEPT !.pc = "unlink"]]
    BY <1>4 DEF ClearHistory, conn, disk
  <2>2. form = None /\ savers["user"] = None /\ savers["timer"] = None /\ Lives
    BY <1>4, Undisturbed DEF ClearHistory
  <2> DEFINE v == [Save("flush") EXCEPT !.pc = "unlink"]
  <2>v. v.key = hist.key /\ v.account = hist.account /\ v.pc = "unlink" /\ v.has = {} /\ v # None
    BY SaveFromFacts
  <2> HIDE DEF v
  <2>3. savers'["timer"] = None /\ savers'["user"] = v
    BY <2>1, <2>2 DEF Types, TypeOK, v
  <2>4. /\ savers'["user"].key = hist.key /\ savers'["user"].account = hist.account
        /\ savers'["user"].pc = "unlink" /\ savers'["user"].has = {} /\ savers'["user"] # None
    BY <2>3, <2>v
  <2>5. /\ OneLoop' /\ Signing' /\ Keeping' /\ Signed' /\ OneSaver' /\ Saving("timer")'
        /\ Lives' = Lives
    BY <2>1, <2>2, <2>3, SaverStarts
  <2>6. Ours'
    BY <2>1, <2>4 DEF Good, Ours, KeyedFor, LoadedFor, SaverAt
  <2>7. Emptied' /\ Files'
    BY <2>1, PartsStay DEF Emptied
  <2>8. Saving("user")'
    BY <2>1, <2>2, <2>4, <2>5 DEF Saving
  <2>9. QED BY <2>5, <2>6, <2>7, <2>8, GoodNext DEF Who
<1>5. CASE DisableHistory
  <2>1. UNCHANGED <<form, loops, cur, signKey, store, hist, savers, keyring, minted, file, removed>>
        /\ timer' = "off"
    BY <1>5 DEF DisableHistory, conn, disk
  <2>2. form = None
    BY <1>5 DEF DisableHistory, User
  <2>3. Signing'
    BY <2>1, <2>2 DEF Signing
  <2>4. Keeping'
    BY <2>1 DEF Good, Keeping
  <2>5. QED BY <2>1, <2>3, <2>4, PartsStay, GoodNext
<1>6. CASE EnableHistory
  <2> DEFINE keyless == hist.account # None /\ hist.key = 0
  <2>1. /\ UNCHANGED <<form, loops, cur, signKey, store, savers, file, removed>>
        /\ timer' = (IF hist.account # None THEN "set" ELSE timer) /\ form = None
    BY <1>6 DEF EnableHistory, User, conn
  <2>2. UpsetIf(Racing \/ keyless, IF Racing THEN "race" ELSE "toggle")
    BY <1>6 DEF EnableHistory
  <2>3. ~keyless
    <3>1. (IF Racing THEN "race" ELSE "toggle") \in {"overlap", "kicked", "race", "toggle"}
      OBVIOUS
    <3>2. QED BY <2>2, <3>1, Ordered
  <2>4. UNCHANGED <<hist, keyring, minted>>
    BY <1>6, <2>3 DEF EnableHistory
  <2>5. Signing'
    BY <2>1 DEF Signing
  <2>6. Keeping'
    BY <2>1, <2>4 DEF Good, Keeping
  <2>7. QED BY <2>1, <2>4, <2>5, <2>6, PartsStay, GoodNext
<1>7. CASE SignOff
  <2> DEFINE v == IF Persisting THEN Save("signoff") ELSE [Save("signoff") EXCEPT !.pc = "off"]
  <2>1. /\ UNCHANGED <<form, loops, cur, signKey, store, hist, on, timer, keyring, minted, file, removed>>
        /\ savers' = [savers EXCEPT !["user"] = v]
    BY <1>7 DEF SignOff, conn, disk
  <2>2. form = None /\ savers["user"] = None /\ savers["timer"] = None /\ Lives
        /\ ~SaverAt("user", "unlink")
    BY <1>7, Undisturbed DEF SignOff, Who
  <2>3. /\ v.key = hist.key /\ v.account = hist.account /\ v.has = {}
        /\ v.pc = IF Persisting THEN "chats" ELSE "off"
    BY SaveFacts, SaveFromFacts
  <2> HIDE DEF v
  <2>4. savers'["timer"] = None /\ savers'["user"] = v
    BY <2>1, <2>2 DEF Types, TypeOK
  <2>5. /\ OneLoop' /\ Signing' /\ Keeping' /\ Signed' /\ OneSaver' /\ Saving("timer")'
        /\ Lives' = Lives
    BY <2>1, <2>2, <2>4, SaverStarts
  <2>6. ~SaverAt("user", "unlink")'
    BY <2>3, <2>4 DEF SaverAt
  <2>7. Ours' /\ Emptied' /\ Files'
    BY <2>1, <2>2, <2>5, <2>6, PartsStay DEF Good, Ours, KeyedFor, LoadedFor, Gone, Kept
  <2>8. Saving("user")'
    BY <2>1, <2>2, <2>3, <2>4, <2>5 DEF Saving, Persisting
  <2>9. QED BY <2>5, <2>7, <2>8, GoodNext DEF Who
<1>8. QED BY <1>1, <1>2, <1>3, <1>4, <1>5, <1>6, <1>7 DEF UserActs

LEMMA CrashGood ==
  ASSUME Types, Good, Crash
  PROVE  Good'
<1>a. /\ form' = None /\ cur' = 0 /\ signKey' = None /\ store' = {} /\ timer' = "off"
      /\ hist'.account = None /\ savers'["user"] = None /\ savers'["timer"] = None
      /\ UNCHANGED <<file, keyring>>
  BY DEF Crash, NoHist, NoSavers, disk
<1>b. /\ DOMAIN loops' = DOMAIN loops /\ \A i \in DOMAIN loops : i # 0
      /\ \A i \in DOMAIN loops : loops'[i].pc = "done" /\ loops'[i].attest = "settled"
  BY Where DEF Crash, Over
<1>1. OneLoop'
  BY <1>a, <1>b DEF OneLoop
<1>2. Signing' /\ Keeping'
  BY <1>a DEF Signing, Keeping
<1>3. Signed'
  BY <1>a, <1>b DEF Signed
<1>4. Ours'
  BY <1>a, HistoryAssumption DEF Ours, KeyedFor, LoadedFor
<1>5. Emptied' /\ OneSaver' /\ Files' /\ \A s \in Who : Saving(s)'
  BY <1>a, PartsStay DEF Emptied, OneSaver, Saving, Who
<1>6. QED BY <1>1, <1>2, <1>3, <1>4, <1>5, GoodNext

LEMMA InitGood == Init => Good
<1> SUFFICES ASSUME Init PROVE Good
  OBVIOUS
<1>1. DOMAIN loops = {} /\ cur = 0
  <2>1. loops = <<>>
    BY DEF Init
  <2>2. QED BY <2>1 DEF Init
<1>2. form = None /\ hist.account = None /\ timer = "off" /\ \A s \in Who : savers[s] = None
  BY DEF Init, NoHist, NoSavers, Who
<1>3. OneLoop /\ Signing /\ Keeping /\ Signed /\ OneSaver /\ Lives
  BY <1>1, <1>2 DEF OneLoop, Signing, Keeping, Signed, OneSaver, Lives, Who
<1>4. Ours /\ Emptied /\ \A s \in Who : Saving(s)
  BY <1>2, <1>3, HistoryAssumption DEF Ours, KeyedFor, LoadedFor, Emptied, Saving
<1>5. Files
  <2>1. PICK old \in SUBSET Accounts :
          file = [a \in Accounts |-> IF a \in old THEN [key |-> 0, has |-> Of(a)] ELSE None]
    BY DEF Init
  <2>2. \A a \in Accounts : file[a] = None \/ (file[a].key = 0 /\ file[a].has = Of(a))
    BY <2>1
  <2>3. QED BY <2>2 DEF Files, Kept
<1>6. QED BY <1>3, <1>4, <1>5 DEF Good, Who

LEMMA GoodStep ==
  ASSUME Orderly, Types, Good, [Next]_vars
  PROVE  Good'
<1>1. CASE Next
  <2>1. LoopRuns => \E i \in DOMAIN loops : LoopStep(i)
    BY DEF LoopRuns
  <2>2. SaversRun => \/ TimerFires \/ Unlink \/ UnlinkFails \/ ClientSignOff
                     \/ \E s \in Who : SaverStep(s)
    BY DEF SaversRun, Who
  <2>3. \A s \in Who : SaverStep(s) => Good'
    BY TakeChatsGood, TakeRoomsGood, FileWrittenGood, SaveFailsGood DEF SaverStep
  <2>4. TimerFires \/ Unlink \/ UnlinkFails \/ ClientSignOff => Good'
    BY TimerFiresGood, UnlinkGood, UnlinkFailsGood, ClientSignOffGood
  <2>5. TimerWanes => Good'
    BY TimerWanesGood
  <2>6. QED BY <1>1, <2>1, <2>2, <2>3, <2>4, <2>5, FormGood, LoopGood, UserGood, CrashGood DEF Next
<1>2. CASE UNCHANGED vars
  BY <1>2, PartsStay, GoodNext DEF vars, conn, disk
<1>3. QED BY <1>1, <1>2

-----------------------------------------------------------------------------
(* What follows from it. *)

\* Each account's file holds its own threads, under its own key, and the server's
\* challenge finds the account's own signing key, over any number of sign-ons, failed
\* ones, locked keychains, lost connections, crashes, clearings, settings and files that
\* cannot be written, for any accounts and threads, when sessions and savers do not overlap.
THEOREM AccountsApart == ASSUME Orderly PROVE Spec => []AccountsStayApart
<1>1. Types /\ Good /\ [Next]_vars => (Types /\ Good)'
  BY TypesStep, GoodStep
<1>2. Good => AccountsStayApart
  BY DEF Good, Files, Signed, AccountsStayApart
<1>3. QED BY TypesInit, InitGood, <1>1, <1>2, PTL DEF Spec

LEMMA NothingLost ==
  ASSUME Types, Good, [Next]_vars, NEW a \in Accounts, NEW t \in Kept(a) \ Kept(a)'
  PROVE  removed'[t] # "no" \/ SaverAt("user", "unlink")
<1>1. file' # file
  BY DEF Kept
<1>2. (\E s \in Who : Write(s) \/ ClearFile(s)) \/ Unlink
  <2>1. ~UNCHANGED vars
    BY <1>1 DEF vars, disk
  <2>2. FormStep => file' = file
    BY DEF FormStep, SetupHistoryKey, LoadHistory, SetupSigningKey, Connect, PersistsFor, SignedOn, disk
  <2>3. \A i \in DOMAIN loops :
          LoopStep(i) \/ LoopEnds(i) \/ (\E thread \in Threads : MessageArrives(i, thread)) => file' = file
    BY DEF LoopStep, AnswerAttestChallenge, ResetStore, OnDisconnect, LoopEnds, MessageArrives, disk
  <2>4. UserActs \/ Crash => file' = file
    BY DEF UserActs, SignIn, ClearConversation, ForgetRoom, ClearHistory, DisableHistory, EnableHistory,
           SignOff, Crash, disk
  <2>5. \/ TimerFires \/ TimerWanes \/ UnlinkFails \/ ClientSignOff
        \/ \E s \in Who : TakeChats(s) \/ TakeRooms(s) \/ SaveFails(s)
        => file' = file
    BY DEF TimerFires, TimerWanes, UnlinkFails, ClientSignOff, TakeChats, TakeRooms, SaveFails, disk
  <2>6. QED BY <1>1, <2>1, <2>2, <2>3, <2>4, <2>5
            DEF Next, LoopRuns, SaversRun, SaverStep, Who
<1>3. CASE Unlink
  BY <1>3 DEF Unlink
<1>4. ASSUME NEW s \in Who, Write(s) \/ ClearFile(s) PROVE removed'[t] # "no"
  <2>1. /\ Kept(hist.account)' = savers[s].has
        /\ \A b \in Accounts : b # hist.account => Kept(b)' = Kept(b)
        /\ Gone \ savers[s].has \subseteq Gone'
        /\ Kept(hist.account) \subseteq savers[s].has \cup Gone
    BY <1>4, FileWritten
  <2>2. a = hist.account
    BY <2>1
  <2>3. Kept(a)' = Kept(hist.account)'
    BY <1>4, <2>2 DEF Kept, Write, ClearFile
  <2>4. t \in Gone'
    BY <2>1, <2>2, <2>3
  <2>5. QED BY <2>4 DEF Gone
<1>5. QED BY <1>2, <1>3, <1>4

\* No locked keychain, failed sign-on, lost connection, crash, failed save or change of the setting
\* takes a thread out of an account's file: only the user does, removing it or clearing
\* the history, in the same schedules.
THEOREM HistoryIsKept == ASSUME Orderly PROVE Spec => HistoryIsNotLost
<1>1. Types /\ Good /\ [Next]_vars => (Types /\ Good)'
  BY TypesStep, GoodStep
<1>2. Types /\ Good /\ [Next]_vars =>
        [\A a \in Accounts : \A t \in Kept(a) \ Kept(a)' :
           removed'[t] # "no" \/ SaverAt("user", "unlink")]_vars
  BY NothingLost
<1>3. QED BY TypesInit, InitGood, <1>1, <1>2, PTL DEF Spec, HistoryIsNotLost

-----------------------------------------------------------------------------
(* What was removed. *)

LEMMA SettledStays ==
  ASSUME Types, Settled, file' = file,
         \A t \in Threads : removed'[t] = "file" => removed[t] = "file" /\ t \notin store',
         savers'["user"] = savers["user"], savers["user"] # None => hist' = hist,
         savers["user"] # None => store \subseteq store' \/ (savers["user"].pc \notin {"chats", "rooms"})
  PROVE  Settled'
<1> SUFFICES ASSUME NEW t \in Threads, removed'[t] = "file", NEW s, s = savers["user"]
             PROVE  /\ t \notin store'
                    /\ t \in Kept(t[1])' =>
                         /\ s # None /\ hist'.account = t[1]
                         /\ s.pc \in {"chats", "rooms", "write", "clear"}
                         /\ s.op # "signoff"
                         /\ s.op = "flush" /\ s.pc = "chats" => store' # {}
                         /\ s.op = "flush" /\ s.pc = "rooms" => s.has \cup (store' \cap Rooms) # {}
  BY DEF Settled
<1>1. removed[t] = "file" /\ t \notin store' /\ Kept(t[1])' = Kept(t[1])
  BY DEF Kept
<1>2. t \in Kept(t[1]) =>
         /\ s # None /\ hist.account = t[1]
         /\ s.pc \in {"chats", "rooms", "write", "clear"}
         /\ s.op # "signoff"
         /\ s.op = "flush" /\ s.pc = "chats" => store # {}
         /\ s.op = "flush" /\ s.pc = "rooms" => s.has \cup (store \cap Rooms) # {}
  BY <1>1 DEF Settled
<1>3. QED BY <1>1, <1>2

LEMMA FormSettled ==
  ASSUME Types, Good, Settled, FormStep
  PROVE  Settled'
<1>a. UNCHANGED <<savers, removed, file>> /\ savers["user"] = None
  <2>1. UNCHANGED <<savers, removed, file>> /\ form # None
    BY DEF FormStep, SetupHistoryKey, LoadHistory, SetupSigningKey, Connect, PersistsFor, SignedOn,
           Login, Handshake, LoadBuddies, GoOnline, Refused, At, disk
  <2>2. QED BY <2>1 DEF Good, Signing
<1>b. \A t \in Threads : removed[t] = "file" => t \notin store'
  <2> SUFFICES ASSUME NEW t \in Threads, removed[t] = "file", t \in store' PROVE FALSE
    OBVIOUS
  <2>1. t \notin store /\ t \notin Kept(t[1])
    BY <1>a DEF Settled
  <2>2. LoadHistory
    BY <2>1 DEF FormStep, SetupHistoryKey, SetupSigningKey, Connect, PersistsFor, SignedOn
  <2>3. form.account \in Accounts
    BY <2>2, AccountOfForm DEF LoadHistory, At
  <2>4. t \in Kept(form.account)
    BY <2>1, <2>2 DEF LoadHistory, Kept
  <2>5. t \in Of(form.account)
    BY <2>3, <2>4 DEF Good, Files
  <2>6. QED BY <2>1, <2>4, <2>5 DEF Of
<1>1. QED BY <1>a, <1>b, SettledStays

LEMMA LoopSettled ==
  ASSUME Types, Orderly, Good, Settled, NEW i \in DOMAIN loops,
         \/ LoopStep(i) \/ LoopEnds(i) \/ \E thread \in Threads : MessageArrives(i, thread)
  PROVE  Settled'
<1>1. CASE AnswerAttestChallenge(i) \/ LoopEnds(i)
  BY <1>1, SettledStays DEF AnswerAttestChallenge, LoopEnds, Settled, disk
<1>2. CASE ResetStore(i) \/ OnDisconnect(i)
  <2>1. savers = NoSavers
    BY <1>2, Ordered DEF ResetStore, OnDisconnect
  <2>2. savers["user"] = None
    BY <2>1 DEF NoSavers
  <2>3. UNCHANGED <<savers, removed, file>> /\ store' \subseteq store
    BY <1>2 DEF ResetStore, OnDisconnect, disk
  <2>4. QED BY <2>2, <2>3, SettledStays DEF Settled
<1>3. ASSUME NEW thread \in Threads, MessageArrives(i, thread) PROVE Settled'
  <2>1. UNCHANGED <<savers, hist, file>> /\ store' = store \cup {thread}
    BY <1>3 DEF MessageArrives, disk
  <2>2. \A t \in Threads : removed'[t] = "file" => removed[t] = "file" /\ t # thread
    BY <1>3 DEF MessageArrives, Types, TypeOK
  <2>3. QED BY <2>1, <2>2, SettledStays DEF Settled
<1>4. QED BY <1>1, <1>2, <1>3 DEF LoopStep

\* What a save that was cut short leaves in the file is no longer promised to be gone.
LEMMA StillThereSettles ==
  ASSUME Settled, removed' = StillThere, file' = file, store' \subseteq store
  PROVE  Settled'
<1>1. \A t \in Threads : removed'[t] = "file" => removed[t] = "file" /\ t \notin Kept(t[1])
  BY DEF StillThere
<1>2. QED BY <1>1 DEF Settled, Kept

LEMMA SaverSettled ==
  ASSUME Types, Good, Settled, NEW s \in Who, SaverStep(s)
  PROVE  Settled'
<1>a. savers[s] # None /\ store' = store /\ hist' = hist
  BY DEF SaverStep, TakeChats, TakeRooms, Write, ClearFile, SaveFails, SaverAt
<1>b. Saving(s)
  BY DEF Good, Who
<1>c. \A t \in Threads : removed'[t] = "file" => removed[t] = "file"
  BY DEF SaverStep, TakeChats, TakeRooms, Write, ClearFile, SaveFails, StillThere
<1>d. (s = "timer" \/ s = "user") /\ (s = "timer" => savers["user"] = None)
  BY <1>a DEF Good, OneSaver, Who
<1>1. CASE Write(s) \/ ClearFile(s)
  <2>1. /\ savers[s].pc \in {"write", "clear"} /\ Kept(hist.account)' = savers[s].has
        /\ \A a \in Accounts : a # hist.account => Kept(a)' = Kept(a)
    BY <1>1, FileWritten
  <2>2. savers[s].has \subseteq store
    BY <1>a, <1>b DEF Saving
  <2> SUFFICES ASSUME NEW t \in Threads, removed'[t] = "file"
               PROVE  t \notin store' /\ t \notin Kept(t[1])'
    BY DEF Settled
  <2>3. t \notin store /\ t[1] \in Accounts
    BY <1>c, HistoryAssumption DEF Settled, Threads
  <2>4. CASE t[1] = hist.account
    <3>1. Kept(t[1])' = Kept(hist.account)'
      BY <1>a, <2>4 DEF Kept
    <3>2. QED BY <1>a, <2>1, <2>2, <2>3, <3>1
  <2>5. CASE t[1] # hist.account
    <3>1. t \notin Kept(t[1])
      BY <1>c, <2>5 DEF Settled
    <3>2. QED BY <1>a, <2>1, <2>3, <2>5, <3>1
  <2>6. QED BY <2>4, <2>5
<1>2. CASE TakeChats(s)
  <2>1. UNCHANGED <<removed, file>>
    BY <1>2 DEF TakeChats, disk
  <2>2. CASE s = "timer"
    <3>1. savers'["user"] = savers["user"]
      BY <1>2, <2>2, TakeChatsFacts DEF Who
    <3>2. QED BY <1>a, <2>1, <3>1, SettledStays DEF Settled
  <2>3. CASE s = "user"
    <3> SUFFICES ASSUME NEW t \in Threads, removed[t] = "file", NEW v, v = savers'["user"]
                 PROVE  /\ t \notin store
                        /\ t \in Kept(t[1]) =>
                            /\ v # None /\ hist.account = t[1] /\ v.pc = "rooms"
                            /\ v.op # "signoff"
                            /\ v.op = "flush" => v.has \cup (store \cap Rooms) # {}
      BY <1>a, <2>1 DEF Settled, Kept
    <3>1. /\ v # None /\ v.pc = "rooms" /\ v.has = store \cap Chats /\ v.op = savers["user"].op
      BY <1>2, <2>3, TakeChatsFacts
    <3>2. savers["user"].pc = "chats"
      BY <1>2, <2>3 DEF TakeChats, SaverAt
    <3>3. /\ t \notin store
          /\ t \in Kept(t[1]) => /\ hist.account = t[1] /\ savers["user"].op # "signoff"
                                 /\ savers["user"].op = "flush" => store # {}
      BY <3>2 DEF Settled
    <3>4. store # {} => (store \cap Chats) \cup (store \cap Rooms) # {}
      BY DEF Types, TypeOK, Threads
    <3>5. QED BY <3>1, <3>3, <3>4
  <2>4. QED BY <1>d, <2>2, <2>3
<1>3. CASE TakeRooms(s)
  <2> DEFINE all == savers[s].has \cup (store \cap Rooms)
  <2>1. UNCHANGED <<removed, file>> /\ savers[s].pc = "rooms"
    BY <1>3 DEF TakeRooms, disk, SaverAt
  <2>2. CASE s = "timer"
    <3>1. savers'["user"] = savers["user"]
      BY <1>3, <2>2, TakeRoomsFacts DEF Who
    <3>2. QED BY <1>a, <2>1, <3>1, SettledStays DEF Settled
  <2>3. CASE s = "user"
    <3>s. NextOf(savers["user"].op, all) \in {"write", "clear", "skip"}
          /\ (NextOf(savers["user"].op, all) = "skip" => savers["user"].op # "persist" /\ all = {})
      BY DEF NextOf
    <3>t. savers["user"].op \in {"flush", "persist", "signoff"}
      BY <1>a, <2>3, SaverFacts DEF Saver
    <3> SUFFICES ASSUME NEW t \in Threads, removed[t] = "file", NEW v, v = savers'["user"]
                 PROVE  /\ t \notin store
                        /\ t \in Kept(t[1]) =>
                            /\ v # None /\ hist.account = t[1] /\ v.pc \in {"write", "clear"}
                            /\ v.op # "signoff"
      BY <1>a, <2>1 DEF Settled, Kept
    <3>1. /\ t \notin store
          /\ t \in Kept(t[1]) => /\ hist.account = t[1] /\ savers["user"].op # "signoff"
                                 /\ savers["user"].op = "flush" => all # {}
      BY <2>1, <2>3 DEF Settled
    <3>2. t \in Kept(t[1]) => NextOf(savers["user"].op, all) # "skip"
      BY <3>1, <3>s, <3>t
    <3>3. NextOf(savers["user"].op, all) # "skip" =>
            v # None /\ v.pc = NextOf(savers["user"].op, all) /\ v.op = savers["user"].op
      BY <1>3, <2>3, TakeRoomsFacts
    <3>4. QED BY <3>1, <3>2, <3>3, <3>s
  <2>4. QED BY <1>d, <2>2, <2>3
<1>4. CASE SaveFails(s)
  <2>1. store' = store /\ file' = file /\ removed' = StillThere
    BY <1>4 DEF SaveFails
  <2>2. QED BY <2>1, StillThereSettles
<1>5. QED BY <1>1, <1>2, <1>3, <1>4 DEF SaverStep

LEMMA SaversRunSettled ==
  ASSUME Types, Orderly, Good, Settled,
         TimerFires \/ Unlink \/ UnlinkFails \/ ClientSignOff
  PROVE  Settled'
<1>1. CASE TimerFires
  <2>1. savers'["user"] = savers["user"]
    BY <1>1 DEF TimerFires, Types, TypeOK
  <2>2. QED BY <1>1, <2>1, SettledStays DEF TimerFires, Settled, disk
<1>2. CASE ClientSignOff
  <2>1. UNCHANGED <<store, removed, file>> /\ savers["user"].pc = "off"
    BY <1>2 DEF ClientSignOff, disk, SaverAt
  <2>2. QED BY <2>1 DEF Settled, Kept
<1>3. CASE Unlink
  <2> DEFINE a == savers["user"].account
  <2>1. /\ savers["user"].pc = "unlink" /\ store' = store
        /\ removed' = [t \in Threads |-> IF t \in Of(a) \ store THEN "file" ELSE removed[t]]
        /\ file' = [file EXCEPT ![a] = None]
    BY <1>3 DEF Unlink, SaverAt
  <2> HIDE DEF a
  <2> SUFFICES ASSUME NEW t \in Threads, removed'[t] = "file"
               PROVE  t \notin store' /\ t \notin Kept(t[1])'
    BY DEF Settled
  <2>2. CASE t \in Of(a)
    <3>1. t[1] = a /\ t[1] \in Accounts
      BY <2>2, HistoryAssumption DEF Of, Threads
    <3>2. file'[a] = None
      BY <2>1, <3>1 DEF Types, TypeOK
    <3>3. t \notin store
      BY <2>1, <2>2 DEF Settled
    <3>4. QED BY <2>1, <3>1, <3>2, <3>3 DEF Kept
  <2>3. CASE t \notin Of(a)
    <3>1. t[1] # a /\ t[1] \in Accounts
      BY <2>3, HistoryAssumption DEF Of, Threads
    <3>2. removed[t] = "file" /\ file'[t[1]] = file[t[1]]
      BY <2>1, <2>3, <3>1 DEF Types, TypeOK
    <3>3. t \notin store /\ t \notin Kept(t[1])
      BY <2>1, <3>2 DEF Settled
    <3>4. QED BY <2>1, <3>2, <3>3 DEF Kept
  <2>4. QED BY <2>2, <2>3
<1>4. CASE UnlinkFails
  <2>1. savers["user"].pc = "unlink" /\ store' = store /\ file' = file
    BY <1>4 DEF UnlinkFails, SaverAt, disk
  <2>2. \A t \in Threads : removed'[t] = "file" => removed[t] = "file"
    BY <1>4 DEF UnlinkFails
  <2>3. QED BY <2>1, <2>2 DEF Settled, Kept
<1>5. QED BY <1>1, <1>2, <1>3, <1>4

LEMMA UserSettled ==
  ASSUME Types, Orderly, "forget" \notin Upsets, Good, Settled, UserActs
  PROVE  Settled'
<1>n. User => savers["user"] = None
  BY DEF User
<1>1. ASSUME NEW a \in Accounts, SignIn(a) PROVE Settled'
  BY <1>1, SettledStays DEF SignIn, Settled, disk
<1>2. ASSUME NEW thread \in store, ClearConversation(thread) \/ ForgetRoom(thread) PROVE Settled'
  <2> DEFINE op == IF ClearConversation(thread) THEN "persist" ELSE "flush"
  <2>1. /\ thread \in Threads /\ Removes(thread) /\ UserSaves(op) /\ minted' = minted
        /\ hist' = hist /\ file' = file /\ op \in {"flush", "persist"} /\ savers["user"] = None
    BY <1>2, <1>n DEF ClearConversation, ForgetRoom, disk, Types, TypeOK
  <2>2. ~Racing
    BY <1>2, Ordered DEF ClearConversation, ForgetRoom
  <2>3. op = "flush" => store # {thread}
    BY <1>2, <2>2 DEF ForgetRoom, UpsetIf, Upset
  <2> HIDE DEF op
  <2>4. /\ store' = store \ {thread}
        /\ removed'[thread] = IF Persisting THEN "file" ELSE "memory"
        /\ \A t \in Threads \ {thread} : removed'[t] = removed[t]
    BY <2>1, RemovesFacts
  <2>5. /\ Persisting => savers'["user"] = Save(op)
        /\ ~Persisting => savers' = savers
    BY <2>1, UserSavesFacts
  <2> SUFFICES ASSUME NEW t \in Threads, removed'[t] = "file", NEW v, v = savers'["user"]
               PROVE  /\ t \notin store'
                      /\ t \in Kept(t[1])' =>
                            /\ v # None /\ hist'.account = t[1] /\ v.pc = "chats"
                            /\ v.op # "signoff"
                            /\ v.op = "flush" => store' # {}
    BY DEF Settled
  <2>6. CASE t = thread
    <3>1. Persisting /\ hist.account \in Accounts /\ hist.key # 0
      BY <2>4, <2>6 DEF Persisting, Types, TypeOK
    <3>2. store \subseteq Of(hist.account)
      BY <3>1 DEF Good, Ours, LoadedFor
    <3>3. hist.account = t[1]
      BY <2>6, <3>2 DEF Of
    <3>4. v # None /\ v.pc = "chats" /\ v.op = op
      BY <2>1, <2>5, <3>1, SaveFacts
    <3>5. op = "flush" => store' # {}
      BY <2>3, <2>4
    <3>6. QED BY <2>1, <2>4, <2>6, <3>3, <3>4, <3>5
  <2>7. CASE t # thread
    <3>1. t \notin store /\ t \notin Kept(t[1])
      BY <2>1, <2>4, <2>7 DEF Settled
    <3>2. QED BY <2>1, <2>4, <3>1 DEF Kept
  <2>8. QED BY <2>6, <2>7
<1>3. CASE ClearHistory \/ SignOff
  <2>1. UNCHANGED <<removed, file>> /\ savers["user"] = None /\ store' \subseteq store
    BY <1>3, <1>n DEF ClearHistory, SignOff, disk
  <2>2. QED BY <2>1 DEF Settled, Kept
<1>4. CASE DisableHistory \/ EnableHistory
  BY <1>4, <1>n, SettledStays DEF DisableHistory, EnableHistory, Settled, disk
<1>5. QED BY <1>1, <1>2, <1>3, <1>4 DEF UserActs

LEMMA CrashSettled ==
  ASSUME Settled, Crash
  PROVE  Settled'
BY StillThereSettles DEF Crash, disk

LEMMA SettledStep ==
  ASSUME Orderly, "forget" \notin Upsets, Types, Good, Settled, [Next]_vars
  PROVE  Settled'
<1>1. CASE Next
  <2>1. LoopRuns => \E i \in DOMAIN loops : LoopStep(i)
    BY DEF LoopRuns
  <2>2. SaversRun => \/ TimerFires \/ Unlink \/ UnlinkFails \/ ClientSignOff
                     \/ \E s \in Who : SaverStep(s)
    BY DEF SaversRun, Who
  <2>3. TimerWanes => Settled'
    BY DEF TimerWanes, disk, Settled, Kept
  <2>4. QED BY <1>1, <2>1, <2>2, <2>3, FormSettled, LoopSettled, SaverSettled, SaversRunSettled,
              UserSettled, CrashSettled DEF Next
<1>2. CASE UNCHANGED vars
  BY <1>2 DEF vars, disk, Settled, Kept
<1>3. QED BY <1>1, <1>2

\* What the user removed while history was kept is not in the file once the save that
\* the removal ends with is over, whatever message, timer, crash or sign-on came between,
\* in the same schedules, when the last thread is not what was forgotten; unless that very
\* save failed or was cut short by a crash with the thread still in the file, which the
\* property excepts: persistHistoryNow drops or logs the error.
THEOREM RemovedForGood ==
  ASSUME Orderly, "forget" \notin Upsets PROVE Spec => []RemovedStaysRemoved
<1>1. Types /\ Good /\ Settled /\ [Next]_vars => (Types /\ Good /\ Settled)'
  BY TypesStep, GoodStep, SettledStep
<1>2. Settled => RemovedStaysRemoved
  BY DEF Settled, RemovedStaysRemoved
<1>3. Init => Settled
  BY DEF Init, Settled
<1>4. QED BY TypesInit, InitGood, <1>1, <1>2, <1>3, PTL DEF Spec
=============================================================================
