----------------------- MODULE AccountIdentity_proof -----------------------
(***************************************************************************)
(* Theorems about AccountIdentity, for any devices, keys, removals and     *)
(* upsets: types; a removed device stays out; and the stored backup opens  *)
(* with a key the user has and holds the account's identity.               *)
(***************************************************************************)
EXTENDS AccountIdentity, TLAPS

\* Where a call of a device stands says what the device and the call have.
Fits(a, c) ==
  c # None =>
    /\ a.on
    /\ c.op = "confirm" => a.pending # None
    /\ c.op = "rekey" => a.rotation # None
    /\ c.op = "remove" => c.target # None
    /\ c.pc = "get" => c.op \notin {"confirm", "rekey"}
    /\ c.pc = "put" => c.op \in {"confirm", "rekey"}
    /\ c.pc = "query" => c.op \in {"setup", "link", "remove"}
    /\ c.pc = "query" /\ c.op # "setup" => c.id # None
    /\ c.pc = "publish" => /\ c.op \in {"confirm", "link", "remove"}
                           /\ c.id # None /\ c.counter # 0

Types == TypeOK /\ \A d \in Devices : Fits(app[d], call[d])

\* What is typed besides the devices and their calls.
RestOK ==
  /\ backup \in Backup \cup {None} /\ manifest \in Manifest \cup {None}
  /\ pin \in [Devices -> Manifest \cup {None}]
  /\ held \subseteq Keys /\ out \subseteq Devices
  /\ fresh \in 0..MaxKeys /\ removals \in 0..MaxRemovals /\ upsets \in 0..MaxUpsets

\* What one device and its call become; the others stay.
Becomes(d, a, c) ==
  app' = [app EXCEPT ![d] = a] /\ call' = [call EXCEPT ![d] = c]

-----------------------------------------------------------------------------
(* Types. *)

LEMMA InitTypes == Init => Types
<1> SUFFICES ASSUME Init PROVE Types
  OBVIOUS
<1>1. Off \in App
  BY DEF Off, App
<1>2. TypeOK
  BY <1>1, IdentityBounds DEF Init, TypeOK, Call
<1>3. \A d \in Devices : Fits(app[d], call[d])
  BY DEF Init, Fits
<1>4. QED BY <1>2, <1>3 DEF Types

\* A device and its call are typed, and a call that is somewhere is there.
LEMMA DeviceTypes ==
  ASSUME Types, NEW d \in Devices
  PROVE  /\ app[d] \in App /\ call[d] \in Call /\ pin[d] \in Manifest \cup {None}
         /\ Fits(app[d], call[d])
         /\ call[d] # None =>
              call[d] \in [op : Ops, pc : {"get", "query", "put", "publish"},
                           key : Keys \cup {None}, id : Keys \cup {None},
                           target : Devices \cup {None}, devs : SUBSET Devices,
                           counter : Nat, again : BOOLEAN]
  BY DEF Types, TypeOK, Call

LEMMA BecomesEach ==
  ASSUME Types, NEW d \in Devices, NEW a, NEW c, Becomes(d, a, c)
  PROVE  /\ app'[d] = a /\ call'[d] = c
         /\ \A e \in Devices \ {d} : app'[e] = app[e] /\ call'[e] = call[e]
  BY DEF Types, TypeOK, Becomes

LEMMA BecomesTypes ==
  ASSUME Types, NEW d \in Devices, NEW a \in App, NEW c \in Call,
         Becomes(d, a, c), Fits(a, c), RestOK'
  PROVE  Types'
<1>1. app' \in [Devices -> App] /\ call' \in [Devices -> Call]
  BY DEF Becomes, Types, TypeOK
<1>2. \A e \in Devices : Fits(app'[e], call'[e])
  BY BecomesEach DEF Types
<1>3. TypeOK'
  BY <1>1 DEF TypeOK, RestOK
<1>4. QED BY <1>2, <1>3 DEF Types, Fits

LEMMA RestHolds == Types => RestOK
  BY DEF Types, TypeOK, RestOK

LEMMA UpsetType ==
  ASSUME Types, NEW kind, Upset(kind) \/ UNCHANGED upsets
  PROVE  upsets' \in 0..MaxUpsets
<1>1. upsets \in 0..MaxUpsets
  BY DEF Types, TypeOK
<1>2. QED BY <1>1, IdentityBounds DEF Upset

\* Most steps leave the directory, the pins and the user's notes alone.
LEMMA RestStays ==
  ASSUME Types, upsets' \in 0..MaxUpsets,
         UNCHANGED <<backup, manifest, pin, held, fresh, out, removals>>
  PROVE  RestOK'
  BY RestHolds DEF RestOK

\* The call a device starts.
LEMMA StartType ==
  ASSUME NEW op \in Ops, NEW pc \in {"get", "query", "put", "publish"}
  PROVE  /\ Start(op, pc) \in [op : Ops, pc : {"get", "query", "put", "publish"},
                           key : Keys \cup {None}, id : Keys \cup {None},
                           target : Devices \cup {None}, devs : SUBSET Devices,
                           counter : Nat, again : BOOLEAN]
         /\ Start(op, pc).op = op /\ Start(op, pc).pc = pc
<1>1. FALSE \in BOOLEAN /\ 0 \in Nat /\ {} \in SUBSET Devices
  OBVIOUS
<1>2. QED BY <1>1 DEF Start

\* A call that ends, whatever the device shows of it.
LEMMA ReturnTypes ==
  ASSUME Types, NEW d \in Devices, NEW a \in App,
         Becomes(d, a, None), RestOK'
  PROVE  Types'
<1>1. None \in Call /\ Fits(a, None)
  BY DEF Call, Fits
<1>2. QED BY <1>1, BecomesTypes

LEMMA SessionTypes ==
  ASSUME Types, NEW d \in Devices, Session(d) PROVE Types'
<1>0. /\ app[d] \in App /\ app \in [Devices -> App] /\ call \in [Devices -> Call]
      /\ removals \in 0..MaxRemovals
  BY DEF Types, TypeOK
<1>1. CASE SignOn(d)
  <2> DEFINE a == [app[d] EXCEPT !.on = TRUE, !.flow = "", !.linked = FALSE, !.memo = None]
  <2>1. a \in App /\ a.on
    BY <1>0 DEF App
  <2>2. Becomes(d, a, Start("setup", "get"))
    BY <1>1 DEF SignOn, Go, Becomes
  <2>3. Start("setup", "get") \in Call /\ Fits(a, Start("setup", "get"))
    BY <2>1, StartType DEF Call, Fits, Ops
  <2>4. RestOK'
    BY <1>1, UpsetType, RestStays DEF SignOn
  <2> HIDE DEF a
  <2>5. QED BY <2>1, <2>2, <2>3, <2>4, BecomesTypes
<1>2. CASE SignedOff(d) /\ upsets' \in 0..MaxUpsets
  <2> DEFINE a == [app[d] EXCEPT !.on = FALSE, !.leaving = FALSE, !.flow = "unavailable",
                                 !.pending = None, !.rotation = None]
  <2>1. a \in App
    BY <1>0 DEF App
  <2>2. Becomes(d, a, None)
    BY <1>2 DEF SignedOff, Return, Becomes
  <2>3. RestOK'
    BY <1>2, RestStays DEF SignedOff
  <2> HIDE DEF a
  <2>4. QED BY <2>1, <2>2, <2>3, ReturnTypes
<1>3. CASE Drop(d)
  <2> DEFINE a == [app[d] EXCEPT !.on = FALSE, !.leaving = FALSE]
  <2>1. a \in App
    BY <1>0 DEF App
  <2>2. Becomes(d, a, None)
    BY <1>0, <1>3 DEF Drop, Return, Becomes
  <2>3. RestOK'
    BY <1>3, UpsetType, RestStays DEF Drop
  <2> HIDE DEF a
  <2>4. QED BY <2>1, <2>2, <2>3, ReturnTypes
<1>4. CASE Crash(d)
  <2>1. Off \in App
    BY DEF Off, App
  <2>2. Becomes(d, Off, None)
    BY <1>4 DEF Crash, Return, Becomes
  <2>3. RestOK'
    BY <1>4, UpsetType, RestStays DEF Crash
  <2>4. QED BY <2>1, <2>2, <2>3, ReturnTypes
<1>5. SignOff(d) \/ StartOver(d) \/ Leave(d) => SignedOff(d) /\ upsets' \in 0..MaxUpsets
  BY UpsetType DEF SignOff, StartOver, Leave
<1>6. QED BY <1>1, <1>2, <1>3, <1>4, <1>5 DEF Session

\* A device that stays as it is, or shows another screen.
LEMMA ShowType ==
  ASSUME Types, NEW d \in Devices,
         NEW flow \in {"", "unavailable", "setup", "link", "ready"},
         Show(d, flow) \/ UNCHANGED app, Return(d)
  PROVE  \E a \in App : Becomes(d, a, None)
<1>0. app[d] \in App /\ app \in [Devices -> App]
  BY DEF Types, TypeOK
<1>1. CASE Show(d, flow)
  <2> DEFINE a == [app[d] EXCEPT !.flow = flow]
  <2>1. a \in App
    BY <1>0 DEF App
  <2>2. Becomes(d, a, None)
    BY <1>0, <1>1 DEF Show, Return, Becomes
  <2>3. QED BY <2>1, <2>2
<1>2. CASE UNCHANGED app
  BY <1>0, <1>2 DEF Return, Becomes
<1>3. QED BY <1>1, <1>2

LEMMA NoAnswerTypes ==
  ASSUME Types, NEW d \in Devices, NoAnswer(d) PROVE Types'
<1>1. PICK a \in App : Becomes(d, a, None)
  BY ShowType DEF NoAnswer, Unreached
<1>2. RestOK'
  BY UpsetType, RestStays DEF NoAnswer
<1>3. QED BY <1>1, <1>2, ReturnTypes

LEMMA StoreErrorTypes ==
  ASSUME Types, NEW d \in Devices, StoreError(d) PROVE Types'
<1>1. PICK a \in App : Becomes(d, a, None)
  BY ShowType DEF StoreError
<1>2. RestOK'
  BY UpsetType, RestStays DEF StoreError
<1>3. QED BY <1>1, <1>2, ReturnTypes

LEMMA AdminClearTypes ==
  ASSUME Types, AdminClear PROVE Types'
<1>1. upsets' \in 0..MaxUpsets
  BY UpsetType DEF AdminClear
<1>2. QED BY <1>1 DEF AdminClear, Types, TypeOK

-----------------------------------------------------------------------------
(* Types: the backup and the manifest. *)

LEMMA MintedTypes ==
  ASSUME Types, NEW d \in Devices, Minted(d)
  PROVE  /\ fresh' \in 0..MaxKeys
         /\ \E a \in App : a.on = app[d].on /\ app' = [app EXCEPT ![d] = a]
<1>0. app[d] \in App /\ app \in [Devices -> App] /\ fresh \in 0..MaxKeys
  BY DEF Types, TypeOK
<1>1. CASE app[d].pending = None /\ fresh < MaxKeys
  <2> DEFINE p == [id |-> fresh + 1, key |-> fresh + 1, stored |-> FALSE]
             a == [app[d] EXCEPT !.pending = p]
  <2>1. fresh + 1 \in Keys /\ fresh + 1 \in 0..MaxKeys /\ FALSE \in BOOLEAN
    BY <1>0, <1>1, IdentityBounds DEF Keys
  <2>2. p \in Pending
    BY <2>1 DEF Pending
  <2>3. app' = [app EXCEPT ![d] = a] /\ fresh' = fresh + 1
    BY <1>0, <1>1 DEF Minted
  <2> HIDE DEF p
  <2>4. a \in App /\ a.on = app[d].on
    BY <1>0, <2>2 DEF App
  <2>5. QED BY <2>1, <2>3, <2>4
<1>2. CASE ~(app[d].pending = None /\ fresh < MaxKeys)
  <2>1. app' = [app EXCEPT ![d] = app[d]] /\ fresh' = fresh
    BY <1>0, <1>2 DEF Minted
  <2>2. QED BY <1>0, <2>1
<1>3. QED BY <1>1, <1>2

LEMMA NoBackupTypes ==
  ASSUME Types, NEW d \in Devices, NoBackup(d), upsets' \in 0..MaxUpsets,
         UNCHANGED <<backup, manifest, pin, held, out, removals>>
  PROVE  Types'
<1>1. CASE call[d].op = "begin"
  <2>1. Minted(d) /\ Return(d)
    BY <1>1 DEF NoBackup
  <2>2. PICK a \in App : app' = [app EXCEPT ![d] = a]
    BY <2>1, MintedTypes
  <2>3. Becomes(d, a, None)
    BY <2>1, <2>2 DEF Return, Becomes
  <2>4. RestOK'
    BY <2>1, MintedTypes, RestHolds DEF RestOK
  <2>5. QED BY <2>3, <2>4, ReturnTypes
<1>2. CASE call[d].op # "begin"
  <2>1. (Show(d, "setup") \/ UNCHANGED app) /\ Return(d) /\ UNCHANGED fresh
    BY <1>2 DEF NoBackup
  <2>2. PICK a \in App : Becomes(d, a, None)
    BY <2>1, ShowType
  <2>3. RestOK'
    BY <2>1, RestStays
  <2>4. QED BY <2>2, <2>3, ReturnTypes
<1>3. QED BY <1>1, <1>2

\* The step that opens the backup or does not.
LEMMA OpenedTypes ==
  ASSUME Types, NEW d \in Devices, Opened(d), At(d, "get", Ops), backup # None,
         call[d].op \notin {"setup", "begin"},
         UNCHANGED <<backup, manifest, pin, held, out, removals, upsets>>
  PROVE  Types'
<1>0. /\ app[d] \in App /\ app \in [Devices -> App] /\ fresh \in 0..MaxKeys
      /\ upsets' \in 0..MaxUpsets /\ backup.id \in Keys /\ backup.key \in Keys
  BY DEF Types, TypeOK, Backup
<1>1. CASE Return(d) /\ UNCHANGED <<app, fresh>>
  <2>1. PICK a \in App : Becomes(d, a, None)
    BY <1>1, ShowType
  <2>2. QED BY <1>0, <1>1, <2>1, RestStays, ReturnTypes
<1>2. CASE call[d].key = backup.key /\ call[d].op = "rotate" /\ fresh < MaxKeys
  <2> DEFINE r == [id |-> backup.id, key |-> fresh + 1, old |-> call[d].key]
             a == [app[d] EXCEPT !.rotation = r]
  <2>1. fresh + 1 \in Keys /\ fresh + 1 \in 0..MaxKeys
    BY <1>0, <1>2, IdentityBounds DEF Keys
  <2>2. r \in [id : Keys, key : Keys, old : Keys]
    BY <1>0, <1>2, <2>1
  <2>3. Becomes(d, a, None) /\ fresh' = fresh + 1
    BY <1>0, <1>2 DEF Opened, RotationMinted, Return, Becomes
  <2> HIDE DEF r
  <2>4. a \in App
    BY <1>0, <2>2 DEF App
  <2> HIDE DEF a
  <2>5. RestOK'
    BY <1>0, <2>1, <2>3, RestHolds DEF RestOK
  <2>6. QED BY <2>3, <2>4, <2>5, ReturnTypes
<1>3. CASE call[d].key = backup.key /\ call[d].op # "rotate"
  <2> DEFINE c == [call[d] EXCEPT !.pc = "query", !.id = backup.id]
  <2>1. /\ call[d] # None /\ call[d].pc = "get"
        /\ Fits(app[d], call[d]) /\ call[d].op \in Ops
    BY DeviceTypes DEF At
  <2>2. call[d].op \in {"link", "remove"}
    BY <1>3, <2>1 DEF Fits, Ops
  <2>22. c \in Call
    BY <1>0, <2>1, DeviceTypes DEF Call
  <2>23. c.op = call[d].op /\ c.pc = "query" /\ c.id = backup.id /\ c.target = call[d].target
    BY <2>1, DeviceTypes
  <2>3. Fits(app[d], c)
    <3>1. backup.id # None
      BY <1>0, IdentityAssumption DEF Keys
    <3> HIDE DEF c
    <3>2. QED BY <2>1, <2>2, <2>23, <3>1 DEF Fits
  <2>4. Go(d, c) /\ UNCHANGED <<app, fresh>>
    BY <1>3 DEF Opened
  <2> HIDE DEF c
  <2>5. Becomes(d, app[d], c)
    BY <1>0, <2>4 DEF Go, Becomes
  <2>6. QED BY <1>0, <2>22, <2>3, <2>4, <2>5, RestStays, BecomesTypes
<1>4. CASE call[d].key = backup.key /\ call[d].op = "rotate" /\ ~(fresh < MaxKeys)
  <2>1. Return(d) /\ UNCHANGED <<app, fresh>>
    BY <1>4 DEF Opened, RotationMinted
  <2>2. QED BY <1>1, <2>1
<1>5. (Return(d) /\ UNCHANGED <<app, fresh>>) \/ call[d].key = backup.key
  BY DEF Opened
<1>6. QED BY <1>1, <1>2, <1>3, <1>4, <1>5

LEMMA GetIdentityBackupTypes ==
  ASSUME Types, NEW d \in Devices, GetIdentityBackup(d) PROVE Types'
<1>0. /\ upsets' \in 0..MaxUpsets /\ app \in [Devices -> App] /\ app[d] \in App
      /\ UNCHANGED <<backup, manifest, pin, held, out, removals, upsets>>
  BY UpsetType DEF GetIdentityBackup, Types, TypeOK
<1>1. CASE backup = None
  BY <1>0, <1>1, NoBackupTypes DEF GetIdentityBackup
<1>2. CASE backup # None /\ call[d].op = "setup"
  <2>1. Go(d, Start("setup", "query")) /\ UNCHANGED <<app, fresh>>
    BY <1>2 DEF GetIdentityBackup, FoundBackup
  <2>2. Becomes(d, app[d], Start("setup", "query"))
    BY <1>0, <2>1 DEF Go, Becomes
  <2>3. app[d].on
    BY DeviceTypes DEF GetIdentityBackup, At, Fits
  <2>4. Start("setup", "query") \in Call /\ Fits(app[d], Start("setup", "query"))
    BY <2>3, StartType DEF Call, Fits, Ops
  <2>5. QED BY <1>0, <2>1, <2>2, <2>4, RestStays, BecomesTypes
<1>3. CASE backup # None /\ call[d].op = "begin"
  <2>1. Show(d, "link") /\ Return(d) /\ UNCHANGED fresh
    BY <1>3 DEF GetIdentityBackup, FoundBackup
  <2>2. PICK a \in App : Becomes(d, a, None)
    BY <2>1, ShowType
  <2>3. QED BY <1>0, <2>1, <2>2, RestStays, ReturnTypes
<1>4. CASE backup # None /\ call[d].op \notin {"setup", "begin"}
  BY <1>0, <1>4, OpenedTypes DEF GetIdentityBackup, FoundBackup
<1>5. QED BY <1>1, <1>2, <1>3, <1>4

LEMMA EmptyBackupTypes ==
  ASSUME Types, NEW d \in Devices, EmptyBackup(d) PROVE Types'
  BY UpsetType, NoBackupTypes DEF EmptyBackup

\* What a fetched manifest makes of a device and its pin.
LEMMA LearnedType ==
  ASSUME Types, NEW d \in Devices
  PROVE  /\ Learned(d, manifest) \in App /\ Learned(d, manifest).on = app[d].on
         /\ Learned(d, manifest).pending = app[d].pending
         /\ Learned(d, manifest).rotation = app[d].rotation
         /\ Pinned(d, manifest) \in Manifest \cup {None}
<1>0. app[d] \in App /\ manifest \in Manifest \cup {None} /\ pin[d] \in Manifest \cup {None}
  BY DEF Types, TypeOK
<1>1. CASE ~Teaches(d, manifest)
  BY <1>0, <1>1 DEF Learned, Pinned
<1>2. CASE Teaches(d, manifest)
  <2>1. manifest \in Manifest
    BY <1>0, <1>2 DEF Teaches
  <2> DEFINE listed == d \in manifest.devs /\ ~Replaced(d, manifest)
             gone == app[d].leaving \/ Replaced(d, manifest) \/ (app[d].linked /\ ~listed)
             a == [app[d] EXCEPT !.memo = manifest, !.linked = listed, !.leaving = gone]
  <2>2. listed \in BOOLEAN /\ gone \in BOOLEAN
    OBVIOUS
  <2>3. Learned(d, manifest) = a
    BY <1>2, <1>0 DEF Learned, App
  <2> HIDE DEF listed, gone
  <2>4. /\ a \in App /\ a.on = app[d].on
        /\ a.pending = app[d].pending /\ a.rotation = app[d].rotation
    BY <1>0, <2>1, <2>2 DEF App
  <2> HIDE DEF a
  <2>5. Pinned(d, manifest) \in Manifest \cup {None}
    BY <1>0, <2>1 DEF Pinned
  <2>6. QED BY <2>3, <2>4, <2>5
<1>3. QED BY <1>1, <1>2

LEMMA NextCounterType ==
  ASSUME NEW p \in Manifest \cup {None}
  PROVE  NextCounter(p) \in Nat /\ NextCounter(p) # 0
<1>1. CASE p = None
  BY <1>1 DEF NextCounter
<1>2. CASE p # None
  <2>1. p.counter \in Nat
    BY <1>2 DEF Manifest
  <2>2. QED BY <1>2, <2>1 DEF NextCounter
<1>3. QED BY <1>1, <1>2

LEMMA ListToSignType ==
  ASSUME NEW d \in Devices, NEW memo \in Manifest \cup {None}
  PROVE  ListToSign(d, memo) \in SUBSET Devices
<1>1. DevicesIn(memo) \subseteq Devices
  BY DEF DevicesIn, Manifest
<1>2. QED BY <1>1 DEF ListToSign

\* The caller goes on with the list, or has what it wanted.
LEMMA ListedTypes ==
  ASSUME Types, NEW d \in Devices, At(d, "query", Ops), NEW state \in App,
         NEW p \in Manifest \cup {None}, Listed(d, state, p), RestOK',
         state.on = app[d].on
  PROVE  Types'
<1>0. /\ app \in [Devices -> App] /\ app[d] \in App /\ call \in [Devices -> Call]
      /\ call[d] # None /\ call[d].pc = "query" /\ Fits(app[d], call[d])
  BY DEF Types, TypeOK, At
<1>1. CASE call[d].op = "setup"
  <2> DEFINE a == [state EXCEPT !.flow = IF state.linked THEN "ready" ELSE "link"]
  <2>1. a \in App
    BY DEF App
  <2>2. Becomes(d, a, None)
    BY <1>1 DEF Listed, Return, Becomes
  <2> HIDE DEF a
  <2>3. QED BY <2>1, <2>2, ReturnTypes
<1>2. CASE call[d].op = "remove" /\ call[d].target \notin DevicesIn(state.memo)
  <2>1. Becomes(d, state, None)
    BY <1>2 DEF Listed, Return, Becomes
  <2>2. QED BY <2>1, ReturnTypes
<1>3. CASE /\ call[d].op # "setup"
           /\ ~(call[d].op = "remove" /\ call[d].target \notin DevicesIn(state.memo))
  <2> DEFINE n == NextCounter(p)
             l == ListToSign(d, state.memo)
             c == [call[d] EXCEPT !.pc = "publish", !.counter = n, !.devs = l]
  <2>1. Becomes(d, state, c)
    BY <1>3 DEF Listed, Go, Becomes
  <2>2. n \in Nat /\ n # 0
    BY NextCounterType
  <2>3. l \in SUBSET Devices
    BY ListToSignType DEF App
  <2> HIDE DEF n, l
  <2>4. c \in Call
    BY <1>0, <2>2, <2>3, DeviceTypes DEF Call
  <2>5. /\ c.op = call[d].op /\ c.pc = "publish" /\ c.counter = n
        /\ c.id = call[d].id /\ c.target = call[d].target
    BY <1>0, DeviceTypes
  <2>6. call[d].op \in {"link", "remove"} /\ call[d].id # None /\ state.on
    BY <1>0, <1>3 DEF Fits
  <2> HIDE DEF c
  <2>7. Fits(state, c)
    BY <1>0, <2>2, <2>5, <2>6 DEF Fits
  <2>8. QED BY <2>1, <2>4, <2>7, BecomesTypes
<1>4. QED BY <1>1, <1>2, <1>3

LEMMA QueryManifestTypes ==
  ASSUME Types, NEW d \in Devices, QueryManifest(d) PROVE Types'
<1>1. RestOK'
  <2>1. pin' \in [Devices -> Manifest \cup {None}]
    BY LearnedType DEF QueryManifest, Types, TypeOK
  <2>2. QED BY <2>1, RestHolds DEF QueryManifest, RestOK
<1>2. QED BY <1>1, LearnedType, ListedTypes DEF QueryManifest

LEMMA EmptyManifestTypes ==
  ASSUME Types, NEW d \in Devices, EmptyManifest(d) PROVE Types'
<1>1. RestOK'
  BY UpsetType, RestStays DEF EmptyManifest
<1>2. QED BY <1>1, DeviceTypes, ListedTypes DEF EmptyManifest

-----------------------------------------------------------------------------
(* Types: what is stored. *)

LEMMA PendingType ==
  ASSUME Types, NEW d \in Devices
  PROVE  /\ app[d].pending # None => app[d].pending \in Pending
         /\ app[d].rotation # None => app[d].rotation \in [id : Keys, key : Keys, old : Keys]
  BY DEF Types, TypeOK, App

LEMMA PutIdentityBackupTypes ==
  ASSUME Types, NEW d \in Devices, PutIdentityBackup(d) PROVE Types'
<1>0. /\ app \in [Devices -> App] /\ app[d] \in App /\ call \in [Devices -> Call]
      /\ call[d] # None /\ call[d].pc = "put" /\ call[d].op \in {"confirm", "rekey"}
      /\ Fits(app[d], call[d]) /\ upsets' \in 0..MaxUpsets /\ pin[d] \in Manifest \cup {None}
  BY UpsetType DEF Types, TypeOK, At, PutIdentityBackup
<1>1. CASE call[d].op = "confirm"
  <2> DEFINE p == app[d].pending
             q == [p EXCEPT !.stored = TRUE]
             a == [app[d] EXCEPT !.pending = q]
             n == NextCounter(pin[d])
             c == [call[d] EXCEPT !.pc = "publish", !.id = p.id, !.devs = {d}, !.counter = n]
  <2>1. p # None /\ p \in Pending
    BY <1>0, <1>1, PendingType DEF Fits
  <2>2. q \in Pending /\ p.id \in Keys
    BY <2>1 DEF Pending
  <2>21. p.id # None
    BY <2>2, IdentityAssumption DEF Keys
  <2>3. Becomes(d, a, c)
    BY <1>0, <1>1 DEF PutIdentityBackup, Stored, Go, Becomes
  <2>4. n \in Nat /\ n # 0
    BY <1>0, NextCounterType
  <2> HIDE DEF n
  <2>5. c \in Call /\ c.op = call[d].op /\ c.pc = "publish" /\ c.counter = n /\ c.id = p.id
    BY <1>0, <2>2, <2>4, DeviceTypes DEF Call
  <2> HIDE DEF q
  <2>6. a \in App /\ a.on = app[d].on /\ a.pending = q
    BY <1>0, <2>2 DEF App
  <2>7. q # None
    BY <2>2, IdentityAssumption DEF Pending
  <2> HIDE DEF a, c
  <2>8. Fits(a, c)
    BY <1>0, <1>1, <2>2, <2>21, <2>4, <2>5, <2>6, <2>7 DEF Fits
  <2>9. RestOK'
    <3>1. backup' \in Backup
      BY <1>1, <2>1 DEF PutIdentityBackup, Stored, Backup, Pending
    <3>2. QED BY <1>0, <1>1, <3>1, RestHolds DEF PutIdentityBackup, Stored, RestOK
  <2>10. QED BY <2>3, <2>5, <2>6, <2>8, <2>9, BecomesTypes
<1>2. CASE call[d].op = "rekey"
  <2> DEFINE a == [app[d] EXCEPT !.rotation = None]
  <2>1. app[d].rotation \in [id : Keys, key : Keys, old : Keys]
    BY <1>0, <1>2, PendingType DEF Fits
  <2>2. a \in App
    BY <1>0 DEF App
  <2>3. Becomes(d, a, None)
    BY <1>0, <1>2 DEF PutIdentityBackup, Stored, Return, Becomes
  <2> HIDE DEF a
  <2>4. RestOK'
    <3>1. backup' \in Backup
      BY <1>2, <2>1 DEF PutIdentityBackup, Stored, Backup
    <3>2. QED BY <1>0, <1>2, <3>1, RestHolds DEF PutIdentityBackup, Stored, RestOK
  <2>5. QED BY <2>2, <2>3, <2>4, ReturnTypes
<1>3. QED BY <1>0, <1>1, <1>2

LEMMA PutUnansweredTypes ==
  ASSUME Types, NEW d \in Devices, PutUnanswered(d) PROVE Types'
<1>0. /\ app[d] \in App /\ app \in [Devices -> App] /\ UNCHANGED app
      /\ call[d] # None /\ call[d].op \in {"confirm", "rekey"} /\ Fits(app[d], call[d])
      /\ upsets' \in 0..MaxUpsets
  BY UpsetType DEF Types, TypeOK, At, PutUnanswered
<1>1. backup' \in Backup
  <2>1. CASE call[d].op = "confirm"
    BY <1>0, <2>1, PendingType DEF PutUnanswered, Fits, Pending, Backup
  <2>2. CASE call[d].op = "rekey"
    BY <1>0, <2>2, PendingType DEF PutUnanswered, Fits, Backup
  <2>3. QED BY <1>0, <2>1, <2>2
<1>2. RestOK'
  BY <1>0, <1>1, RestHolds DEF PutUnanswered, RestOK
<1>3. Becomes(d, app[d], None)
  BY <1>0 DEF PutUnanswered, Return, Becomes
<1>4. QED BY <1>0, <1>2, <1>3, ReturnTypes

\* What a publication signs, by whom and for whom.
LEMMA SignedType ==
  ASSUME Types, NEW d \in Devices, At(d, "publish", Ops)
  PROVE  /\ call[d] # None /\ call[d].pc = "publish" /\ Signed(d) \in Manifest
         /\ call[d].op \in {"confirm", "link", "remove"}
         /\ call[d].op = "remove" => call[d].target \in Devices
         /\ call[d].counter \in Nat \ {0} /\ call[d].devs \subseteq Devices
         /\ call[d].id \in Keys /\ call[d].again \in BOOLEAN
<1>1. call[d] # None /\ call[d].pc = "publish" /\ Fits(app[d], call[d])
  BY DeviceTypes DEF At
<1>2. /\ call[d].op \in {"confirm", "link", "remove"} /\ call[d].id \in Keys
      /\ call[d].counter \in Nat \ {0} /\ call[d].devs \subseteq Devices
      /\ call[d].op = "remove" => call[d].target \in Devices
      /\ call[d].again \in BOOLEAN
  BY <1>1, DeviceTypes DEF Fits
<1>3. Signed(d) \in Manifest
  BY <1>2 DEF Signed, Manifest
<1>4. QED BY <1>1, <1>2, <1>3

LEMMA PublishStoredTypes ==
  ASSUME Types, NEW d \in Devices, PublishStored(d) PROVE Types'
<1>0. /\ app[d] \in App /\ app \in [Devices -> App] /\ Signed(d) \in Manifest
      /\ upsets' \in 0..MaxUpsets
  BY UpsetType, SignedType DEF Types, TypeOK, PublishStored
<1>1. RestOK'
  <2>1. pin' \in [Devices -> Manifest \cup {None}] /\ manifest' \in Manifest
    BY <1>0 DEF PublishStored, Published, Store, Types, TypeOK
  <2>2. out' \subseteq Devices
    BY SignedType DEF PublishStored, Store, Types, TypeOK
  <2>3. QED BY <1>0, <2>1, <2>2, RestHolds DEF PublishStored, RestOK
<1> DEFINE p == IF call[d].op = "confirm" THEN None ELSE app[d].pending
           w == IF call[d].op = "remove" THEN app[d].flow ELSE "ready"
           a == [app[d] EXCEPT !.memo = Signed(d), !.linked = TRUE, !.pending = p, !.flow = w]
<1>2. Becomes(d, a, None)
  <2>1. app' = [app EXCEPT ![d] = a]
    BY <1>0 DEF PublishStored, Published
  <2>2. QED BY <2>1 DEF PublishStored, Return, Becomes
<1>3. p \in Pending \cup {None} /\ w \in {"", "unavailable", "setup", "link", "ready"}
  BY <1>0 DEF App
<1> HIDE DEF p, w
<1>4. a \in App
  BY <1>0, <1>3 DEF App
<1> HIDE DEF a
<1>5. QED BY <1>1, <1>2, <1>4, ReturnTypes

LEMMA PublishUnansweredTypes ==
  ASSUME Types, NEW d \in Devices, PublishUnanswered(d) PROVE Types'
<1>0. /\ app[d] \in App /\ app \in [Devices -> App] /\ Signed(d) \in Manifest
      /\ upsets' \in 0..MaxUpsets
  BY UpsetType, SignedType DEF Types, TypeOK, PublishUnanswered
<1>1. RestOK'
  <2>1. out' \subseteq Devices
    BY SignedType DEF PublishUnanswered, Store, Types, TypeOK
  <2>2. QED BY <1>0, <2>1, RestHolds DEF PublishUnanswered, Store, RestOK
<1>2. Becomes(d, app[d], None)
  BY <1>0 DEF PublishUnanswered, Return, Becomes
<1>3. QED BY <1>0, <1>1, <1>2, ReturnTypes

LEMMA PublishRefusedTypes ==
  ASSUME Types, NEW d \in Devices, PublishRefused(d) PROVE Types'
<1>0. /\ app[d] \in App /\ app \in [Devices -> App]
      /\ UNCHANGED app /\ RestOK'
  BY UpsetType, RestStays DEF Types, TypeOK, PublishRefused
<1>1. CASE Return(d)
  <2>1. Becomes(d, app[d], None)
    BY <1>0, <1>1 DEF Return, Becomes
  <2>2. QED BY <1>0, <2>1, ReturnTypes
<1>2. CASE ~(manifest.id # call[d].id \/ call[d].again)
  <2> DEFINE n == manifest.counter + 1
             c == [call[d] EXCEPT !.again = TRUE, !.counter = n]
  <2>1. manifest \in Manifest
    BY DEF PublishRefused, Accepted, Types, TypeOK
  <2>2. n \in Nat /\ n # 0
    BY <2>1 DEF Manifest
  <2>3. Becomes(d, app[d], c)
    BY <1>0, <1>2 DEF PublishRefused, Go, Becomes
  <2> HIDE DEF n
  <2>4. TRUE \in BOOLEAN
    OBVIOUS
  <2>5. /\ c \in Call /\ c.op = call[d].op /\ c.pc = call[d].pc /\ c.counter = n
        /\ c.id = call[d].id /\ c.target = call[d].target
    BY <2>2, <2>4, SignedType, DeviceTypes DEF PublishRefused, Call
  <2> HIDE DEF c
  <2>6. Fits(app[d], c)
    BY <2>2, <2>5, SignedType, DeviceTypes DEF PublishRefused, Fits
  <2>7. QED BY <1>0, <2>3, <2>5, <2>6, BecomesTypes
<1>3. QED BY <1>1, <1>2 DEF PublishRefused

-----------------------------------------------------------------------------
(* Types: what the user does. *)

LEMMA RestQuiet ==
  ASSUME Types, UNCHANGED Quiet, held' \subseteq Keys, removals' \in 0..MaxRemovals
  PROVE  RestOK'
  BY RestHolds DEF RestOK, Quiet

\* A device starts a call.
LEMMA StartTypes ==
  ASSUME Types, NEW d \in Devices, NEW c \in Call, Idle(d), Go(d, c), Fits(app[d], c),
         UNCHANGED <<app, held>>, UNCHANGED Quiet, removals' \in 0..MaxRemovals
  PROVE  Types'
<1>1. app[d] \in App /\ Becomes(d, app[d], c) /\ held' \subseteq Keys
  BY DEF Go, Becomes, Types, TypeOK
<1>2. QED BY <1>1, RestQuiet, BecomesTypes

LEMMA BeginTypes ==
  ASSUME Types, NEW d \in Devices, BeginIdentitySetup(d) PROVE Types'
<1>1. Start("begin", "get") \in Call /\ Fits(app[d], Start("begin", "get"))
  BY StartType DEF Call, Fits, Ops, BeginIdentitySetup, Idle
<1>2. removals' \in 0..MaxRemovals
  BY DEF BeginIdentitySetup, Types, TypeOK
<1>3. QED BY <1>1, <1>2, StartTypes DEF BeginIdentitySetup

LEMMA SaveRecoveryKeyTypes ==
  ASSUME Types, NEW d \in Devices, SaveRecoveryKey(d) PROVE Types'
<1>1. held' \subseteq Keys
  BY PendingType DEF SaveRecoveryKey, Types, TypeOK, Pending
<1>2. QED BY <1>1 DEF SaveRecoveryKey, Quiet, Types, TypeOK

LEMMA ConfirmIdentitySetupTypes ==
  ASSUME Types, NEW d \in Devices, ConfirmIdentitySetup(d) PROVE Types'
<1>0. /\ app[d].on /\ app[d].pending # None /\ app[d].pending \in Pending
      /\ pin[d] \in Manifest \cup {None} /\ removals' \in 0..MaxRemovals
  BY PendingType DEF ConfirmIdentitySetup, Idle, Types, TypeOK
<1>1. CASE app[d].pending.stored
  <2> DEFINE n == NextCounter(pin[d])
             b == Start("confirm", "publish")
             c == [b EXCEPT !.id = app[d].pending.id, !.devs = {d}, !.counter = n]
  <2>1. n \in Nat /\ n # 0
    BY <1>0, NextCounterType
  <2>2. app[d].pending.id \in Keys
    BY <1>0 DEF Pending
  <2>3. app[d].pending.id # None
    BY <2>2, IdentityAssumption DEF Keys
  <2>4. Go(d, c)
    BY <1>1 DEF ConfirmIdentitySetup
  <2> HIDE DEF n
  <2>5. /\ b \in [op : Ops, pc : {"get", "query", "put", "publish"},
                   key : Keys \cup {None}, id : Keys \cup {None},
                   target : Devices \cup {None}, devs : SUBSET Devices,
                   counter : Nat, again : BOOLEAN]
        /\ b.op = "confirm" /\ b.pc = "publish"
    BY StartType DEF Ops
  <2> HIDE DEF b
  <2>6. /\ c \in Call /\ c.op = "confirm" /\ c.pc = "publish" /\ c.counter = n
        /\ c.id = app[d].pending.id
    BY <2>1, <2>2, <2>5 DEF Call
  <2> HIDE DEF c
  <2>7. Fits(app[d], c)
    BY <1>0, <2>1, <2>3, <2>6 DEF Fits
  <2>8. QED BY <1>0, <2>4, <2>6, <2>7, StartTypes DEF ConfirmIdentitySetup
<1>2. CASE ~app[d].pending.stored
  <2>1. Start("confirm", "put") \in Call /\ Fits(app[d], Start("confirm", "put"))
    BY <1>0, StartType DEF Call, Fits, Ops
  <2>2. Go(d, Start("confirm", "put"))
    BY <1>2 DEF ConfirmIdentitySetup
  <2>3. QED BY <1>0, <2>1, <2>2, StartTypes DEF ConfirmIdentitySetup
<1>3. QED BY <1>1, <1>2

LEMMA CancelTypes ==
  ASSUME Types, NEW d \in Devices, CancelIdentitySetup(d) \/ CancelRecoveryKeyRotation(d)
  PROVE  Types'
<1>0. /\ app[d] \in App /\ app \in [Devices -> App] /\ call \in [Devices -> Call]
      /\ call[d] = None /\ UNCHANGED call /\ held' \subseteq Keys
      /\ removals' \in 0..MaxRemovals /\ UNCHANGED Quiet
  BY DEF CancelIdentitySetup, CancelRecoveryKeyRotation, Idle, Types, TypeOK
<1>1. RestOK'
  BY <1>0, RestQuiet
<1>2. \E a \in App : app' = [app EXCEPT ![d] = a]
  <2>1. [app[d] EXCEPT !.pending = None] \in App /\ [app[d] EXCEPT !.rotation = None] \in App
    BY <1>0 DEF App
  <2>2. \/ app' = [app EXCEPT ![d] = [app[d] EXCEPT !.pending = None]]
        \/ app' = [app EXCEPT ![d] = [app[d] EXCEPT !.rotation = None]]
    BY <1>0 DEF CancelIdentitySetup, CancelRecoveryKeyRotation
  <2>3. QED BY <2>1, <2>2
<1>3. PICK a \in App : Becomes(d, a, None)
  BY <1>0, <1>2 DEF Becomes
<1>4. QED BY <1>1, <1>3, ReturnTypes

LEMMA ConfirmRecoveryKeyRotationTypes ==
  ASSUME Types, NEW d \in Devices, ConfirmRecoveryKeyRotation(d) PROVE Types'
<1>1. Start("rekey", "put") \in Call /\ Fits(app[d], Start("rekey", "put"))
  BY StartType DEF Call, Fits, Ops, ConfirmRecoveryKeyRotation, Idle
<1>2. removals' \in 0..MaxRemovals
  BY DEF ConfirmRecoveryKeyRotation, Types, TypeOK
<1>3. QED BY <1>1, <1>2, StartTypes DEF ConfirmRecoveryKeyRotation

LEMMA WithKeyTypes ==
  ASSUME Types, NEW d \in Devices, NEW k \in held, NEW t \in Devices,
         LinkDevice(d, k) \/ BeginRecoveryKeyRotation(d, k) \/ RemoveDevice(d, t, k)
  PROVE  Types'
<1>0. /\ k \in Keys /\ t # None /\ app[d].on /\ removals' \in 0..MaxRemovals
      /\ Idle(d) /\ UNCHANGED <<app, held>> /\ UNCHANGED Quiet
  BY IdentityAssumption, IdentityBounds
     DEF LinkDevice, BeginRecoveryKeyRotation, RemoveDevice, Idle, Types, TypeOK
<1>1. CASE RemoveDevice(d, t, k)
  <2> DEFINE b == Start("remove", "get")
             c == [b EXCEPT !.key = k, !.target = t]
  <2>1. Go(d, c)
    BY <1>1 DEF RemoveDevice
  <2>2. /\ b \in [op : Ops, pc : {"get", "query", "put", "publish"},
                   key : Keys \cup {None}, id : Keys \cup {None},
                   target : Devices \cup {None}, devs : SUBSET Devices,
                   counter : Nat, again : BOOLEAN]
        /\ b.op = "remove" /\ b.pc = "get"
    BY StartType DEF Ops
  <2> HIDE DEF b
  <2>3. c \in Call /\ c.op = "remove" /\ c.pc = "get" /\ c.target = t
    BY <1>0, <2>2 DEF Call
  <2> HIDE DEF c
  <2>4. Fits(app[d], c)
    BY <1>0, <2>3 DEF Fits
  <2>5. QED BY <1>0, <2>1, <2>3, <2>4, StartTypes
<1>2. CASE LinkDevice(d, k) \/ BeginRecoveryKeyRotation(d, k)
  <2>1. PICK op \in {"link", "rotate"} : Go(d, [Start(op, "get") EXCEPT !.key = k])
    BY <1>2 DEF LinkDevice, BeginRecoveryKeyRotation
  <2> DEFINE b == Start(op, "get")
             c == [b EXCEPT !.key = k]
  <2>2. Go(d, c)
    BY <2>1
  <2>3. /\ b \in [op : Ops, pc : {"get", "query", "put", "publish"},
                   key : Keys \cup {None}, id : Keys \cup {None},
                   target : Devices \cup {None}, devs : SUBSET Devices,
                   counter : Nat, again : BOOLEAN]
        /\ b.op = op /\ b.pc = "get"
    BY StartType DEF Ops
  <2> HIDE DEF b
  <2>4. c \in Call /\ c.op = op /\ c.pc = "get"
    BY <1>0, <2>3 DEF Call
  <2> HIDE DEF c
  <2>5. Fits(app[d], c)
    BY <1>0, <2>4 DEF Fits
  <2>6. QED BY <1>0, <2>2, <2>4, <2>5, StartTypes
<1>3. QED BY <1>1, <1>2

LEMMA TypesStep == Types /\ [Next]_vars => Types'
<1> SUFFICES ASSUME Types, [Next]_vars PROVE Types'
  OBVIOUS
<1>1. ASSUME NEW d \in Devices, DeviceNext(d) PROVE Types'
  <2>1. CASE Directory(d)
    <3>1. GetIdentityBackup(d) => Types'
      BY GetIdentityBackupTypes
    <3>2. QueryManifest(d) => Types'
      BY QueryManifestTypes
    <3>3. PutIdentityBackup(d) => Types'
      BY PutIdentityBackupTypes
    <3>4. PublishStored(d) \/ PublishRefused(d) => Types'
      BY PublishStoredTypes, PublishRefusedTypes
    <3>5. QED BY <2>1, <3>1, <3>2, <3>3, <3>4 DEF Directory
  <2>2. CASE Failure(d)
    <3>1. NoAnswer(d) \/ StoreError(d) => Types'
      BY NoAnswerTypes, StoreErrorTypes
    <3>2. PublishUnanswered(d) => Types'
      BY PublishUnansweredTypes
    <3>3. EmptyManifest(d) => Types'
      BY EmptyManifestTypes
    <3>4. QED BY <2>2, <3>1, <3>2, <3>3 DEF Failure
  <2>3. CASE WithKey(d)
    BY <2>3, WithKeyTypes DEF WithKey
  <2>4. CASE Gate(d)
    BY <2>4, SaveRecoveryKeyTypes, ConfirmIdentitySetupTypes, CancelTypes,
       ConfirmRecoveryKeyRotationTypes DEF Gate
  <2>5. QED BY <1>1, <2>1, <2>2, <2>3, <2>4, SessionTypes, BeginTypes DEF DeviceNext
<1>2. ASSUME NEW d \in Devices, Misread(d) PROVE Types'
  BY <1>2, PutUnansweredTypes, EmptyBackupTypes DEF Misread
<1>3. CASE UNCHANGED vars
  BY <1>3 DEF vars, Types, TypeOK, Fits
<1>4. QED BY <1>1, <1>2, <1>3, AdminClearTypes DEF Next, CalmNext

\* Every variable keeps to its type, whatever goes wrong: a call at a round trip has
\* what that round trip takes (the identity, a counter, the device to remove).
THEOREM TypeCorrect == Spec => []TypeOK
<1>1. Spec => []Types
  BY InitTypes, TypesStep, PTL DEF Spec
<1>2. Types => TypeOK
  BY DEF Types
<1>3. QED BY <1>1, <1>2, PTL

-----------------------------------------------------------------------------
(* A removed device stays out. *)

\* Nobody clears the directory; no device signs again a list that names somebody whom
\* the list published first does not, and none that was removed signs one itself.
NoRelapse == {"clear", "outrun", "outcast"} \cap Upsets = {}

\* A device remembers at most what the directory has, of its one identity; a pin at the
\* directory's counter is the directory's manifest.
PinsTrail ==
  \A d \in Devices : pin[d] # None =>
    /\ manifest # None /\ pin[d].id = manifest.id
    /\ pin[d].counter <= manifest.counter
    /\ pin[d].counter = manifest.counter => pin[d] = manifest

MemoIsPin == \A d \in Devices : app[d].memo \in {None, pin[d]}

\* The list of d's call c names nobody besides d who is not among devs.
Names(d, c, devs) ==
  /\ c.devs \ {d} \subseteq devs
  /\ c.op = "remove" => c.devs \subseteq devs /\ d \in c.devs /\ c.target \notin c.devs

\* A list that would be stored now was made from what is stored now.
ListFits(d, c) ==
  IF c.again
  THEN /\ manifest # None /\ c.counter <= manifest.counter + 1
       /\ c.counter = manifest.counter + 1 => Names(d, c, manifest.devs)
  ELSE c.counter = NextCounter(pin[d]) /\ Names(d, c, DevicesIn(pin[d]))

Sound(d, c) == c.target # d /\ IF c.pc = "publish" THEN ListFits(d, c) ELSE ~c.again

ListsFit == \A d \in Devices : call[d] # None => Sound(d, call[d])

Listing == PinsTrail /\ MemoIsPin /\ ListsFit /\ RemovedStayOut

LEMMA InitListing == Init => Listing
<1> SUFFICES ASSUME Init PROVE Listing
  OBVIOUS
<1>1. Off.memo = None
  BY DEF Off
<1>2. \A d \in Devices : app[d].memo = None /\ pin[d] = None /\ call[d] = None
  BY <1>1 DEF Init
<1>3. manifest = None
  BY DEF Init
<1>4. QED BY <1>2, <1>3 DEF Listing, PinsTrail, MemoIsPin, ListsFit, RemovedStayOut

\* A device that forgets at most some of what it remembers.
Less(a, b) ==
  /\ a.memo \in {None, b.memo} /\ a.pending \in {None, b.pending}
  /\ a.rotation \in {None, b.rotation}

LEMMA LessStays ==
  ASSUME Types, NEW d \in Devices, NEW a, Less(a, app[d]), app' = [app EXCEPT ![d] = a]
  PROVE  \A e \in Devices : Less(app'[e], app[e])
<1>1. app'[d] = a /\ \A e \in Devices \ {d} : app'[e] = app[e]
  BY DEF Types, TypeOK
<1>2. QED BY <1>1 DEF Less

LEMMA MemoStays ==
  ASSUME Types, NEW d \in Devices, NEW a, a.memo \in {None, app[d].memo},
         app' = [app EXCEPT ![d] = a]
  PROVE  \A e \in Devices : app'[e].memo \in {None, app[e].memo}
<1>1. app'[d] = a /\ \A e \in Devices \ {d} : app'[e] = app[e]
  BY DEF Types, TypeOK
<1>2. QED BY <1>1

\* Steps that leave the directory's manifest and the pins alone.
LEMMA StillListing ==
  ASSUME Types, Listing, UNCHANGED <<manifest, pin, out>>,
         \A e \in Devices : app'[e].memo \in {None, app[e].memo},
         \A e \in Devices : call'[e] \in {None, call[e]} \/ Sound(e, call'[e])
  PROVE  Listing'
<1>1. PinsTrail' /\ RemovedStayOut'
  BY DEF Listing, PinsTrail, RemovedStayOut
<1>2. MemoIsPin'
  BY DEF Listing, MemoIsPin
<1>3. ListsFit'
  <2> SUFFICES ASSUME NEW e \in Devices, call'[e] # None PROVE Sound(e, call[e])'
    BY DEF ListsFit
  <2>1. Sound(e, call'[e])
    BY DEF Listing, ListsFit
  <2>2. Sound(e, call[e])' = Sound(e, call'[e])
    BY DEF Sound, ListFits, Names, NextCounter, DevicesIn
  <2>3. QED BY <2>1, <2>2
<1>4. QED BY <1>1, <1>2, <1>3 DEF Listing

LEMMA SessionLess ==
  ASSUME Types, NEW d \in Devices, Session(d)
  PROVE  \A e \in Devices : Less(app'[e], app[e])
<1>0. app[d] \in App /\ app \in [Devices -> App]
  BY DEF Types, TypeOK
<1>1. CASE SignOn(d)
  <2> DEFINE a == [app[d] EXCEPT !.on = TRUE, !.flow = "", !.linked = FALSE, !.memo = None]
  <2>1. a.memo = None /\ a.pending = app[d].pending /\ a.rotation = app[d].rotation
    BY <1>0 DEF App
  <2>2. app' = [app EXCEPT ![d] = a]
    BY <1>1 DEF SignOn
  <2> HIDE DEF a
  <2>3. QED BY <2>1, <2>2, LessStays DEF Less
<1>2. CASE SignedOff(d)
  <2> DEFINE a == [app[d] EXCEPT !.on = FALSE, !.leaving = FALSE, !.flow = "unavailable",
                                 !.pending = None, !.rotation = None]
  <2>1. a.memo = app[d].memo /\ a.pending = None /\ a.rotation = None
    BY <1>0 DEF App
  <2>2. app' = [app EXCEPT ![d] = a]
    BY <1>2 DEF SignedOff
  <2> HIDE DEF a
  <2>3. QED BY <2>1, <2>2, LessStays DEF Less
<1>3. CASE Drop(d)
  <2> DEFINE a == [app[d] EXCEPT !.on = FALSE, !.leaving = FALSE]
  <2>1. a.memo = app[d].memo /\ a.pending = app[d].pending /\ a.rotation = app[d].rotation
    BY <1>0 DEF App
  <2>2. app' = [app EXCEPT ![d] = a]
    BY <1>0, <1>3 DEF Drop
  <2> HIDE DEF a
  <2>3. QED BY <2>1, <2>2, LessStays DEF Less
<1>4. CASE Crash(d)
  <2>1. Off.memo = None /\ Off.pending = None /\ Off.rotation = None
    BY DEF Off
  <2>2. QED BY <1>4, <2>1, LessStays DEF Crash, Less
<1>5. QED BY <1>1, <1>2, <1>3, <1>4 DEF Session, SignOff, StartOver, Leave

LEMMA SessionListing ==
  ASSUME Types, Listing, NEW d \in Devices, Session(d) PROVE Listing'
<1>0. app \in [Devices -> App] /\ call \in [Devices -> Call]
  BY DEF Types, TypeOK
<1>1. UNCHANGED <<manifest, pin, out>>
  BY DEF Session, SignOn, SignOff, StartOver, Leave, SignedOff, Drop, Crash
<1>2. \A e \in Devices : app'[e].memo \in {None, app[e].memo}
  BY SessionLess DEF Less
<1>3. \A e \in Devices : call'[e] \in {None, call[e]} \/ Sound(e, call'[e])
  <2>1. Sound(d, Start("setup", "get"))
    BY IdentityAssumption DEF Start, Sound
  <2>2. \A e \in Devices : call'[e] \in {None, call[e], Start("setup", "get")}
                          /\ (e # d => call'[e] = call[e])
    BY <1>0 DEF Session, SignOn, SignOff, StartOver, Leave, SignedOff, Drop, Crash, Go, Return
  <2>3. QED BY <2>1, <2>2
<1>4. QED BY <1>1, <1>2, <1>3, StillListing

\* Calls that end without a word from the directory.
LEMMA ReturnListing ==
  ASSUME Types, Listing, NEW d \in Devices, Return(d), UNCHANGED <<manifest, pin, out>>,
         \A e \in Devices : app'[e].memo \in {None, app[e].memo}
  PROVE  Listing'
<1>1. \A e \in Devices : call'[e] \in {None, call[e]}
  BY DEF Return, Types, TypeOK
<1>2. QED BY <1>1, StillListing

LEMMA ShowLess ==
  ASSUME Types, NEW d \in Devices, NEW flow, Show(d, flow) \/ UNCHANGED app
  PROVE  \A e \in Devices : Less(app'[e], app[e])
<1>1. app[d] \in App /\ app \in [Devices -> App]
  BY DEF Types, TypeOK
<1> DEFINE a == [app[d] EXCEPT !.flow = flow]
<1>2. a.memo = app[d].memo /\ a.pending = app[d].pending /\ a.rotation = app[d].rotation
  BY <1>1 DEF App
<1>3. UNCHANGED app \/ app' = [app EXCEPT ![d] = a]
  BY <1>1 DEF Show
<1> HIDE DEF a
<1>4. QED BY <1>2, <1>3, LessStays DEF Less

LEMMA ShowMemo ==
  ASSUME Types, NEW d \in Devices, NEW flow, Show(d, flow) \/ UNCHANGED app
  PROVE  \A e \in Devices : app'[e].memo \in {None, app[e].memo}
  BY ShowLess DEF Less

LEMMA CancelLess ==
  ASSUME Types, NEW d \in Devices, CancelIdentitySetup(d) \/ CancelRecoveryKeyRotation(d)
  PROVE  \A e \in Devices : Less(app'[e], app[e])
<1>1. app[d] \in App /\ app \in [Devices -> App]
  BY DEF Types, TypeOK
<1> DEFINE a == [app[d] EXCEPT !.pending = None]
           b == [app[d] EXCEPT !.rotation = None]
<1>2. /\ a.memo = app[d].memo /\ a.pending = None /\ a.rotation = app[d].rotation
      /\ b.memo = app[d].memo /\ b.pending = app[d].pending /\ b.rotation = None
  BY <1>1 DEF App
<1>3. app' = [app EXCEPT ![d] = a] \/ app' = [app EXCEPT ![d] = b]
  BY <1>1 DEF CancelIdentitySetup, CancelRecoveryKeyRotation
<1> HIDE DEF a, b
<1>4. QED BY <1>2, <1>3, LessStays DEF Less

LEMMA MintedMemo ==
  ASSUME Types, NEW d \in Devices, Minted(d)
  PROVE  \A e \in Devices : app'[e].memo \in {None, app[e].memo}
<1>1. app[d] \in App /\ app \in [Devices -> App]
  BY DEF Types, TypeOK
<1> DEFINE p == [id |-> fresh + 1, key |-> fresh + 1, stored |-> FALSE]
           a == [app[d] EXCEPT !.pending = p]
<1>2. UNCHANGED app \/ app' = [app EXCEPT ![d] = a]
  BY <1>1 DEF Minted
<1> HIDE DEF p
<1>3. a.memo = app[d].memo
  BY <1>1 DEF App
<1> HIDE DEF a
<1>4. QED BY <1>2, <1>3, MemoStays

LEMMA NoBackupListing ==
  ASSUME Types, Listing, NEW d \in Devices, NoBackup(d), UNCHANGED <<manifest, pin, out>>
  PROVE  Listing'
<1>1. \/ Show(d, "setup") \/ UNCHANGED app
      \/ Minted(d)
  BY DEF NoBackup
<1>2. \A e \in Devices : app'[e].memo \in {None, app[e].memo}
  BY <1>1, ShowMemo, MintedMemo
<1>3. QED BY <1>2, ReturnListing DEF NoBackup

LEMMA OpenedListing ==
  ASSUME Types, Listing, NEW d \in Devices, Opened(d), At(d, "get", Ops),
         UNCHANGED <<manifest, pin, out>>
  PROVE  Listing'
<1>0. /\ app \in [Devices -> App] /\ call \in [Devices -> Call]
      /\ call[d] # None /\ call[d].target # d /\ ~call[d].again
  BY DEF Types, TypeOK, At, Listing, ListsFit, Sound
<1>1. CASE Return(d)
  <2>1. UNCHANGED app \/ RotationMinted(d)
    BY <1>1 DEF Opened
  <2>2. CASE RotationMinted(d)
    <3> DEFINE r == [id |-> backup.id, key |-> fresh + 1, old |-> call[d].key]
               a == [app[d] EXCEPT !.rotation = r]
    <3>1. UNCHANGED app \/ app' = [app EXCEPT ![d] = a]
      BY <1>0, <2>2 DEF RotationMinted
    <3> HIDE DEF r
    <3>2. a.memo = app[d].memo
      BY <1>0 DEF App
    <3> HIDE DEF a
    <3>3. QED BY <1>1, <3>1, <3>2, MemoStays, ReturnListing
  <2>3. QED BY <1>1, <2>1, <2>2, ReturnListing
<1>2. CASE UNCHANGED app /\ Go(d, [call[d] EXCEPT !.pc = "query", !.id = backup.id])
  <2> DEFINE c == [call[d] EXCEPT !.pc = "query", !.id = backup.id]
  <2>1. Sound(d, c)
    <3>1. c.target = call[d].target /\ c.pc = "query" /\ c.again = call[d].again
      BY <1>0, DeviceTypes
    <3> HIDE DEF c
    <3>2. QED BY <1>0, <3>1 DEF Sound
  <2>2. Go(d, c)
    BY <1>2
  <2> HIDE DEF c
  <2>3. \A e \in Devices : call'[e] = call[e] \/ Sound(e, call'[e])
    BY <1>0, <2>1, <2>2 DEF Go
  <2>4. QED BY <1>2, <2>3, StillListing
<1>3. QED BY <1>1, <1>2 DEF Opened

LEMMA GetIdentityBackupListing ==
  ASSUME Types, Listing, NEW d \in Devices, GetIdentityBackup(d) PROVE Listing'
<1>0. UNCHANGED <<manifest, pin, out>> /\ At(d, "get", Ops) /\ call \in [Devices -> Call]
  BY DEF GetIdentityBackup, Types, TypeOK
<1>1. CASE backup = None
  BY <1>0, <1>1, NoBackupListing DEF GetIdentityBackup
<1>2. CASE backup # None /\ call[d].op = "setup"
  <2>1. Go(d, Start("setup", "query")) /\ UNCHANGED app
    BY <1>2 DEF GetIdentityBackup, FoundBackup
  <2>2. Sound(d, Start("setup", "query"))
    BY IdentityAssumption DEF Start, Sound
  <2>3. \A e \in Devices : call'[e] = call[e] \/ Sound(e, call'[e])
    BY <1>0, <2>1, <2>2 DEF Go
  <2>4. QED BY <1>0, <2>1, <2>3, StillListing
<1>3. CASE backup # None /\ call[d].op = "begin"
  <2>1. Show(d, "link") /\ Return(d)
    BY <1>3 DEF GetIdentityBackup, FoundBackup
  <2>2. QED BY <1>0, <2>1, ShowMemo, ReturnListing
<1>4. CASE backup # None /\ call[d].op \notin {"setup", "begin"}
  BY <1>0, <1>4, OpenedListing DEF GetIdentityBackup, FoundBackup
<1>5. QED BY <1>1, <1>2, <1>3, <1>4

\* The step that reads the manifest, or takes an error for an empty one.
LEMMA ListedListing ==
  ASSUME NoRelapse, Types, Listing, NEW d \in Devices, At(d, "query", Ops),
         NEW state \in App, NEW p \in Manifest \cup {None}, Listed(d, state, p),
         pin' = [pin EXCEPT ![d] = p], UNCHANGED <<manifest, out>>,
         state.memo \in {None, p},
         p # None => /\ manifest # None /\ p.id = manifest.id
                     /\ p.counter <= manifest.counter
                     /\ p.counter = manifest.counter => p = manifest
  PROVE  Listing'
<1>0. /\ app \in [Devices -> App] /\ call \in [Devices -> Call]
      /\ pin \in [Devices -> Manifest \cup {None}]
      /\ call[d] # None /\ call[d].pc = "query" /\ call[d].target # d /\ ~call[d].again
  BY DEF Types, TypeOK, At, Listing, ListsFit, Sound
<1>1. pin'[d] = p /\ \A e \in Devices \ {d} : pin'[e] = pin[e]
  BY <1>0
<1>2. PinsTrail' /\ RemovedStayOut'
  BY <1>1 DEF Listing, PinsTrail, RemovedStayOut
<1> DEFINE n == NextCounter(p)
           l == ListToSign(d, state.memo)
           c == [call[d] EXCEPT !.pc = "publish", !.counter = n, !.devs = l]
           a == [state EXCEPT !.flow = IF state.linked THEN "ready" ELSE "link"]
<1>3. a.memo = state.memo
  BY DEF App
<1>4. \/ app' = [app EXCEPT ![d] = a] /\ Return(d)
      \/ app' = [app EXCEPT ![d] = state] /\ Return(d)
      \/ /\ app' = [app EXCEPT ![d] = state] /\ Go(d, c)
         /\ Allowed(call[d].op = "remove" /\ d \notin DevicesIn(state.memo), "outcast")
         /\ ~(call[d].op = "remove" /\ call[d].target \notin DevicesIn(state.memo))
  BY DEF Listed
<1>5. MemoIsPin'
  <2> HIDE DEF a, c
  <2>1. app'[d].memo = state.memo /\ \A e \in Devices \ {d} : app'[e] = app[e]
    BY <1>0, <1>3, <1>4
  <2>2. QED BY <1>1, <2>1 DEF Listing, MemoIsPin
<1>6. ListsFit'
  <2>1. CASE Return(d)
    <3>1. \A e \in Devices \ {d} : call'[e] = call[e]
      BY <1>0, <2>1 DEF Return
    <3>2. call'[d] = None
      BY <1>0, <2>1 DEF Return
    <3>3. \A e \in Devices \ {d} : Sound(e, call[e])' = Sound(e, call[e])
      BY <1>1, <3>1 DEF Sound, ListFits, Names, NextCounter, DevicesIn
    <3>4. QED BY <3>1, <3>2, <3>3 DEF Listing, ListsFit
  <2>2. CASE /\ Go(d, c)
             /\ Allowed(call[d].op = "remove" /\ d \notin DevicesIn(state.memo), "outcast")
    <3>1. /\ c.pc = "publish" /\ c.devs = l /\ c.op = call[d].op /\ c.target = call[d].target
          /\ c.counter = n /\ c.again = call[d].again
      <4> HIDE DEF n, l
      <4>1. QED BY <1>0, DeviceTypes
    <3>2. call'[d] = c /\ \A e \in Devices \ {d} : call'[e] = call[e]
      <4> HIDE DEF c
      <4>1. QED BY <1>0, <2>2 DEF Go
    <3> HIDE DEF c
    <3>3. DevicesIn(state.memo) \subseteq DevicesIn(p)
      BY DEF DevicesIn
    <3>4. call[d].op = "remove" => d \in DevicesIn(state.memo)
      BY <2>2 DEF Allowed, NoRelapse
    <3>5. Names(d, c, DevicesIn(p))
      BY <1>0, <3>1, <3>3, <3>4 DEF Names, ListToSign
    <3>6. Sound(d, call[d])'
      <4>1. c.counter = NextCounter(pin'[d]) /\ Names(d, c, DevicesIn(pin'[d]))
        BY <1>1, <3>1, <3>5
      <4>2. QED BY <1>0, <3>1, <3>2, <4>1 DEF Sound, ListFits, Names, NextCounter, DevicesIn
    <3>7. \A e \in Devices \ {d} : Sound(e, call[e])' = Sound(e, call[e])
      BY <1>1, <3>2 DEF Sound, ListFits, Names, NextCounter, DevicesIn
    <3>8. QED BY <1>0, <3>1, <3>2, <3>6, <3>7 DEF Listing, ListsFit
  <2>3. QED BY <1>4, <2>1, <2>2
<1>7. QED BY <1>2, <1>5, <1>6 DEF Listing

LEMMA QueryManifestListing ==
  ASSUME NoRelapse, Types, Listing, NEW d \in Devices, QueryManifest(d) PROVE Listing'
<1> DEFINE state == Learned(d, manifest)
           p == Pinned(d, manifest)
<1>1. state \in App /\ p \in Manifest \cup {None}
  BY LearnedType
<1>2. CASE ~Teaches(d, manifest)
  <2>1. state = app[d] /\ p = pin[d]
    BY <1>2 DEF Learned, Pinned
  <2>2. state.memo \in {None, p}
    BY <2>1 DEF Listing, MemoIsPin
  <2>3. p # None => /\ manifest # None /\ p.id = manifest.id
                    /\ p.counter <= manifest.counter
                    /\ p.counter = manifest.counter => p = manifest
    BY <2>1 DEF Listing, PinsTrail
  <2>4. QED BY <1>1, <2>2, <2>3, ListedListing DEF QueryManifest
<1>3. CASE Teaches(d, manifest)
  <2>1. manifest \in Manifest /\ manifest # None
    BY <1>3 DEF Teaches, Types, TypeOK
  <2>2. ~Replaced(d, manifest)
    BY DEF Replaced, Listing, PinsTrail
  <2>3. p = manifest
    BY <1>3, <2>2 DEF Pinned
  <2>4. state.memo = manifest
    <3> DEFINE listed == d \in manifest.devs /\ ~Replaced(d, manifest)
               gone == app[d].leaving \/ Replaced(d, manifest) \/ (app[d].linked /\ ~listed)
               a == [app[d] EXCEPT !.memo = manifest, !.linked = listed, !.leaving = gone]
    <3>0. app[d] \in App
      BY DeviceTypes
    <3>1. state = a
      BY <1>3, <3>0 DEF Learned, App
    <3> HIDE DEF listed, gone, state
    <3>2. a.memo = manifest
      BY <3>0 DEF App
    <3>3. QED BY <3>1, <3>2
  <2>5. manifest.counter <= manifest.counter
    BY <2>1 DEF Manifest
  <2> HIDE DEF state, p
  <2>6. QED BY <1>1, <2>1, <2>3, <2>4, <2>5, ListedListing DEF QueryManifest, state, p
<1>4. QED BY <1>2, <1>3

LEMMA EmptyManifestListing ==
  ASSUME NoRelapse, Types, Listing, NEW d \in Devices, EmptyManifest(d) PROVE Listing'
<1>1. app[d] \in App /\ pin[d] \in Manifest \cup {None} /\ app[d].memo \in {None, pin[d]}
  BY DeviceTypes DEF Listing, MemoIsPin
<1>2. pin' = [pin EXCEPT ![d] = pin[d]]
  BY DEF EmptyManifest, Types, TypeOK
<1>3. QED BY <1>1, <1>2, ListedListing DEF EmptyManifest, Listing, PinsTrail

LEMMA LostListing ==
  ASSUME Types, Listing, NEW d \in Devices, NoAnswer(d) \/ StoreError(d) \/ PutUnanswered(d)
  PROVE  Listing'
<1>1. Show(d, "unavailable") \/ UNCHANGED app
  BY DEF NoAnswer, Unreached, StoreError, PutUnanswered
<1>2. Return(d) /\ UNCHANGED <<manifest, pin, out>>
  BY DEF NoAnswer, StoreError, PutUnanswered
<1>3. QED BY <1>1, <1>2, ShowMemo, ReturnListing

\* The list of a first publication is this device alone.
LEMMA AloneFits ==
  ASSUME NEW d \in Devices, NEW c, c.pc = "publish", c.op = "confirm", ~c.again,
         c.devs = {d}, c.counter = NextCounter(pin[d]), c.target # d
  PROVE  Sound(d, c)
  BY DEF Sound, ListFits, Names

LEMMA PutIdentityBackupListing ==
  ASSUME Types, Listing, NEW d \in Devices, PutIdentityBackup(d) PROVE Listing'
<1>0. /\ app \in [Devices -> App] /\ app[d] \in App /\ call \in [Devices -> Call]
      /\ call[d] # None /\ call[d].pc = "put" /\ Sound(d, call[d])
      /\ UNCHANGED <<manifest, pin, out>>
  BY DEF Types, TypeOK, At, PutIdentityBackup, Stored, Listing, ListsFit
<1>1. CASE call[d].op = "confirm"
  <2> DEFINE p == app[d].pending
             q == [p EXCEPT !.stored = TRUE]
             a == [app[d] EXCEPT !.pending = q]
             n == NextCounter(pin[d])
             c == [call[d] EXCEPT !.pc = "publish", !.id = p.id, !.devs = {d}, !.counter = n]
  <2>1. app' = [app EXCEPT ![d] = a] /\ Go(d, c)
    BY <1>0, <1>1 DEF PutIdentityBackup, Stored
  <2> HIDE DEF q
  <2>2. a.memo = app[d].memo
    BY <1>0 DEF App
  <2> HIDE DEF a, n
  <2>3. /\ c.pc = "publish" /\ c.op = "confirm" /\ c.again = call[d].again /\ c.devs = {d}
        /\ c.counter = n /\ c.target = call[d].target
    BY <1>0, <1>1, DeviceTypes
  <2> HIDE DEF c
  <2>4. Sound(d, c)
    BY <1>0, <2>3, AloneFits DEF Sound, n
  <2>5. \A e \in Devices : call'[e] = call[e] \/ Sound(e, call'[e])
    BY <1>0, <2>1, <2>4 DEF Go
  <2>6. QED BY <1>0, <2>1, <2>2, <2>5, MemoStays, StillListing
<1>2. CASE call[d].op # "confirm"
  <2> DEFINE a == [app[d] EXCEPT !.rotation = None]
  <2>1. app' = [app EXCEPT ![d] = a] /\ Return(d)
    BY <1>0, <1>2 DEF PutIdentityBackup, Stored
  <2>2. a.memo = app[d].memo
    BY <1>0 DEF App
  <2> HIDE DEF a
  <2>3. QED BY <1>0, <2>1, <2>2, MemoStays, ReturnListing
<1>3. QED BY <1>1, <1>2

\* What is stored was made from what it replaces.
LEMMA AcceptedNames ==
  ASSUME Types, Listing, NEW d \in Devices, At(d, "publish", Ops), Accepted(Signed(d))
  PROVE  Names(d, call[d], DevicesIn(manifest))
<1>1. /\ call[d] # None /\ ListFits(d, call[d]) /\ call[d].counter \in Nat \ {0}
      /\ call[d].again \in BOOLEAN
  BY SignedType DEF Listing, ListsFit, Sound, At
<1>2. Signed(d).counter = call[d].counter
  BY DEF Signed
<1>3. manifest \in Manifest \cup {None} /\ pin[d] \in Manifest \cup {None}
  BY DEF Types, TypeOK
<1>4. CASE call[d].again
  <2>1. /\ manifest # None /\ call[d].counter <= manifest.counter + 1
        /\ call[d].counter = manifest.counter + 1 => Names(d, call[d], manifest.devs)
    BY <1>1, <1>4 DEF ListFits
  <2>2. call[d].counter > manifest.counter /\ manifest.counter \in Nat
    BY <1>2, <1>3, <2>1 DEF Accepted, Manifest
  <2>3. call[d].counter = manifest.counter + 1
    BY <1>1, <2>1, <2>2
  <2>4. QED BY <2>1, <2>3 DEF DevicesIn
<1>5. CASE ~call[d].again
  <2>1. call[d].counter = NextCounter(pin[d]) /\ Names(d, call[d], DevicesIn(pin[d]))
    BY <1>1, <1>5 DEF ListFits
  <2>2. pin[d] = manifest
    <3>1. CASE pin[d] = None
      <4>1. ASSUME manifest # None PROVE FALSE
        BY <1>2, <1>3, <2>1, <3>1, <4>1 DEF Accepted, Manifest, NextCounter
      <4>2. QED BY <3>1, <4>1
    <3>2. CASE pin[d] # None
      <4>1. /\ manifest # None /\ pin[d].counter <= manifest.counter
            /\ pin[d].counter = manifest.counter => pin[d] = manifest
        BY <3>2 DEF Listing, PinsTrail
      <4>2. pin[d].counter + 1 > manifest.counter
        BY <1>2, <2>1, <3>2, <4>1 DEF Accepted, NextCounter
      <4>3. pin[d].counter \in Nat /\ manifest.counter \in Nat
        BY <1>3, <3>2, <4>1 DEF Manifest
      <4>4. QED BY <4>1, <4>2, <4>3
    <3>3. QED BY <3>1, <3>2
  <2>3. QED BY <2>1, <2>2
<1>6. QED BY <1>1, <1>4, <1>5

LEMMA StoreListing ==
  ASSUME Types, Listing, NEW d \in Devices, At(d, "publish", Ops), Accepted(Signed(d)),
         Store(d), Return(d),
         \/ pin' = pin /\ app' = app
         \/ pin' = [pin EXCEPT ![d] = Signed(d)] /\ app'[d].memo = Signed(d)
            /\ \A e \in Devices \ {d} : app'[e] = app[e]
  PROVE  Listing'
<1>0. /\ pin \in [Devices -> Manifest \cup {None}] /\ call \in [Devices -> Call]
      /\ manifest \in Manifest \cup {None} /\ manifest' = Signed(d)
      /\ Signed(d) \in Manifest /\ manifest' # None
  BY SignedType, IdentityAssumption DEF Types, TypeOK, Store
<1>1. manifest # None => manifest'.id = manifest.id /\ manifest'.counter > manifest.counter
  BY <1>0 DEF Accepted
<1>2. RemovedStayOut'
  <2>1. Names(d, call[d], DevicesIn(manifest))
    BY AcceptedNames
  <2>2. DevicesIn(manifest) \cap out = {}
    BY DEF DevicesIn, Listing, RemovedStayOut
  <2>3. manifest'.devs = call[d].devs
    BY <1>0 DEF Signed
  <2>4. manifest'.devs \cap out' = {}
    BY <2>1, <2>2, <2>3 DEF Names, Store
  <2>5. QED BY <2>4 DEF RemovedStayOut
<1>3. PinsTrail'
  <2> SUFFICES ASSUME NEW e \in Devices, pin'[e] # None
               PROVE  /\ pin'[e].id = manifest'.id /\ pin'[e].counter <= manifest'.counter
                      /\ pin'[e].counter = manifest'.counter => pin'[e] = manifest'
    BY <1>0 DEF PinsTrail
  <2>1. manifest'.counter \in Nat
    BY <1>0 DEF Manifest
  <2>2. CASE pin'[e] = Signed(d)
    BY <1>0, <2>1, <2>2
  <2>3. CASE pin'[e] = pin[e]
    <3>1. manifest # None /\ pin[e].id = manifest.id /\ pin[e].counter <= manifest.counter
      BY <2>3 DEF Listing, PinsTrail
    <3>2. manifest.counter \in Nat /\ pin[e].counter \in Nat
      BY <1>0, <2>3, <3>1 DEF Manifest
    <3>3. pin[e].counter < manifest'.counter
      BY <1>1, <2>1, <3>1, <3>2
    <3>4. QED BY <1>1, <2>1, <2>3, <3>1, <3>2, <3>3
  <2>4. QED BY <1>0, <2>2, <2>3
<1>4. MemoIsPin'
  BY <1>0 DEF MemoIsPin, Listing
<1>5. ListsFit'
  <2>1. call'[d] = None /\ \A e \in Devices \ {d} : call'[e] = call[e] /\ pin'[e] = pin[e]
    BY <1>0 DEF Return
  <2> SUFFICES ASSUME NEW e \in Devices \ {d}, call[e] # None PROVE Sound(e, call[e])'
    BY <2>1 DEF ListsFit
  <2>2. Sound(e, call[e])
    BY DEF Listing, ListsFit
  <2>3. CASE call[e].pc = "publish" /\ call[e].again
    <3>1. manifest # None /\ call[e].counter <= manifest.counter + 1
      BY <2>2, <2>3 DEF Sound, ListFits
    <3>2. manifest.counter \in Nat /\ manifest'.counter \in Nat
      BY <1>0, <3>1 DEF Manifest
    <3>3. call[e].counter \in Nat
      BY <3>1, DeviceTypes
    <3>4. call[e].counter < manifest'.counter + 1
      BY <1>1, <3>1, <3>2, <3>3
    <3>5. QED BY <1>0, <2>1, <2>2, <2>3, <3>2, <3>3, <3>4 DEF Sound, ListFits
  <2>4. CASE ~(call[e].pc = "publish" /\ call[e].again)
    <3>1. Sound(e, call[e])' = Sound(e, call[e])
      BY <2>1, <2>4 DEF Sound, ListFits, Names, NextCounter, DevicesIn
    <3>2. QED BY <2>2, <3>1
  <2>5. QED BY <2>3, <2>4
<1>6. QED BY <1>2, <1>3, <1>4, <1>5 DEF Listing

LEMMA PublishListing ==
  ASSUME NoRelapse, Types, Listing, NEW d \in Devices,
         PublishStored(d) \/ PublishUnanswered(d) \/ PublishRefused(d)
  PROVE  Listing'
<1>0. app \in [Devices -> App] /\ app[d] \in App /\ call \in [Devices -> Call]
  BY DEF Types, TypeOK
<1>1. CASE PublishStored(d)
  <2> DEFINE p == IF call[d].op = "confirm" THEN None ELSE app[d].pending
             w == IF call[d].op = "remove" THEN app[d].flow ELSE "ready"
             a == [app[d] EXCEPT !.memo = Signed(d), !.linked = TRUE, !.pending = p, !.flow = w]
  <2>1. app' = [app EXCEPT ![d] = a]
    BY <1>0, <1>1 DEF PublishStored, Published
  <2> HIDE DEF p, w
  <2>2. a.memo = Signed(d)
    BY <1>0 DEF App
  <2> HIDE DEF a
  <2>3. app'[d].memo = Signed(d) /\ \A e \in Devices \ {d} : app'[e] = app[e]
    BY <1>0, <2>1, <2>2
  <2>4. QED BY <1>1, <2>3, StoreListing DEF PublishStored, Published
<1>2. CASE PublishUnanswered(d)
  BY <1>2, StoreListing DEF PublishUnanswered
<1>3. CASE PublishRefused(d)
  <2>0. UNCHANGED <<manifest, pin, out, app>> /\ call[d] # None /\ Sound(d, call[d])
    BY <1>3 DEF PublishRefused, At, Listing, ListsFit
  <2>1. CASE Return(d)
    BY <2>0, <2>1, ReturnListing
  <2>2. CASE ~(manifest.id # call[d].id \/ call[d].again)
    <3> DEFINE n == manifest.counter + 1
               c == [call[d] EXCEPT !.again = TRUE, !.counter = n]
    <3>1. Go(d, c) /\ Allowed(Outrun(d), "outrun")
      BY <1>3, <2>2 DEF PublishRefused
    <3>2. ~Outrun(d)
      BY <3>1 DEF Allowed, NoRelapse
    <3>3. manifest \in Manifest /\ manifest # None
      BY <1>3, IdentityAssumption DEF PublishRefused, Accepted, Types, TypeOK
    <3>4. n \in Nat /\ n <= manifest.counter + 1
      BY <3>3 DEF Manifest
    <3> HIDE DEF n
    <3>5. /\ c.again /\ c.counter = n /\ c.pc = "publish" /\ c.op = call[d].op
          /\ c.devs = call[d].devs /\ c.target = call[d].target
      BY <1>3, SignedType, DeviceTypes DEF PublishRefused
    <3> HIDE DEF c
    <3>6. c.op = "remove" => d \in c.devs /\ c.target \notin c.devs
      <4>1. ~call[d].again /\ ListFits(d, call[d])
        BY <1>3, <2>0, <2>2, SignedType DEF PublishRefused, Sound
      <4>2. QED BY <3>5, <4>1 DEF ListFits, Names
    <3>7. Names(d, c, manifest.devs)
      BY <3>2, <3>5, <3>6 DEF Outrun, Names
    <3>8. Sound(d, c)
      BY <2>0, <3>3, <3>4, <3>5, <3>7 DEF Sound, ListFits
    <3>9. \A e \in Devices : call'[e] = call[e] \/ Sound(e, call'[e])
      BY <1>0, <3>1, <3>8 DEF Go
    <3>10. QED BY <2>0, <3>9, StillListing
  <2>3. QED BY <1>3, <2>1, <2>2 DEF PublishRefused
<1>4. QED BY <1>1, <1>2, <1>3

LEMMA GoListing ==
  ASSUME Types, Listing, NEW d \in Devices, NEW c, Go(d, c), Sound(d, c),
         UNCHANGED <<manifest, pin, out, app>>
  PROVE  Listing'
<1>1. \A e \in Devices : call'[e] = call[e] \/ Sound(e, call'[e])
  BY DEF Go, Types, TypeOK
<1>2. QED BY <1>1, StillListing

\* A call at its first round trip.
LEMMA StartSound ==
  ASSUME NEW d \in Devices, NEW op, NEW pc, pc # "publish"
  PROVE  Sound(d, Start(op, pc))
  BY IdentityAssumption DEF Sound, Start

LEMMA UserListing ==
  ASSUME Types, Listing, NEW d \in Devices,
         Gate(d) \/ WithKey(d) \/ BeginIdentitySetup(d)
  PROVE  Listing'
<1>0. app \in [Devices -> App] /\ app[d] \in App /\ pin[d] \in Manifest \cup {None}
  BY DEF Types, TypeOK
<1>1. CASE BeginIdentitySetup(d)
  BY <1>1, StartSound, GoListing DEF BeginIdentitySetup, Quiet
<1>2. CASE SaveRecoveryKey(d)
  BY <1>2, StillListing DEF SaveRecoveryKey, Quiet
<1>3. CASE ConfirmIdentitySetup(d)
  <2>1. CASE app[d].pending.stored
    <3> DEFINE n == NextCounter(pin[d])
               b == Start("confirm", "publish")
               c == [b EXCEPT !.id = app[d].pending.id, !.devs = {d}, !.counter = n]
    <3>1. Go(d, c)
      BY <1>3, <2>1 DEF ConfirmIdentitySetup
    <3> HIDE DEF n
    <3>2. /\ c.op = "confirm" /\ c.pc = "publish" /\ ~c.again /\ c.devs = {d}
          /\ c.counter = n /\ c.target = None
      BY DEF Start
    <3> HIDE DEF c
    <3>3. Sound(d, c)
      BY <3>2, AloneFits, IdentityAssumption DEF n
    <3>4. QED BY <1>3, <3>1, <3>3, GoListing DEF ConfirmIdentitySetup, Quiet
  <2>2. CASE ~app[d].pending.stored
    BY <1>3, <2>2, StartSound, GoListing DEF ConfirmIdentitySetup, Quiet
  <2>3. QED BY <2>1, <2>2
<1>4. CASE CancelIdentitySetup(d) \/ CancelRecoveryKeyRotation(d)
  <2>1. UNCHANGED <<manifest, pin, out, call>>
    BY <1>4 DEF CancelIdentitySetup, CancelRecoveryKeyRotation, Quiet
  <2>2. \A e \in Devices : app'[e].memo \in {None, app[e].memo}
    BY <1>4, CancelLess DEF Less
  <2>3. QED BY <2>1, <2>2, StillListing
<1>5. CASE ConfirmRecoveryKeyRotation(d)
  BY <1>5, StartSound, GoListing DEF ConfirmRecoveryKeyRotation, Quiet
<1>6. CASE WithKey(d)
  <2>1. PICK k \in held : \/ LinkDevice(d, k) \/ BeginRecoveryKeyRotation(d, k)
                         \/ \E t \in Devices : RemoveDevice(d, t, k)
    BY <1>6 DEF WithKey
  <2>2. UNCHANGED <<manifest, pin, out, app>>
    BY <2>1 DEF LinkDevice, BeginRecoveryKeyRotation, RemoveDevice, Quiet
  <2>3. CASE LinkDevice(d, k) \/ BeginRecoveryKeyRotation(d, k)
    <3>1. PICK op \in {"link", "rotate"} : Go(d, [Start(op, "get") EXCEPT !.key = k])
      BY <2>3 DEF LinkDevice, BeginRecoveryKeyRotation
    <3> DEFINE c == [Start(op, "get") EXCEPT !.key = k]
    <3>2. c.pc = "get" /\ c.target = None /\ ~c.again
      BY DEF Start
    <3> HIDE DEF c
    <3>3. Sound(d, c)
      BY <3>2, IdentityAssumption DEF Sound
    <3>4. QED BY <2>2, <3>1, <3>3, GoListing DEF c
  <2>4. CASE \E t \in Devices : RemoveDevice(d, t, k)
    <3>1. PICK t \in Devices : RemoveDevice(d, t, k)
      BY <2>4
    <3> DEFINE c == [Start("remove", "get") EXCEPT !.key = k, !.target = t]
    <3>2. c.pc = "get" /\ c.target = t /\ ~c.again /\ Go(d, c) /\ t # d
      BY <3>1 DEF Start, RemoveDevice
    <3> HIDE DEF c
    <3>3. Sound(d, c)
      BY <3>2 DEF Sound
    <3>4. QED BY <2>2, <3>2, <3>3, GoListing
  <2>5. QED BY <2>1, <2>3, <2>4
<1>7. QED BY <1>1, <1>2, <1>3, <1>4, <1>5, <1>6 DEF Gate

LEMMA ListingStep ==
  ASSUME NoRelapse, Types, Listing, [Next]_vars PROVE Listing'
<1>1. ASSUME NEW d \in Devices, DeviceNext(d) PROVE Listing'
  <2>1. CASE Directory(d)
    <3>1. GetIdentityBackup(d) => Listing'
      BY GetIdentityBackupListing
    <3>2. QueryManifest(d) => Listing'
      BY QueryManifestListing
    <3>3. PutIdentityBackup(d) => Listing'
      BY PutIdentityBackupListing
    <3>4. QED BY <2>1, <3>1, <3>2, <3>3, PublishListing DEF Directory
  <2>2. CASE Failure(d)
    <3>1. EmptyManifest(d) => Listing'
      BY EmptyManifestListing
    <3>2. PublishUnanswered(d) => Listing'
      BY PublishListing
    <3>3. QED BY <2>2, <3>1, <3>2, LostListing DEF Failure
  <2>3. QED BY <1>1, <2>1, <2>2, SessionListing, UserListing DEF DeviceNext
<1>2. ASSUME NEW d \in Devices, Misread(d) PROVE Listing'
  <2>1. EmptyBackup(d) => Listing'
    BY NoBackupListing DEF EmptyBackup
  <2>2. PutUnanswered(d) => Listing'
    BY LostListing
  <2>3. QED BY <1>2, <2>1, <2>2 DEF Misread
<1>3. ~AdminClear
  BY DEF AdminClear, Upset, NoRelapse
<1>4. CASE UNCHANGED vars
  BY <1>4, StillListing DEF vars
<1>5. QED BY <1>1, <1>2, <1>3, <1>4 DEF Next, CalmNext

\* A device the user removed is on no list the directory stores until it is linked
\* again, through any number of devices' links, removals and refused publications,
\* crashes and lost answers (publishManifest, currentDevices, app_keydir.go): as long
\* as a list that lost the race is not signed again with somebody whom the winner left
\* out, and a device that finds itself removed signs none.
THEOREM RemovalHolds ==
  ASSUME NoRelapse
  PROVE  Spec => []RemovedStayOut
<1>1. Init => Types /\ Listing
  BY InitTypes, InitListing
<1>2. Types /\ Listing /\ [Next]_vars => (Types /\ Listing)'
  BY TypesStep, ListingStep
<1>3. Types /\ Listing => RemovedStayOut
  BY DEF Listing
<1>4. QED BY <1>1, <1>2, <1>3, PTL DEF Spec

-----------------------------------------------------------------------------
(* The backup opens the account. *)

\* A first run that has stored nothing found nothing stored; one that has, is whose
\* identity the account has.
PendingFits(a) ==
  a.pending # None =>
    /\ a.pending.key <= fresh
    /\ IF a.pending.stored THEN backup # None /\ backup.id = a.pending.id ELSE backup = None

\* A key that is to replace the backup's locks nothing yet, is no other device's, and
\* is none that a re-keying has the user throw away.
RotationFits(d) ==
  LET r == app[d].rotation
  IN  r # None =>
        /\ backup # None /\ r.id = backup.id
        /\ r.key # backup.key /\ r.key <= fresh /\ r.old <= fresh
        /\ \A e \in Devices : app[e].rotation # None =>
             r.key # app[e].rotation.old /\ (e # d => r.key # app[e].rotation.key)

\* What a call is about to store is under a key the user has; what it is about to sign
\* is under the account's identity.
CallKnows(a, c) ==
  /\ c.op = "confirm" /\ c.pc = "put" => ~a.pending.stored /\ a.pending.key \in held
  /\ c.op = "rekey" => a.rotation.key \in held
  /\ c.pc = "publish" \/ (c.pc = "query" /\ c.op # "setup") => backup # None /\ c.id = backup.id

OneFirstRunNow == \A d, e \in Devices : FirstRun(d) /\ FirstRun(e) => d = e

Backing ==
  /\ \A d \in Devices : PendingFits(app[d]) /\ RotationFits(d)
  /\ \A d \in Devices : call[d] # None => CallKnows(app[d], call[d])
  /\ OneFirstRunNow
  /\ backup = None => manifest = None
  /\ backup # None => backup.key <= fresh
  /\ BackupOpensTheAccount

LEMMA InitBacking == Init => Backing
<1> SUFFICES ASSUME Init PROVE Backing
  OBVIOUS
<1>1. Off.pending = None /\ Off.rotation = None
  BY DEF Off
<1>2. \A d \in Devices : app[d].pending = None /\ app[d].rotation = None /\ call[d] = None
  BY <1>1 DEF Init
<1>3. backup = None /\ manifest = None
  BY DEF Init
<1>4. QED
  BY <1>2, <1>3 DEF Backing, PendingFits, RotationFits, OneFirstRunNow, FirstRun,
     BackupOpensTheAccount

\* Only one device has, or is storing, what a first run generated.
LEMMA NoOtherFirstRun ==
  ASSUME Types, Backing, NEW d \in Devices, app[d].pending # None
  PROVE  \A e \in Devices \ {d} :
           app[e].pending = None /\ (call[e] # None => call[e].op # "confirm")
  BY DEF Backing, OneFirstRunNow, FirstRun

\* Steps that leave the backup alone, mint nothing and take no key from the user.
LEMMA StillBacking ==
  ASSUME Types, Types', Backing, OneFirstRunNow', UNCHANGED <<backup, fresh>>,
         held \subseteq held',
         backup = None => manifest' = None,
         manifest' # None => manifest' = manifest \/ manifest'.id = backup.id,
         \A e \in Devices : /\ app'[e].pending \in {None, app[e].pending}
                           /\ app'[e].rotation \in {None, app[e].rotation},
         \A e \in Devices : call'[e] \in {None, call[e]} \/ CallKnows(app[e], call'[e])
  PROVE  Backing'
<1>1. ASSUME NEW e \in Devices PROVE PendingFits(app[e])' /\ RotationFits(e)'
  BY DEF Backing, PendingFits, RotationFits
<1>2. ASSUME NEW e \in Devices, call'[e] # None PROVE CallKnows(app[e], call[e])'
  <2>1. CallKnows(app[e], call'[e])
    BY <1>2 DEF Backing
  <2>2. Fits(app'[e], call'[e])
    BY DEF Types, Fits
  <2>3. /\ call'[e].op = "confirm" => app'[e].pending = app[e].pending
        /\ call'[e].op = "rekey" => app'[e].rotation = app[e].rotation
    BY <1>2, <2>2 DEF Fits
  <2>4. QED BY <2>1, <2>3 DEF CallKnows
<1>3. BackupOpensTheAccount' /\ (backup = None => manifest = None)'
      /\ (backup # None => backup.key <= fresh)'
  BY DEF Backing, BackupOpensTheAccount
<1>4. QED BY <1>1, <1>2, <1>3 DEF Backing

\* Calls that end, or go on as they were, on devices that forget at most.
LEMMA LessBacking ==
  ASSUME Types, Types', Backing, OneFirstRunNow', UNCHANGED <<backup, manifest, fresh>>,
         held \subseteq held', \A e \in Devices : Less(app'[e], app[e]),
         \A e \in Devices : call'[e] \in {None, call[e]} \/ CallKnows(app[e], call'[e])
  PROVE  Backing'
  BY StillBacking DEF Less, Backing

LEMMA ReturnBacking ==
  ASSUME Types, Types', Backing, OneFirstRunNow', UNCHANGED <<backup, manifest, fresh, held>>,
         \A e \in Devices : Less(app'[e], app[e]), NEW d \in Devices, Return(d)
  PROVE  Backing'
<1>1. \A e \in Devices : call'[e] \in {None, call[e]}
  BY DEF Return, Types, TypeOK
<1>2. QED BY <1>1, LessBacking

LEMMA GoBacking ==
  ASSUME Types, Types', Backing, OneFirstRunNow', UNCHANGED <<backup, manifest, fresh, held, app>>,
         NEW d \in Devices, NEW c, Go(d, c), CallKnows(app[d], c)
  PROVE  Backing'
<1>1. \A e \in Devices : call'[e] = call[e] \/ CallKnows(app[e], call'[e])
  BY DEF Go, Types, TypeOK
<1>2. \A e \in Devices : Less(app'[e], app[e])
  BY DEF Less
<1>3. QED BY <1>1, <1>2, LessBacking

LEMMA SessionBacking ==
  ASSUME Types, Types', Backing, OneFirstRunNow', NEW d \in Devices, Session(d)
  PROVE  Backing'
<1>1. UNCHANGED <<backup, manifest, fresh, held>>
  BY DEF Session, SignOn, SignOff, StartOver, Leave, SignedOff, Drop, Crash
<1>2. \A e \in Devices : call'[e] \in {None, call[e]} \/ CallKnows(app[e], call'[e])
  <2>1. CallKnows(app[d], Start("setup", "get"))
    BY DEF Start, CallKnows
  <2>2. \A e \in Devices : call'[e] \in {None, call[e], Start("setup", "get")}
                          /\ (e # d => call'[e] = call[e])
    BY DEF Session, SignOn, SignOff, StartOver, Leave, SignedOff, Drop, Crash, Go, Return,
       Types, TypeOK
  <2>3. QED BY <2>1, <2>2
<1>3. QED BY <1>1, <1>2, SessionLess, LessBacking

LEMMA LostBacking ==
  ASSUME Types, Types', Backing, OneFirstRunNow', NEW d \in Devices, NoAnswer(d) \/ StoreError(d)
  PROVE  Backing'
<1>1. Show(d, "unavailable") \/ UNCHANGED app
  BY DEF NoAnswer, Unreached, StoreError
<1>2. QED BY <1>1, ShowLess, ReturnBacking DEF NoAnswer, StoreError

\* The first run's keys are new, and nothing is stored yet.
LEMMA MintedBacking ==
  ASSUME Types, Types', Backing, OneFirstRunNow', NEW d \in Devices, Minted(d), Return(d),
         backup = None, UNCHANGED <<backup, manifest, held>>
  PROVE  Backing'
<1>0. app[d] \in App /\ app \in [Devices -> App] /\ call \in [Devices -> Call] /\ fresh \in Nat
  BY DEF Types, TypeOK
<1>1. CASE ~(app[d].pending = None /\ fresh < MaxKeys)
  <2>1. UNCHANGED <<app, fresh>> /\ \A e \in Devices : Less(app'[e], app[e])
    BY <1>1 DEF Minted, Less
  <2>2. QED BY <2>1, ReturnBacking
<1>2. CASE app[d].pending = None /\ fresh < MaxKeys
  <2> DEFINE p == [id |-> fresh + 1, key |-> fresh + 1, stored |-> FALSE]
             a == [app[d] EXCEPT !.pending = p]
  <2>1. app' = [app EXCEPT ![d] = a] /\ fresh' = fresh + 1
    BY <1>0, <1>2 DEF Minted
  <2>2. p.key = fresh + 1 /\ ~p.stored
    OBVIOUS
  <2> HIDE DEF p
  <2>3. a.pending = p /\ a.rotation = app[d].rotation
    BY <1>0 DEF App
  <2> HIDE DEF a
  <2>4. app'[d] = a /\ \A e \in Devices \ {d} : app'[e] = app[e]
    BY <1>0, <2>1
  <2>5. call'[d] = None /\ \A e \in Devices \ {d} : call'[e] = call[e]
    BY <1>0 DEF Return
  <2>6. \A e \in Devices : PendingFits(app[e])'
    <3> TAKE e \in Devices
    <3>1. CASE e = d
      BY <1>0, <2>1, <2>2, <2>3, <2>4, <3>1 DEF PendingFits
    <3>2. CASE e # d
      <4>1. PendingFits(app[e]) /\ app'[e] = app[e]
        BY <2>4, <3>2 DEF Backing
      <4>2. app[e].pending # None => app[e].pending.key \in Nat
        BY PendingType DEF Pending, Keys
      <4>3. QED BY <1>0, <2>1, <4>1, <4>2 DEF PendingFits
    <3>3. QED BY <3>1, <3>2
  <2>7. \A e \in Devices : RotationFits(e)'
    <3>1. \A e \in Devices : app'[e].rotation = app[e].rotation /\ app[e].rotation = None
      BY <2>3, <2>4 DEF Backing, RotationFits
    <3>2. QED BY <3>1 DEF RotationFits
  <2>8. ASSUME NEW e \in Devices, call'[e] # None PROVE CallKnows(app[e], call[e])'
    <3>1. e # d /\ app'[e] = app[e] /\ call'[e] = call[e]
      BY <2>4, <2>5, <2>8
    <3>2. QED BY <2>8, <3>1 DEF Backing, CallKnows
  <2>9. QED BY <2>6, <2>7, <2>8 DEF Backing, BackupOpensTheAccount
<1>3. QED BY <1>1, <1>2

\* The key that is to replace the backup's is new, and what it replaces is the backup's.
LEMMA RotationBacking ==
  ASSUME Types, Types', Backing, OneFirstRunNow', NEW d \in Devices, RotationMinted(d), Return(d),
         backup # None, call[d].key = backup.key, UNCHANGED <<backup, manifest, held>>
  PROVE  Backing'
<1>0. /\ app[d] \in App /\ app \in [Devices -> App] /\ call \in [Devices -> Call]
      /\ fresh \in Nat /\ backup.key \in Nat /\ backup.key <= fresh
  BY DEF Types, TypeOK, Backup, Keys, Backing
<1>1. CASE ~(fresh < MaxKeys)
  <2>1. UNCHANGED <<app, fresh>> /\ \A e \in Devices : Less(app'[e], app[e])
    BY <1>1 DEF RotationMinted, Less
  <2>2. QED BY <2>1, ReturnBacking
<1>2. CASE fresh < MaxKeys
  <2> DEFINE r == [id |-> backup.id, key |-> fresh + 1, old |-> call[d].key]
             a == [app[d] EXCEPT !.rotation = r]
  <2>1. app' = [app EXCEPT ![d] = a] /\ fresh' = fresh + 1
    BY <1>0, <1>2 DEF RotationMinted
  <2>2. r.id = backup.id /\ r.key = fresh + 1 /\ r.old = backup.key
    OBVIOUS
  <2> HIDE DEF r
  <2>3. a.pending = app[d].pending /\ a.rotation = r
    BY <1>0 DEF App
  <2> HIDE DEF a
  <2>4. app'[d] = a /\ \A e \in Devices \ {d} : app'[e] = app[e]
    BY <1>0, <2>1
  <2>5. call'[d] = None /\ \A e \in Devices \ {d} : call'[e] = call[e]
    BY <1>0 DEF Return
  <2>6. \A e \in Devices : PendingFits(app[e])'
    <3> TAKE e \in Devices
    <3>1. PendingFits(app[e]) /\ app'[e].pending = app[e].pending
      BY <2>3, <2>4 DEF Backing
    <3>2. app[e].pending # None => app[e].pending.key \in Nat
      BY PendingType DEF Pending, Keys
    <3>3. QED BY <1>0, <2>1, <3>1, <3>2 DEF PendingFits
  <2>7. \A e \in Devices : RotationFits(e)'
    <3>1. ASSUME NEW e \in Devices \ {d}, app[e].rotation # None
          PROVE  /\ app[e].rotation.key \in Nat /\ app[e].rotation.key <= fresh
                 /\ app[e].rotation.old \in Nat /\ app[e].rotation.old <= fresh
                 /\ app[e].rotation.key # backup.key /\ app[e].rotation.id = backup.id
                 /\ \A g \in Devices : app[g].rotation # None =>
                      /\ app[e].rotation.key # app[g].rotation.old
                      /\ g # e => app[e].rotation.key # app[g].rotation.key
      <4>1. RotationFits(e)
        BY DEF Backing
      <4>2. app[e].rotation \in [id : Keys, key : Keys, old : Keys]
        BY <3>1, PendingType
      <4>3. QED BY <3>1, <4>1, <4>2 DEF RotationFits, Keys
    <3> TAKE e \in Devices
    <3>2. CASE e = d
      <4>1. \A g \in Devices \ {d} : app[g].rotation # None =>
              r.key # app[g].rotation.old /\ r.key # app[g].rotation.key
        BY <1>0, <2>2, <3>1
      <4>2. r.key # r.old /\ r.key # backup.key /\ r.key <= fresh' /\ r.old <= fresh'
        BY <1>0, <2>1, <2>2
      <4>3. QED BY <2>2, <2>3, <2>4, <3>2, <4>1, <4>2 DEF RotationFits
    <3>3. CASE e # d
      <4>1. app[e].rotation # None =>
              /\ app[e].rotation.key # r.old /\ app[e].rotation.key # r.key
              /\ app[e].rotation.key <= fresh' /\ app[e].rotation.old <= fresh'
        BY <1>0, <2>1, <2>2, <3>1, <3>3
      <4>2. QED BY <2>3, <2>4, <3>1, <3>3, <4>1 DEF RotationFits
    <3>4. QED BY <3>2, <3>3
  <2>8. ASSUME NEW e \in Devices, call'[e] # None PROVE CallKnows(app[e], call[e])'
    <3>1. e # d /\ app'[e] = app[e] /\ call'[e] = call[e]
      BY <2>4, <2>5, <2>8
    <3>2. QED BY <2>8, <3>1 DEF Backing, CallKnows
  <2>9. backup'.key <= fresh'
    BY <1>0, <2>1
  <2>10. QED BY <2>6, <2>7, <2>8, <2>9 DEF Backing, BackupOpensTheAccount
<1>3. QED BY <1>1, <1>2

LEMMA GetIdentityBackupBacking ==
  ASSUME Types, Types', Backing, OneFirstRunNow', NEW d \in Devices, GetIdentityBackup(d)
  PROVE  Backing'
<1>0. /\ UNCHANGED <<backup, manifest, held>> /\ call[d] # None /\ call[d].pc = "get"
      /\ call \in [Devices -> Call] /\ Fits(app[d], call[d])
  BY DeviceTypes DEF GetIdentityBackup, At, Types, TypeOK
<1>1. CASE backup = None /\ call[d].op = "begin"
  BY <1>0, <1>1, MintedBacking DEF GetIdentityBackup, NoBackup
<1>2. CASE backup = None /\ call[d].op # "begin"
  <2>1. (Show(d, "setup") \/ UNCHANGED app) /\ Return(d) /\ UNCHANGED fresh
    BY <1>2 DEF GetIdentityBackup, NoBackup
  <2>2. QED BY <1>0, <2>1, ShowLess, ReturnBacking
<1>3. CASE backup # None /\ call[d].op = "setup"
  <2>1. Go(d, Start("setup", "query")) /\ UNCHANGED <<app, fresh>>
    BY <1>3 DEF GetIdentityBackup, FoundBackup
  <2>2. CallKnows(app[d], Start("setup", "query"))
    BY DEF Start, CallKnows
  <2>3. QED BY <1>0, <2>1, <2>2, GoBacking
<1>4. CASE backup # None /\ call[d].op = "begin"
  <2>1. Show(d, "link") /\ Return(d) /\ UNCHANGED fresh
    BY <1>4 DEF GetIdentityBackup, FoundBackup
  <2>2. QED BY <1>0, <2>1, ShowLess, ReturnBacking
<1>5. CASE backup # None /\ call[d].op \notin {"setup", "begin"}
  <2>0. Opened(d)
    BY <1>5 DEF GetIdentityBackup, FoundBackup
  <2>1. CASE call[d].key # backup.key
    <3>1. Return(d) /\ UNCHANGED <<app, fresh>> /\ \A e \in Devices : Less(app'[e], app[e])
      BY <2>0, <2>1 DEF Opened, Less
    <3>2. QED BY <1>0, <3>1, ReturnBacking
  <2>2. CASE call[d].key = backup.key /\ call[d].op = "rotate"
    BY <1>0, <1>5, <2>0, <2>2, RotationBacking DEF Opened
  <2>3. CASE call[d].key = backup.key /\ call[d].op # "rotate"
    <3> DEFINE c == [call[d] EXCEPT !.pc = "query", !.id = backup.id]
    <3>1. Go(d, c) /\ UNCHANGED <<app, fresh>>
      BY <2>0, <2>3 DEF Opened
    <3>2. c.pc = "query" /\ c.id = backup.id /\ c.op = call[d].op
      BY <1>0, DeviceTypes
    <3> HIDE DEF c
    <3>3. CallKnows(app[d], c)
      BY <1>0, <1>5, <3>2 DEF CallKnows, Fits
    <3>4. QED BY <1>0, <3>1, <3>3, GoBacking
  <2>4. QED BY <2>1, <2>2, <2>3
<1>6. QED BY <1>1, <1>2, <1>3, <1>4, <1>5

LEMMA ListedBacking ==
  ASSUME Types, Types', Backing, OneFirstRunNow', NEW d \in Devices, At(d, "query", Ops),
         NEW state \in App, NEW p, Listed(d, state, p),
         state.pending = app[d].pending, state.rotation = app[d].rotation,
         UNCHANGED <<backup, manifest, held, fresh>>
  PROVE  Backing'
<1>0. /\ app \in [Devices -> App] /\ call \in [Devices -> Call]
      /\ call[d] # None /\ call[d].pc = "query" /\ Fits(app[d], call[d])
      /\ CallKnows(app[d], call[d])
  BY DEF Types, TypeOK, At, Backing
<1> DEFINE n == NextCounter(p)
           l == ListToSign(d, state.memo)
           c == [call[d] EXCEPT !.pc = "publish", !.counter = n, !.devs = l]
           a == [state EXCEPT !.flow = IF state.linked THEN "ready" ELSE "link"]
<1>1. a.pending = state.pending /\ a.rotation = state.rotation
  BY DEF App
<1>2. \/ app' = [app EXCEPT ![d] = a] /\ Return(d)
      \/ app' = [app EXCEPT ![d] = state] /\ Return(d)
      \/ app' = [app EXCEPT ![d] = state] /\ Go(d, c) /\ call[d].op # "setup"
  BY DEF Listed
<1>3. c.pc = "publish" /\ c.op = call[d].op /\ c.id = call[d].id
  <2> HIDE DEF n, l
  <2>1. QED BY <1>0, DeviceTypes
<1> HIDE DEF a, c
<1>4. \A e \in Devices : /\ app'[e].pending \in {None, app[e].pending}
                        /\ app'[e].rotation \in {None, app[e].rotation}
  <2>1. app'[d] \in {a, state} /\ \A e \in Devices \ {d} : app'[e] = app[e]
    BY <1>0, <1>2
  <2>2. QED BY <1>1, <2>1
<1>5. \A e \in Devices : call'[e] \in {None, call[e]} \/ CallKnows(app[e], call'[e])
  <2>1. call[d].op # "setup" => CallKnows(app[d], c)
    BY <1>0, <1>3 DEF CallKnows, Fits
  <2>2. QED BY <1>0, <1>2, <2>1 DEF Return, Go
<1>6. QED BY <1>4, <1>5, StillBacking DEF Backing

LEMMA PutIdentityBackupBacking ==
  ASSUME Types, Types', Backing, OneFirstRunNow', NEW d \in Devices, PutIdentityBackup(d)
  PROVE  Backing'
<1>0. /\ app \in [Devices -> App] /\ app[d] \in App /\ call \in [Devices -> Call]
      /\ call[d] # None /\ call[d].pc = "put" /\ call[d].op \in {"confirm", "rekey"}
      /\ Fits(app[d], call[d]) /\ CallKnows(app[d], call[d]) /\ UNCHANGED <<manifest, fresh>>
      /\ PendingFits(app[d]) /\ RotationFits(d)
  BY DEF Types, TypeOK, At, PutIdentityBackup, Backing
<1>1. CASE call[d].op = "confirm"
  <2> DEFINE p == app[d].pending
             q == [p EXCEPT !.stored = TRUE]
             a == [app[d] EXCEPT !.pending = q]
             n == NextCounter(pin[d])
             c == [call[d] EXCEPT !.pc = "publish", !.id = p.id, !.devs = {d}, !.counter = n]
             b == [id |-> p.id, key |-> p.key]
  <2>0. app' = [app EXCEPT ![d] = a] /\ Go(d, c) /\ backup' = b /\ UNCHANGED held
    BY <1>0, <1>1 DEF PutIdentityBackup, Stored
  <2>1. p \in Pending /\ p # None /\ ~p.stored /\ p.key \in held /\ p.key <= fresh
    BY <1>0, <1>1, PendingType DEF Fits, CallKnows, PendingFits
  <2>2. backup = None /\ manifest = None
    BY <1>0, <2>1 DEF PendingFits, Backing
  <2>3. q.id = p.id /\ q.key = p.key /\ q.stored
    BY <2>1 DEF Pending
  <2>4. b \in Backup /\ b.id = p.id /\ b.key = p.key /\ b # None
    <3>1. b \in Backup
      BY <2>1 DEF Pending, Backup
    <3>2. QED BY <3>1, IdentityAssumption
  <2> HIDE DEF b, n
  <2>5. c.pc = "publish" /\ c.op = "confirm" /\ c.id = p.id
    BY <1>0, <1>1, DeviceTypes
  <2> HIDE DEF q
  <2>6. a.pending = q /\ a.rotation = app[d].rotation
    BY <1>0 DEF App
  <2> HIDE DEF a, c
  <2>7. app'[d] = a /\ \A e \in Devices \ {d} : app'[e] = app[e]
    BY <1>0, <2>0
  <2>8. call'[d] = c /\ \A e \in Devices \ {d} : call'[e] = call[e]
    BY <1>0, <2>0 DEF Go
  <2>9. \A e \in Devices \ {d} :
          app[e].pending = None /\ (call[e] # None => call[e].op # "confirm")
    BY <2>1, NoOtherFirstRun
  <2>10. \A e \in Devices : app[e].rotation = None
    BY <2>2 DEF Backing, RotationFits
  <2>11. \A e \in Devices : PendingFits(app[e])'
    BY <1>0, <2>0, <2>1, <2>3, <2>4, <2>6, <2>7, <2>9 DEF PendingFits
  <2>12. \A e \in Devices : RotationFits(e)'
    BY <2>6, <2>7, <2>10 DEF RotationFits
  <2>13. ASSUME NEW e \in Devices, call'[e] # None PROVE CallKnows(app[e], call[e])'
    <3>1. CASE e = d
      BY <2>0, <2>4, <2>5, <2>8, <3>1 DEF CallKnows
    <3>2. CASE e # d
      <4>1. CallKnows(app[e], call[e]) /\ Fits(app[e], call[e]) /\ call[e] # None
        BY <2>8, <2>13, <3>2 DEF Backing, Types
      <4>2. call[e].op # "confirm" /\ call[e].op # "rekey"
        BY <2>9, <2>10, <3>2, <4>1 DEF Fits
      <4>3. call[e].pc # "publish" /\ (call[e].pc = "query" => call[e].op = "setup")
        BY <2>2, <4>1 DEF CallKnows
      <4>4. QED BY <2>8, <3>2, <4>2, <4>3 DEF CallKnows
    <3>3. QED BY <3>1, <3>2
  <2>14. BackupOpensTheAccount' /\ backup'.key <= fresh'
    BY <1>0, <2>0, <2>1, <2>2, <2>4 DEF BackupOpensTheAccount
  <2>15. QED BY <1>0, <2>0, <2>2, <2>4, <2>11, <2>12, <2>13, <2>14 DEF Backing
<1>2. CASE call[d].op = "rekey"
  <2> DEFINE r == app[d].rotation
             a == [app[d] EXCEPT !.rotation = None]
             b == [id |-> r.id, key |-> r.key]
  <2>0. /\ app' = [app EXCEPT ![d] = a] /\ Return(d) /\ backup' = b /\ held' = held \ {r.old}
    BY <1>0, <1>2 DEF PutIdentityBackup, Stored
  <2>1. /\ r # None /\ r.key \in held /\ r.key <= fresh /\ backup # None /\ r.id = backup.id
        /\ r.key # r.old
        /\ \A e \in Devices \ {d} : app[e].rotation # None =>
             r.key # app[e].rotation.key /\ r.key # app[e].rotation.old
    BY <1>0, <1>2 DEF Fits, CallKnows, RotationFits
  <2>2. b \in Backup /\ b.id = r.id /\ b.key = r.key /\ b # None
    <3>1. b \in Backup
      BY <2>1, PendingType DEF Backup
    <3>2. QED BY <3>1, IdentityAssumption
  <2>3. a.pending = app[d].pending /\ a.rotation = None
    BY <1>0 DEF App
  <2> HIDE DEF a, b
  <2>4. app'[d] = a /\ \A e \in Devices \ {d} : app'[e] = app[e]
    BY <1>0, <2>0
  <2>5. call'[d] = None /\ \A e \in Devices \ {d} : call'[e] = call[e]
    BY <1>0, <2>0 DEF Return
  <2>6. \A e \in Devices : PendingFits(app[e])'
    <3> TAKE e \in Devices
    <3>1. PendingFits(app[e]) /\ app'[e].pending = app[e].pending
      BY <2>3, <2>4 DEF Backing
    <3>2. QED BY <1>0, <2>0, <2>1, <2>2, <3>1 DEF PendingFits
  <2>7. \A e \in Devices : RotationFits(e)'
    <3> TAKE e \in Devices
    <3>1. CASE e = d
      BY <2>3, <2>4, <3>1 DEF RotationFits
    <3>2. CASE e # d
      <4>1. RotationFits(e)
        BY DEF Backing
      <4>2. QED BY <1>0, <2>0, <2>1, <2>2, <2>3, <2>4, <3>2, <4>1 DEF RotationFits
    <3>3. QED BY <3>1, <3>2
  <2>8. ASSUME NEW e \in Devices, call'[e] # None PROVE CallKnows(app[e], call[e])'
    <3>1. e # d /\ app'[e] = app[e] /\ call'[e] = call[e]
      BY <2>4, <2>5, <2>8
    <3>2. CallKnows(app[e], call[e]) /\ Fits(app[e], call[e]) /\ RotationFits(e) /\ PendingFits(app[e])
      BY <2>8, <3>1 DEF Backing, Types
    <3>3. call[e].op = "confirm" => call[e].pc # "put"
      BY <2>1, <2>8, <3>1, <3>2 DEF CallKnows, Fits, PendingFits
    <3>4. call[e].op = "rekey" => app[e].rotation.key \in held'
      <4>1. call[e].op = "rekey" => app[e].rotation # None /\ app[e].rotation.key \in held
        BY <2>8, <3>1, <3>2 DEF CallKnows, Fits
      <4>2. app[e].rotation # None => app[e].rotation.key # r.old
        BY <2>1, <3>2 DEF RotationFits
      <4>3. QED BY <2>0, <4>1, <4>2
    <3>5. QED BY <2>0, <2>1, <2>2, <3>1, <3>2, <3>3, <3>4 DEF CallKnows
  <2>9. BackupOpensTheAccount' /\ backup'.key <= fresh'
    BY <1>0, <2>0, <2>1, <2>2 DEF BackupOpensTheAccount, Backing
  <2>10. QED BY <1>0, <2>0, <2>1, <2>2, <2>6, <2>7, <2>8, <2>9 DEF Backing
<1>3. QED BY <1>0, <1>1, <1>2

LEMMA ManifestBacking ==
  ASSUME Types, Types', Backing, OneFirstRunNow', NEW d \in Devices,
         QueryManifest(d) \/ EmptyManifest(d)
  PROVE  Backing'
<1>1. CASE QueryManifest(d)
  BY <1>1, LearnedType, ListedBacking DEF QueryManifest
<1>2. CASE EmptyManifest(d)
  <2>1. app[d] \in App
    BY DEF Types, TypeOK
  <2>2. QED BY <1>2, <2>1, ListedBacking DEF EmptyManifest
<1>3. QED BY <1>1, <1>2

\* What is stored is signed under the backup's identity.
LEMMA StoredBacking ==
  ASSUME Types, Types', Backing, OneFirstRunNow', NEW d \in Devices, At(d, "publish", Ops),
         Store(d), Return(d), UNCHANGED <<backup, held, fresh>>,
         \A e \in Devices : /\ app'[e].pending \in {None, app[e].pending}
                           /\ app'[e].rotation \in {None, app[e].rotation}
  PROVE  Backing'
<1>1. backup # None /\ call[d].id = backup.id
  BY DEF At, Backing, CallKnows
<1>2. manifest'.id = backup.id
  BY <1>1 DEF Store, Signed
<1>3. \A e \in Devices : call'[e] \in {None, call[e]}
  BY DEF Return, Types, TypeOK
<1>4. QED BY <1>1, <1>2, <1>3, StillBacking

LEMMA PublishBacking ==
  ASSUME Types, Types', Backing, OneFirstRunNow', NEW d \in Devices,
         PublishStored(d) \/ PublishUnanswered(d) \/ PublishRefused(d)
  PROVE  Backing'
<1>0. app \in [Devices -> App] /\ app[d] \in App /\ call \in [Devices -> Call]
  BY DEF Types, TypeOK
<1>1. CASE PublishStored(d)
  <2> DEFINE p == IF call[d].op = "confirm" THEN None ELSE app[d].pending
             w == IF call[d].op = "remove" THEN app[d].flow ELSE "ready"
             a == [app[d] EXCEPT !.memo = Signed(d), !.linked = TRUE, !.pending = p, !.flow = w]
  <2>1. app' = [app EXCEPT ![d] = a]
    BY <1>0, <1>1 DEF PublishStored, Published
  <2>2. p \in {None, app[d].pending}
    OBVIOUS
  <2> HIDE DEF p, w
  <2>3. a.pending = p /\ a.rotation = app[d].rotation
    BY <1>0 DEF App
  <2> HIDE DEF a
  <2>4. app'[d] = a /\ \A e \in Devices \ {d} : app'[e] = app[e]
    BY <1>0, <2>1
  <2>5. \A e \in Devices : /\ app'[e].pending \in {None, app[e].pending}
                          /\ app'[e].rotation \in {None, app[e].rotation}
    BY <2>2, <2>3, <2>4
  <2>6. QED BY <1>1, <2>5, StoredBacking DEF PublishStored
<1>2. CASE PublishUnanswered(d)
  BY <1>2, StoredBacking DEF PublishUnanswered
<1>3. CASE PublishRefused(d)
  <2>0. /\ UNCHANGED <<backup, manifest, held, fresh, app>> /\ call[d] # None
        /\ call[d].pc = "publish" /\ CallKnows(app[d], call[d]) /\ Fits(app[d], call[d])
    BY <1>3 DEF PublishRefused, At, Backing, Types
  <2>1. CASE Return(d)
    BY <2>0, <2>1, ReturnBacking DEF Less
  <2>2. CASE ~(manifest.id # call[d].id \/ call[d].again)
    <3> DEFINE n == manifest.counter + 1
               c == [call[d] EXCEPT !.again = TRUE, !.counter = n]
    <3>1. Go(d, c)
      BY <1>3, <2>2 DEF PublishRefused
    <3> HIDE DEF n
    <3>2. c.pc = "publish" /\ c.op = call[d].op /\ c.id = call[d].id
      BY <2>0, DeviceTypes
    <3> HIDE DEF c
    <3>3. CallKnows(app[d], c)
      BY <2>0, <3>2 DEF CallKnows, Fits
    <3>4. QED BY <2>0, <3>1, <3>3, GoBacking
  <2>3. QED BY <1>3, <2>1, <2>2 DEF PublishRefused
<1>4. QED BY <1>1, <1>2, <1>3

\* What is thrown away unconfirmed locks nothing, and nobody else is about to store it.
LEMMA CancelBacking ==
  ASSUME Types, Types', Backing, OneFirstRunNow', NEW d \in Devices,
         CancelIdentitySetup(d) \/ CancelRecoveryKeyRotation(d)
  PROVE  Backing'
<1>0. /\ UNCHANGED <<backup, manifest, fresh, call>> /\ call[d] = None
      /\ PendingFits(app[d]) /\ RotationFits(d)
  BY DEF CancelIdentitySetup, CancelRecoveryKeyRotation, Quiet, Idle, Backing
<1>1. \A e \in Devices : Less(app'[e], app[e])
  BY CancelLess
<1>2. CASE held' = held
  BY <1>0, <1>1, <1>2, LessBacking
<1>3. CASE CancelIdentitySetup(d) /\ held' # held
  <2>1. backup = None /\ app[d].pending # None
    BY <1>0, <1>3 DEF CancelIdentitySetup, PendingFits
  <2>2. \A e \in Devices : app[e].rotation = None
    BY <2>1 DEF Backing, RotationFits
  <2>3. \A e \in Devices : PendingFits(app[e])' /\ RotationFits(e)'
    BY <1>0, <1>1, <2>2 DEF Backing, PendingFits, RotationFits, Less
  <2>4. ASSUME NEW e \in Devices, call'[e] # None PROVE CallKnows(app[e], call[e])'
    <3>1. e # d /\ call'[e] = call[e] /\ CallKnows(app[e], call[e]) /\ Fits(app[e], call[e])
      BY <1>0, <2>4 DEF Backing, Types
    <3>2. call[e].op # "confirm" /\ call[e].op # "rekey"
      BY <1>0, <2>1, <2>2, <2>4, <3>1, NoOtherFirstRun DEF Fits
    <3>3. QED BY <1>0, <3>1, <3>2 DEF CallKnows
  <2>5. QED BY <1>0, <2>1, <2>3, <2>4 DEF Backing, BackupOpensTheAccount
<1>4. CASE CancelRecoveryKeyRotation(d)
  <2> DEFINE r == app[d].rotation
  <2>1. r # None /\ held' = held \ {r.key}
    BY <1>4 DEF CancelRecoveryKeyRotation
  <2>2. backup # None /\ r.key # backup.key
    BY <1>0, <2>1 DEF RotationFits
  <2>3. \A e \in Devices : PendingFits(app[e])' /\ RotationFits(e)'
    BY <1>0, <1>1 DEF Backing, PendingFits, RotationFits, Less
  <2>4. ASSUME NEW e \in Devices, call'[e] # None PROVE CallKnows(app[e], call[e])'
    <3>1. /\ e # d /\ call'[e] = call[e] /\ CallKnows(app[e], call[e])
          /\ Fits(app[e], call[e]) /\ PendingFits(app[e]) /\ RotationFits(e)
      BY <1>0, <2>4 DEF Backing, Types
    <3>2. call[e].op = "confirm" => call[e].pc # "put"
      BY <1>0, <2>2, <2>4, <3>1 DEF CallKnows, Fits, PendingFits
    <3>3. call[e].op = "rekey" =>
            app[e].rotation # None /\ app[e].rotation.key \in held /\ app[e].rotation.key # r.key
      BY <1>0, <2>1, <2>4, <3>1 DEF CallKnows, Fits, RotationFits
    <3>4. call[e].op = "rekey" => app'[e].rotation = app[e].rotation
      <4>1. Fits(app'[e], call'[e])
        BY DEF Types, Fits
      <4>2. QED BY <1>1, <2>4, <3>1, <4>1 DEF Fits, Less
    <3>5. QED BY <1>0, <2>1, <3>1, <3>2, <3>3, <3>4 DEF CallKnows
  <2>5. BackupOpensTheAccount'
    BY <1>0, <2>1, <2>2 DEF Backing, BackupOpensTheAccount
  <2>6. QED BY <1>0, <2>3, <2>4, <2>5 DEF Backing
<1>5. QED BY <1>2, <1>3, <1>4

\* A confirmation stores what the user has the key of, or signs what is stored.
LEMMA ConfirmBacking ==
  ASSUME Types, Types', Backing, OneFirstRunNow', NEW d \in Devices,
         ConfirmIdentitySetup(d) \/ ConfirmRecoveryKeyRotation(d)
  PROVE  Backing'
<1>0. UNCHANGED <<backup, manifest, held, fresh, app>> /\ PendingFits(app[d])
  BY DEF ConfirmIdentitySetup, ConfirmRecoveryKeyRotation, Quiet, Backing
<1>1. CASE ConfirmIdentitySetup(d) /\ app[d].pending.stored
  <2> DEFINE n == NextCounter(pin[d])
             b == Start("confirm", "publish")
             c == [b EXCEPT !.id = app[d].pending.id, !.devs = {d}, !.counter = n]
  <2>1. Go(d, c) /\ app[d].pending # None
    BY <1>1 DEF ConfirmIdentitySetup
  <2> HIDE DEF n
  <2>2. c.op = "confirm" /\ c.pc = "publish" /\ c.id = app[d].pending.id
    BY DEF Start
  <2> HIDE DEF c
  <2>3. CallKnows(app[d], c)
    BY <1>0, <1>1, <2>1, <2>2 DEF CallKnows, PendingFits
  <2>4. QED BY <1>0, <2>1, <2>3, GoBacking
<1>2. CASE ConfirmIdentitySetup(d) /\ ~app[d].pending.stored
  <2>1. Go(d, Start("confirm", "put")) /\ app[d].pending.key \in held
    BY <1>2 DEF ConfirmIdentitySetup
  <2>2. CallKnows(app[d], Start("confirm", "put"))
    BY <1>2, <2>1 DEF CallKnows, Start
  <2>3. QED BY <1>0, <2>1, <2>2, GoBacking
<1>3. CASE ConfirmRecoveryKeyRotation(d)
  <2>1. Go(d, Start("rekey", "put")) /\ app[d].rotation.key \in held
    BY <1>3 DEF ConfirmRecoveryKeyRotation
  <2>2. CallKnows(app[d], Start("rekey", "put"))
    BY <2>1 DEF CallKnows, Start
  <2>3. QED BY <1>0, <2>1, <2>2, GoBacking
<1>4. QED BY <1>1, <1>2, <1>3

LEMMA UserBacking ==
  ASSUME Types, Types', Backing, OneFirstRunNow', NEW d \in Devices,
         Gate(d) \/ WithKey(d) \/ BeginIdentitySetup(d)
  PROVE  Backing'
<1>1. CASE BeginIdentitySetup(d)
  <2>1. CallKnows(app[d], Start("begin", "get"))
    BY DEF CallKnows, Start
  <2>2. QED BY <1>1, <2>1, GoBacking DEF BeginIdentitySetup, Quiet
<1>2. CASE SaveRecoveryKey(d)
  <2>1. held \subseteq held' /\ UNCHANGED <<backup, manifest, fresh, app, call>>
    BY <1>2 DEF SaveRecoveryKey, Quiet
  <2>2. QED BY <2>1, LessBacking DEF Less
<1>3. CASE WithKey(d)
  <2>1. PICK k \in held : \/ LinkDevice(d, k) \/ BeginRecoveryKeyRotation(d, k)
                         \/ \E t \in Devices : RemoveDevice(d, t, k)
    BY <1>3 DEF WithKey
  <2>2. UNCHANGED <<backup, manifest, held, fresh, app>>
    BY <2>1 DEF LinkDevice, BeginRecoveryKeyRotation, RemoveDevice, Quiet
  <2>3. CASE LinkDevice(d, k) \/ BeginRecoveryKeyRotation(d, k)
    <3>1. PICK op \in {"link", "rotate"} : Go(d, [Start(op, "get") EXCEPT !.key = k])
      BY <2>3 DEF LinkDevice, BeginRecoveryKeyRotation
    <3> DEFINE c == [Start(op, "get") EXCEPT !.key = k]
    <3>2. c.op = op /\ c.pc = "get"
      BY DEF Start
    <3> HIDE DEF c
    <3>3. CallKnows(app[d], c)
      BY <3>2 DEF CallKnows
    <3>4. QED BY <2>2, <3>1, <3>3, GoBacking DEF c
  <2>4. CASE \E t \in Devices : RemoveDevice(d, t, k)
    <3>1. PICK t \in Devices : RemoveDevice(d, t, k)
      BY <2>4
    <3> DEFINE c == [Start("remove", "get") EXCEPT !.key = k, !.target = t]
    <3>2. c.op = "remove" /\ c.pc = "get" /\ Go(d, c)
      BY <3>1 DEF Start, RemoveDevice
    <3> HIDE DEF c
    <3>3. CallKnows(app[d], c)
      BY <3>2 DEF CallKnows
    <3>4. QED BY <2>2, <3>2, <3>3, GoBacking
  <2>5. QED BY <2>1, <2>3, <2>4
<1>4. QED BY <1>1, <1>2, <1>3, CancelBacking, ConfirmBacking DEF Gate

LEMMA BackingStep ==
  ASSUME Types, Types', Backing, [CalmNext /\ OneFirstRun]_vars PROVE Backing'
<1>1. CASE UNCHANGED vars
  BY <1>1 DEF vars, Backing, PendingFits, RotationFits, CallKnows, OneFirstRunNow, FirstRun,
     BackupOpensTheAccount
<1>2. CASE CalmNext /\ OneFirstRun
  <2>1. OneFirstRunNow'
    BY <1>2 DEF OneFirstRun, OneFirstRunNow
  <2>2. PICK d \in Devices : DeviceNext(d)
    BY <1>2 DEF CalmNext
  <2>3. CASE Directory(d)
    <3>1. GetIdentityBackup(d) => Backing'
      BY <2>1, GetIdentityBackupBacking
    <3>2. QueryManifest(d) => Backing'
      BY <2>1, ManifestBacking
    <3>3. PutIdentityBackup(d) => Backing'
      BY <2>1, PutIdentityBackupBacking
    <3>4. PublishStored(d) \/ PublishRefused(d) => Backing'
      BY <2>1, PublishBacking
    <3>5. QED BY <2>3, <3>1, <3>2, <3>3, <3>4 DEF Directory
  <2>4. CASE Failure(d)
    <3>1. NoAnswer(d) \/ StoreError(d) => Backing'
      BY <2>1, LostBacking
    <3>2. PublishUnanswered(d) => Backing'
      BY <2>1, PublishBacking
    <3>3. EmptyManifest(d) => Backing'
      BY <2>1, ManifestBacking
    <3>4. QED BY <2>4, <3>1, <3>2, <3>3 DEF Failure
  <2>5. Session(d) => Backing'
    BY <2>1, SessionBacking
  <2>6. Gate(d) \/ WithKey(d) \/ BeginIdentitySetup(d) => Backing'
    BY <2>1, UserBacking
  <2>7. QED BY <2>2, <2>3, <2>4, <2>5, <2>6 DEF DeviceNext
<1>3. QED BY <1>1, <1>2

\* The recovery key the user has opens what the directory stores, and what is in it is
\* the identity the account is bound to (ConfirmIdentitySetup, CancelIdentitySetup,
\* ConfirmRecoveryKeyRotation, CancelRecoveryKeyRotation, app_identity.go): through any
\* number of re-keyings at once on several devices, links, removals, sign-offs, crashes
\* and lost answers to a fetch or a publication, with one first run at a time.
THEOREM BackupHolds == CalmSpec => []BackupOpensTheAccount
<1>1. Init => Types /\ Backing
  BY InitTypes, InitBacking
<1>2. Types /\ Backing /\ [CalmNext /\ OneFirstRun]_vars => (Types /\ Backing)'
  <2>1. [CalmNext /\ OneFirstRun]_vars => [Next]_vars
    BY DEF Next
  <2>2. QED BY <2>1, TypesStep, BackingStep
<1>3. Types /\ Backing => BackupOpensTheAccount
  BY DEF Backing
<1>4. QED BY <1>1, <1>2, <1>3, PTL DEF CalmSpec
=============================================================================
