--------------------------- MODULE SessionHistory ---------------------------
(***************************************************************************)
(* Signing on and off, and the message history that must survive it: the   *)
(* steps of doSignOn, the read loop and what it does when it ends, and the *)
(* savers that copy the store to the account's file.                       *)
(*                                                                         *)
(* A thread is one conversation or one room with what was said in it; the  *)
(* store and the files hold threads, each with the account it belongs to.  *)
(* A key is a number, 0 for none; a file whose key is 0 is the plain JSON  *)
(* of older versions.  Retention is off.                                   *)
(***************************************************************************)
EXTENDS Naturals, Sequences, FiniteSets

CONSTANTS
  Accounts,
  Chats, Rooms,  \* threads: pairs of the account a thread belongs to and its name
  None,
  Upsets,      \* what may go wrong: a subset of UpsetKinds
  MaxSignOns,  \* bound: sessions brought up
  MaxKeys,     \* bound: history keys minted
  MaxUpsets    \* bound: upsets, all told

\* `overlap`: a sign-on before the last session's loop has finished.  `kicked`: a
\* session that ends before doSignOn does.  `race`: two savers at once, or one
\* across the end of the session.  `toggle`: history switched on in a session that
\* had no key.  `forget`: the last thread forgotten.  `disk`: a file that cannot be
\* written, or cannot be removed.
UpsetKinds == {"refused", "locked", "drop", "crash",
               "overlap", "kicked", "race", "toggle", "forget", "disk"}

ASSUME HistoryAssumption ==
  /\ Upsets \subseteq UpsetKinds /\ None \notin Accounts
  /\ \A t \in Chats \cup Rooms : t[1] \in Accounts
  /\ Chats \cap Rooms = {}
ASSUME HistoryBounds == MaxSignOns \in Nat /\ MaxKeys \in Nat /\ MaxUpsets \in Nat

VARIABLES
  form,     \* doSignOn in progress: its step and its account
  loops,    \* the read loop of each session so far
  cur,      \* Client.session, by its loop; 0 is nil
  status,   \* the last session status the UI was sent
  store,    \* the threads in memory
  hist,     \* histAccount and histKey
  on,       \* cfg.HistoryOn
  timer,    \* the save that is due: its two seconds ahead of it, or running out
  savers,   \* saves in progress: the timer's and the user's
  signKey,  \* the account the client was last given the signing key of, or told of none for
  keyring,  \* each account's history key in the secret store
  minted,   \* the last key minted
  file,     \* each account's history file
  removed,  \* threads the user removed and no file has had since: while history was kept, or not
  unsaved,  \* history: threads in a save that failed, until one succeeds
  upsets

conn == <<form, loops, cur, status, signKey>>
disk == <<keyring, minted, file, unsaved>>
vars == <<conn, store, hist, on, timer, savers, disk, removed, upsets>>

Keys    == 0..MaxKeys
Threads == Chats \cup Rooms
Of(a)   == {t \in Threads : t[1] = a}

Steps == {"key", "load", "sign", "login", "bos", "list", "online", "account", "e2ee"}

Form == [step : Steps, account : Accounts]

Loop == [account : Accounts \cup {None}, pc : {"run", "reset", "gone", "done"}, ending : BOOLEAN,
         attest : {"asked", "settled", "other"}]

Saver == [pc : {"chats", "rooms", "write", "clear", "unlink", "off"}, op : {"flush", "persist", "signoff"},
          account : Accounts \cup {None}, key : Keys, has : SUBSET Threads]

ASSUME NoneAssumption == None \notin Saver \cup [key : Keys, has : SUBSET Threads]

TypeOK ==
  /\ form \in Form \cup {None}
  /\ loops \in Seq(Loop) /\ cur \in 0..Len(loops)
  /\ status \in {"signing-on", "online", "offline", "error"}
  /\ store \subseteq Threads
  /\ hist \in [account : Accounts \cup {None}, key : Keys]
  /\ on \in BOOLEAN /\ timer \in {"off", "set", "waning"}
  /\ savers \in [{"timer", "user"} -> Saver \cup {None}]
  /\ signKey \in Accounts \cup {None}
  /\ minted \in Keys /\ keyring \in [Accounts -> 0..minted]
  /\ file \in [Accounts -> [key : 0..minted, has : SUBSET Threads] \cup {None}]
  /\ removed \in [Threads -> {"no", "memory", "file"}] /\ unsaved \subseteq Threads
  /\ upsets \in 0..MaxUpsets

Over     == [account |-> None, pc |-> "done", ending |-> FALSE, attest |-> "settled"]
NoHist   == [account |-> None, key |-> 0]
NoSavers == [s \in {"timer", "user"} |-> None]

Init ==
  /\ form = None /\ loops = <<>> /\ cur = 0 /\ status = "offline" /\ signKey = None
  /\ store = {} /\ hist = NoHist /\ timer = "off" /\ savers = NoSavers
  /\ on \in BOOLEAN
  /\ keyring = [a \in Accounts |-> 0] /\ minted = 0
  /\ \E old \in SUBSET {a \in Accounts : Of(a) # {}} :
       file = [a \in Accounts |-> IF a \in old THEN [key |-> 0, has |-> Of(a)] ELSE None]
  /\ removed = [t \in Threads |-> "no"] /\ unsaved = {} /\ upsets = 0

Upset(kind) == kind \in Upsets /\ upsets < MaxUpsets /\ upsets' = upsets + 1

UpsetIf(condition, kind) == IF condition THEN Upset(kind) ELSE UNCHANGED upsets

-----------------------------------------------------------------------------
(* Signing on. *)

After ==
  [key |-> "load", load |-> "sign", sign |-> "login", login |-> "bos", bos |-> "list",
   list |-> "online", online |-> "account", account |-> "e2ee"]

At(step) == form # None /\ form.step = step

Proceed == form' = [form EXCEPT !.step = After[form.step]]

\* The screen with the form is up until a session is.
SignIn(a) ==
  /\ form = None /\ status # "online" /\ savers["user"] = None
  /\ Len(loops) < MaxSignOns /\ (keyring[a] # 0 \/ minted < MaxKeys)
  /\ UpsetIf(\E i \in DOMAIN loops : loops[i].pc # "done", "overlap")
  /\ form' = [step |-> "key", account |-> a] /\ status' = "signing-on"
  /\ UNCHANGED <<loops, cur, signKey, store, hist, on, timer, savers, disk, removed>>

\* setupHistoryKey, with a keyring and cfg.HistoryOn: a key that cannot be read is not
\* replaced, a key that was never there is minted.
SetsKey(a, ring, kept, reachable) ==
  LET Key(k) == hist' = [hist EXCEPT !.key = k]
  IN  IF ~kept \/ ~reachable THEN Key(0) /\ keyring' = ring /\ UNCHANGED minted
      ELSE IF ring[a] # 0 THEN Key(ring[a]) /\ keyring' = ring /\ UNCHANGED minted
      ELSE /\ minted < MaxKeys
           /\ minted' = minted + 1 /\ Key(minted') /\ keyring' = [ring EXCEPT ![a] = minted']

SetupHistoryKey ==
  /\ At("key") /\ Proceed
  /\ \E reachable \in BOOLEAN :
       SetsKey(form.account, keyring, on, reachable) /\ UpsetIf(~reachable, "locked")
  /\ UNCHANGED <<loops, cur, status, signKey, store, on, timer, savers, file, removed, unsaved>>

Opens(f, key) == f.key = 0 \/ f.key = key

\* A file that cannot be read stops saving for the session; no file is no history.
LoadHistory ==
  /\ At("load") /\ Proceed
  /\ LET f == file[form.account]
     IN  IF ~on THEN UNCHANGED <<store, hist>>
         ELSE IF f = None THEN store' = {} /\ UNCHANGED hist
         ELSE IF Opens(f, hist.key) THEN store' = f.has /\ UNCHANGED hist
         ELSE store' = store /\ hist' = [hist EXCEPT !.key = 0]
  /\ UNCHANGED <<loops, cur, status, signKey, on, timer, savers, disk, removed, upsets>>

SetupSigningKey ==
  /\ At("sign") /\ Proceed
  /\ signKey' = form.account
  /\ UNCHANGED <<loops, cur, status, store, hist, on, timer, savers, disk, removed, upsets>>

\* doSignOn returns the error; nothing it set up is undone.
SignOnFails ==
  /\ form' = None /\ status' = "error"
  /\ UNCHANGED <<loops, cur>>

Refused(step) ==
  /\ At(step) /\ IF step = "login" /\ cur # 0 THEN UNCHANGED upsets ELSE Upset("refused")
  /\ SignOnFails

\* Login, the BOS handshake, the buddy list; after them the session announces itself,
\* and the server asks the device to prove itself, once.
Login        == At("login") /\ cur = 0 /\ Proceed /\ UNCHANGED <<loops, cur, status, upsets>>
Handshake    == At("bos") /\ Proceed /\ UNCHANGED <<loops, cur, status, upsets>>
LoadBuddies  == At("list") /\ Proceed /\ UNCHANGED <<loops, cur, status, upsets>>

GoOnline ==
  /\ At("online") /\ Proceed
  /\ loops' = Append(loops, [account |-> form.account, pc |-> "run", ending |-> FALSE, attest |-> "asked"])
  /\ cur' = Len(loops')
  /\ UNCHANGED <<status, upsets>>

Connect ==
  /\ \/ Login \/ Handshake \/ LoadBuddies \/ GoOnline
     \/ Refused("login") \/ Refused("bos") \/ Refused("list") \/ Refused("online")
  /\ UNCHANGED <<signKey, store, hist, on, timer, savers, disk, removed>>

\* scheduleHistorySave, for the account this leaves in hist: the timer that is running
\* is stopped, and its two seconds start again.
ScheduleSave(account) == timer' = IF on /\ account # None THEN "set" ELSE timer

\* Mutant: saving starts with the next message.
PersistsLater ==
  /\ At("account") /\ Proceed
  /\ hist' = [hist EXCEPT !.account = form.account]
  /\ UNCHANGED <<loops, cur, status, signKey, store, on, timer, savers, disk, removed, upsets>>

PersistsFor ==
  /\ At("account") /\ Proceed
  /\ hist' = [hist EXCEPT !.account = form.account]
  /\ ScheduleSave(form.account)
  /\ UNCHANGED <<loops, cur, status, signKey, store, on, savers, disk, removed, upsets>>

SignedOn ==
  /\ At("e2ee") /\ form' = None /\ status' = "online"
  /\ UNCHANGED <<loops, cur, signKey, store, hist, on, timer, savers, disk, removed, upsets>>

-----------------------------------------------------------------------------
(* The read loop, and what it does when it ends. *)

LoopGoes(i, pc) == loops' = [loops EXCEPT ![i].pc = pc]

MessageArrives(i, thread) ==
  /\ loops[i].pc = "run" /\ thread \in Of(loops[i].account)
  /\ store' = store \cup {thread} /\ removed' = [removed EXCEPT ![thread] = IF @ = "no" THEN "no" ELSE "memory"]
  /\ ScheduleSave(hist.account)
  /\ UNCHANGED <<conn, hist, on, savers, disk, upsets>>

\* A session that is over, or a keychain that gave no key, leaves it unanswered.
AnswerAttestChallenge(i) ==
  /\ loops[i].pc = "run" /\ loops[i].attest = "asked"
  /\ loops' = [loops EXCEPT ![i].attest =
                 IF cur = 0 \/ signKey = loops[i].account THEN "settled" ELSE "other"]
  /\ UNCHANGED <<form, cur, status, signKey, store, hist, on, timer, savers, disk, removed, upsets>>

LoopEnds(i) ==
  /\ loops[i].pc = "run"
  /\ IF loops[i].ending THEN UNCHANGED upsets ELSE Upset(IF form # None THEN "kicked" ELSE "drop")
  /\ LoopGoes(i, "reset") /\ cur' = IF cur = i THEN 0 ELSE cur
  /\ UNCHANGED <<form, status, signKey, store, hist, on, timer, savers, disk, removed>>

ResetStore(i) ==
  /\ loops[i].pc = "reset" /\ LoopGoes(i, "gone")
  /\ UpsetIf(savers # NoSavers, "race")
  /\ store' = {}
  /\ UNCHANGED <<form, cur, status, signKey, hist, on, timer, savers, disk, removed>>

\* Mutant: the account and its timer outlive the session.
DisconnectKeeps(i) ==
  /\ loops[i].pc = "gone" /\ loops' = [loops EXCEPT ![i] = Over]
  /\ status' = status
  /\ UNCHANGED <<form, cur, signKey, store, hist, on, timer, savers, disk, removed, upsets>>

OnDisconnect(i) ==
  /\ loops[i].pc = "gone" /\ loops' = [loops EXCEPT ![i] = Over]
  /\ UpsetIf(savers # NoSavers, "race")
  /\ hist' = NoHist /\ timer' = "off" /\ status' = "offline"
  /\ UNCHANGED <<form, cur, signKey, store, on, savers, disk, removed>>

-----------------------------------------------------------------------------
(* Saving. *)

Persisting == on /\ hist.account # None /\ hist.key # 0

Save(op) == [pc |-> "chats", op |-> op, account |-> hist.account, key |-> hist.key, has |-> {}]

\* What a saver does next once there is nothing to write.
Done(s) == savers' = [savers EXCEPT ![s] = IF @.op = "signoff" THEN [@ EXCEPT !.pc = "off"] ELSE None]

\* Time passes: a message that comes now finds the timer still running.
TimerWanes ==
  /\ timer = "set" /\ timer' = "waning"
  /\ UNCHANGED <<conn, store, hist, on, savers, disk, removed, upsets>>

\* One timer's save at a time.
TimerFires ==
  /\ timer = "waning" /\ savers["timer"] = None
  /\ UpsetIf(savers["user"] # None, "race")
  /\ timer' = "off"
  /\ savers' = IF Persisting THEN [savers EXCEPT !["timer"] = Save("flush")] ELSE savers
  /\ UNCHANGED <<conn, store, hist, on, disk, removed>>

SaverAt(s, pc) == savers[s] # None /\ savers[s].pc = pc

TakeChats(s) ==
  /\ SaverAt(s, "chats")
  /\ savers' = [savers EXCEPT ![s].pc = "rooms", ![s].has = store \cap Chats]
  /\ UNCHANGED <<conn, store, hist, on, timer, disk, removed, upsets>>

\* Mutant: a flush of nothing is written too.
WritesNothing(op, has) == IF has = {} /\ op = "persist" THEN "clear" ELSE "write"

\* Mutant: no save writes nothing.
SkipsNothing(op, has) == IF has # {} THEN "write" ELSE "skip"

\* flushHistory skips an empty snapshot, persistHistoryNow clears the file for it.
NextOf(op, has) ==
  IF has # {} THEN "write" ELSE IF op = "persist" THEN "clear" ELSE "skip"

TakeRooms(s) ==
  /\ SaverAt(s, "rooms")
  /\ LET has == savers[s].has \cup (store \cap Rooms)
         pc  == NextOf(savers[s].op, has)
     IN  IF pc = "skip" THEN Done(s)
         ELSE savers' = [savers EXCEPT ![s].pc = pc, ![s].has = has]
  /\ UNCHANGED <<conn, store, hist, on, timer, disk, removed, upsets>>

\* A temporary file and a rename: the file is replaced whole.
Write(s) ==
  /\ SaverAt(s, "write")
  /\ file' = [file EXCEPT ![savers[s].account] = [key |-> savers[s].key, has |-> savers[s].has]]
  /\ removed' = [t \in Threads |->
                   IF t \in savers[s].has /\ removed[t] = "memory" THEN "no" ELSE removed[t]]
  /\ unsaved' = unsaved \ savers[s].has
  /\ Done(s)
  /\ UNCHANGED <<conn, store, hist, on, timer, keyring, minted, upsets>>

ClearFile(s) ==
  /\ SaverAt(s, "clear")
  /\ file' = [file EXCEPT ![savers[s].account] = None] /\ Done(s)
  /\ UNCHANGED <<conn, store, hist, on, timer, keyring, minted, removed, unsaved, upsets>>

Kept(a) == IF file[a] = None THEN {} ELSE file[a].has

\* What was to leave a file and has not, because the save did not come to its end.
StillThere ==
  [t \in Threads |-> IF removed[t] = "file" /\ t \in Kept(t[1]) THEN "memory" ELSE removed[t]]

\* history.Save's error is logged, history.Clear's dropped; nothing tries again.
SaveFails(s) ==
  /\ SaverAt(s, "write") \/ SaverAt(s, "clear")
  /\ Upset("disk") /\ Done(s)
  /\ removed' = StillThere /\ unsaved' = unsaved \cup savers[s].has
  /\ UNCHANGED <<conn, store, hist, on, timer, keyring, minted, file>>

-----------------------------------------------------------------------------
(* What the user does while signed on, one thing at a time. *)

User == status = "online" /\ form = None /\ savers["user"] = None

\* The user acts while a save runs, or on a session that is being torn down.
Racing == savers["timer"] # None \/ cur = 0

\* A save the user's action ends with, when history is being kept.
UserSaves(op) ==
  savers' = IF Persisting THEN [savers EXCEPT !["user"] = Save(op)] ELSE savers

Removes(thread) ==
  /\ store' = store \ {thread}
  /\ removed' = [removed EXCEPT ![thread] = IF Persisting THEN "file" ELSE "memory"]

ClearConversation(thread) ==
  /\ User /\ thread \in store \cap Chats
  /\ UpsetIf(Racing, "race")
  /\ Removes(thread)
  /\ UserSaves("persist")
  /\ UNCHANGED <<conn, hist, on, timer, disk>>

ForgetRoom(thread) ==
  /\ User /\ thread \in store \cap Rooms
  /\ IF Racing THEN Upset("race") ELSE UpsetIf(store = {thread}, "forget")
  /\ Removes(thread)
  /\ UserSaves("flush")
  /\ UNCHANGED <<conn, hist, on, timer, disk>>

\* Memory first, then the file and its key, and a new key for the rest of the session.
ClearHistory ==
  /\ User /\ hist.account # None /\ minted < MaxKeys
  /\ UpsetIf(Racing, "race")
  /\ store' = {}
  /\ savers' = [savers EXCEPT !["user"] = [Save("flush") EXCEPT !.pc = "unlink"]]
  /\ UNCHANGED <<conn, hist, on, timer, disk, removed>>

Unlink ==
  /\ SaverAt("user", "unlink")
  /\ LET a == savers["user"].account
     IN  /\ file' = [file EXCEPT ![a] = None]
         /\ removed' = [t \in Threads |-> IF t \in Of(a) \ store THEN "file" ELSE removed[t]]
         /\ \E reachable \in BOOLEAN :
              /\ UpsetIf(~reachable, "locked")
              /\ LET ring == IF reachable THEN [keyring EXCEPT ![a] = 0] ELSE keyring
                 IN  IF hist.account # None THEN SetsKey(hist.account, ring, on, reachable)
                     ELSE keyring' = ring /\ UNCHANGED <<hist, minted>>
  /\ savers' = [savers EXCEPT !["user"] = None]
  /\ UNCHANGED <<conn, store, on, timer, unsaved>>

\* ClearHistory returns the error: the file and its key stay, what was in memory is gone.
UnlinkFails ==
  /\ SaverAt("user", "unlink") /\ Upset("disk")
  /\ savers' = [savers EXCEPT !["user"] = None]
  /\ removed' = [t \in Threads |->
                   IF t \in Of(savers["user"].account) \ store /\ removed[t] = "no" THEN "memory"
                   ELSE removed[t]]
  /\ UNCHANGED <<conn, store, hist, on, timer, disk>>

DisableHistory ==
  /\ User /\ on /\ on' = FALSE /\ timer' = "off"
  /\ UpsetIf(Racing, "race")
  /\ UNCHANGED <<conn, store, hist, savers, disk, removed>>

\* Enabling retries a key that could not be had at sign-on.
EnableHistory ==
  /\ User /\ ~on /\ on' = TRUE /\ timer' = IF hist.account # None THEN "set" ELSE timer
  /\ LET keyless == hist.account # None /\ hist.key = 0
     IN  /\ UpsetIf(Racing \/ keyless, IF Racing THEN "race" ELSE "toggle")
         /\ IF keyless THEN SetsKey(hist.account, keyring, TRUE, TRUE)
            ELSE UNCHANGED <<hist, keyring, minted>>
  /\ UNCHANGED <<conn, store, savers, file, removed, unsaved>>

SignOff ==
  /\ User
  /\ UpsetIf(Racing, "race")
  /\ savers' = [savers EXCEPT !["user"] =
                  IF Persisting THEN Save("signoff") ELSE [Save("signoff") EXCEPT !.pc = "off"]]
  /\ UNCHANGED <<conn, store, hist, on, timer, disk, removed>>

\* Client.SignOff: the session is nil at once, its loop ends when it notices.
ClientSignOff ==
  /\ SaverAt("user", "off")
  /\ savers' = [savers EXCEPT !["user"] = None]
  /\ loops' = IF cur = 0 THEN loops ELSE [loops EXCEPT ![cur].ending = TRUE]
  /\ cur' = 0 /\ status' = "offline"
  /\ UNCHANGED <<form, signKey, store, hist, on, timer, disk, removed, upsets>>

Crash ==
  /\ Upset("crash")
  /\ form' = None /\ cur' = 0 /\ status' = "offline" /\ signKey' = None
  /\ loops' = [i \in DOMAIN loops |-> Over]
  /\ store' = {} /\ hist' = NoHist /\ timer' = "off" /\ savers' = NoSavers
  /\ removed' = StillThere
  /\ UNCHANGED <<on, disk>>

-----------------------------------------------------------------------------
FormStep == SetupHistoryKey \/ LoadHistory \/ SetupSigningKey \/ Connect \/ PersistsFor \/ SignedOn

LoopStep(i) ==
  \/ AnswerAttestChallenge(i) \/ ResetStore(i) \/ OnDisconnect(i)
  \/ loops[i].ending /\ LoopEnds(i)

SaverStep(s) == TakeChats(s) \/ TakeRooms(s) \/ Write(s) \/ ClearFile(s) \/ SaveFails(s)

LoopRuns   == \E i \in DOMAIN loops : LoopStep(i)
SaversRun  == TimerFires \/ Unlink \/ UnlinkFails \/ ClientSignOff \/ \E s \in {"timer", "user"} : SaverStep(s)

UserActs ==
  \/ \E a \in Accounts : SignIn(a)
  \/ \E thread \in store : ClearConversation(thread) \/ ForgetRoom(thread)
  \/ ClearHistory \/ DisableHistory \/ EnableHistory \/ SignOff

Next ==
  \/ FormStep \/ LoopRuns \/ SaversRun \/ TimerWanes \/ UserActs \/ Crash
  \/ \E i \in DOMAIN loops : LoopEnds(i) \/ \E thread \in Threads : MessageArrives(i, thread)

\* Goroutines run, time passes, and the server answers a sign-on or closes on it.
Fairness == WF_vars(FormStep) /\ WF_vars(LoopRuns) /\ WF_vars(SaversRun) /\ WF_vars(TimerWanes)

Spec == Init /\ [][Next]_vars /\ Fairness

\* What the code cannot give: that those who write to us pause, now and then, for two
\* seconds.  Each message starts the timer again.
Pauses == SF_vars(TimerFires)

PausingSpec == Spec /\ Pauses

-----------------------------------------------------------------------------
(* Properties. *)

\* A thread leaves an account's file only because the user removed it or cleared the
\* history: no locked keychain, failed sign-on, lost connection, crash or switch of
\* the setting loses it ("It will NOT overwrite the existing file", doSignOn; "leaves
\* any existing file until the user clears it", SetHistoryEnabled).
HistoryIsNotLost ==
  [][\A a \in Accounts : \A t \in Kept(a) \ Kept(a)' :
       removed'[t] # "no" \/ SaverAt("user", "unlink")]_vars

\* An account's file holds only its own threads, under its own key: "a save can't pair
\* one session's account with another's key" (historySession), nor with its store. And
\* the server's one challenge of a session finds the key of the session's own account
\* already loaded, or a keychain that would not give it (doSignOn's order).
AccountsStayApart ==
  /\ \A a \in Accounts :
       /\ Kept(a) \subseteq Of(a)
       /\ file[a] # None => file[a].key \in {0, keyring[a]}
  /\ \A i \in DOMAIN loops : loops[i].attest # "other"

\* What the user removed while history was kept does not come back from the file ("so
\* it doesn't come back", ClearConversation; "from the list and from saved history",
\* ForgetRoom), unless the save that should have taken it out failed or was cut short
\* by a crash.
RemovedStaysRemoved ==
  savers["user"] = None => \A t \in Threads : removed[t] = "file" => t \notin Kept(t[1])

\* The UI is told what the client's session is: after any sign-on, loss or sign-off
\* the two agree again.
StatusSettles == []<>((status = "online") = (cur # 0))

\* What is said while history is kept reaches the file, if the session and the setting
\* last, the messages pause, and the save does not fail: what comes in during sign-on too.
\* A save that failed is not tried again, but the next one has its threads too.
MessagesAreSaved ==
  \A t \in Threads :
    (t \in store /\ Persisting /\ hist.account = t[1])
      ~> (t \in Kept(t[1]) \/ t \notin store \/ ~Persisting \/ t \in unsaved)
=============================================================================
