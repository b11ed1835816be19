-------------------------- MODULE AccountIdentity --------------------------
(***************************************************************************)
(* One account's encryption identity: the backup and the device manifest   *)
(* the key directory stores, and on each of the account's devices the      *)
(* first run, linking, removal and re-keying that read and replace them.   *)
(*                                                                         *)
(* A call is a chain of round trips, one server step each; between them    *)
(* every other device may act.  The directory is external: it stores any   *)
(* backup, and a manifest of its pinned identity at a higher counter.      *)
(* An identity is named by the recovery key minted with it, and a manifest *)
(* stands for its own bytes.  Signatures and the backup's lock are assumed.*)
(***************************************************************************)
EXTENDS Naturals

CONSTANTS
  Devices,      \* the machines that sign on to the account
  None,         \* nothing stored, nothing remembered
  Upsets,       \* what may go wrong: a subset of UpsetKinds
  MaxKeys,      \* bound: recovery keys the account ever mints
  MaxRemovals,  \* bound: removals the user asks for
  MaxUpsets     \* bound: upsets, all told

\* `outrun`: a list refused because another device published first is signed again
\* though it names somebody the winner does not.  `outcast`: a device that finds itself
\* removed goes on with a removal of its own.  These two are allowed, not counted.
UpsetKinds == {"crash", "drop", "signoff", "clear", "lost", "error", "outrun", "outcast"}

ASSUME IdentityBounds ==
  MaxKeys \in Nat /\ MaxRemovals \in Nat /\ MaxUpsets \in Nat

VARIABLES
  backup,    \* the directory's identity backup
  manifest,  \* the directory's manifest
  app,       \* each device's session and what its process remembers
  pin,       \* each device's own-identity pin, in memory and in the trust file
  call,      \* the call each device is in
  held,      \* the recovery keys the user has saved and not thrown away
  out,       \* history: devices the user removed and has not linked since
  fresh, removals, upsets

vars == <<backup, manifest, app, pin, call, held, out, fresh, removals, upsets>>

Keys     == 1..MaxKeys
Backup   == [id : Keys, key : Keys]
Manifest == [id : Keys, counter : Nat \ {0}, devs : SUBSET Devices]
Pending  == [id : Keys, key : Keys, stored : BOOLEAN]

ASSUME IdentityAssumption ==
  /\ None \notin Devices \cup Nat \cup Backup \cup Manifest \cup Pending
  /\ Upsets \subseteq UpsetKinds

\* `leaving`: a SignOff goroutine has been started and has not run yet.
App == [on : BOOLEAN, flow : {"", "unavailable", "setup", "link", "ready"},
        linked : BOOLEAN, leaving : BOOLEAN, memo : Manifest \cup {None},
        pending  : Pending \cup {None},
        rotation : [id : Keys, key : Keys, old : Keys] \cup {None}]

Off == [on |-> FALSE, flow |-> "", linked |-> FALSE, leaving |-> FALSE,
        memo |-> None, pending |-> None, rotation |-> None]

Ops == {"setup", "begin", "confirm", "link", "remove", "rotate", "rekey"}

Call == [op : Ops, pc : {"get", "query", "put", "publish"}, key : Keys \cup {None},
         id : Keys \cup {None}, target : Devices \cup {None},
         devs : SUBSET Devices, counter : Nat, again : BOOLEAN] \cup {None}

Start(op, pc) == [op |-> op, pc |-> pc, key |-> None, id |-> None, target |-> None,
                  devs |-> {}, counter |-> 0, again |-> FALSE]

TypeOK ==
  /\ backup \in Backup \cup {None}
  /\ manifest \in Manifest \cup {None}
  /\ app \in [Devices -> App]
  /\ pin \in [Devices -> Manifest \cup {None}]
  /\ call \in [Devices -> Call]
  /\ held \subseteq Keys /\ out \subseteq Devices
  /\ fresh \in 0..MaxKeys /\ removals \in 0..MaxRemovals /\ upsets \in 0..MaxUpsets

Init ==
  /\ backup = None /\ manifest = None
  /\ app = [d \in Devices |-> Off]
  /\ pin = [d \in Devices |-> None]
  /\ call = [d \in Devices |-> None]
  /\ held = {} /\ out = {} /\ fresh = 0 /\ removals = 0 /\ upsets = 0

Upset(kind) == kind \in Upsets /\ upsets < MaxUpsets /\ upsets' = upsets + 1

Allowed(condition, kind) == condition => kind \in Upsets

At(d, pc, ops) == call[d] # None /\ call[d].pc = pc /\ call[d].op \in ops

Idle(d) == app[d].on /\ call[d] = None

Return(d) == call' = [call EXCEPT ![d] = None]

Go(d, step) == call' = [call EXCEPT ![d] = step]

Show(d, flow) == app' = [app EXCEPT ![d].flow = flow]

-----------------------------------------------------------------------------
(* What a fetched manifest teaches. *)

Replaced(d, m) == pin[d] # None /\ pin[d].id # m.id

Stale(d, m) ==
  pin[d] # None /\ pin[d].id = m.id /\ m # pin[d] /\ m.counter <= pin[d].counter

\* A manifest already seen, or refused by the counter rule, teaches nothing.
Teaches(d, m) == m # None /\ m # app[d].memo /\ ~Stale(d, m)

\* Mutant: not being listed signs a device off even if it never was.
LearnedAlways(d, m) ==
  IF ~Teaches(d, m) THEN app[d]
  ELSE LET listed == d \in m.devs /\ ~Replaced(d, m)
       IN  [app[d] EXCEPT !.memo = m, !.linked = listed, !.leaving = @ \/ ~listed]

\* verifyManifest and onSelfManifest: the memo, whether we are listed, and the
\* sign-off of a device that was removed or whose account was replaced.
Learned(d, m) ==
  IF ~Teaches(d, m) THEN app[d]
  ELSE LET listed == d \in m.devs /\ ~Replaced(d, m)
       IN  [app[d] EXCEPT !.memo = m, !.linked = listed,
              !.leaving = @ \/ Replaced(d, m) \/ (app[d].linked /\ ~listed)]

\* acceptCounter: the pin follows its own identity upwards, and never moves to another.
Pinned(d, m) == IF Teaches(d, m) /\ ~Replaced(d, m) THEN m ELSE pin[d]

DevicesIn(memo) == IF memo = None THEN {} ELSE memo.devs

NextCounter(p) == IF p = None THEN 1 ELSE p.counter + 1

-----------------------------------------------------------------------------
(* Sessions. *)

\* setupE2EE forgets the last session's view of the manifest and starts setupIdentity.
SignOn(d) ==
  /\ ~app[d].on /\ call[d] = None
  /\ app' = [app EXCEPT ![d] = [@ EXCEPT !.on = TRUE, !.flow = "", !.linked = FALSE,
                                         !.memo = None]]
  /\ Go(d, Start("setup", "get"))
  /\ UNCHANGED <<backup, manifest, pin, held, fresh, out, removals, upsets>>

\* SignOff throws away what was never confirmed; a round trip under way is not answered.
SignedOff(d) ==
  /\ app' = [app EXCEPT ![d] = [@ EXCEPT !.on = FALSE, !.leaving = FALSE,
               !.flow = "unavailable", !.pending = None, !.rotation = None]]
  /\ Return(d)
  /\ UNCHANGED <<backup, manifest, pin, held, fresh, out, removals>>

SignOff(d) == app[d].on /\ Upset("signoff") /\ SignedOff(d)

\* What a device says when it could not read the directory: sign in again.
StartOver(d) == Idle(d) /\ app[d].flow = "unavailable" /\ SignedOff(d) /\ UNCHANGED upsets

Leave(d) == app[d].on /\ app[d].leaving /\ SignedOff(d) /\ UNCHANGED upsets

\* A connection that fails keeps what was pending; a process that dies keeps nothing.
Drop(d) ==
  /\ app[d].on /\ Upset("drop")
  /\ app' = [app EXCEPT ![d].on = FALSE, ![d].leaving = FALSE]
  /\ Return(d)
  /\ UNCHANGED <<backup, manifest, pin, held, fresh, out, removals>>

Crash(d) ==
  /\ app[d].on /\ Upset("crash")
  /\ app' = [app EXCEPT ![d] = Off]
  /\ Return(d)
  /\ UNCHANGED <<backup, manifest, pin, held, fresh, out, removals>>

\* The administrator clears the account's key directory.
AdminClear ==
  /\ backup # None /\ Upset("clear")
  /\ backup' = None /\ manifest' = None
  /\ UNCHANGED <<app, pin, call, held, fresh, out, removals>>

-----------------------------------------------------------------------------
(* Round trips that fail.  A lost answer is a timeout, whether or not the  *)
(* directory acted.  An error SNAC is delivered as an empty reply: to a    *)
(* fetch it reads as "nothing there", to a store as a refusal.             *)

Unreached(d) ==
  IF call[d].op = "setup" THEN Show(d, "unavailable") ELSE UNCHANGED app

NoAnswer(d) ==
  /\ call[d] # None /\ Upset("lost")
  /\ Unreached(d) /\ Return(d)
  /\ UNCHANGED <<backup, manifest, pin, held, fresh, out, removals>>

-----------------------------------------------------------------------------
(* Fetching the backup. *)

\* A first run's keys live in memory until they are confirmed; shown again, never remade.
Minted(d) ==
  IF app[d].pending = None /\ fresh < MaxKeys
  THEN /\ app' = [app EXCEPT ![d].pending =
                    [id |-> fresh + 1, key |-> fresh + 1, stored |-> FALSE]]
       /\ fresh' = fresh + 1
  ELSE UNCHANGED <<app, fresh>>

NoBackup(d) ==
  /\ Return(d)
  /\ CASE call[d].op \in {"setup", "link"} -> Show(d, "setup") /\ UNCHANGED fresh
       [] call[d].op = "begin"             -> Minted(d)
       [] OTHER                            -> UNCHANGED <<app, fresh>>

\* BeginRecoveryKeyRotation opens the backup and mints the key that is to replace this one.
RotationMinted(d) ==
  IF fresh < MaxKeys
  THEN /\ app' = [app EXCEPT ![d].rotation =
                    [id |-> backup.id, key |-> fresh + 1, old |-> call[d].key]]
       /\ fresh' = fresh + 1
  ELSE UNCHANGED <<app, fresh>>

\* LinkDevice, RemoveDevice and BeginRecoveryKeyRotation open the backup with the user's key.
Opened(d) ==
  IF call[d].key # backup.key THEN Return(d) /\ UNCHANGED <<app, fresh>>
  ELSE IF call[d].op = "rotate" THEN RotationMinted(d) /\ Return(d)
  ELSE /\ Go(d, [call[d] EXCEPT !.pc = "query", !.id = backup.id])
       /\ UNCHANGED <<app, fresh>>

\* Mutant: setting up trusts the screen it was started from.
FoundBackupUnchecked(d) ==
  CASE call[d].op = "setup" -> /\ Go(d, Start("setup", "query"))
                               /\ UNCHANGED <<app, fresh>>
    [] call[d].op = "begin" -> Minted(d) /\ Return(d)
    [] OTHER                -> Opened(d)

FoundBackup(d) ==
  CASE call[d].op = "setup" -> /\ Go(d, Start("setup", "query"))
                               /\ UNCHANGED <<app, fresh>>
    [] call[d].op = "begin" -> Show(d, "link") /\ Return(d) /\ UNCHANGED fresh
    [] OTHER                -> Opened(d)

GetIdentityBackup(d) ==
  /\ At(d, "get", Ops)
  /\ IF backup = None THEN NoBackup(d) ELSE FoundBackup(d)
  /\ UNCHANGED <<backup, manifest, pin, held, out, removals, upsets>>

EmptyBackup(d) ==
  /\ At(d, "get", Ops) /\ Upset("error")
  /\ NoBackup(d)
  /\ UNCHANGED <<backup, manifest, pin, held, out, removals>>

-----------------------------------------------------------------------------
(* Fetching the manifest: what comes back is learned before the caller goes on. *)

\* Mutant: this machine and the target both stay.
ListWithTarget(d, memo) == DevicesIn(memo) \cup {d}

\* The list a link or a removal signs: the last one verified, with this machine in it.
ListToSign(d, memo) ==
  IF call[d].op = "link" THEN DevicesIn(memo) \cup {d}
  ELSE (DevicesIn(memo) \cup {d}) \ {call[d].target}

Listed(d, state, p) ==
  CASE call[d].op = "setup" ->
         /\ app' = [app EXCEPT ![d] =
                      [state EXCEPT !.flow = IF state.linked THEN "ready" ELSE "link"]]
         /\ Return(d)
    [] call[d].op = "remove" /\ call[d].target \notin DevicesIn(state.memo) ->
         app' = [app EXCEPT ![d] = state] /\ Return(d)
    [] OTHER ->
         /\ Allowed(call[d].op = "remove" /\ d \notin DevicesIn(state.memo), "outcast")
         /\ app' = [app EXCEPT ![d] = state]
         /\ Go(d, [call[d] EXCEPT !.pc = "publish", !.counter = NextCounter(p),
                                  !.devs = ListToSign(d, state.memo)])

QueryManifest(d) ==
  /\ At(d, "query", Ops)
  /\ pin' = [pin EXCEPT ![d] = Pinned(d, manifest)]
  /\ Listed(d, Learned(d, manifest), Pinned(d, manifest))
  /\ UNCHANGED <<backup, manifest, held, fresh, out, removals, upsets>>

EmptyManifest(d) ==
  /\ At(d, "query", Ops) /\ Upset("error")
  /\ Listed(d, app[d], pin[d])
  /\ UNCHANGED <<backup, manifest, pin, held, fresh, out, removals>>

-----------------------------------------------------------------------------
(* Storing the backup. *)

Stored(d) ==
  IF call[d].op = "confirm"
  THEN /\ backup' = [id |-> app[d].pending.id, key |-> app[d].pending.key]
       /\ app' = [app EXCEPT ![d].pending.stored = TRUE]
       /\ Go(d, [call[d] EXCEPT !.pc = "publish", !.id = app[d].pending.id,
                                !.devs = {d}, !.counter = NextCounter(pin[d])])
       /\ UNCHANGED held
  ELSE \* The user is told the old recovery key no longer works, and drops it.
       /\ backup' = [id |-> app[d].rotation.id, key |-> app[d].rotation.key]
       /\ app' = [app EXCEPT ![d].rotation = None]
       /\ held' = held \ {app[d].rotation.old}
       /\ Return(d)

PutIdentityBackup(d) ==
  /\ At(d, "put", {"confirm", "rekey"})
  /\ Stored(d)
  /\ UNCHANGED <<manifest, pin, fresh, out, removals, upsets>>

\* The directory stored it and the answer did not come: the caller reports a failure.
PutUnanswered(d) ==
  /\ At(d, "put", {"confirm", "rekey"}) /\ Upset("lost")
  /\ backup' = IF call[d].op = "confirm"
               THEN [id |-> app[d].pending.id, key |-> app[d].pending.key]
               ELSE [id |-> app[d].rotation.id, key |-> app[d].rotation.key]
  /\ Return(d)
  /\ UNCHANGED <<manifest, app, pin, held, fresh, out, removals>>

-----------------------------------------------------------------------------
(* Publishing a manifest. *)

Signed(d) == [id |-> call[d].id, counter |-> call[d].counter, devs |-> call[d].devs]

Accepted(m) == manifest # None => (manifest.id = m.id /\ m.counter > manifest.counter)

\* The directory stores the manifest; a removal in it is done, a link undoes one.
Store(d) ==
  /\ manifest' = Signed(d)
  /\ out' = IF call[d].op = "remove" THEN out \cup {call[d].target} ELSE out \ {d}

\* What a device records of its own publication, and how the caller ends.
Published(d) ==
  /\ pin' = [pin EXCEPT ![d] = Signed(d)]
  /\ app' = [app EXCEPT ![d] =
       [@ EXCEPT !.memo = Signed(d), !.linked = TRUE,
                 !.pending = IF call[d].op = "confirm" THEN None ELSE app[d].pending,
                 !.flow = IF call[d].op = "remove" THEN app[d].flow ELSE "ready"]]

PublishStored(d) ==
  /\ At(d, "publish", Ops) /\ Accepted(Signed(d))
  /\ Store(d)
  /\ Published(d) /\ Return(d)
  /\ UNCHANGED <<backup, held, fresh, removals, upsets>>

\* The list names somebody whom the list that was published first does not.
Outrun(d) ==
  LET others == IF call[d].op = "remove" THEN call[d].devs ELSE call[d].devs \ {d}
  IN  ~ (others \subseteq manifest.devs)

\* A refusal carries the counter to beat: the same list is signed once more, above it.
PublishRefused(d) ==
  /\ At(d, "publish", Ops) /\ ~Accepted(Signed(d))
  /\ IF manifest.id # call[d].id \/ call[d].again THEN Return(d)
     ELSE /\ Allowed(Outrun(d), "outrun")
          /\ Go(d, [call[d] EXCEPT !.again = TRUE, !.counter = manifest.counter + 1])
  /\ UNCHANGED <<backup, manifest, app, pin, held, fresh, out, removals, upsets>>

PublishUnanswered(d) ==
  /\ At(d, "publish", Ops) /\ Accepted(Signed(d)) /\ Upset("lost")
  /\ Store(d)
  /\ Return(d)
  /\ UNCHANGED <<backup, app, pin, held, fresh, removals>>

StoreError(d) ==
  /\ At(d, "put", Ops) \/ At(d, "publish", Ops)
  /\ Upset("error") /\ Return(d)
  /\ UNCHANGED <<backup, manifest, app, pin, held, fresh, out, removals>>

-----------------------------------------------------------------------------
(* The user. *)

Quiet == <<backup, manifest, pin, out, fresh, upsets>>

BeginIdentitySetup(d) ==
  /\ Idle(d) /\ app[d].flow = "setup"
  /\ Go(d, Start("begin", "get"))
  /\ UNCHANGED <<Quiet, app, held, removals>>

\* The gate: the key on screen is saved before anything is stored under it.
SaveRecoveryKey(d) ==
  /\ app[d].on
  /\ \/ app[d].pending # None /\ held' = held \cup {app[d].pending.key}
     \/ app[d].rotation # None /\ held' = held \cup {app[d].rotation.key}
  /\ held' # held
  /\ UNCHANGED <<Quiet, app, call, removals>>

ConfirmIdentitySetup(d) ==
  /\ Idle(d) /\ app[d].pending # None /\ app[d].pending.key \in held
  /\ Go(d, IF app[d].pending.stored
           THEN [Start("confirm", "publish") EXCEPT !.id = app[d].pending.id,
                    !.devs = {d}, !.counter = NextCounter(pin[d])]
           ELSE Start("confirm", "put"))
  /\ UNCHANGED <<Quiet, app, held, removals>>

\* What was generated is gone, and the user throws the useless key away, unless
\* told that the identity was saved under it.
CancelIdentitySetup(d) ==
  /\ Idle(d) /\ app[d].pending # None
  /\ app' = [app EXCEPT ![d].pending = None]
  /\ held' = IF app[d].pending.stored THEN held ELSE held \ {app[d].pending.key}
  /\ UNCHANGED <<Quiet, call, removals>>

LinkDevice(d, k) ==
  /\ Idle(d) /\ app[d].flow = "link"
  /\ Go(d, [Start("link", "get") EXCEPT !.key = k])
  /\ UNCHANGED <<Quiet, app, held, removals>>

RemoveDevice(d, t, k) ==
  /\ Idle(d) /\ app[d].flow = "ready" /\ t # d
  /\ removals < MaxRemovals /\ removals' = removals + 1
  /\ Go(d, [Start("remove", "get") EXCEPT !.key = k, !.target = t])
  /\ UNCHANGED <<Quiet, app, held>>

BeginRecoveryKeyRotation(d, k) ==
  /\ Idle(d) /\ app[d].flow = "ready"
  /\ app[d].pending = None /\ app[d].rotation = None
  /\ fresh < MaxKeys
  /\ Go(d, [Start("rotate", "get") EXCEPT !.key = k])
  /\ UNCHANGED <<Quiet, app, held, removals>>

ConfirmRecoveryKeyRotation(d) ==
  /\ Idle(d) /\ app[d].rotation # None /\ app[d].rotation.key \in held
  /\ Go(d, Start("rekey", "put"))
  /\ UNCHANGED <<Quiet, app, held, removals>>

CancelRecoveryKeyRotation(d) ==
  /\ Idle(d) /\ app[d].rotation # None
  /\ app' = [app EXCEPT ![d].rotation = None]
  /\ held' = held \ {app[d].rotation.key}
  /\ UNCHANGED <<Quiet, call, removals>>

-----------------------------------------------------------------------------
Directory(d) ==
  \/ GetIdentityBackup(d) \/ QueryManifest(d)
  \/ PutIdentityBackup(d) \/ PublishStored(d) \/ PublishRefused(d)

Session(d) == SignOn(d) \/ SignOff(d) \/ StartOver(d) \/ Leave(d) \/ Drop(d) \/ Crash(d)

\* Failures that cost a retry, and failures that cost more.
Failure(d) == NoAnswer(d) \/ PublishUnanswered(d) \/ StoreError(d) \/ EmptyManifest(d)

Misread(d) == PutUnanswered(d) \/ EmptyBackup(d)

WithKey(d) ==
  \E k \in held :
    \/ LinkDevice(d, k) \/ BeginRecoveryKeyRotation(d, k)
    \/ \E t \in Devices : RemoveDevice(d, t, k)

Gate(d) ==
  \/ SaveRecoveryKey(d) \/ ConfirmIdentitySetup(d) \/ CancelIdentitySetup(d)
  \/ ConfirmRecoveryKeyRotation(d) \/ CancelRecoveryKeyRotation(d)

DeviceNext(d) ==
  Directory(d) \/ Session(d) \/ Failure(d) \/ WithKey(d) \/ Gate(d) \/ BeginIdentitySetup(d)

CalmNext == \E d \in Devices : DeviceNext(d)

Next == CalmNext \/ AdminClear \/ \E d \in Devices : Misread(d)

Spec == Init /\ [][Next]_vars

\* Only one device at a time is in a first run that it has not finished.
FirstRun(d) == app[d].pending # None \/ (call[d] # None /\ call[d].op \in {"begin", "confirm"})

OneFirstRun == \A d, e \in Devices : FirstRun(d)' /\ FirstRun(e)' => d = e

\* What each device does if nothing goes wrong for long enough: the directory
\* answers, a sign-off that was started happens, and the user signs on and, with
\* the key of the backup, goes on linking a device that is found not to be in.
LinkWithTheKey(d) == backup # None /\ backup.key \in held /\ LinkDevice(d, backup.key)

Progress(d) ==
  Directory(d) \/ Leave(d) \/ StartOver(d) \/ SignOn(d) \/ BeginIdentitySetup(d)

Fairness == \A d \in Devices : WF_vars(Progress(d)) /\ SF_vars(LinkWithTheKey(d))

CalmSpec == Init /\ [][CalmNext /\ OneFirstRun]_vars /\ Fairness

FairSpec == Spec /\ Fairness

-----------------------------------------------------------------------------
\* Whatever the backup on the directory is locked with, the user has that key:
\* through cancelled set-ups, re-keyings on two devices, sign-offs and crashes. And it
\* holds the private half of the identity the account is bound to: otherwise no device
\* can be linked or removed ever again.
BackupOpensTheAccount ==
  backup # None => /\ backup.key \in held
                   /\ manifest # None => backup.id = manifest.id

\* A device the user removed stays out of the list until it is linked again.
RemovedStayOut == manifest # None => manifest.devs \cap out = {}

\* Once the account is set up, a user who has the key gets every device in, each
\* time it is found out: after a crash, a sign-off, a removal or another device's
\* re-keying and publishing in between.
DevicesGetIn ==
  \A d \in Devices : (manifest # None /\ app[d].flow # "ready") ~> app[d].flow = "ready"
=============================================================================
