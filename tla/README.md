# BENCchat: the specifications beside the code

TLA+ modules that model the core of BENCchat, the TLC runs that check them on
small instances, and theorems about them that TLAPS checks for every instance.
All source paths are relative to `src/`. `PROJECT.json` holds the same
information for tools: which definition translates which lines, which run checks
which property, and which hazards of the code each property is for.

## 1. The system

BENCchat is a desktop client for an OSCAR chat server. The server carries
bytes and knows who is signed on; everything about encryption happens in the
clients. Layers: `internal/wire` (bytes) → `internal/oscar` (sessions) →
`internal/client` (protocol, rooms, keys) → `internal/state` (one store under
one mutex, with events) → package `main` (`app*.go`, what the user interface
calls). `internal/{roomkeys,history,config,secret,trust}` persist;
`internal/e2ee` is the cryptography.

| component | state it keeps | what is hard | what makes it correct | module |
|---|---|---|---|---|
| Room chain sending (`client/room_e2ee.go`, `client/chat.go`) | per room: our chain, its position, what is reserved, shared?, stale? | sends run on goroutines of their own; the lock is dropped around every file operation; the process may die at any step | one position, one message, for ever; a promise on disk before a seal; a retired chain never seals | RoomChainSend |
| Room file (`internal/roomkeys`, `mergedRoomEntry`) | per room: chain, reservation, views, members, owner, epochs, tombstones | read-merge-write under no lock; unreadable file | saved marks only ratchet; no room lost | RoomChainSend, RoomMembership |
| Room membership (`app_room_e2ee.go`, `e2ee/roster.go`) | owner pin, members, tombstones, epochs | rosters late, twice, lost, out of order; members add concurrently; restarts | a removal sticks until the owner says otherwise; the owner's word is one | RoomMembership |
| Chain distribution and views (`client/room_e2ee.go`, `e2ee/{chaindist,ratchet}.go`) | a view per chain, positions seen | one broadcast hands a chain out; a bundle hands everybody's to a newcomer; who is away hears neither | whoever was removed reads nothing sealed later; a newcomer nothing sealed earlier; members read it all | ChainViews |
| Room history and catch-up (`MergeCatchup`, `serveCatchup`) | the rows of a room | recovered rows overlap live ones | each message shows once, as it was said; what was missed is recovered | RoomHistory |
| Joining rooms (`client/chat.go`) | reply channels of capacity one, connections | late replies; a goroutine per connection | a join ends in the room it asked for | RoomJoin |
| Direct messages out (`client/client.go`) | sends waiting for an answer | answer, error and timer race; the directory decides the seal | each send ends in one outcome, the true one; seals never step back | MessageSend |
| Messages in (`client/{client,e2ee}.go`) | placeholders, badges, duplicates seen | messages come before their keys | each is opened in the end, once, and in its place | Inbox |
| Account identity (`app_identity.go`, `app_recovery.go`, `app_keydir.go`) | identity key, backup, signed device list | several writes to several places, from several devices | a key the user has always opens the backup; a removed device stays out | AccountIdentity |
| Key directory client (`client/keydir.go`, `trust`) | keys and marks per peer | no answer, an old answer | no rollback | AccountIdentity, MessageSend, Inbox |
| Buddy list (`oscar/feedbag_edit.go`) | a mirror of the server's items | an edit is several messages; other devices edit too | everybody agrees; a move never severs | BuddyList |
| Connection requests (`client/connections.go`, `oscar/feedbag_auth.go`) | pending marks, requests | acceptance and refusal cross | what is shown is what holds | Connections |
| Session and history (`app.go`, `oscar/session.go`, `history`) | session, history key, files | a session's end runs beside the next sign-on; savers race | accounts stay apart; nothing is lost that was not removed | SessionHistory |
| Transfer (`app_transfer.go`) | a device's state as a bundle | merges over a running session | never weakens a pin | only its restore |
| Rate limiter, envelopes, wire format, presence and profiles, user interface | none, or display | – | assumed | not modelled |

A room's name is all it takes to enter it; who can READ it is what chains
decide. Each member has a chain of its own and hands the room a *view* of it,
sealed to each member's devices; a removal makes every member replace its chain
before it next sends. So secrecy after a removal rests on three things: that a
chain behaves (RoomChainSend), that everybody learns who is in the room
(RoomMembership), and that chains then go to those people and nobody else
(ChainViews, which composes membership, sending and reading in one room).

## 2. The modules

Conventions. A step is what the code does without giving up its lock or its
place: a critical section, a handler of a read loop, one round trip. `Max…`
constants are bounds of the model and stand only in guards. What may go wrong is
a set `Upsets` of named kinds, spent one at a time up to `MaxUpsets`; a kind
guards the schedules its comment describes, so that a run says exactly which
faults it allows. Variables marked *history* are written by the actions and read
by the properties alone.

### RoomChainSend: one device sending into its rooms

Every goroutine that touches a chain is a *job*: a sender runs
`SendRoomMessage`, a keeper runs a save, a removal or a restore. A job's steps
are the critical sections of the code: `roomCrypto.mu` is held within a step and
never between two.

| model | code |
|---|---|
| `mem[r]`, `disk[r]` | `roomKeys` less the views; `roomkeys.Room` less the membership |
| `job[t].file` | the store a job has loaded and not yet saved |
| `StartSend` … `SealRoomMessage` | `ensureRoomChainDistributed`, `EnsureOutboundChain`, `reserveChainPositions`, `sealRoomMessage` |
| `LoadFile`, `ExportChain`, `ExportStale`, `WriteFile`, `FileFails` | `persistRoomChain` and `saveRoomKeys`: load, the two locked reads of `mergedRoomEntry`, replace, fail |
| `StartRestore` … `RestoreStale`, `RestoreFails` | `restoreRoomKeys`, `applyRoomEntry` |
| `SignOff`, `Crash` | the session ends with memory kept; the process ends |

Two specifications share the actions. `Spec` interleaves everything.
`OneWindowSpec` keeps two jobs from being in the file or reservation window
(`InWindow`) at the same time. **Nothing in the code does that**: it is the
schedules in which the windows happen not to overlap, and what a lock across
them would give. `chain_lost_update` shows why the distinction is needed.
`ForwardChains` is the abstract specification, messages each sealed past
everything its chain sealed before; RoomChainSend implements it
(`ChainsOnlyMoveForward`, a refinement with `log` read off `sealed`).

### RoomMembership: every member's belief about one room

One device for each screen name, one of them the creator. Messages are a set
that never shrinks: anything sent may arrive at any time, in any order, any
number of times, or never. `room[n]` and `file[n]` are memory and
`roomkeys.Room`; `call[n]` is the user's call stopped between its saves and
sends (`InviteToRoom` in four sections, `rekeyRoom` in three, accepting an invitation
in two: the room entered and its owner pinned, `AcceptRoomInvite`, then what the
roster says of removals and members, `AdoptRoster`); `OwnersRoster`,
`MembersRoster`, `RosterRefused`, `RosterForUnknownRoom` are `applyRoster`;
`Save` and `MergedEntry` are `saveRoomKeys` and `mergedRoomEntry`.

`told`, `retired`, `minted` and `blind` are history. `told` is filled by
delivery alone, never by what the device made of it, so the properties compare
a device's belief with something it did not compute. `CalmSpec` leaves out an
arrival between two sections of a call on the same device (`Undisturbed`), a
first invitation still unanswered, or half accepted, when the owner's next removal
arrives, and an invitation waiting for a room already known (`Calm`); section 4
says what happens there.

Abstractions: signatures are assumed; an epoch is a natural number far from its
width; a restart takes long enough for the clock to pass the last stamp; a chain
is its number.

### ChainViews: who can read what in one room

Each person's client holds members, tombstones, its own chain and a view of
every chain (the earliest position it opens); `file` is what a restart gives
back. A send is `SendRoomMessage` (which mints), `DistributeChain` or
`BroadcastFails`, `SealRoomMessage`; an invitation is `InviteToRoom`,
`SendInvite` with its `ChainBundleFor`, `TellMembers`; accepting is
`AcceptRoomInvite` and `AdoptInviteState`. The room's queue and the 1:1 queue
are each in order and read independently. `said`, `invited`, `before` and
`missed` are history: each message with whom it was meant for and whom its
sender knew to be removed; who has been sent an invitation, and what its sender
had seen said by then, except what the newcomer could open already or had under
way to them; and what was meant for somebody who could not open it.

### RoomHistory: what each member shows

Rows, the in-memory duplicates, the catch-up request of a rejoin
(`requestRoomCatchup`, one member asked), the answer cut to the newest `Limit`,
and `MergeCatchup` by sender, second and text. Message `n` is said in second `n`. A
row heard live has a time within its second and a recovered one the whole second
(`whole`): the two sort differently (`Earlier`), and a request for what came after
a second leaves out a row recovered at it (`Served`).

### RoomJoin: the handshake over three connections

One join at a time (`joinMu`) over the session, the ChatNav connection and the
room's; replies carry no name of their request and go into two channels of
capacity one. `Await`/`AwaitTimesOut` are `await`; `ConnStep` is each
connection's goroutine; `CloseAllChat` and `ResetStore` end a session.

### MessageSend: a message from the composer to its outcome

A call seals with cached keys or asks the directory first (`sealOutbound`),
writes, stores the row and then registers for the answer (`trackSend`);
`HostAck`, `ICBMErr` and `AckTimeout` settle it. A manifest is its counter; 0 is
none, and a seal of 0 is the clear. A call keeps the session it began on, while
the directory is asked through `Client.session`: a sign-off clears that first and
closes the connection later (`SignOff`, then `Close`), and a lookup begun in between
asks nobody, which counts as having no keys (`AskNobody`, upset `unasked`). A resend
takes its row out before it looks for a session, so without one the row is lost.

### Inbox: what arrives

`HandleICBM` (show, act, wait or drop), `HandleKeyDir` with the three things
learnt keys set off (`retryPendingDecrypts`, `retryPendingRosters`, the badges),
a room's loop in its two steps `RoomDecode` and `AddRoomMessage`, and the
directory's answers. Peers link and unlink devices.

### AccountIdentity: first run, linking, removal, re-keying

Each call of each device is its chain of directory round trips
(`GetIdentityBackup`, `QueryManifest`, `PutIdentityBackup`, `PublishStored`/
`PublishRefused`), with every other device free to act between two. `held` is
the recovery keys the user has saved. `CalmSpec` leaves out an administrator's
reset, an answer taken for another (`Misread`), and two devices in an unfinished
first run at once.

### SessionHistory: signing on and off, and the history file

`doSignOn` step by step (`form`), each session's read loop (`loops`), the two
savers each as copy conversations, copy rooms, write. A thread is a conversation
or a room with what was said in it and belongs to an account. A write or a removal of
the file may fail (`SaveFails`, `UnlinkFails`, upset `disk`), which the code logs or
drops; what was to leave the file and is still in it then is no longer promised to be
gone (`StillThere`, for a crash in mid-save too), and `unsaved` is history: the threads
of a failed save, until one succeeds. The save's timer is `set`, and `waning` once time has passed; a message sets it
again (`ScheduleSave`), whatever was left of its two seconds.

### BuddyList and Connections

BuddyList has the items themselves: two devices' mirrors, each edit as the list
of operations `feedbag_edit.go` computes, sent one by one, stored by the server
as told and relayed one by one. Connections abstracts an entry to none, pending
or plain, and has the four goroutines that touch it: the interface's call, the
read loop, and one each for a refused add (`CheckAccepted` … `Decide`) and for a
severed connection (`Forget` … `PublishSevered`). An insert, a delete or the new order
of the group that goes after it may be refused by the rate limiter (`UiRefused`,
`BgRefused`, upset `paced`): the call or the goroutine then ends with the mirror
changed and nothing published. `unsent` is history: whom this happened to, until a
sign-on reads the list anew. One simplification: `ClearPending` changes the mirror,
`Session.buddyList` and the store in one step, where the code holds `pendingMu`, which
calls of the interface do not take; a call of the interface in between is of the kind
`overtaken`, which no run allows, and no theorem but `TypeCorrect`.

## 3. The runs

Every run sets `CHECK_DEADLOCK FALSE`: with its bounds used up and no user at
the keys the system really does stop.

| run | question | properties |
|---|---|---|
| `chain_window` | with windows that do not overlap, do crashes, failed writes, sign-offs, restores and removals ever reuse a position, seal without a promise or under a retired chain, or send in the clear, unless a restore could not read the file? no | NoPositionReused, PromiseOnDisk, PositionsAreReserved, RetiredNeverSeals, NeverClearWhenSaved, ChainsOnlyMoveForward |
| `chain_lost_update` | and with every interleaving? **A position is reused**: a save writes back the file it read before a send's promise | NoPositionReused, violated |
| `members_calm` | do removals stick, are chains retired, is the owner's word one, do saved marks ratchet, over lost, late and repeated rosters, restarts and failed saves? yes | RemovalsStick, RetiredChainsStayRetired, OwnersWordIsOne, SavedMarksOnlyRatchet |
| `views_calm` | who reads what, over sends, invitations, removals, departures and restarts in every order? | NewcomersReadForward, RemovedReadNothing, MembersCanRead |
| `history_calm` | does each message show once and is what was missed recovered? | RowsAreWhatWasSaid, MissedIsRecovered |
| `join_calm` | do joins get their own replies, return, and leave store and connections agreed? | RepliesAreTheirOwn, RoomsAgree, OkMeansThere, JoinsReturn |
| `send_calm` | is "not sent" never said of what was delivered, does no seal step back while lookups and the sign-off keep apart, is every live row settled? | NotSentIsNotDelivered, SealsNeverStepBack, SendsSettle |
| `inbox_calm` | does each message go once to its place, whenever its keys come, and each badge settle? | EachInItsPlace, EveryMessageGetsThrough, BadgesSettle |
| `identity_calm` | does some key the user has open the account, does a removal hold, does every device get in? | BackupOpensTheAccount, RemovedStayOut, DevicesGetIn |
| `session_calm` | are accounts kept apart, is nothing lost that was not removed, does nothing removed come back, is everything saved once messages pause, does the status agree, but for what a failed save was to remove or to add? | AccountsStayApart, RemovedStaysRemoved, HistoryIsNotLost, StatusSettles, MessagesAreSaved |
| `buddies_calm` | do two devices and the server agree after edits that stop half way? | ListsAgree, BlocksAreEnforced, MovesDontSever |
| `connect_calm` | is what is shown what holds, and are answers told apart from removals, of everybody but whom a refused send was about? | PendingIsTrue, AnswersAreTold, AcceptanceShows |

Bounds, and why they are enough.
`chain_window`: two senders, one keeper, two chains, blocks of two, two
messages, two loads of the file, one unreadable: enough to use a block up,
replace a chain, fail a write and come back. `members_calm`: an owner and two
members are the least in which one member's roster can bring back another whom
the owner removed; three calls are invite, invite, remove, or invite, remove,
invite again; each device mints two chains. Once something has gone wrong, calls and chains
are three in all (`FewTogether`). `views_calm`: three people, two messages and two
moves are an invitation and a removal, or a departure and a return, around
messages before and after, with a broadcast that fails, an invitation crossed by
a removal, a re-admission or a second invitation among them; with three, no
roster of the owner's can cross the announcement of somebody it leaves out, which
takes a fourth person and was checked apart (section 4, "undone": without it the
same four people pass, in a million states). `join_calm`: two
rooms, two sessions and four connections are two joins, each with a ChatNav
connection of its own after a drop, or a room left and joined again. `send_calm`:
two texts in flight at once, two manifests so that one can be old. `inbox_calm`:
two messages of any kind over two sessions and a linked device. `history_calm`:
answers of one row, so that two missed messages are cut. `identity_calm`: two
devices, three recovery keys, two removals, so that a device linked again is
removed again. `session_calm`: two accounts, two
sessions, two keys; one account has a conversation and a room, so that one is removed
beside the other, and either could end in the other account's file. `buddies_calm`: two devices, two people, two groups, three
edits. `connect_calm`: two people, three calls, two of their answers, two
sessions, so that somebody is added, removed and added again; a refused send uses up
a call and an answer, and falls in a session that another may follow.
Symmetry is used only where no property is a liveness one and no constant of the
set is singled out.

Fairness. Liveness properties assume weak fairness of what the code starts and
nothing stops: goroutines run to their end, read loops read, timers fire, a
server on a live connection reads what it is sent and answers or closes. Nothing
assumes that the user acts, except in `identity_calm`, where the user signs on
again and, having the key, goes on linking a device found not to be in (strong
fairness, since a sign-off may interrupt it): a user who walks away is no fault
of the code. `session_calm` assumes of the world that messages pause now and then for
two seconds (`PausingSpec`: strong fairness of the timer), because each message stops
the timer and sets it again; section 4 has what happens otherwise. Timed-out queries (`inbox_calm`) and lost catch-ups
(`history_calm`) are upsets, because the code never asks again; section 4.

Every property of a passing run has a mutant: a plausible mistake in one mapped
definition under which TLC refutes it (a dropped tombstone check, an epoch
without the clock's floor, a bundle not wound, an acknowledgement that leaves
its timer, a list published without looking again).

## 4. Where the code and its own words part

`chain_lost_update` is kept as a run and is the finding in `PROJECT.json`. The
others below come from the same modules. Each is reproduced by changing the
named run's cfg as the second column says; TLC then reports the property in the
third. They are the reason the runs above are restricted the way they are.

| run | change | violated | what happens |
|---|---|---|---|
| `chain_lost_update` | two senders and chains, SealedOnlyGiven | SealedOnlyGiven | MarkChainShared names no chain (`room_e2ee.go:888`): a removal and a second send replace the chain while the first send still broadcasts the old one, and its mark lands on the new one |
| `chain_window` | `Spec` | PositionsAreReserved | with sends overlapping, a failed write's rollback undercuts positions another send has used |
| | one room and sender, `MaxLoads = 3`, RemovalOutlivesRestarts | it | a removal made while a restore has yet to find the file: the save takes the chain from the file and the mark with it (`app_room_e2ee.go:480`), so the removal's mark is lost, and the next restart resumes the chain; the merge is there so that a restore that never ran re-arms nothing (`app_room_e2ee.go:417-423`) |
| `members_calm` | ReinvitationIsSaved | it | the save unions the lifted tombstone back from the file (`app_room_e2ee.go:462`); a restart undoes a re-invitation |
| `members_calm` | `Spec` | RetiredChainsStayRetired | a message sent between the pin and the adoption of the roster (`app_room_e2ee.go:1144-1204`) mints a chain that the removals the roster names do not retire |
| `members_calm` | `Spec` | RemovalsStick | a removal for a room whose invitation is unanswered is dropped (`room_e2ee.go:1722`), and the old list adopted; also, a member's roster arriving inside the owner's removal (`app_room_e2ee.go:1287`) has the owner sign somebody both present and removed |
| `views_calm` | `Upsets = {"absent"}` | MembersCanRead | who is away or leaves misses a chain's one broadcast; nothing hands it over later |
| | `{"unheard"}` | MembersCanRead | the newcomer is left out by a member who has not heard of the invitation, or listed later by one whose chain was in use before |
| | `{"unspoken"}` | MembersCanRead | a bundle holds no chain the inviter has read nothing under |
| | `{"early"}` | MembersCanRead | what is said between joining and adopting (`app_room_e2ee.go:1144`) has no view yet |
| | `{"sitting"}` | MembersCanRead | a room joined by name before its invitation is accepted |
| | `{"overtaken"}` | MembersCanRead | a catch-up that arrives ahead of a broadcast |
| | `People = {ann, ben, cat, "dan"}`, three founders, one chain each, one message, `{"undone"}` | MembersCanRead | an owner's roster made before the owner heard of a member's invitation replaces the lists of those who had (`app_room_e2ee.go:1005`); they drop the newcomer, then refuse the newcomer's broadcast, and what it says under that chain stays closed to them |
| | `{"lost"}` | MembersCanRead | views learnt are on disk only with the next save, and a restart before it forgets them |
| | `{"lost"}`, `MaxSends = 3` | NewcomersReadForward | positions forgotten by a restart: the next bundle is wound less far than what its sender had read |
| | three founders, `{"readmit"}` | RemovedReadNothing | a member who has yet to hear of a removal invites the removed person, and the bundle has chains minted since |
| | three founders, `MaxMoves = 5`, `{"again"}` | RemovedReadNothing | an old invitation adopted in a room left meanwhile lifts a tombstone in memory (`app_room_e2ee.go:1202`), the next chain is broadcast to the removed person, and the restart that brings the tombstone back (`:462`) keeps that chain in use |
| `history_calm` | `{"overlap"}` | RowsAreWhatWasSaid | `MergeCatchup` ignores the duplicate mark of a message seen live and adds an empty row, where `state.go:1082-1084` says the merge is idempotent; answers reach back to the start of `since`'s second (`e2ee/room.go:402-406`) |
| | `{"raced"}` | RowsAreWhatWasSaid | a message between rejoin and request moves `since` past the gap (`app_room_e2ee.go:1523-1541`), and is answered again |
| | `{"lost"}` | MissedIsRecovered | one member is asked, once ("one member is enough", `app_room_e2ee.go:1563`) |
| | `{"unshared"}` | RowsAreWhatWasSaid | a relaying member's placeholder goes out as the author's text |
| | `{"replayed"}` | RowsAreWhatWasSaid | one's own message relayed back, or one seen before a restart, shows twice |
| `join_calm` | `{"slow", "stale"}` | RepliesAreTheirOwn | a reply given up on answers the next join, which ends in another room (`chat.go:68`) |
| | `{"slow", "mute"}` | JoinsReturn | a connection that is accepted and then silent is waited on without a timeout, under the lock, against `replyTimeout`'s words |
| | `{"slow", "kicked"}`, `"rejoin"` | OkMeansThere | a connection's clean-up deletes the entry of the room, whosever it is |
| | `{"slow", "across"}` | RoomsAgree | a join that outlives its session leaves a connection behind |
| | `{"drop", "early"}` | OkMeansThere | a sign-on before the old session is torn down (`client.go:204` asks only whether a session is set): the old one's `closeAllChat` closes a room the new one has just joined |
| | SignOffClears | it | a room's clean-up after the store's reset puts its row back (`chat.go:309-310` says the reset clears everything) |
| `send_calm` | `{"early"}` | NotSentIsNotDelivered | an answer handled before its message is registered is dropped, and the timer marks it not sent (`client.go:333`) |
| | `{"race"}` | NotSentIsNotDelivered | `Session.reqID` is read without a lock; two sends may share a request |
| | `{"signoff", "late"}`, `MaxUpsets = 2` | SealsNeverStepBack | a sign-off between a lookup's verdict and the seal forgets the keys it brought |
| | `{"signoff", "unasked"}` or `{"drop", "unasked"}`, `MaxUpsets = 2` | SealsNeverStepBack | a lookup begun while `Client.session` is nil and the connection not yet closed asks nobody and counts as "no keys" (`keydir.go:352-361`); `sealOutbound` (`client.go:462-477`) goes on in the clear, to somebody sealed to before |
| | TextIsKept | it | a resend the directory refuses drops the text (`client.go:467` says it is kept), and one made without a session does too |
| | RestoredRowsSettle | it | a message sent as the session ends is restored with no cookie and looks sent for ever |
| `inbox_calm` | `{"twice"}` | EachInItsPlace | the path of late keys does not look for second copies |
| | `{"early"}` | EachInItsPlace | a roster opened late is shown as text and never applied, against `client/e2ee.go:289-316` |
| | `{"left"}` | EveryMessageGetsThrough, BadgesSettle | `Cipher` and `Envelope` are not saved (`state.go:144,149`): a placeholder outlives its ciphertext |
| | `{"unready"}` | EveryMessageGetsThrough | the read loop runs before `setupE2EE` installs the verifier (`app_e2ee.go:104-107`), and a manifest in between is dropped |
| | `{"unanswered"}`, `{"retired"}` | EveryMessageGetsThrough | a query that timed out is not repeated; an unlinked device's mail cannot be opened |
| | `{"fresh"}`, `{"raced"}` | BadgesSettle | a device linked since the keys were fetched is called forged for good; keys that come between the two steps of storing leave the badge as it was |
| `identity_calm` | `FairSpec` | BackupOpensTheAccount | two devices' first runs overlap, and the loser's backup replaces the winner's |
| | `FairSpec`, `{"lost"}`, `{"error"}`, `{"clear"}` | BackupOpensTheAccount | an answer lost after the store, or an error read as "none stored", and the user discards the key that the backup is under; a reset between two round trips |
| | `{"outrun"}` | RemovedStayOut | a list refused because another device's came first is signed again above it as it was (`app_keydir.go:463`), naming somebody the winner removed, where `app_keydir.go:533-536` says the manifest is authoritative and merging would republish devices another machine removed |
| | `{"outcast"}` | RemovedStayOut | a device that finds itself removed goes on with a removal of its own, and the list it signs has it back |
| `session_calm` | `{"toggle"}` | HistoryIsNotLost | history switched on in a session that had no key saves over the file it never read (`app.go:1125-1140`) |
| | `{"overlap"}`, `{"race"}` | AccountsStayApart | a saver across the end of the session, or an old loop's clean-up, pairs one account's store with another |
| | `{"kicked"}` | StatusSettles | a session that ends before `doSignOn` does is announced as on line |
| | `{"forget"}` | RemovedStaysRemoved | the last thread forgotten is not cleared from the file |
| | the run as it is, `StillThere` and `unsaved` left out | RemovedStaysRemoved, MessagesAreSaved | a save that fails is logged and a removal of the file that fails is dropped (`app.go:1061-1063, 1117, 1120-1122`); nothing tries again, where `app.go:1101` says an explicit removal must stick |
| | `Spec` | MessagesAreSaved | messages less than two seconds apart put the save off for as long as they come (`app.go:1036-1039`) |
| `buddies_calm` | `{"mode"}`, `{"overlap"}` | BlocksAreEnforced | a privacy mode that could not be sent is believed set in the mirror, and the next block omits it |
| | `{"crossed"}` | MovesDontSever | two devices moving one buddy each delete the row the other kept |
| `connect_calm` | `{"early"}`, `{"overtaken"}`, `{"across"}`, `{"away"}`, `{"second"}` | PendingIsTrue | a status before its add is on record; a list taken before another's change is published after it; work under way when the session ends; an acceptance remembered into the next session; another person's acceptance undone (`connections.go:128-131`) |
| | `{"crossed"}`, `MaxUpsets = 2` | PendingIsTrue | an acceptance read after its person was removed marks them accepted; added again, their refusal is dropped for it, and they are shown as a buddy where the server stores no row (`client.go:954`) |
| | `{"crossed"}`, `MaxUpsets = 2` | AnswersAreTold | a refusal unread across a removal and a second add is judged by the second add's mark |
| | two accounts, `{"account"}` | PendingIsTrue | requests made of one account are offered to the next |
| | `{"hasty"}` | AnswersAreTold | a refusal before the pending mark is set is taken for a removal |
| | the run as it is, `unsent` left out of the properties | PendingIsTrue, AnswersAreTold, AcceptanceShows | a refused insert, delete or group order returns after the mirror changed (`client.go:995-999`, `feedbag_edit.go:459-461, 538-540`) or after the server stored the row (`client.go:725-729`), and what is shown, mirrored and stored stay apart for the session |
| | two accounts, `{"account"}` | AcceptedThisSession | `accepted` outlives the session and the account |

In `chain_window` a room whose file could not be read at restore is excepted by
NeverClearWhenSaved: `restoreRoomKeys` then marks no room encrypted, and a send
goes out as typed, where `app_room_e2ee.go:577-579` prefers refusing.

## 5. The theorems

The second column names the property the theorem states, where a run checks it.
H is the hypothesis: a specification that restricts the schedules, or what
`Upsets` leaves out.

| theorem | states | H |
|---|---|---|
| *RoomChainSend_proof* | | |
| `TypeCorrect` | TypeOK | – |
| `OnePositionOneMessage` | NoReuseInMemory | – |
| `NeverReused` | NoPositionReused, over any number of crashes | OneWindowSpec |
| `PromiseKept` | PromiseOnDisk | OneWindowSpec |
| `ReservationsHold` | PositionsAreReserved | OneWindowSpec |
| `RemovalsHold` | RetiredNeverSeals | OneWindowSpec |
| `EncryptedStaysEncrypted` | NeverClearWhenSaved | OneWindowSpec |
| `ImplementsForwardChains` | ChainsOnlyMoveForward, the refinement | OneWindowSpec |
| *RoomMembership_proof* | | |
| `TypeCorrect` | TypeOK | – |
| `MarksRatchet` | SavedMarksOnlyRatchet | – |
| `RemovedStayOff` | RemovalsStick | CalmSpec |
| `RetiredStayRetired` | RetiredChainsStayRetired | CalmSpec |
| `OneWord` | OwnersWordIsOne | CalmSpec |
| *RoomJoin_proof* | | |
| `TypeCorrect` | TypeOK | – |
| `RepliesMatch` | RepliesAreTheirOwn | NoStray: no "stale" |
| `RoomsStayInStep` | RoomsAgree | Undisturbed: none of "stale", "kicked", "rejoin", "across", "early" |
| `ToldIsTrue` | OkMeansThere | Undisturbed |
| *MessageSend_proof* | | |
| `TypeCorrect` | TypeOK | – |
| `NotSentIsRight` | NotSentIsNotDelivered | NoRace: no "early", no "race" |
| `SealsOnlyAdvance` | SealsNeverStepBack | LookupsKeepSession: no "late", no "unasked" |
| *AccountIdentity_proof* | | |
| `TypeCorrect` | TypeOK | – |
| `RemovalHolds` | RemovedStayOut | NoRelapse: no "clear", "outrun", "outcast" |
| `BackupHolds` | BackupOpensTheAccount | CalmSpec |
| *SessionHistory_proof* | | |
| `TypeCorrect` | TypeOK | – |
| `AccountsApart` | AccountsStayApart | Orderly: none of "overlap", "kicked", "race", "toggle" |
| `HistoryIsKept` | HistoryIsNotLost | Orderly |
| `RemovedForGood` | RemovedStaysRemoved | Orderly, no "forget" |
| *ChainViews_proof* | | |
| `TypeCorrect` | TypeOK | – |
| `ForwardHolds` | NewcomersReadForward | no "lost" |
| `RemovedHolds` | RemovedReadNothing | no "readmit"; `[][Settled]_vars` |
| `MembersRead` | MembersCanRead | Gentle: no upset but "unsent", "again", "outdated"; `[][Settled]_vars`, `[][Steady]_vars` |
| *Connections_proof* | | |
| `TypeCorrect` | TypeOK | – |
| `PendingAlwaysTrue` | PendingIsTrue, with nobody excepted | OnlyHasty: no upset but "hasty", so that every send goes through |
| `AnswersAlwaysTold` | AnswersAreTold | Calm: no upset, so that every send goes through |

Each hypothesis leaves out schedules under which section 4, or a paragraph below,
reports a property of its module false: what remains is every interleaving, with every other
upset the module has, any number of times. These are crashes, sign-offs and lost
connections where H does not name them; lost and false answers and timeouts where something is asked
(RoomJoin, MessageSend, AccountIdentity); failed writes of the room file (RoomChainSend,
RoomMembership) and of the history file (SessionHistory); sends the rate limiter refuses in none of them. None of them is
something the code ensures, so a theorem with one says what the code gives to
whoever closes that schedule. The runs are made under the same hypotheses or
weaker ones, so that TLC has looked for a counterexample on small instances
first: `views_calm` has re-admissions, and does not ask for `Settled`.

`Settled` says that whoever has the room already adopts no invitation that lays
or lifts a tombstone, or that names somebody they know to be removed. It asks
nothing of a first invitation, and nothing of a second one whose sender has
heard of the same removals; section 4 has the schedule it leaves out.

`Steady` says that nobody goes on inviting whom the owner has removed. The owner's
roster goes to who is left (`RemoveMember`), so the removed person's client may:
its guest is on nobody else's list, and everybody's next chain passes it by
("unheard"). But the guest may invite the owner, who is away and adopts the
invitation, and the owner's next roster then puts the guest on the list of
somebody whose chain has long been in use, and who will not give it again. It
takes five people and six moves (the owner removes ben and invites cat, who
sends; the owner leaves; ben invites dan, dan the owner, the owner eve; cat sends
again, and dan cannot open it): TLC finds it, with no upset at all, when an action
constraint keeps the moves to this order; three people are too few for it. At
`views_calm`'s bounds, with what `Gentle` allows, `Settled` and `Steady` together
leave out 3,926 of 1,306,373 states, and MembersCanRead holds in those too.

Assumed besides: the named `ASSUME`s of the modules. They say that `None` is no
member of the sets it stands beside, that senders and keepers are different
jobs, that the owner is a device, that a block holds at least one position, that
a thread belongs to an account and is a conversation or a room, that ChatNav is
no chat room, and that bounds are naturals; in Connections, that `None` is no call either. Nothing is said of how many rooms,
chains, jobs, devices, people, messages or accounts there are, and no argument
uses a bound for more than its type.

*RoomChainSend, memory.* `NoReuseInMemory` is not inductive: it says nothing
about the position the next message takes. `MemoryInv` adds `ChainsBelong` (a
chain in memory, in the file or in a job's copy of it was minted for that room,
so two rooms never share one) and `SealedBehind` (whatever the current
installation of state sealed under memory's chain lies behind its position). A
seal then cannot meet an old position, and every other step either leaves chain
and position alone, installs a chain just minted, or starts a new installation.

*RoomChainSend, over restarts.* `DurableInv` adds that everything ever sealed
lies behind memory's position (`BehindMemory`) and behind what the file reserves
(`BehindDisk`); that what memory has promised is in the file unless the one job
in the window is still writing it (`PromisesBacked`); and what each step of the
job in the window knows of the file it holds (`JobsOK`). A restart resumes at
what the file reserves, which `BehindDisk` puts past everything sealed. The
window is needed exactly where a job's copy of the file is assumed current, and
`chain_lost_update` shows that without it the conclusion is false. `KeptInv`
adds that once every restore could read the file, memory has whatever the file
has (`Loaded`), and a chain a saved removal ended is marked in the file and,
unless a restore is just about to mark it, in memory (`DiskMarked`,
`MemMarked`): a seal under it, or a seal in the clear, then finds the mark.

*Refinement.* Under the same invariant a seal's position is past every position
of its chain in the log, which is the guard of `ForwardChains!Seal`; every other
step leaves the log unchanged.

*RoomMembership.* `TypeOK` there includes that nobody is on its own list, which
needs `CallsOK` (a call in progress is about somebody else, in a room whose
owner is pinned) and `InvitesOK` (nobody invites itself). `MarksRatchet` has two
parts: every step that writes the file writes a merge over what was there
(`FileStep`), and a merge never lowers a mark (`MergedType`). For the calm
theorems `Good` says of the messages that every roster names the owner and its
author and that only the owner's removes (`Talk`), and that the owner's next
stamp is ahead of all it signed (`Stamps`); and of each device, that nobody is
listed and tombstoned at whatever step of a call (`Lists`, with `Halfway` for
somebody whose tombstone is lifted before the invitation leaves), and that the
file holds every removal which memory or the owner's statements ever held
(`Remembers`). That last conjunct is what a restart lives on, and its proof is
the merge's union of tombstones. `CalmSpec` is used in three places: a roster
arriving inside a call, a removal heard of before the room is known, and an
invitation to a room already known. Each device is in one of three states (`Here`):
it holds what `Lists` and `Remembers` say, or it is between the pin and the roster's
adoption (`Adopts`), or its process ended there and left a room known and never saved
(`Bare`), which a restart forgets.

*RoomJoin.* `Replied` says what a channel of capacity one may hold at each step
of the join that drained it: its own reply or none. A late reply is the only
thing that could put another's there, so `Replied` with `Filed` is inductive
without "stale". `Kept` then goes along with a connection's life (`ConnKept`), a
room's (`RoomKept`), the join's (`JoinKept`) and the session's (`SessionKept`),
and has at most one connection a room that is not yet forgotten (`OneEach`).

*MessageSend.* `Truth`: a request is its own message's (`OwnRequests`); a
message somebody awaits still has its answer to come, or has lost its connection
(`AnswersDue`); so an expiry finds a message the server never took. `Marked`:
whatever keys the session has are those the persisted mark names, nothing
was ever sealed past the mark, and a call about to seal again, on a connection that
still stands, finds the keys its lookup brought (`ResealHasKeys`), which is where the
two schedules of `LookupsKeepSession` matter.

*AccountIdentity.* `Listing`: a device remembers at most what the directory has
(`PinsTrail`, `MemoIsPin`), and a list that the server would store now was made
from the one stored now (`ListsFit`): the counter is the proof's whole point,
since a list made from an older one has a counter the server refuses. `Backing`
follows a first run and a re-keying through their two writes: what a call is
about to store is under a key the user has (`CallKnows`), and a key to be thrown
away locks nothing (`RotationFits`).

*SessionHistory.* `Good` has one read loop alive (`OneLoop`), `doSignOn`'s
order (`Signing`), whose history is kept (`Keeping`, `Ours`) and what a saver
between its copy and its write holds (`Saving`): the account's threads, under
the account's key, and all of the file's that the user did not remove.
`RemovedForGood` adds `Settled`: a thread removed is in the file only while the
save that takes it out is under way and has something to write.

*ChainViews.* Types rest on arithmetic as much as on shape: a position never
passes `Never`, the view that opens nothing, because every seal and every block
a restart skips was paid for by a send or a move (`Spent`, `Position`).
`Beyond(x, c, k)` is the notion the rest is about: neither x's view of chain c,
nor its file's, nor any invitation or broadcast on its way to x, opens position
k or an earlier one. `BeyondStays` shows that only two steps can end it, a
broadcast of c with a slot for x and a bundle for x. `ForwardHolds` (`Kept`):
what an inviter had seen lies behind the position its bundle is wound to
(`Behind`, where "lost" matters), and a chain already spoken under is not
broadcast again (`Numbered`). `RemovedHolds` (`Secluded`) has two halves.
`Informed`: everybody's tombstones are the owner's, in memory as on disk, nobody
they name is a member, and in each queue a later statement of the owner's never
lists anybody an earlier one named removed (`InOrder`). `Shut` and `Past`: a
chain its holder may still seal under, in memory or on disk, gives nothing to
anybody its holder knows removed, and no more does a chain something was said
under to those removed by then. A removal heard of marks the chain stale, a new
chain is nobody's yet (`Unminted`), and a broadcast goes to members only.

`MembersRead` goes in the opposite direction, and its invariant is `Told`
(`ChainViews_invariants` has it, with all that the theorems are stated and proved
with; TLC finds it to hold at `views_calm`'s bounds). The heart
of it is `Given(s, x)`: of the chain s has in use, x can read whatever comes next,
by a view it has or a broadcast still in its queue (`Reach`), and if x is on the
way in, by every invitation it may yet adopt. With it `Readable(x)` says that
whatever x has yet to be shown, from its queue or by a catch-up, it can open by
then. To keep these, `Acquainted` has everybody listed by whoever let them in, and
knowing the owner; `Heard` has a broadcast accepted when its turn comes (its
author is still listed) and ahead of what was said under its chain; `Newcomer`
bounds what somebody can do before adopting; `Seen` puts every reader's position
behind the speaker's; and `Disk` says a restart goes back to nothing less than
this. One lemma keeps each conjunct (`NewcomerStep`, `SeenStep`, `DiskStep`,
`AcquaintedStep`, `HeardStep`, `ReadableStep`, `GivenStep`), and `MissedStep` has
no step miss anything. The attempt found the race "undone": `Given` fails when the
owner's roster takes x off the list of somebody x has in use a chain for.

*Connections.* One row is what the store, the session, the mirror and the server
each have of it, and PendingIsTrue compares the four once nothing is under way;
so the invariant says, of every person, which differences are somebody's to
settle. `Standing` relates the server's row to what it knows of the person
(agreed, asked, or neither); `Known` and `Severed` say what of this the client
has still to read or to deal with, with a refused add, a severance and an
acceptance each in one place at most (`Once`, `OneSevers`, and `SeveredLast`:
nothing about a person follows a severance in the queue); `Called` does the same
for the interface's call, and `Mirrored` concludes what the mirror holds from
these. `Requested` does it for the requests of others. `Listed` carries the
mirror on to the session's list and the store's: whoever has changed the mirror
will take it anew, and a list taken is the mirror's until it is published, or
its publisher is about to see what came meanwhile, which is what `pendingMu` and
the second look at `accepted` are for. Each step is about one person
(`SamePerson` has everybody else's part unchanged), so there is a lemma a step.
The property excepts whom a refused send was about; without refusals there is nobody
(`NobodyUnsent`), and the proof is of the form that excepts nobody (`CopiesAgree`).
AnswersAreTold needs `Told` too, and that nobody is in `unsent`: who is still shown as pending has nothing
between them and the mark, so a refusal finds it and a removal does not.

Proved and not run: the `TypeOK`s and `NoReuseInMemory`, since what TLC would
say of a small instance the theorem says of all. Only model-checked: the
properties of BuddyList, Inbox and RoomHistory, whose `TypeOK`s
state what their variables hold. Liveness under fairness (SendsSettle,
JoinsReturn, DevicesGetIn, StatusSettles, MessagesAreSaved and the like),
`ENABLED`, and what a recursive definition computes for every input are out of
the proof system's reach and stay with TLC.

## 6. Not modelled, and why

*Assumed, not modelled.* Cryptography: a ciphertext opens with its key and
nothing else, a signature is its signer's. Byte layouts (`internal/wire`,
`internal/e2ee`'s encodings) are parsers without state. What a file system does
with unsynced writes: every save of the room file uses one temporary name and
ignores the directory's sync (`roomkeys.go:222,245`), so overlapping saves could
mix and a lost rename could bring back an older reservation; the modules have
the file replaced whole or not at all.

*Parts of modelled components.*
- `ReformRoom` (`app_room_e2ee.go:1407`) mints and shares a chain in a room it
  never marks encrypted. RoomMembership would gain a chain outside encryption,
  which removals, device removals and the restore all treat as no chain. No
  property here covers it.
- `ForgetRoomKeys` drops a room from memory and file in two steps; nothing
  remembers afterwards that the room was known, so what the properties say of a
  known room would start again.
- Two devices of the room's owner, and the transfer bundle that carries one's
  state to the other. They share no state otherwise, so the owner's word is
  then two words: OwnersWordIsOne is about one device of the owner.
- In RoomMembership: invitations without a roster, rooms joined by name, several
  people removed at once.
- The ratchet's skip cap, far beyond the positions a bounded run reaches.
- Key changes a user approves; retention of history; the bytes of the login
  handshake, and reconnection back-off (the user signs on again).

*Components.* The rate limiter is a moving average of wall time in floating
point, and no other part reads its state. BuddyList and Connections let it refuse
an edit (`refused`, `paced`); of the other modules' sends, a refusal is the error
their calls already have, or is not modelled. Presence, profiles, icons, directory search and administration show an
answer and forget it. The configuration file is read once and written whole. Of
the user interface only what calls it makes matters: the composer does not wait
for one send before it accepts the next.

## 7. Plan

Done: the core (RoomChainSend, ForwardChains, RoomMembership) with its proofs;
then ChainViews, RoomHistory, RoomJoin, MessageSend, Inbox, AccountIdentity,
SessionHistory, BuddyList and Connections with their runs.

Proved: the safety properties of RoomChainSend, RoomMembership, MessageSend,
AccountIdentity, RoomJoin, SessionHistory, Connections and ChainViews, as section
5 lists them.

Proofs next: BuddyList, Inbox and RoomHistory: TypeOK, then what their invariants
need.

Modelling next: two devices of the owner with the transfer bundle between them,
`ReformRoom` and `ForgetRoomKeys` in RoomMembership, and the rate limiter as an
algorithm over integers.
