------------------------------- MODULE Inbox -------------------------------
(***************************************************************************)
(* What one client makes of what reaches it: private messages that arrive  *)
(* before the keys that open them, protocol traffic among them, copies the *)
(* server kept, and room messages that cannot be attributed yet.           *)
(*                                                                         *)
(* The BOS connection's read loop runs handleICBM and handleKeyDir in turn, *)
(* so each is one action; a room's loop reads its keys in one step and     *)
(* stores the message in another.  A message is its place in `mail`, and   *)
(* is opened with the keys of the device that sealed it.                   *)
(***************************************************************************)
EXTENDS Naturals, Sequences, FiniteSets

CONSTANTS
  Peers,
  Devices,      \* of each peer: a first, and what is linked later
  First,
  Stranger,     \* somebody else in the room
  None,
  Upsets,       \* what may go wrong: a subset of UpsetKinds
  MaxMail,      \* bound: messages anybody sends
  MaxSignOns,   \* bound: sessions
  MaxUpsets     \* bound: upsets, all told

\* `again`: a second copy of a message opened on arrival, with the keys at hand.  `twice`:
\* of one that was not, or to one who has not, or of a room message by another than it says.
\* `unanswered`: a directory query that times out with something waiting for it.
\* `unready`: traffic before setupE2EE has run.  `early`: a roster sent to one who does not
\* hold its sender's keys.  `retired`: a device taken off its manifest with mail of its own
\* under way.  `left`: a sign-off with mail unopened.  `fresh`: a room message of a linked
\* device its owner's keys have not been fetched with.  `raced`: keys that come while the
\* room message they attribute is being stored, and no more to come.
UpsetKinds == {"again", "twice", "unanswered", "unready", "early", "retired", "left",
               "fresh", "raced"}

ASSUME InboxAssumption ==
  /\ Upsets \subseteq UpsetKinds
  /\ First \in Devices /\ Stranger \notin Peers
ASSUME InboxBounds == MaxMail \in Nat /\ MaxSignOns \in Nat /\ MaxUpsets \in Nat

VARIABLES
  mail,       \* every message sent: whose it says it is, whose it is, the device, the kind
  signOns,    \* sessions so far
  on,         \* whether there is a session
  ready,      \* setupE2EE has given the client its key, its verifier and its handlers
  wire,       \* what the server has for the BOS connection, in order
  roomWire,   \* what it has for the room's connection
  published,  \* the devices on each peer's manifest
  queries,    \* directory queries the server has not answered, by peer
  box,        \* e2eeKeys: whose encryption keys are held
  sign,       \* peerSignKeys: whose signing keys are held
  seen,       \* seenIDs
  talk,       \* the conversations, as one: each message and how it shows
  handled,    \* how often each piece of protocol traffic was acted on
  stash,      \* pendingRosters
  hand,       \* the message the room's loop has decoded and not stored
  rows,       \* the room's messages and their badges
  upsets

session == <<signOns, on, ready>>
keys == <<box, sign>>
directory == <<published, queries>>
private == <<talk, handled, stash>>
room == <<roomWire, hand, rows>>
vars == <<mail, session, wire, directory, keys, seen, private, room, upsets>>

Ids == 1..MaxMail
Row(looks) == [id : Ids, look : looks]
Badges == {"verified", "unverified", "forged", "bare"}

TypeOK ==
  /\ mail \in Seq([from : Peers, by : Peers \cup {Stranger}, device : Devices,
                   kind : {"chat", "protocol", "roster", "room"}])
  /\ Len(mail) <= MaxMail /\ signOns \in 0..MaxSignOns /\ on \in BOOLEAN /\ ready \in BOOLEAN
  /\ wire \in Seq([id : Ids] \cup [from : Peers, devices : SUBSET Devices])
  /\ roomWire \in Seq(Ids)
  /\ {published, box, sign} \subseteq [Peers -> SUBSET Devices]
  /\ queries \in [Peers -> Nat] /\ seen \subseteq Ids
  /\ talk \in Seq(Row({"open", "waiting", "stranded"})) /\ handled \in [Ids -> Nat]
  /\ stash \in Seq(Ids)
  /\ hand \in Row(Badges) \cup {None} /\ rows \in Seq(Row(Badges)) /\ upsets \in 0..MaxUpsets

Init ==
  /\ mail = <<>> /\ signOns = 0 /\ on = FALSE /\ ready = FALSE /\ wire = <<>> /\ roomWire = <<>>
  /\ published = [p \in Peers |-> {First}] /\ queries = [p \in Peers |-> 0]
  /\ box = [p \in Peers |-> {}] /\ sign = [p \in Peers |-> {}] /\ seen = {}
  /\ talk = <<>> /\ handled = [n \in Ids |-> 0] /\ stash = <<>>
  /\ hand = None /\ rows = <<>> /\ upsets = 0

Upset(kind) == kind \in Upsets /\ upsets < MaxUpsets /\ upsets' = upsets + 1

UpsetIf(condition, kind) == IF condition THEN Upset(kind) ELSE UNCHANGED upsets

-----------------------------------------------------------------------------
(* The other people, and the server. *)

IsMail(x) == "id" \in DOMAIN x

\* Offline messages wait at the server until a sign-on asks for them.
Send(p, d, kind) ==
  /\ Len(mail) < MaxMail /\ d \in published[p]
  /\ mail' = Append(mail, [from |-> p, by |-> p, device |-> d, kind |-> kind])
  /\ wire' = Append(wire, [id |-> Len(mail) + 1])
  /\ UpsetIf(kind = "roster" /\ ~(on /\ ready /\ d \in box[p]), "early")
  /\ UNCHANGED <<session, directory, keys, seen, private, room>>

\* The server names the sender of a room message; the signature is the author's.
Say(p, q, d) ==
  /\ on /\ ready /\ Len(mail) < MaxMail /\ d \in IF q = Stranger THEN {First} ELSE published[q]
  /\ mail' = Append(mail, [from |-> p, by |-> q, device |-> d, kind |-> "room"])
  /\ roomWire' = Append(roomWire, Len(mail) + 1)
  /\ UpsetIf(p = q /\ d # First /\ d \notin sign[p], "fresh")
  /\ UNCHANGED <<session, wire, directory, keys, seen, private, hand, rows>>

OnWire(n) == [id |-> n] \in {wire[i] : i \in DOMAIN wire}
OnRoomWire(n) == n \in {roomWire[i] : i \in DOMAIN roomWire}

KnownByItsKeys(n) ==
  /\ mail[n].by = mail[n].from /\ mail[n].device \in published[mail[n].by]
  /\ mail[n].kind # "room" => ready /\ mail[n].device \in box[mail[n].by]

\* The server hands over a copy it kept.
Redeliver(n) ==
  /\ on /\ n \in DOMAIN mail
  /\ Upset(IF n \in seen /\ KnownByItsKeys(n) THEN "again" ELSE "twice")
  /\ IF mail[n].kind = "room"
     THEN /\ ~OnRoomWire(n) /\ roomWire' = Append(roomWire, n) /\ UNCHANGED wire
     ELSE /\ ~OnWire(n) /\ wire' = Append(wire, [id |-> n]) /\ UNCHANGED roomWire
  /\ UNCHANGED <<mail, session, directory, keys, seen, private, hand, rows>>

LooksOf(n) == {talk[i].look : i \in {j \in DOMAIN talk : talk[j].id = n}}

Unopened(n) == OnWire(n) \/ "waiting" \in LooksOf(n)

Attributed(n) == [id |-> n, look |-> "verified"] \in {rows[i] : i \in DOMAIN rows}

Link(p, d) ==
  /\ d \notin published[p] /\ d # First /\ published' = [published EXCEPT ![p] = @ \cup {d}]
  /\ UNCHANGED <<mail, session, wire, queries, keys, seen, private, room, upsets>>

\* What is unlinked does not come back: linked again, it has keys of its own.
Retire(p) ==
  /\ First \in published[p] /\ published[p] # {First}
  /\ published' = [published EXCEPT ![p] = @ \ {First}]
  /\ UpsetIf(\E n \in DOMAIN mail : /\ mail[n].by = p /\ mail[n].device = First
                                    /\ IF mail[n].kind = "room" THEN ~Attributed(n) \/ OnRoomWire(n)
                                                             ELSE Unopened(n),
             "retired")
  /\ UNCHANGED <<mail, session, wire, queries, keys, seen, private, room>>

\* A reply is what the directory holds as it answers, and follows what was relayed before.
Answer(p) ==
  /\ on /\ queries[p] > 0 /\ queries' = [queries EXCEPT ![p] = @ - 1]
  /\ wire' = Append(wire, [from |-> p, devices |-> published[p]])
  /\ UNCHANGED <<mail, session, published, roomWire, keys, seen, private, hand, rows, upsets>>

Needed(p) ==
  \/ \E i \in DOMAIN talk : talk[i].look = "waiting" /\ mail[talk[i].id].from = p
  \/ \E row \in {rows[i] : i \in DOMAIN rows} \cup (IF hand = None THEN {} ELSE {hand}) :
       row.look = "unverified" /\ mail[row.id].from = p

TimesOut(p) ==
  /\ queries[p] > 0 /\ queries' = [queries EXCEPT ![p] = @ - 1]
  /\ UpsetIf(Needed(p), "unanswered")
  /\ UNCHANGED <<mail, session, wire, published, keys, seen, private, room>>

\* RefreshPeerKeys, on a goroutine of its own.
Refresh(asked) == queries' = [p \in Peers |-> queries[p] + (IF p = asked THEN 1 ELSE 0)]

-----------------------------------------------------------------------------
(* handleICBM. *)

Opens(n) == ready /\ mail[n].device \in box[mail[n].from]

Shows(n, look) == talk' = Append(talk, [id |-> n, look |-> look])

\* No key opens it: the envelope is kept, the sender's keys are asked for.
Waits(n) ==
  /\ ~Opens(n) /\ Shows(n, "waiting") /\ Refresh(mail[n].from)
  /\ UNCHANGED <<seen, handled, stash>>

Copied(n) == n \in seen

Drops(n) == Opens(n) /\ Copied(n) /\ UNCHANGED <<seen, private, queries>>

IsSpoken(n) ==
  /\ Opens(n) /\ ~Copied(n) /\ mail[n].kind = "chat"
  /\ seen' = seen \cup {n} /\ Shows(n, "open")
  /\ UNCHANGED <<handled, stash, queries>>

\* handleRoomInvite and handleCatchup hand it to the application.
IsProtocol(n) ==
  /\ Opens(n) /\ ~Copied(n) /\ mail[n].kind = "protocol"
  /\ seen' = seen \cup {n} /\ handled' = [handled EXCEPT ![n] = @ + 1]
  /\ UNCHANGED <<talk, stash, queries>>

Checks(n) == mail[n].device \in sign[mail[n].from]

\* handleRoster: stashed without keys to check it, refused if it does not check.
IsRoster(n) ==
  /\ Opens(n) /\ ~Copied(n) /\ mail[n].kind = "roster" /\ seen' = seen \cup {n}
  /\ IF sign[mail[n].from] = {}
     THEN stash' = Append(stash, n) /\ Refresh(mail[n].from) /\ UNCHANGED handled
     ELSE /\ handled' = [handled EXCEPT ![n] = IF Checks(n) THEN @ + 1 ELSE @]
          /\ UNCHANGED <<stash, queries>>
  /\ UNCHANGED talk

HandleICBM ==
  /\ on /\ wire # <<>> /\ IsMail(Head(wire)) /\ wire' = Tail(wire)
  /\ UpsetIf(~ready, "unready")
  /\ LET n == Head(wire).id IN Waits(n) \/ Drops(n) \/ IsSpoken(n) \/ IsProtocol(n) \/ IsRoster(n)
  /\ UNCHANGED <<mail, session, published, keys, room>>

-----------------------------------------------------------------------------
(* handleKeyDir: learnFromManifest. *)

\* DecryptPending with retryPendingDecrypts: what waited is shown, or acted on and
\* dropped.  A roster is not told apart, and is shown: so none reaches the stash, for
\* signing keys come with the encryption keys that open a roster.
Recovered(p, devices) ==
  {i \in DOMAIN talk : /\ talk[i].look = "waiting" /\ mail[talk[i].id].from = p
                       /\ mail[talk[i].id].device \in devices}

Opened(i) == [talk[i] EXCEPT !.look = "open"]

\* Mutant: everything recovered is shown, protocol traffic included.
ActedOnNothing(is) == {}

ActedOn(is) == {i \in is : mail[talk[i].id].kind = "protocol"}

Places(S) == CHOOSE f \in [1..Cardinality(S) -> S] : \A a, b \in DOMAIN f : a < b => f[a] < f[b]

\* Mutant: keys are learned and nothing is retried.
RetryNothing(p, devices) == UNCHANGED <<talk, handled>>

RetryPendingDecrypts(p, devices) ==
  LET is == Recovered(p, devices)
      acted == ActedOn(is)
      kept == Places(DOMAIN talk \ acted) IN
  /\ talk' = [k \in DOMAIN kept |-> IF kept[k] \in is THEN Opened(kept[k]) ELSE talk[kept[k]]]
  /\ handled' = [n \in Ids |-> handled[n] + Cardinality({i \in acted : talk[i].id = n})]

\* retryPendingRosters.
RetryRosters(p, devices) ==
  stash' = SelectSeq(stash, LAMBDA n : mail[n].from # p)

Verdict(n, devices) ==
  IF devices = {} THEN "unverified"
  ELSE IF mail[n].by = mail[n].from /\ mail[n].device \in devices THEN "verified"
  ELSE "forged"

\* Mutant: the badges stay as they were on arrival.
ReverifyNothing(p, devices) == UNCHANGED rows

\* Only what is unresolved, and still has its envelope, is checked again.
Reverify(p, devices) ==
  rows' = [i \in DOMAIN rows |->
    IF rows[i].look = "unverified" /\ mail[rows[i].id].from = p
    THEN [rows[i] EXCEPT !.look = Verdict(rows[i].id, devices)] ELSE rows[i]]

MoreComing(p) == queries[p] > 0 \/ \E i \in 2..Len(wire) : ~IsMail(wire[i]) /\ wire[i].from = p

LearnFromManifest(p, devices) ==
  /\ box' = [box EXCEPT ![p] = devices] /\ sign' = [sign EXCEPT ![p] = devices]
  /\ RetryPendingDecrypts(p, devices) /\ Reverify(p, devices) /\ RetryRosters(p, devices)

HandleKeyDir ==
  /\ on /\ wire # <<>> /\ ~IsMail(Head(wire)) /\ wire' = Tail(wire)
  /\ LET p == Head(wire).from IN
     /\ UpsetIf(/\ hand # None /\ hand.look = "unverified" /\ mail[hand.id].from = p
                /\ ~MoreComing(p), "raced")
     /\ IF ready THEN LearnFromManifest(p, Head(wire).devices)
                 ELSE UNCHANGED <<keys, private, rows>>
  /\ UNCHANGED <<mail, session, directory, seen, roomWire, hand>>

-----------------------------------------------------------------------------
(* The room's loop, and the session. *)

\* decodeRoomChainMessage; a forged message is not put among those seen.
RoomDecode ==
  /\ on /\ roomWire # <<>> /\ hand = None /\ roomWire' = Tail(roomWire)
  /\ LET n == Head(roomWire)
         look == Verdict(n, sign[mail[n].from]) IN
     IF look # "forged" /\ Copied(n) THEN UNCHANGED <<seen, hand, queries>>
     ELSE /\ seen' = IF look = "forged" THEN seen ELSE seen \cup {n}
          /\ hand' = [id |-> n, look |-> look]
          /\ IF look = "unverified" THEN Refresh(mail[n].from) ELSE UNCHANGED queries
  /\ UNCHANGED <<mail, session, wire, published, keys, private, rows, upsets>>

AddRoomMessage ==
  /\ hand # None /\ rows' = Append(rows, hand) /\ hand' = None
  /\ UNCHANGED <<mail, session, wire, directory, keys, seen, private, roomWire, upsets>>

\* The conversation is opened, or a send finds the keys stale.
EnsurePeerKeys(p) ==
  /\ on /\ ready /\ queries[p] = 0 /\ ~MoreComing(p) /\ Refresh(p)
  /\ UNCHANGED <<mail, session, wire, published, keys, seen, private, room, upsets>>

SignOn ==
  /\ ~on /\ signOns < MaxSignOns /\ on' = TRUE /\ signOns' = signOns + 1
  /\ UNCHANGED <<mail, ready, wire, directory, keys, seen, private, room, upsets>>

\* setupE2EE, after the session is up; a later session finds the client as it left it.
SetupE2EE ==
  /\ on /\ ~ready /\ ready' = TRUE
  /\ UNCHANGED <<mail, signOns, on, wire, directory, keys, seen, private, room, upsets>>

\* forgetPeerKeys drops the encryption keys alone.  The history the next session starts
\* from holds no envelopes.  Mail the server has relayed is lost with the connection.
SignOff ==
  /\ on /\ hand = None /\ on' = FALSE
  /\ UpsetIf(\/ \E i \in DOMAIN wire : IsMail(wire[i])
             \/ \E i \in DOMAIN talk : talk[i].look = "waiting"
             \/ roomWire # <<>> \/ \E i \in DOMAIN rows : rows[i].look = "unverified", "left")
  /\ wire' = <<>> /\ roomWire' = <<>> /\ queries' = [p \in Peers |-> 0]
  /\ box' = [p \in Peers |-> {}]
  /\ talk' = [i \in DOMAIN talk |-> [talk[i] EXCEPT !.look = IF @ = "waiting" THEN "stranded" ELSE @]]
  /\ rows' = [i \in DOMAIN rows |-> [rows[i] EXCEPT !.look = IF @ = "unverified" THEN "bare" ELSE @]]
  /\ UNCHANGED <<mail, signOns, ready, published, sign, seen, handled, stash, hand>>

-----------------------------------------------------------------------------
Loops == HandleICBM \/ HandleKeyDir \/ RoomDecode \/ AddRoomMessage \/ SetupE2EE

Next ==
  \/ Loops \/ SignOn \/ SignOff
  \/ \E p \in Peers : Answer(p) \/ TimesOut(p) \/ EnsurePeerKeys(p) \/ Retire(p)
  \/ \E p \in Peers, d \in Devices :
       \/ Link(p, d)
       \/ \E kind \in {"chat", "protocol", "roster"} : Send(p, d, kind)
       \/ \E q \in Peers \cup {Stranger} : Say(p, q, d)
  \/ \E n \in Ids : Redeliver(n)

\* The connections are read, the work started on them ends, the directory answers.
Fairness ==
  /\ WF_vars(HandleICBM \/ HandleKeyDir) /\ WF_vars(RoomDecode) /\ WF_vars(AddRoomMessage)
  /\ WF_vars(SetupE2EE) /\ \A p \in Peers : WF_vars(Answer(p))

Spec == Init /\ [][Next]_vars /\ Fairness

-----------------------------------------------------------------------------
(* Properties. *)

\* What a person said shows once; what a program said is acted on once and never shows
\* ("it must never land in a conversation", handleICBM; "drop the message entirely
\* rather than leaving a placeholder", retryPendingDecrypts), however late it is opened.
EachInItsPlace ==
  /\ \A i \in DOMAIN talk : talk[i].look = "open" => mail[talk[i].id].kind = "chat"
  /\ \A i, j \in DOMAIN talk : talk[i].id = talk[j].id => i = j
  /\ \A i, j \in DOMAIN rows : rows[i].id = rows[j].id => i = j
  /\ \A n \in Ids : handled[n] <= 1

\* Every private message is shown or acted on in the end, whatever keys it had to wait
\* for, "instead of stranding the message behind a placeholder forever" (Message.Cipher).
EveryMessageGetsThrough ==
  \A n \in Ids : n \in DOMAIN mail /\ mail[n].kind # "room" /\ on
                   ~> ~on \/ "open" \in LooksOf(n) \/ handled[n] > 0

\* A room message's badge says in the end whose it is, whenever the keys come: unknown
\* is not forged (VerifySigned), and not for "the life of the session" (reverifyRoomMessages).
BadgesSettle ==
  \A n \in Ids :
    (\E i \in DOMAIN rows : rows[i].id = n) /\ on
      ~> \/ ~on
         \/ \A i \in DOMAIN rows :
              rows[i].id = n => rows[i].look = IF mail[n].by = mail[n].from THEN "verified" ELSE "forged"
=============================================================================
