----------------------------- MODULE ChainViews -----------------------------
(***************************************************************************)
(* The reading half of an encrypted room: who is given whose chain, from   *)
(* which position on, and what of the room each member can then open.      *)
(*                                                                         *)
(* A sender hands its chain out in one broadcast just before the first     *)
(* message under it; a newcomer gets a bundle of every chain the inviter   *)
(* can read, wound to where it stands; who comes back asks a member for    *)
(* what was said meanwhile.  The room delivers in order to those in it;    *)
(* rosters, invitations and catch-ups go 1:1, in order too.  Overlapping   *)
(* sends of one client are RoomChainSend's subject; owners' pins, epochs,  *)
(* failed saves and invitations that cannot be sent are RoomMembership's.  *)
(***************************************************************************)
EXTENDS Naturals, Sequences, FiniteSets

CONSTANTS
  People, Owner,
  Founders,     \* who has the room at first
  None,
  Retention,    \* chainRetention
  Block,        \* chainReservationBlock
  Upsets,       \* what may go wrong: a subset of UpsetKinds
  MaxChains,    \* bound: chains one person mints
  MaxSends,     \* bound: messages sent
  MaxMoves,     \* bound: invitations, removals, joins, departures and restarts, all told
  MaxUpsets     \* bound: upsets, all told

\* `absent`: a broadcast to a member who is out of the room, or leaves before it arrives.
\* `unheard`: a chain taken into use by or among people who have yet to hear of an
\* invitation, be it with nobody to broadcast to.  `unsent`: a broadcast that fails.  `unspoken`:
\* a bundle without a chain in use that the inviter has read nothing under.  `readmit`: a
\* bundle for somebody whose removal the inviter has yet to hear of.  `early`: something
\* said between joining the room and adopting the invitation.  `sitting`: a join by
\* somebody who has not accepted an invitation.  `outdated`: an invitation adopted from
\* somebody removed since.  `overtaken`: a catch-up that arrives ahead of a broadcast.
\* `again`: an invitation of somebody who has had one.
\* `undone`: an owner's roster made before the owner heard of somebody x has heard of.
\* `lost`: a program that stops with views or positions it has not saved, or not read.
UpsetKinds == {"absent", "unheard", "unsent", "unspoken", "readmit", "early", "sitting",
               "outdated", "overtaken", "again", "undone", "lost"}

ASSUME ViewsAssumption ==
  /\ Owner \in Founders /\ Founders \subseteq People /\ IsFiniteSet(People) /\ None \notin People
  /\ Retention \in Nat /\ Block \in Nat \ {0} /\ Upsets \subseteq UpsetKinds
ASSUME ViewsBounds ==
  {MaxChains, MaxSends, MaxMoves, MaxUpsets} \subseteq Nat

VARIABLES
  room,      \* what each person's client holds of the room
  file,      \* what of it is on disk
  send,      \* the step of the send each person is in
  invite,    \* the invitation each person is making
  pending,   \* the invitation each person has waiting, or is accepting
  inbox,     \* what the room has for each person
  mail,      \* 1:1 messages for each person
  hist,      \* the messages each person has opened, or said
  said,      \* history: every message
  invited,   \* history: who has been sent an invitation
  before,    \* history: what had been said by then, and not to them
  asking,    \* who is back in the room and has yet to ask what was said
  missed,    \* history: who could not open which message meant for them
  minted,    \* chains minted by each
  counts, upsets

past == <<said, invited, before, missed>>
vars == <<room, file, send, invite, pending, inbox, mail, hist, past, asking, minted, counts, upsets>>

Chains == People \X (1 .. MaxChains)
Never == (MaxSends + MaxMoves) * (Block + 1) + 1    \* a view that opens nothing

\* A view is the first position it opens.  `passed` is one more than the last position
\* seen, 0 for none.  `since` numbers the last message shown.
Empty == [joined |-> FALSE, encrypted |-> FALSE, members |-> {}, removed |-> {},
          out |-> 0, next |-> 0, reserved |-> 0, stale |-> FALSE, shared |-> FALSE,
          views |-> [c \in Chains |-> Never], passed |-> [c \in Chains |-> 0], since |-> 0]

Message == [chain : Chains, index : Nat, for : SUBSET People, barred : SUBSET People, at : Nat]
Offers == [Chains -> 0..Never]
Held == [joined : BOOLEAN, encrypted : BOOLEAN, members : SUBSET People, removed : SUBSET People,
         out : 0..MaxChains, next : Nat, reserved : Nat, stale : BOOLEAN, shared : BOOLEAN,
         views : Offers, passed : [Chains -> 0..Never], since : Nat]
Invitation == [kind : {"invite"}, by : People, chains : Offers, members : SUBSET People,
               removed : SUBSET People]
Mail == Invitation
  \cup [kind : {"roster"}, by : People, members : SUBSET People, removed : SUBSET People]
  \cup [kind : {"ask"}, by : People, since : Nat]
  \cup [kind : {"answer"}, by : People, messages : SUBSET Message]
Said == [kind : {"chain"}, chain : Chains, to : SUBSET People] \cup [kind : {"text"}, text : Message]

InRoom == {m \in People : room[m].joined}

TypeOK ==
  /\ {room, file} \subseteq [People -> Held] /\ minted \in [People -> 0..MaxChains]
  /\ send \in [People -> {"none", "give", "seal"}]
  /\ invite \in [People -> [pc : {"none", "bundle", "tell"}, whom : People \cup {None}]]
  /\ \A m \in People : invite[m].pc # "none" => invite[m].whom # None
  /\ pending \in [People -> [pc : {"none", "waiting", "adopt"}, what : Invitation \cup {None}]]
  /\ \A m \in People : pending[m].pc # "none" => pending[m].what \in Invitation
  /\ inbox \in [People -> Seq(Said)] /\ mail \in [People -> Seq(Mail)]
  /\ asking \subseteq InRoom /\ said \subseteq Message /\ hist \in [People -> SUBSET said]
  /\ invited \subseteq People /\ before \in [People -> SUBSET said]
  /\ \A m \in People : m \notin room[m].members \cup file[m].members /\ ~file[m].joined
  /\ \A m \in People : inbox[m] # <<>> => room[m].joined
  /\ counts \in [sends : 0..MaxSends, moves : 0..MaxMoves] /\ upsets \in 0..MaxUpsets

NotInviting == [pc |-> "none", whom |-> None]
NoInvite == [pc |-> "none", what |-> None]

Init ==
  /\ room = [m \in People |-> IF m \in Founders
                              THEN [Empty EXCEPT !.joined = TRUE, !.encrypted = TRUE,
                                                 !.members = Founders \ {m}] ELSE Empty]
  /\ file = [m \in People |-> [room[m] EXCEPT !.joined = FALSE]]
  /\ send = [m \in People |-> "none"] /\ invite = [m \in People |-> NotInviting]
  /\ pending = [m \in People |-> NoInvite]
  /\ inbox = [m \in People |-> <<>>] /\ mail = inbox
  /\ hist = [m \in People |-> {}] /\ said = {} /\ missed = {}
  /\ invited = {} /\ before = hist
  /\ asking = {} /\ minted = [m \in People |-> 0]
  /\ counts = [sends |-> 0, moves |-> 0] /\ upsets = 0

Upset(kind) == kind \in Upsets /\ upsets < MaxUpsets /\ upsets' = upsets + 1
UpsetIf(condition, kind) == IF condition THEN Upset(kind) ELSE UNCHANGED upsets

Counted(what, bound) == counts[what] < bound /\ counts' = [counts EXCEPT ![what] = @ + 1]

lower(a, b) == IF a < b THEN a ELSE b
higher(a, b) == IF a > b THEN a ELSE b
highest(S) == CHOOSE n \in S : \A k \in S : k <= n

Keep(m, r) == room' = [room EXCEPT ![m] = r]

-----------------------------------------------------------------------------
(* Views *)

\* A view only ever reaches further back; one chain's positions are one sequence, so
\* whatever is offered for a chain continues it.
LearnChainViews(r, offered) == [r EXCEPT !.views = [c \in Chains |-> lower(@[c], offered[c])]]

CanOpen(r, text) == r.views[text.chain] <= text.index

NoteChainPositions(r, opened) ==
  [r EXCEPT !.passed =
     [c \in Chains |-> highest({@[c]} \cup {h.index + 1 : h \in {t \in opened : t.chain = c}})]]

Show(r, texts) == [r EXCEPT !.since = highest({@} \cup {h.at : h \in texts})]

\* Other people's views are wound on to the retention window.
PruneChainViews(m, r) ==
  [r EXCEPT !.views = [c \in Chains |-> IF c # <<m, r.out>> /\ @[c] # Never /\ r.passed[c] > Retention
                                        THEN higher(@[c], r.passed[c] - 1 - Retention) ELSE @[c]]]

\* mergedRoomEntry: our chain at its reservation; tombstones only grow, and nobody they
\* name is kept; an empty list is taken for a restore that never ran.
Entry(m, r) ==
  LET gone == r.removed \cup file[m].removed
      kept == higher(r.next, r.reserved)
  IN  [r EXCEPT !.joined = FALSE, !.next = kept, !.reserved = kept, !.removed = gone,
                !.members = (IF @ = {} THEN file[m].members ELSE @) \ gone]

PersistRoomChain(m, r) == file' = [file EXCEPT ![m] = Entry(m, r)]

\* saveRoomKeys: winds the views on, then saves.
KeepAndSave(m, r) ==
  LET pruned == PruneChainViews(m, r) IN Keep(m, pruned) /\ PersistRoomChain(m, pruned)

-----------------------------------------------------------------------------
(* Sending.  One send at a time on each machine. *)

Post(m, item) ==
  inbox' = [x \in People |-> IF x \in InRoom \ {m} THEN Append(inbox[x], item) ELSE inbox[x]]

Step(m, pc) == send' = [send EXCEPT ![m] = pc]

\* A chain nobody has yet, that has promised nothing.
NewChain(m, r, n) ==
  [r EXCEPT !.out = n, !.next = 0, !.reserved = 0, !.stale = FALSE, !.shared = FALSE,
            !.views[<<m, n>>] = 0]

\* SendRoomMessage up to EnsureOutboundChain: a new chain if there is none, or if it is stale.
SendRoomMessage(m) ==
  LET r == room[m]
      n == minted[m] + 1
  IN
  /\ send[m] = "none" /\ r.joined /\ r.encrypted
  /\ Counted("sends", MaxSends)
  /\ \/ /\ r.out # 0 /\ ~r.stale
        /\ Step(m, "seal")
        /\ UNCHANGED <<room, minted>>
     \/ /\ r.out = 0 \/ r.stale
        /\ n <= MaxChains
        /\ minted' = [minted EXCEPT ![m] = n]
        /\ Keep(m, NewChain(m, r, n))
        /\ Step(m, "give")
  /\ UNCHANGED <<file, invite, pending, inbox, mail, hist, past, asking, upsets>>

\* Somebody has been invited whom m has yet to hear of, or who has yet to hear of m.
Unheard(m) ==
  \E x \in People \ {m} :
    \/ x \in room[m].members /\ m \notin room[x].members
    \/ x \notin room[m].members /\ \E i \in People : x \in room[i].members \ room[Owner].removed

\* One broadcast, with a slot for every member.
ChainBroadcast(m) == [kind |-> "chain", chain |-> <<m, room[m].out>>, to |-> room[m].members]

\* ensureRoomChainDistributed: the broadcast, or nobody to give the chain to.
DistributeChain(m) ==
  /\ send[m] = "give"
  /\ IF room[m].members = {} THEN UNCHANGED inbox ELSE Post(m, ChainBroadcast(m))
  /\ IF room[m].members \subseteq InRoom THEN UpsetIf(Unheard(m), "unheard") ELSE Upset("absent")
  /\ Keep(m, [room[m] EXCEPT !.shared = TRUE])
  /\ Step(m, "seal")
  /\ UNCHANGED <<file, invite, pending, mail, hist, past, asking, minted, counts>>

\* The chain stays, unshared: later sends find it, and are refused.
BroadcastFails(m) ==
  /\ send[m] = "give" /\ room[m].members # {}
  /\ Upset("unsent")
  /\ Step(m, "none")
  /\ UNCHANGED <<room, file, invite, pending, inbox, mail, hist, past, asking, minted, counts>>

\* Mutant: a stale chain seals.
UsableThoughStale(r) == r.out # 0 /\ r.shared
Usable(r) == r.out # 0 /\ ~r.stale /\ r.shared

SealRoomChain(m) ==
  [chain |-> <<m, room[m].out>>, index |-> room[m].next, for |-> room[m].members,
   barred |-> room[m].removed, at |-> Cardinality(said) + 1]

\* reserveChainPositions comes first, whether or not the chain is usable.
SealRoomMessage(m) ==
  LET r    == room[m]
      need == r.next >= r.reserved
      kept == [r EXCEPT !.reserved = IF need THEN r.next + Block ELSE @]
      text == SealRoomChain(m)
  IN
  /\ send[m] = "seal"
  /\ IF need THEN PersistRoomChain(m, kept) ELSE UNCHANGED file
  /\ IF Usable(r)
     THEN /\ Keep(m, [NoteChainPositions(Show(kept, {text}), {text}) EXCEPT !.next = @ + 1])
          /\ Post(m, [kind |-> "text", text |-> text])
          /\ said' = said \cup {text} /\ hist' = [hist EXCEPT ![m] = @ \cup {text}]
     ELSE Keep(m, kept) /\ UNCHANGED <<inbox, said, hist>>
  /\ Step(m, "none")
  /\ UNCHANGED <<invite, pending, mail, invited, before, missed, asking, minted, counts, upsets>>

-----------------------------------------------------------------------------
(* Inviting and removing *)

Deliver(to, item) == mail' = [x \in People |-> IF x \in to THEN Append(mail[x], item) ELSE mail[x]]

Roster(m, r) == [kind |-> "roster", by |-> m, members |-> r.members \cup {m},
                 removed |-> IF m = Owner THEN r.removed ELSE {}]

\* Recorded before anything is sent.
InviteToRoom(m, p) ==
  /\ invite[m].pc = "none" /\ room[m].encrypted /\ p \notin room[m].removed
  /\ Counted("moves", MaxMoves)
  /\ UpsetIf(p \in invited \/ \E i \in People : invite[i].whom = p, "again")
  /\ KeepAndSave(m, [room[m] EXCEPT !.members = @ \cup {p}])
  /\ invite' = [invite EXCEPT ![m] = [pc |-> "bundle", whom |-> p]]
  /\ UNCHANGED <<send, pending, inbox, mail, hist, past, asking, minted>>

\* Mutants: the bundle reads as far back as the inviter; it lacks the inviter's own chains.
BundleUnwound(r, m, p) == r.views
BundleOfOthers(r, m, p) ==
  [c \in Chains |-> IF p \in r.members /\ r.passed[c] # 0 /\ c[1] # m THEN higher(r.views[c], r.passed[c]) ELSE Never]

\* For a member only: every chain with a known position, from the position after it on.
ChainBundleFor(r, m, p) ==
  [c \in Chains |-> IF p \in r.members /\ r.passed[c] # 0 THEN higher(r.views[c], r.passed[c]) ELSE Never]

Unspoken(m) ==
  \E o \in {m} \cup room[m].members :
    room[o].out # 0 /\ ~room[o].stale /\ room[m].passed[<<o, room[o].out>>] = 0

\* A broadcast with a slot for x that x has yet to read.
Underway(x, chain) ==
  \E i \in DOMAIN inbox[x] :
    inbox[x][i].kind = "chain" /\ inbox[x][i].chain = chain /\ x \in inbox[x][i].to

\* The bundle and a roster go to the newcomer.
SendInvite(m) ==
  LET p == invite[m].whom
      r == room[m]
      was == {h \in hist[m] : p \notin h.for /\ ~CanOpen(room[p], h) /\ ~Underway(p, h.chain)}
  IN
  /\ invite[m].pc = "bundle"
  /\ Deliver({p}, [kind |-> "invite", by |-> m, chains |-> ChainBundleFor(r, m, p),
                   members |-> Roster(m, r).members, removed |-> Roster(m, r).removed])
  /\ before' = [before EXCEPT ![p] = IF p \in invited THEN @ \cap was ELSE was]
  /\ invited' = invited \cup {p}
  /\ IF p \in room[Owner].removed THEN Upset("readmit") ELSE UpsetIf(Unspoken(m), "unspoken")
  /\ invite' = [invite EXCEPT ![m].pc = "tell"]
  /\ UNCHANGED <<room, file, send, pending, inbox, hist, said, missed, asking, minted, counts>>

\* distributeRoster: everybody else learns of the newcomer.
TellMembers(m) ==
  /\ invite[m].pc = "tell"
  /\ Deliver(room[m].members \ {invite[m].whom}, Roster(m, room[m]))
  /\ invite' = [invite EXCEPT ![m] = NotInviting]
  /\ UNCHANGED <<room, file, send, pending, inbox, hist, past, asking, minted, counts, upsets>>

\* RotateRoomKey by the owner, who alone may; our chain is replaced before it seals again.
RemoveMember(p) ==
  LET r == [room[Owner] EXCEPT !.members = @ \ {p}, !.removed = @ \cup {p}, !.stale = TRUE] IN
  /\ room[Owner].encrypted /\ p \in room[Owner].members
  /\ Counted("moves", MaxMoves)
  /\ KeepAndSave(Owner, r)
  /\ Deliver(r.members, Roster(Owner, r))
  /\ UNCHANGED <<send, invite, pending, inbox, hist, past, asking, minted, upsets>>

-----------------------------------------------------------------------------
(* What arrives *)

\* Whether it matters that x cannot open h: nobody has been removed, no invitation is on
\* its way to x, and h is in x's window.
MeantFor(x, h) ==
  /\ x \in h.for /\ {x, h.chain[1]} \cap room[Owner].removed = {}
  /\ \A i \in People : invite[i] # [pc |-> "bundle", whom |-> x]
  /\ \A i \in DOMAIN mail[x] : mail[x][i].kind # "invite"
  /\ h.index + Retention + 1 >= room[x].passed[h.chain]

\* decodeRoomMessageFrom, of each: shown, and opened if a view allows.
Decode(x, texts) ==
  LET fresh  == texts \ hist[x]
      opened == {h \in fresh : CanOpen(room[x], h)}
  IN
  /\ Keep(x, NoteChainPositions(Show(room[x], texts), opened))
  /\ hist' = [hist EXCEPT ![x] = @ \cup opened]
  /\ missed' = missed \cup {<<x, h>> : h \in {t \in fresh \ opened : MeantFor(x, t)}}

Arrives(x, kind) ==
  /\ inbox[x] # <<>> /\ Head(inbox[x]).kind = kind
  /\ inbox' = [inbox EXCEPT ![x] = Tail(@)]
  /\ UpsetIf(pending[x].pc = "adopt", "early")
  /\ UNCHANGED <<file, send, invite, pending, mail, said, invited, before, asking, minted, counts>>

\* Without a slot a broadcast opens nothing.
DecodeChainBroadcast(x, given) ==
  [c \in Chains |-> IF x \in given.to /\ c = given.chain THEN 0 ELSE Never]

\* Refused from anybody but a member.  Learnt, not saved.
HandleChainBroadcast(x) ==
  /\ Arrives(x, "chain")
  /\ LET given == Head(inbox[x]) IN
     IF given.chain[1] \in room[x].members
     THEN Keep(x, LearnChainViews(room[x], DecodeChainBroadcast(x, given)))
     ELSE UNCHANGED room
  /\ UNCHANGED <<hist, missed>>

HandleRoomMessage(x) == Arrives(x, "text") /\ Decode(x, {Head(inbox[x]).text})

Unread(m) == \E i \in DOMAIN inbox[m] : inbox[m][i].kind = "chain"

Mailed(x, kind) ==
  /\ mail[x] # <<>> /\ Head(mail[x]).kind = kind
  /\ UNCHANGED <<send, invite, inbox, said, invited, before, asking, minted, counts>>

Taken(x) == mail' = [mail EXCEPT ![x] = Tail(@)]

\* The roster at the head of x's mail takes somebody who has not been removed off x's list.
Undoes(x) ==
  /\ room[x].encrypted /\ Head(mail[x]).by = Owner
  /\ ~(room[x].members \ room[Owner].removed \subseteq Head(mail[x]).members)

\* applyRoster, for a room with a pin: a member's roster adds; the owner's replaces the
\* list, and retires our chain when it names somebody newly removed.
ApplyRoster(x) ==
  LET it == Head(mail[x])
      r  == room[x]
      gone == (r.removed \cup it.removed) \ it.members
  IN
  /\ Mailed(x, "roster") /\ Taken(x)
  /\ IF ~r.encrypted \/ it.by \notin r.members \cup {Owner} THEN UNCHANGED <<room, file>>
     ELSE IF it.by # Owner
     THEN KeepAndSave(x, [r EXCEPT !.members = @ \cup (it.members \ ({x} \cup r.removed))])
     ELSE KeepAndSave(x, [r EXCEPT !.members = it.members \ {x}, !.removed = gone,
                                   !.stale = @ \/ ~(it.removed \subseteq r.removed)])
  /\ UpsetIf(Undoes(x), "undone")
  /\ UNCHANGED <<pending, hist, missed>>

\* In the room, it is chains from a member, or nothing; out of it, it waits for the user.
HandleRoomInvite(x) ==
  LET it == Head(mail[x]) IN
  /\ Mailed(x, "invite") /\ Taken(x)
  /\ IF ~room[x].joined
     THEN pending' = [pending EXCEPT ![x] = [pc |-> "waiting", what |-> it]] /\ UNCHANGED <<room, file>>
     ELSE /\ IF it.by \in room[x].members THEN KeepAndSave(x, LearnChainViews(room[x], it.chains))
             ELSE UNCHANGED <<room, file>>
          /\ UNCHANGED pending
  /\ UNCHANGED <<hist, missed, upsets>>

\* The envelopes of what was opened here.
RoomHistorySince(x, since) == {h \in hist[x] : h.at > since}

\* A member is answered.
ServeCatchup(x) ==
  LET it == Head(mail[x])
      texts == RoomHistorySince(x, it.since)
  IN
  /\ Mailed(x, "ask")
  /\ mail' = [y \in People |->
       IF y = x THEN Tail(mail[x])
       ELSE IF y = it.by /\ room[x].joined /\ it.by \in room[x].members /\ texts # {}
       THEN Append(mail[y], [kind |-> "answer", by |-> x, messages |-> texts]) ELSE mail[y]]
  /\ UNCHANGED <<room, file, pending, hist, missed, upsets>>

\* MergeCatchup: opened as if it came now.
MergeCatchup(x) ==
  /\ Mailed(x, "answer") /\ Taken(x)
  /\ UpsetIf(Unread(x), "overtaken")
  /\ IF room[x].joined THEN Decode(x, Head(mail[x]).messages) ELSE UNCHANGED <<room, hist, missed>>
  /\ UNCHANGED <<file, pending>>

-----------------------------------------------------------------------------
(* Coming and going *)

\* JoinRoom by name: back in the room, or a first time without an invitation.  The first
\* time sets how far back a catch-up may ask.
JoinRoom(m) ==
  /\ ~room[m].joined
  /\ Counted("moves", MaxMoves)
  /\ UpsetIf(~room[m].encrypted, "sitting")
  /\ Keep(m, [room[m] EXCEPT !.joined = TRUE, !.since = IF room[m].encrypted THEN @ ELSE Cardinality(said)])
  /\ asking' = IF room[m].encrypted THEN asking \cup {m} ELSE asking
  /\ UNCHANGED <<file, send, invite, pending, inbox, mail, hist, past, minted>>

\* requestRoomCatchup: one member is asked, from the last message shown on.
RequestCatchup(m) ==
  /\ m \in asking
  /\ \/ room[m].members = {} /\ UNCHANGED mail
     \/ \E peer \in room[m].members : Deliver({peer}, [kind |-> "ask", by |-> m, since |-> room[m].since])
  /\ asking' = asking \ {m}
  /\ UNCHANGED <<room, file, send, invite, pending, inbox, hist, past, minted, counts, upsets>>

\* AcceptRoomInvite up to JoinRoom, and what follows it.
AcceptRoomInvite(m) ==
  /\ pending[m].pc = "waiting"
  /\ pending' = [pending EXCEPT ![m].pc = "adopt"]
  /\ Keep(m, [room[m] EXCEPT !.joined = TRUE])
  /\ UNCHANGED <<file, send, invite, inbox, mail, hist, past, asking, minted, counts, upsets>>

\* adoptInviteState: the chains, the inviter, the owner's tombstones, everybody else.
AdoptInviteState(m) ==
  LET it == pending[m].what
      r  == LearnChainViews(room[m], it.chains)
      gone == IF it.by = Owner THEN (r.removed \cup it.removed) \ it.members ELSE r.removed
  IN
  /\ pending[m].pc = "adopt"
  /\ pending' = [pending EXCEPT ![m] = NoInvite]
  /\ KeepAndSave(m, [r EXCEPT !.encrypted = TRUE, !.removed = gone,
                              !.members = @ \cup {it.by} \cup (it.members \ ({m} \cup gone)),
                              !.since = IF r.encrypted THEN @ ELSE Cardinality(said)])
  /\ UpsetIf(it.by \in gone, "outdated")
  /\ UNCHANGED <<send, invite, inbox, mail, hist, past, asking, minted, counts>>

\* Between sends: the connection closes, and what was under way to it is gone.
LeaveRoom(m) ==
  /\ room[m].joined /\ send[m] = "none" /\ pending[m].pc # "adopt"
  /\ Counted("moves", MaxMoves)
  /\ Keep(m, [room[m] EXCEPT !.joined = FALSE])
  /\ UpsetIf(Unread(m), "absent")
  /\ inbox' = [inbox EXCEPT ![m] = <<>>] /\ asking' = asking \ {m}
  /\ UNCHANGED <<file, send, invite, pending, mail, hist, past, minted>>

\* The program stops, and starts from the entry on disk; scrollback has a file of its own.
RestartFrom(m, entry) ==
  /\ Counted("moves", MaxMoves)
  /\ file' = [file EXCEPT ![m] = entry]
  /\ Keep(m, [entry EXCEPT !.since = room[m].since])
  /\ UpsetIf(Unread(m) \/ entry.views # room[m].views \/ entry.passed # room[m].passed, "lost")
  /\ send' = [send EXCEPT ![m] = "none"] /\ invite' = [invite EXCEPT ![m] = NotInviting]
  /\ pending' = [pending EXCEPT ![m] = NoInvite]
  /\ inbox' = [inbox EXCEPT ![m] = <<>>] /\ asking' = asking \ {m}
  /\ UNCHANGED <<mail, hist, past, minted>>

\* flushRoomKeys saves the rooms that are joined.
Quit(m) == RestartFrom(m, IF room[m].joined /\ room[m].encrypted THEN Entry(m, room[m]) ELSE file[m])
Crash(m) == RestartFrom(m, file[m])

-----------------------------------------------------------------------------

Next ==
  \/ \E m \in People :
       \/ SendRoomMessage(m) \/ DistributeChain(m) \/ BroadcastFails(m) \/ SealRoomMessage(m)
       \/ SendInvite(m) \/ TellMembers(m)
       \/ HandleChainBroadcast(m) \/ HandleRoomMessage(m)
       \/ ApplyRoster(m) \/ HandleRoomInvite(m) \/ ServeCatchup(m) \/ MergeCatchup(m)
       \/ JoinRoom(m) \/ RequestCatchup(m) \/ AcceptRoomInvite(m) \/ AdoptInviteState(m)
       \/ LeaveRoom(m) \/ Quit(m) \/ Crash(m)
  \/ \E m \in People : \E p \in People \ {m} : InviteToRoom(m, p)
  \/ \E p \in People : RemoveMember(p)

Spec == Init /\ [][Next]_vars

-----------------------------------------------------------------------------
(* Properties *)

\* Who is invited reads what is said from then on, and nothing the inviter had seen said
\* before it (app_room_e2ee.go:719-722): the winding of bundles.
NewcomersReadForward ==
  \A p \in People : \A h \in before[p] : ~CanOpen(room[p], h)

\* Nothing is sealed that somebody its sender knows to be removed can open, whatever they
\* held, were sent or are brought: removals, staleness and the invitations in between.
RemovedReadNothing ==
  \A h \in said : \A x \in h.barred : ~CanOpen(room[x], h)

\* Every message reaches its sender's members readable, or is readable when a catch-up
\* brings it: chains are given out before they are spoken under, whoever comes and goes.
MembersCanRead == missed = {}
=============================================================================
