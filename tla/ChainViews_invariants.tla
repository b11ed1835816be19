---------------------- MODULE ChainViews_invariants ----------------------
(***************************************************************************)
(* What the theorems about ChainViews (ChainViews_proof) are made of: the  *)
(* parts of its inductive invariants, the hypotheses on schedules, and     *)
(* what a step does to a person's record.                                  *)
(***************************************************************************)
EXTENDS ChainViews

-----------------------------------------------------------------------------
(* What the operators make of a person's record. *)

\* Texts that could have been sent.
Proper(texts) == texts \subseteq Message /\ \A h \in texts : h.index < Never

-----------------------------------------------------------------------------
(* Types, in parts, with what they rest on: nobody lists themselves, and no position passes Never. *)
RoomType == room \in [People -> Held] /\ \A m \in People : m \notin room[m].members

FileType ==
  file \in [People -> Held] /\ \A m \in People : m \notin file[m].members /\ file[m].joined = FALSE
SendType == send \in [People -> {"none", "give", "seal"}] /\ minted \in [People -> 0..MaxChains]

InviteType ==
  /\ invite \in [People -> [pc : {"none", "bundle", "tell"}, whom : People \cup {None}]]
  /\ \A m \in People : invite[m].pc # "none" => invite[m].whom # None

PendingType ==
  /\ pending \in [People -> [pc : {"none", "waiting", "adopt"}, what : Invitation \cup {None}]]
  /\ \A m \in People : pending[m].pc # "none" => pending[m].what \in Invitation

\* The room has texts for those in it, and texts are what was said.
InboxType ==
  /\ inbox \in [People -> Seq(Said)]
  /\ \A m \in People : inbox[m] # <<>> => room[m].joined
  /\ \A m \in People : \A i \in DOMAIN inbox[m] : inbox[m][i].kind = "text" => inbox[m][i].text \in said

MailType ==
  /\ mail \in [People -> Seq(Mail)]
  /\ \A m \in People : \A i \in DOMAIN mail[m] : mail[m][i].kind = "answer" => mail[m][i].messages \subseteq said

PastType ==
  /\ said \subseteq Message /\ IsFiniteSet(said)
  /\ \A h \in said : h.index < Never /\ h.at <= Cardinality(said)
  /\ hist \in [People -> SUBSET said]
  /\ invited \subseteq People /\ before \in [People -> SUBSET said]
AskType == asking \subseteq InRoom
CountType == counts \in [sends : 0..MaxSends, moves : 0..MaxMoves] /\ upsets \in 0..MaxUpsets

\* What positions have been paid for: a message for each, a block for each restart; and a
\* chain that is about to be handed out is there.
Spent == counts.sends + counts.moves * Block

Position(m) ==
  /\ room[m].next + (IF send[m] = "none" THEN 0 ELSE 1) <= Spent
  /\ room[m].reserved <= room[m].next + Block
  /\ file[m].reserved = file[m].next /\ file[m].next <= Spent + Block
  /\ send[m] = "give" => room[m].out # 0

Types ==
  /\ RoomType /\ FileType /\ SendType /\ InviteType /\ PendingType /\ InboxType /\ MailType
  /\ PastType /\ AskType /\ CountType
  /\ \A m \in People : Position(m)

\* Two records agree on who is in the room and who was removed; on the chain.
SameStanding(r, s) == r.encrypted = s.encrypted /\ r.members = s.members /\ r.removed = s.removed

SameChain(r, s) ==
  /\ r.out = s.out /\ r.next = s.next /\ r.reserved = s.reserved
  /\ r.stale = s.stale /\ r.shared = s.shared

\* What the file says of a room saved as r.
Saved(m, r) ==
  LET e == file'[m] IN
  /\ e \in Held
  /\ e.encrypted = r.encrypted /\ e.removed = r.removed \cup file[m].removed
  /\ e.members \subseteq (r.members \cup file[m].members) \ e.removed
  /\ e.out = r.out /\ e.stale = r.stale /\ e.shared = r.shared
  /\ e.next = higher(r.next, r.reserved) /\ e.reserved = e.next
  /\ e.views = r.views /\ e.passed = r.passed

-----------------------------------------------------------------------------
(* Every action keeps the types, and what it leaves. *)

\* Nobody invites themselves.
Others ==
  /\ \A m \in People : invite[m].whom # m
  /\ \A m \in People : pending[m].pc # "none" => pending[m].what.by # m
  /\ \A x \in People : \A i \in DOMAIN mail[x] : mail[x][i].kind = "invite" => mail[x][i].by # x
Typed == Types /\ Others

-----------------------------------------------------------------------------
(* What somebody cannot open, and will not be able to. *)

\* x cannot open chain c up to position k: not by what it has, not by what is on disk,
\* not by what is on its way to it.
Beyond(x, c, k) ==
  /\ room[x].views[c] > k /\ file[x].views[c] > k
  /\ ~Underway(x, c)
  /\ \A i \in DOMAIN mail[x] : mail[x][i].kind = "invite" => mail[x][i].chains[c] > k
  /\ pending[x].pc # "none" => pending[x].what.chains[c] > k

\* Chains are numbered as they are minted, and spoken under once they have been given out.
Numbered ==
  /\ \A m \in People : room[m].out <= minted[m] /\ file[m].out <= minted[m]
  /\ \A h \in said : h.chain[2] <= minted[h.chain[1]]
  /\ \A m \in People : send[m] = "give" => \A h \in said : h.chain # <<m, room[m].out>>

\* Of a chain yet to be minted nobody has anything.
Unminted ==
  \A m \in People : \A n \in 1..MaxChains : n > minted[m] =>
    \A x \in People : /\ Beyond(x, <<m, n>>, Never - 1)
                      /\ room[x].passed[<<m, n>>] = 0 /\ file[x].passed[<<m, n>>] = 0
Chained == Typed /\ Numbered /\ Unminted

-----------------------------------------------------------------------------
(* Who is invited, and from where they read. *)

\* What somebody has opened is behind where they stand in its chain.
Behind == \A y \in People : \A h \in hist[y] : h.index < room[y].passed[h.chain]

\* What is saved reads no further back than what is held.
Wider == \A y \in People : \A c \in Chains : room[y].views[c] <= file[y].views[c]

\* Who has been sent no invitation has none.
Uninvited ==
  \A y \in People \ invited : /\ pending[y].pc = "none"
                              /\ \A i \in DOMAIN mail[y] : mail[y][i].kind # "invite"

\* What had been said by the time somebody was invited is out of their reach, and so is
\* what would bring it within.
Forward == \A p \in People : \A h \in before[p] : Beyond(p, h.chain, h.index)
Kept == Chained /\ Behind /\ Wider /\ Uninvited /\ Forward

-----------------------------------------------------------------------------
(* Removals: what everybody knows of them, and what is on its way. *)

\* Everybody the owner has removed.
Gone == room[Owner].removed

\* A save: the tombstones are united, and nobody they name is a member.
Refiled(y) ==
  /\ file'[y].encrypted = room'[y].encrypted /\ file'[y].removed = room'[y].removed \cup file[y].removed
  /\ file'[y].members \subseteq (room'[y].members \cup file[y].members) \ file'[y].removed
  /\ file'[y].out = room'[y].out /\ file'[y].stale = room'[y].stale

\* What y knows of removals: the file says the same, the owner said it first, and nobody
\* removed is a member.  Outside the encrypted room there is nothing to know.
Knows(y) ==
  /\ file[y].removed = room[y].removed /\ file[y].encrypted = room[y].encrypted
  /\ room[y].removed \subseteq Gone \ {y}
  /\ room[y].members \cap room[y].removed = {} /\ file[y].members \cap room[y].removed = {}
  /\ ~room[y].encrypted =>
       /\ room[y].removed = {} /\ room[y].members = {} /\ file[y].members = {}
       /\ room[y].out = 0 /\ file[y].out = 0 /\ send[y] = "none"

\* A roster or an invitation for y: only the owner names anybody removed, and never y.
States(it) == it.kind \in {"invite", "roster"}

Word(y, it) ==
  /\ it.removed \subseteq Gone \ {y} /\ (it.by # Owner => it.removed = {})
  /\ it.by \in it.members /\ it.by # y

\* Everybody y has been told is removed, or is about to be by the invitation it is accepting.
Bans(y) == room[y].removed \cup (IF pending[y].pc # "none" THEN pending[y].what.removed ELSE {})

\* What is on its way to y: the owner, having removed somebody, never lists them again.
InOrder(y) ==
  /\ pending[y].pc # "none" => Word(y, pending[y].what)
  /\ \A i \in DOMAIN mail[y] : States(mail[y][i]) => Word(y, mail[y][i])
  /\ \A i \in DOMAIN mail[y] : States(mail[y][i]) /\ mail[y][i].by = Owner =>
       /\ mail[y][i].members \cap Bans(y) = {}
       /\ \A j \in DOMAIN mail[y] : j < i /\ States(mail[y][j]) =>
            mail[y][i].members \cap mail[y][j].removed = {}
Informed == room[Owner].encrypted /\ \A y \in People : Knows(y) /\ InOrder(y)

\* Whoever has the room already adopts no invitation that lays or lifts a tombstone, or
\* comes from somebody they know to be removed: adopting does so without replacing our
\* chain (app_room_e2ee.go:1202), and lifts in memory only (:462).
Settled ==
  \A m \in People : AdoptInviteState(m) /\ room[m].encrypted =>
    room'[m].removed = room[m].removed /\ room'[m].members \cap room'[m].removed = {}

-----------------------------------------------------------------------------
(* What the removed can read. *)

\* Nothing under this chain opens for x, now or by what is on its way to x.
Clean(x, c) == Beyond(x, c, Never - 1)

\* A chain that can still be sealed under is closed to everybody its holder knows to be
\* removed, the one on disk as the one in use.
Shut(m) ==
  \A r \in {room[m], file[m]} : r.out # 0 /\ ~r.stale =>
    \A x \in room[m].removed : Clean(x, <<m, r.out>>)

\* So is every chain something was said under, to those who were removed by then.
Past == \A h \in said : \A x \in h.barred : x \in Gone /\ Clean(x, h.chain)

\* Whoever its sender knows to be removed has nothing of any chain that can still be sealed
\* under, nor of any chain sealed under since.
Secluded == Chained /\ Informed /\ (\A m \in People : Shut(m)) /\ Past

-----------------------------------------------------------------------------
(* What the members can read. *)
Present == People \ Gone

\* Nobody goes on inviting whom the owner has removed.
Steady == \A m \in People : SendInvite(m) => m \notin Gone

\* What may still go wrong: broadcasts that fail, invitations made again, and invitations
\* adopted from somebody removed since.
Gentle == Upsets \subseteq {"unsent", "again", "outdated"}

\* x opens a chain at k, or k is behind its window; or will once it has read a broadcast.
Reads(x, c, k) == room[x].views[c] <= k \/ room[x].views[c] + Retention + 1 <= room[x].passed[c]
Reach(x, c, k) == Reads(x, c, k) \/ Underway(x, c)

\* The invitations on their way to x.
Invites(x) == {mail[x][i] : i \in {j \in DOMAIN mail[x] : mail[x][j].kind = "invite"}}
              \cup (IF pending[x].pc # "none" THEN {pending[x].what} ELSE {})

\* Who is outside the encrypted room is in the room to adopt an invitation only, and has
\* nothing of a catch-up.
Newcomer(x) ==
  ~room[x].encrypted => /\ room[x].joined => pending[x].pc = "adopt"
                        /\ x \notin asking
                        /\ \A y \in People : \A i \in DOMAIN mail[y] : mail[y][i].kind = "ask" => mail[y][i].by # x
                        /\ \A i \in DOMAIN mail[x] : mail[x][i].kind # "answer"
Chain(s) == <<s, room[s].out>>

\* What a restart can go back to.
Disk(y) ==
  /\ room[y].members \ Gone \subseteq file[y].members
  /\ room[y].next <= room[y].reserved
  /\ room[y].out # 0 => room[y].views[Chain(y)] = 0
  /\ IF file[y].out = room[y].out
     THEN /\ file[y].shared => room[y].shared
          /\ room[y].stale => file[y].stale
          /\ room[y].reserved <= file[y].next
     ELSE room[y].out # 0 /\ file[y].views[Chain(y)] # 0

\* Who is in, or on the way in, is on the list of whoever let them in, and knows the owner.
Acquainted(x) ==
  /\ room[x].encrypted /\ x # Owner => Owner \in room[x].members /\ \E i \in People : x \in room[i].members
  /\ \A it \in Invites(x) : x \in room[it.by].members /\ (x # Owner => Owner \in it.members)
  /\ \A i \in People : invite[i].pc # "none" /\ invite[i].whom = x => x \in room[i].members

\* Of the chain s seals under, everybody in the room can read what comes next, and everybody
\* on the way in will.
Current(s) == room[s].out # 0 /\ room[s].shared /\ ~room[s].stale

Given(s, x) ==
  Current(s) =>
    IF room[x].encrypted THEN s \in room[x].members /\ Reach(x, Chain(s), room[s].next)
    ELSE \A it \in Invites(x) : s \in it.members /\ it.chains[Chain(s)] <= room[s].next

\* A broadcast to x is from a member, and ahead of everything said under its chain.
Heard(x) ==
  \A i \in DOMAIN inbox[x] : inbox[x][i].kind = "chain" =>
    /\ x \in inbox[x][i].to /\ inbox[x][i].chain[1] \in Present => inbox[x][i].chain[1] \in room[x].members
    /\ \A j \in DOMAIN inbox[x] : inbox[x][j].kind = "text" /\ inbox[x][j].text.chain = inbox[x][i].chain => i < j

\* Everything x has yet to be shown, or may be by a catch-up.
Awaits(x, h) ==
  \/ \E i \in DOMAIN inbox[x] : inbox[x][i].kind = "text" /\ inbox[x][i].text = h
  \/ room[x].encrypted /\ h.at > room[x].since
  \/ \E y \in People : \E i \in DOMAIN mail[y] : mail[y][i].kind = "ask" /\ mail[y][i].by = x /\ h.at > mail[y][i].since
  \/ \E i \in DOMAIN mail[x] : mail[x][i].kind = "answer" /\ h \in mail[x][i].messages

Readable(x) ==
  \A h \in said : Awaits(x, h) /\ x \in h.for /\ h.chain[1] \in Present =>
    IF room[x].encrypted THEN Reach(x, h.chain, h.index)
    ELSE pending[x].what.chains[h.chain] <= h.index

\* Positions: nobody is ahead of whoever speaks.
Seen(x) ==
  /\ \A c \in Chains : room[x].passed[c] # 0 => room[x].views[c] <= room[x].passed[c]
  /\ \A s \in People : room[s].out # 0 => room[x].passed[Chain(s)] <= room[s].next
  /\ \A h \in said : h.chain = Chain(x) => h.index < room[x].next

-----------------------------------------------------------------------------
(* What a step does to somebody's chain and positions. *)

\* Positions that move do so by a text that opened.
Opens(y, c) ==
  \/ room'[y].passed[c] = room[y].passed[c]
  \/ /\ room'[y].views = room[y].views
     /\ \E h \in said : h.chain = c /\ CanOpen(room[y], h) /\ room'[y].passed[c] = h.index + 1

\* A room that says no less than it did of our chain, and opens no less.
Slight(q, r) ==
  /\ q.joined = r.joined /\ q.out = r.out /\ q.next = r.next /\ q.reserved = r.reserved /\ q.shared = r.shared
  /\ r.stale => q.stale
  /\ q.passed = r.passed /\ \A c \in Chains : q.views[c] <= r.views[c]

\* y saves, having learnt at most some chains and that somebody was removed.
Saves(y) ==
  \E r \in Held : /\ KeepAndSave(y, r) /\ Slight(r, room[y])
                  /\ room[y].encrypted => r.since = room[y].since

\* What a save leaves of our chain; a step that saves nothing, and leaves it.
Filed(y) ==
  /\ file'[y] = Entry(y, room'[y]) /\ room'[y].out = room[y].out /\ room'[y].next = room[y].next
  /\ room'[y].reserved = room[y].reserved /\ room'[y].shared = room[y].shared
  /\ room[y].stale => room'[y].stale
  /\ room'[y].passed = room[y].passed /\ room'[y].joined = room[y].joined
  /\ room[y].encrypted => room'[y].since = room[y].since
  /\ room[y].out # 0 /\ room[y].views[Chain(y)] = 0 => room'[y].views[Chain(y)] = 0
  /\ \A c \in Chains : room'[y].views[c] <= room[y].views[c] \/ room'[y].views[c] + Retention < room[y].passed[c]

Idle(y) ==
  /\ file'[y] = file[y] /\ SameChain(room'[y], room[y]) /\ room'[y].members = room[y].members
  /\ \A c \in Chains : room'[y].views[c] <= room[y].views[c] /\ Opens(y, c)

\* A chain gives way to a new one only, and nobody's next position goes back.
Mints(s) ==
  /\ SendRoomMessage(s) /\ UNCHANGED said /\ minted[s] + 1 \in 1..MaxChains
  /\ room'[s] = NewChain(s, room[s], minted[s] + 1)

-----------------------------------------------------------------------------
(* What is on its way to somebody. *)

Bundle(m) ==
  [kind |-> "invite", by |-> m, chains |-> ChainBundleFor(room[m], m, invite[m].whom),
   members |-> Roster(m, room[m]).members, removed |-> Roster(m, room[m]).removed]
Ask(m) == [kind |-> "ask", by |-> m, since |-> room[m].since]
Answer(m) == [kind |-> "answer", by |-> m, messages |-> RoomHistorySince(m, mail[m][1].since)]

\* The inductive invariant of MembersCanRead.
Told ==
  /\ Secluded
  /\ \A y \in People : Newcomer(y) /\ Seen(y) /\ Disk(y)
  /\ \A y \in Present : Acquainted(y) /\ Heard(y) /\ Readable(y)
  /\ \A s, y \in Present : s # y => Given(s, y)
=============================================================================
