-------------------------- MODULE ChainViews_proof --------------------------
(***************************************************************************)
(* Theorems about ChainViews, for any people and any bounds: types; who is *)
(* invited reads nothing the inviter had seen said before; who is removed  *)
(* reads nothing sealed by anybody who knows of it; and whoever is in the  *)
(* room can read what is said to them.                                     *)
(***************************************************************************)
EXTENDS ChainViews_invariants, FiniteSetTheorems, SequenceTheorems, WellFoundedInduction, TLAPS

-----------------------------------------------------------------------------
(* What the operators make of a person's record. *)

\* A set of naturals with a bound has a highest member.
LEMMA HighestOf ==
  ASSUME NEW n \in Nat, NEW S, S \subseteq 0..n, S # {}
  PROVE  highest(S) \in S /\ \A k \in S : k <= highest(S)
<1> DEFINE T == {n - k : k \in S}
<1>1. T \subseteq Nat /\ T # {}
  OBVIOUS
<1>2. PICK x \in T : \A y \in T : ~(<<y, x>> \in OpToRel(<, Nat))
  BY <1>1, WFMin, NatLessThanWellFounded
<1>3. \A y \in T : ~(y < x)
  BY <1>1, <1>2 DEF OpToRel
<1>4. PICK k \in S : x = n - k
  OBVIOUS
<1>5. \A j \in S : j <= k
  BY <1>3, <1>4
<1>6. \E j \in S : \A i \in S : i <= j
  BY <1>5
<1>7. QED BY <1>6 DEF highest

\* How far a position can go.
LEMMA NeverType ==
  /\ Never \in Nat /\ Never # 0
  /\ \A i \in 0..MaxSends : \A j \in 0..MaxMoves : i + j * Block < Never
<1>1. MaxSends \in Nat /\ MaxMoves \in Nat /\ Block \in Nat
  BY ViewsAssumption, ViewsBounds
<1> DEFINE a == MaxSends * Block
           b == MaxMoves * Block
<1>2. a \in Nat /\ b \in Nat
  BY <1>1
<1>3. Never = a + b + MaxSends + MaxMoves + 1
  BY <1>1 DEF Never
<1>4. \A j \in 0..MaxMoves : j * Block \in Nat /\ j * Block <= b
  <2> SUFFICES ASSUME NEW j \in 0..MaxMoves PROVE j * Block \in Nat /\ j * Block <= b
    OBVIOUS
  <2>1. PICK i \in Nat : MaxMoves = j + i
    BY <1>1
  <2>2. b = j * Block + i * Block /\ i * Block \in Nat /\ j * Block \in Nat
    BY <1>1, <2>1
  <2>3. QED BY <2>2
<1> HIDE DEF a, b
<1>5. QED BY <1>1, <1>2, <1>3, <1>4

\* What is learnt reaches further back, and no further than offered.
LEMMA LearnOf ==
  ASSUME NEW r \in Held, NEW offered \in Offers
  PROVE  /\ LearnChainViews(r, offered) \in Held
         /\ LearnChainViews(r, offered).joined = r.joined
         /\ LearnChainViews(r, offered).encrypted = r.encrypted
         /\ LearnChainViews(r, offered).members = r.members
         /\ LearnChainViews(r, offered).removed = r.removed
         /\ LearnChainViews(r, offered).out = r.out
         /\ LearnChainViews(r, offered).next = r.next
         /\ LearnChainViews(r, offered).reserved = r.reserved
         /\ LearnChainViews(r, offered).stale = r.stale
         /\ LearnChainViews(r, offered).shared = r.shared
         /\ LearnChainViews(r, offered).passed = r.passed
         /\ LearnChainViews(r, offered).since = r.since
         /\ \A c \in Chains : /\ LearnChainViews(r, offered).views[c] \in {r.views[c], offered[c]}
                              /\ LearnChainViews(r, offered).views[c] <= r.views[c]
<1> DEFINE v == [c \in Chains |-> lower(r.views[c], offered[c])]
<1>1. r.views \in Offers /\ \A c \in Chains : r.views[c] \in 0..Never /\ offered[c] \in 0..Never
  BY DEF Held, Offers
<1>2. \A c \in Chains : v[c] \in {r.views[c], offered[c]} /\ v[c] <= r.views[c]
  BY <1>1, NeverType DEF lower
<1>3. v \in Offers
  BY <1>1, <1>2 DEF Offers
<1>4. LearnChainViews(r, offered) = [r EXCEPT !.views = v]
  BY DEF LearnChainViews, Held
<1> HIDE DEF v
<1>5. QED BY <1>2, <1>3, <1>4 DEF Held

\* Winding on takes no view back, and loses only what is past the window.
LEMMA PruneOf ==
  ASSUME NEW m \in People, NEW r \in Held
  PROVE  /\ PruneChainViews(m, r) \in Held
         /\ PruneChainViews(m, r).joined = r.joined
         /\ PruneChainViews(m, r).encrypted = r.encrypted
         /\ PruneChainViews(m, r).members = r.members
         /\ PruneChainViews(m, r).removed = r.removed
         /\ PruneChainViews(m, r).out = r.out
         /\ PruneChainViews(m, r).next = r.next
         /\ PruneChainViews(m, r).reserved = r.reserved
         /\ PruneChainViews(m, r).stale = r.stale
         /\ PruneChainViews(m, r).shared = r.shared
         /\ PruneChainViews(m, r).passed = r.passed
         /\ PruneChainViews(m, r).since = r.since
         /\ \A c \in Chains :
              /\ PruneChainViews(m, r).views[c] >= r.views[c]
              /\ PruneChainViews(m, r).views[c] > r.views[c] =>
                   PruneChainViews(m, r).views[c] + Retention < r.passed[c]
<1> DEFINE far(c) == c # <<m, r.out>> /\ r.views[c] # Never /\ r.passed[c] > Retention
           v == [c \in Chains |-> IF far(c) THEN higher(r.views[c], r.passed[c] - 1 - Retention)
                                  ELSE r.views[c]]
<1>1. \A c \in Chains : r.views[c] \in 0..Never /\ r.passed[c] \in 0..Never
  BY DEF Held, Offers
<1>2. \A c \in Chains : /\ v[c] \in 0..Never /\ v[c] >= r.views[c]
                        /\ v[c] > r.views[c] => v[c] + Retention < r.passed[c]
  BY <1>1, NeverType, ViewsAssumption DEF higher
<1>3. v \in Offers
  BY <1>2 DEF Offers
<1>4. PruneChainViews(m, r) = [r EXCEPT !.views = v]
  BY DEF PruneChainViews, Held
<1> HIDE DEF v
<1>5. QED BY <1>2, <1>3, <1>4 DEF Held

LEMMA NoteOf ==
  ASSUME NEW r \in Held, NEW texts, Proper(texts)
  PROVE  /\ NoteChainPositions(r, texts) \in Held
         /\ NoteChainPositions(r, texts).joined = r.joined
         /\ NoteChainPositions(r, texts).encrypted = r.encrypted
         /\ NoteChainPositions(r, texts).members = r.members
         /\ NoteChainPositions(r, texts).removed = r.removed
         /\ NoteChainPositions(r, texts).out = r.out
         /\ NoteChainPositions(r, texts).next = r.next
         /\ NoteChainPositions(r, texts).reserved = r.reserved
         /\ NoteChainPositions(r, texts).stale = r.stale
         /\ NoteChainPositions(r, texts).shared = r.shared
         /\ NoteChainPositions(r, texts).views = r.views
         /\ NoteChainPositions(r, texts).since = r.since
         /\ \A c \in Chains :
              /\ NoteChainPositions(r, texts).passed[c] >= r.passed[c]
              /\ \A h \in texts : h.chain = c => h.index < NoteChainPositions(r, texts).passed[c]
              /\ (\A h \in texts : h.chain # c) => NoteChainPositions(r, texts).passed[c] = r.passed[c]
<1> DEFINE S(c) == {r.passed[c]} \cup {h.index + 1 : h \in {t \in texts : t.chain = c}}
           v == [c \in Chains |-> highest(S(c))]
<1>1. \A c \in Chains : r.passed[c] \in 0..Never
  BY DEF Held
<1>2. \A h \in texts : h.index \in Nat /\ h.index + 1 \in 0..Never
  BY NeverType DEF Proper, Message
<1>3. \A c \in Chains : S(c) \subseteq 0..Never /\ S(c) # {} /\ r.passed[c] \in S(c)
  BY <1>1, <1>2
<1>4. \A c \in Chains : highest(S(c)) \in S(c) /\ \A k \in S(c) : k <= highest(S(c))
  BY <1>3, HighestOf, NeverType
<1>5. \A c \in Chains : /\ v[c] \in 0..Never /\ v[c] >= r.passed[c]
                        /\ \A h \in texts : h.chain = c => h.index < v[c]
                        /\ (\A h \in texts : h.chain # c) => v[c] = r.passed[c]
  <2> SUFFICES ASSUME NEW c \in Chains
               PROVE  /\ v[c] \in 0..Never /\ v[c] >= r.passed[c]
                      /\ \A h \in texts : h.chain = c => h.index < v[c]
                      /\ (\A h \in texts : h.chain # c) => v[c] = r.passed[c]
    OBVIOUS
  <2>1. v[c] \in S(c) /\ \A k \in S(c) : k <= v[c]
    BY <1>4
  <2>2. v[c] \in 0..Never /\ v[c] >= r.passed[c]
    BY <2>1, <1>3
  <2>3. \A h \in texts : h.chain = c => h.index < v[c]
    <3> SUFFICES ASSUME NEW h \in texts, h.chain = c PROVE h.index < v[c]
      OBVIOUS
    <3>1. h.index + 1 \in S(c)
      OBVIOUS
    <3>2. h.index + 1 <= v[c]
      BY <3>1, <2>1
    <3>3. v[c] \in Nat
      BY <2>2, NeverType
    <3>5. \A i, w \in Nat : i + 1 <= w => i < w
      OBVIOUS
    <3> HIDE DEF v
    <3>4. QED BY <3>2, <3>3, <3>5, <1>2
  <2>4. (\A h \in texts : h.chain # c) => v[c] = r.passed[c]
    BY <2>1
  <2>5. QED BY <2>2, <2>3, <2>4
<1>6. v \in [Chains -> 0..Never]
  BY <1>5
<1>7. NoteChainPositions(r, texts) = [r EXCEPT !.passed = v]
  BY DEF NoteChainPositions, Held
<1> HIDE DEF v
<1>8. QED BY <1>5, <1>6, <1>7 DEF Held

LEMMA ShowOf ==
  ASSUME NEW r \in Held, NEW n \in Nat, NEW texts, texts \subseteq Message,
         \A h \in texts : h.at <= n
  PROVE  /\ Show(r, texts) \in Held
         /\ Show(r, texts).joined = r.joined
         /\ Show(r, texts).encrypted = r.encrypted
         /\ Show(r, texts).members = r.members
         /\ Show(r, texts).removed = r.removed
         /\ Show(r, texts).out = r.out
         /\ Show(r, texts).next = r.next
         /\ Show(r, texts).reserved = r.reserved
         /\ Show(r, texts).stale = r.stale
         /\ Show(r, texts).shared = r.shared
         /\ Show(r, texts).views = r.views
         /\ Show(r, texts).passed = r.passed
<1> DEFINE S == {r.since} \cup {h.at : h \in texts}
           m == IF r.since <= n THEN n ELSE r.since
           top == highest(S)
<1>1. r.since \in Nat /\ m \in Nat /\ n <= m /\ r.since <= m
  BY DEF Held
<1>2. \A h \in texts : h.at \in 0..m
  BY <1>1 DEF Message
<1> HIDE DEF m
<1>3. S \subseteq 0..m /\ S # {}
  <2>1. r.since \in 0..m
    BY <1>1
  <2>2. QED BY <2>1, <1>2
<1> HIDE DEF S
<1>4. top \in Nat
  <2>1. highest(S) \in S
    BY <1>1, <1>3, HighestOf
  <2>2. highest(S) \in 0..m
    BY <2>1, <1>3
  <2>3. QED BY <2>2, <1>1
<1>5. Show(r, texts) = [r EXCEPT !.since = top]
  BY DEF Show, Held, S
<1> HIDE DEF top
<1>6. QED BY <1>4, <1>5 DEF Held

\* What is saved: the room as it is, less what the merge takes from the entry on disk.
LEMMA EntryOf ==
  ASSUME NEW m \in People, NEW r \in Held, file[m] \in Held
  PROVE  /\ Entry(m, r) \in Held
         /\ Entry(m, r).joined = FALSE
         /\ Entry(m, r).encrypted = r.encrypted
         /\ Entry(m, r).members \subseteq (r.members \cup file[m].members) \ Entry(m, r).removed
         /\ Entry(m, r).removed = r.removed \cup file[m].removed
         /\ Entry(m, r).out = r.out
         /\ Entry(m, r).next = higher(r.next, r.reserved)
         /\ Entry(m, r).reserved = Entry(m, r).next
         /\ Entry(m, r).stale = r.stale
         /\ Entry(m, r).shared = r.shared
         /\ Entry(m, r).views = r.views
         /\ Entry(m, r).passed = r.passed
         /\ Entry(m, r).since = r.since
<1> DEFINE gone == r.removed \cup file[m].removed
           kept == higher(r.next, r.reserved)
           left == (IF r.members = {} THEN file[m].members ELSE r.members) \ gone
<1>1. gone \subseteq People /\ left \subseteq People /\ kept \in Nat
      /\ left \subseteq (r.members \cup file[m].members) \ gone
  BY DEF Held, higher
<1>2. Entry(m, r) = [r EXCEPT !.joined = FALSE, !.next = kept, !.reserved = kept,
                              !.removed = gone, !.members = left]
  BY DEF Entry, Held
<1> HIDE DEF gone, kept, left
<1>3. /\ Entry(m, r) \in Held /\ Entry(m, r).joined = FALSE
      /\ Entry(m, r).encrypted = r.encrypted /\ Entry(m, r).members = left
      /\ Entry(m, r).removed = gone /\ Entry(m, r).out = r.out
      /\ Entry(m, r).next = kept /\ Entry(m, r).reserved = kept
      /\ Entry(m, r).stale = r.stale /\ Entry(m, r).shared = r.shared
      /\ Entry(m, r).views = r.views /\ Entry(m, r).passed = r.passed
      /\ Entry(m, r).since = r.since
  BY <1>1, <1>2 DEF Held
<1>4. QED BY <1>1, <1>3 DEF gone, kept

LEMMA NewChainOf ==
  ASSUME NEW m \in People, NEW r \in Held, NEW n \in 1..MaxChains
  PROVE  /\ NewChain(m, r, n) \in Held
         /\ NewChain(m, r, n).joined = r.joined
         /\ NewChain(m, r, n).encrypted = r.encrypted
         /\ NewChain(m, r, n).members = r.members
         /\ NewChain(m, r, n).removed = r.removed
         /\ NewChain(m, r, n).out = n
         /\ NewChain(m, r, n).next = 0
         /\ NewChain(m, r, n).reserved = 0
         /\ NewChain(m, r, n).stale = FALSE
         /\ NewChain(m, r, n).shared = FALSE
         /\ NewChain(m, r, n).passed = r.passed
         /\ NewChain(m, r, n).since = r.since
         /\ NewChain(m, r, n).views[<<m, n>>] = 0
         /\ \A c \in Chains \ {<<m, n>>} : NewChain(m, r, n).views[c] = r.views[c]
<1> DEFINE v == [r.views EXCEPT ![<<m, n>>] = 0]
<1>1. MaxChains \in Nat /\ <<m, n>> \in Chains /\ n \in 0..MaxChains
  BY ViewsBounds DEF Chains
<1>a. r.views \in [Chains -> 0..Never] /\ 0 \in 0..Never
  BY NeverType DEF Held, Offers
<1>2. /\ v \in Offers /\ v[<<m, n>>] = 0
      /\ \A c \in Chains \ {<<m, n>>} : v[c] = r.views[c]
  BY <1>1, <1>a DEF Offers
<1>3. NewChain(m, r, n) = [r EXCEPT !.out = n, !.next = 0, !.reserved = 0, !.stale = FALSE,
                                    !.shared = FALSE, !.views = v]
  BY DEF NewChain, Held
<1> HIDE DEF v
<1>7. NewChain(m, r, n) \in Held
  <2> DEFINE e == [r EXCEPT !.out = n, !.next = 0, !.reserved = 0]
  <2>1. e \in Held
    BY <1>1 DEF Held
  <2>2. [e EXCEPT !.stale = FALSE, !.shared = FALSE, !.views = v] \in Held
    BY <2>1, <1>2 DEF Held
  <2>3. NewChain(m, r, n) = [e EXCEPT !.stale = FALSE, !.shared = FALSE, !.views = v]
    BY <1>3 DEF Held
  <2>4. QED BY <2>2, <2>3
<1>4. /\ NewChain(m, r, n).joined = r.joined
      /\ NewChain(m, r, n).encrypted = r.encrypted
      /\ NewChain(m, r, n).members = r.members
      /\ NewChain(m, r, n).removed = r.removed
      /\ NewChain(m, r, n).out = n /\ NewChain(m, r, n).next = 0
      /\ NewChain(m, r, n).reserved = 0 /\ NewChain(m, r, n).stale = FALSE
      /\ NewChain(m, r, n).shared = FALSE /\ NewChain(m, r, n).passed = r.passed
      /\ NewChain(m, r, n).since = r.since
  BY <1>1, <1>2, <1>3 DEF Held
<1>5. NewChain(m, r, n).views = v
  BY <1>3 DEF Held
<1>6. QED BY <1>2, <1>4, <1>5, <1>7

LEMMA BundleOf ==
  ASSUME NEW m \in People, NEW r \in Held, NEW p \in People
  PROVE  /\ ChainBundleFor(r, m, p) \in Offers
         /\ \A c \in Chains :
              /\ ChainBundleFor(r, m, p)[c] >= r.passed[c]
              /\ r.passed[c] = 0 \/ p \notin r.members => ChainBundleFor(r, m, p)[c] = Never
<1>1. \A c \in Chains : r.views[c] \in 0..Never /\ r.passed[c] \in 0..Never
  BY DEF Held, Offers
<1>2. \A c \in Chains : ChainBundleFor(r, m, p)[c] =
        IF p \in r.members /\ r.passed[c] # 0 THEN higher(r.views[c], r.passed[c]) ELSE Never
  BY DEF ChainBundleFor
<1>3. \A c \in Chains : /\ ChainBundleFor(r, m, p)[c] \in 0..Never
                        /\ ChainBundleFor(r, m, p)[c] >= r.passed[c]
  BY <1>1, <1>2, NeverType DEF higher
<1>4. ChainBundleFor(r, m, p) \in Offers
  BY <1>3 DEF Offers, ChainBundleFor
<1>5. QED BY <1>2, <1>3, <1>4

LEMMA JoinedOf ==
  ASSUME NEW r \in Held, NEW b \in BOOLEAN
  PROVE  /\ [r EXCEPT !.joined = b] \in Held
         /\ [r EXCEPT !.joined = b].joined = b
         /\ [r EXCEPT !.joined = b].encrypted = r.encrypted
         /\ [r EXCEPT !.joined = b].members = r.members
         /\ [r EXCEPT !.joined = b].removed = r.removed
         /\ [r EXCEPT !.joined = b].out = r.out
         /\ [r EXCEPT !.joined = b].next = r.next
         /\ [r EXCEPT !.joined = b].reserved = r.reserved
         /\ [r EXCEPT !.joined = b].stale = r.stale
         /\ [r EXCEPT !.joined = b].shared = r.shared
         /\ [r EXCEPT !.joined = b].views = r.views
         /\ [r EXCEPT !.joined = b].passed = r.passed
         /\ [r EXCEPT !.joined = b].since = r.since
  BY DEF Held

-----------------------------------------------------------------------------
(* Types, in parts, with what they rest on: nobody lists themselves, and no position passes Never. *)

LEMMA TypesNext ==
  Types' <=> /\ RoomType' /\ FileType' /\ SendType' /\ InviteType' /\ PendingType'
             /\ InboxType' /\ MailType' /\ PastType' /\ AskType' /\ CountType'
             /\ \A m \in People : Position(m)'
  BY DEF Types

LEMMA TypesMean == Types => TypeOK
<1> SUFFICES ASSUME Types PROVE TypeOK
  OBVIOUS
<1> USE DEF Types
<1>1. {room, file} \subseteq [People -> Held] /\ minted \in [People -> 0..MaxChains]
      /\ send \in [People -> {"none", "give", "seal"}]
  BY DEF RoomType, FileType, SendType
<1>2. /\ invite \in [People -> [pc : {"none", "bundle", "tell"}, whom : People \cup {None}]]
      /\ \A m \in People : invite[m].pc # "none" => invite[m].whom # None
      /\ pending \in [People -> [pc : {"none", "waiting", "adopt"}, what : Invitation \cup {None}]]
      /\ \A m \in People : pending[m].pc # "none" => pending[m].what \in Invitation
  BY DEF InviteType, PendingType
<1>3. /\ inbox \in [People -> Seq(Said)] /\ mail \in [People -> Seq(Mail)]
      /\ \A m \in People : inbox[m] # <<>> => room[m].joined
  BY DEF InboxType, MailType
<1>4. /\ asking \subseteq InRoom /\ said \subseteq Message /\ hist \in [People -> SUBSET said]
      /\ invited \subseteq People /\ before \in [People -> SUBSET said]
      /\ counts \in [sends : 0..MaxSends, moves : 0..MaxMoves] /\ upsets \in 0..MaxUpsets
  BY DEF AskType, PastType, CountType
<1>5. \A m \in People : m \notin room[m].members \cup file[m].members /\ ~file[m].joined
  BY DEF RoomType, FileType
<1>6. QED BY <1>1, <1>2, <1>3, <1>4, <1>5 DEF TypeOK

\* Each part stays with its variables.
LEMMA TypesStay ==
  ASSUME Types
  PROVE  /\ UNCHANGED room => RoomType'
         /\ UNCHANGED file => FileType'
         /\ UNCHANGED <<send, minted>> => SendType'
         /\ UNCHANGED invite => InviteType'
         /\ UNCHANGED pending => PendingType'
         /\ UNCHANGED mail /\ said \subseteq said' => MailType'
         /\ UNCHANGED <<said, hist, invited, before>> => PastType'
         /\ UNCHANGED <<counts, upsets>> => CountType'
         /\ UNCHANGED <<room, asking>> => AskType'
         /\ UNCHANGED <<room, inbox, said>> => InboxType'
  BY DEF Types, RoomType, FileType, SendType, InviteType, PendingType, MailType, PastType,
         CountType, AskType, InRoom, InboxType

\* Where nobody joins or leaves.
LEMMA PlacesStay ==
  ASSUME Types, \A x \in People : room'[x].joined = room[x].joined
  PROVE  /\ InRoom' = InRoom
         /\ UNCHANGED asking => AskType'
         /\ UNCHANGED <<inbox, said>> => InboxType'
  BY DEF Types, AskType, InRoom, InboxType

\* The bounds.
LEMMA CountOf ==
  ASSUME Types
  PROVE  /\ Spent \in Nat /\ Spent < Never
         /\ UNCHANGED counts => Spent' = Spent
         /\ Counted("sends", MaxSends) /\ (UNCHANGED upsets \/ upsets' \in 0..MaxUpsets) =>
              CountType' /\ Spent' = Spent + 1
         /\ Counted("moves", MaxMoves) /\ (UNCHANGED upsets \/ upsets' \in 0..MaxUpsets) =>
              CountType' /\ Spent' = Spent + Block
         /\ \A kind : Upset(kind) => upsets' \in 0..MaxUpsets
         /\ \A kind, condition : UpsetIf(condition, kind) => upsets' \in 0..MaxUpsets
<1>1. MaxSends \in Nat /\ MaxMoves \in Nat /\ Block \in Nat /\ MaxUpsets \in Nat
  BY ViewsAssumption, ViewsBounds
<1>2. counts \in [sends : 0..MaxSends, moves : 0..MaxMoves] /\ upsets \in 0..MaxUpsets
  BY DEF Types, CountType
<1>3. Spent \in Nat /\ Spent < Never
  BY <1>2, NeverType, <1>1 DEF Spent
<1>4. \A kind : Upset(kind) => upsets' \in 0..MaxUpsets
  BY <1>1, <1>2 DEF Upset
<1>5. \A kind, condition : UpsetIf(condition, kind) => upsets' \in 0..MaxUpsets
  BY <1>2, <1>4 DEF UpsetIf
<1>6. ASSUME Counted("sends", MaxSends)
      PROVE  /\ counts' \in [sends : 0..MaxSends, moves : 0..MaxMoves]
             /\ counts'.sends = counts.sends + 1 /\ counts'.moves = counts.moves
  BY <1>1, <1>2, <1>6 DEF Counted
<1>7. ASSUME Counted("moves", MaxMoves)
      PROVE  /\ counts' \in [sends : 0..MaxSends, moves : 0..MaxMoves]
             /\ counts'.moves = counts.moves + 1 /\ counts'.sends = counts.sends
  BY <1>1, <1>2, <1>7 DEF Counted
<1>8. \A j \in Nat : (j + 1) * Block = j * Block + Block /\ j * Block \in Nat
  BY <1>1
<1>9. Counted("sends", MaxSends) => Spent' = Spent + 1
  BY <1>1, <1>2, <1>6, <1>8 DEF Spent
<1>10. Counted("moves", MaxMoves) => Spent' = Spent + Block
  BY <1>1, <1>2, <1>7, <1>8 DEF Spent
<1>11. QED BY <1>2, <1>3, <1>4, <1>5, <1>6, <1>7, <1>9, <1>10 DEF CountType, Spent

LEMMA PositionStays ==
  ASSUME Types, NEW m \in People, UNCHANGED <<room[m], file[m]>>, send'[m] = send[m] \/ send'[m] = "none",
         Spent' >= Spent, Spent' \in Nat
  PROVE  Position(m)'
<1>1. room[m].next \in Nat /\ Spent \in Nat /\ file[m].next \in Nat /\ Block \in Nat
  BY CountOf, ViewsAssumption DEF Types, RoomType, FileType, Held
<1>2. Position(m)
  BY DEF Types
<1>3. file[m].next <= Spent' + Block
  BY <1>1, <1>2 DEF Position
<1>4. room[m].next + (IF send'[m] = "none" THEN 0 ELSE 1) <= Spent'
  <2>1. CASE send'[m] = "none"
    <3>1. room[m].next <= Spent
      <4>1. CASE send[m] = "none"
        BY <4>1, <1>1, <1>2 DEF Position
      <4>2. CASE send[m] # "none"
        BY <4>2, <1>1, <1>2 DEF Position
      <4>3. QED BY <4>1, <4>2
    <3>2. QED BY <2>1, <3>1, <1>1
  <2>2. CASE send'[m] # "none"
    BY <2>2, <1>2, <1>1 DEF Position
  <2>3. QED BY <2>1, <2>2
<1>5. QED BY <1>2, <1>3, <1>4 DEF Position

LEMMA PersonTypes ==
  ASSUME Types, NEW m \in People
  PROVE  /\ room[m] \in Held /\ m \notin room[m].members
         /\ file[m] \in Held /\ m \notin file[m].members /\ file[m].joined = FALSE
         /\ send[m] \in {"none", "give", "seal"} /\ minted[m] \in 0..MaxChains
         /\ pending[m].pc # "none" => pending[m].what \in Invitation
         /\ pending[m].pc \in {"none", "waiting", "adopt"}
         /\ invite[m].pc # "none" => invite[m].whom \in People
         /\ inbox[m] \in Seq(Said) /\ mail[m] \in Seq(Mail)
         /\ Position(m) /\ hist[m] \subseteq said
  BY DEF Types, RoomType, FileType, SendType, PendingType, InviteType, InboxType, MailType, PastType

LEMMA NumberTypes ==
  ASSUME NEW r \in Held
  PROVE  /\ r.next \in Nat /\ r.reserved \in Nat /\ r.since \in Nat /\ r.out \in 0..MaxChains
         /\ r.members \subseteq People /\ r.removed \subseteq People
         /\ r.joined \in BOOLEAN /\ r.encrypted \in BOOLEAN /\ r.stale \in BOOLEAN /\ r.shared \in BOOLEAN
         /\ \A c \in Chains : r.views[c] \in 0..Never /\ r.views[c] \in Nat /\ r.views[c] <= Never
                              /\ r.passed[c] \in 0..Never /\ r.passed[c] \in Nat
<1>1. r.views \in [Chains -> 0..Never] /\ r.passed \in [Chains -> 0..Never]
  BY DEF Held, Offers
<1>2. \A c \in Chains : r.views[c] \in 0..Never /\ r.passed[c] \in 0..Never
  BY <1>1
<1>3. \A i \in 0..Never : i \in Nat /\ i <= Never
  BY NeverType
<1>4. QED BY <1>2, <1>3 DEF Held

\* One record becomes another; the others stay.
LEMMA KeepOf ==
  ASSUME Types, NEW m \in People, NEW r \in Held, m \notin r.members, Keep(m, r)
  PROVE  /\ RoomType' /\ room'[m] = r
         /\ \A x \in People \ {m} : room'[x] = room[x]
  BY DEF Types, RoomType, Keep

LEMMA FileBecomes ==
  ASSUME Types, NEW m \in People, NEW r \in Held, m \notin r.members, r.joined = FALSE,
         file' = [file EXCEPT ![m] = r]
  PROVE  /\ FileType' /\ file'[m] = r
         /\ \A x \in People \ {m} : file'[x] = file[x]
  BY DEF Types, FileType

LEMMA PersistOf ==
  ASSUME Types, NEW m \in People, NEW r \in Held, m \notin r.members, PersistRoomChain(m, r)
  PROVE  /\ FileType' /\ Saved(m, r)
         /\ \A x \in People \ {m} : file'[x] = file[x]
<1>1. file[m] \in Held /\ m \notin file[m].members
  BY PersonTypes
<1> DEFINE e == Entry(m, r)
<1>2. /\ e \in Held /\ e.joined = FALSE /\ m \notin e.members
      /\ e.encrypted = r.encrypted /\ e.removed = r.removed \cup file[m].removed
      /\ e.members \subseteq (r.members \cup file[m].members) \ e.removed
      /\ e.out = r.out /\ e.stale = r.stale /\ e.shared = r.shared
      /\ e.next = higher(r.next, r.reserved) /\ e.reserved = e.next
      /\ e.views = r.views /\ e.passed = r.passed
  BY <1>1, EntryOf
<1>3. file' = [file EXCEPT ![m] = e]
  BY DEF PersistRoomChain
<1> HIDE DEF e
<1>4. FileType' /\ file'[m] = e /\ \A x \in People \ {m} : file'[x] = file[x]
  BY <1>2, <1>3, FileBecomes
<1>5. QED BY <1>2, <1>4 DEF Saved

\* What saveRoomKeys makes of a room about to be r.
LEMMA KeepAndSaveOf ==
  ASSUME Types, NEW m \in People, NEW r \in Held, m \notin r.members, KeepAndSave(m, r)
  PROVE  /\ RoomType' /\ FileType'
         /\ room'[m].joined = r.joined /\ SameStanding(room'[m], r) /\ SameChain(room'[m], r)
         /\ room'[m].passed = r.passed /\ room'[m].since = r.since
         /\ \A c \in Chains : /\ room'[m].views[c] >= r.views[c]
                              /\ room'[m].views[c] > r.views[c] =>
                                   room'[m].views[c] + Retention < r.passed[c]
         /\ Saved(m, room'[m])
         /\ \A x \in People \ {m} : room'[x] = room[x] /\ file'[x] = file[x]
<1> DEFINE s == PruneChainViews(m, r)
<1>1. /\ s \in Held /\ m \notin s.members
      /\ s.joined = r.joined /\ SameStanding(s, r) /\ SameChain(s, r)
      /\ s.passed = r.passed /\ s.since = r.since
      /\ \A c \in Chains : /\ s.views[c] >= r.views[c]
                           /\ s.views[c] > r.views[c] => s.views[c] + Retention < r.passed[c]
  BY PruneOf DEF SameStanding, SameChain
<1>2. Keep(m, s) /\ PersistRoomChain(m, s)
  BY DEF KeepAndSave
<1> HIDE DEF s
<1>3. RoomType' /\ room'[m] = s /\ \A x \in People \ {m} : room'[x] = room[x]
  BY <1>1, <1>2, KeepOf
<1>4. FileType' /\ Saved(m, s) /\ \A x \in People \ {m} : file'[x] = file[x]
  BY <1>1, <1>2, PersistOf
<1>5. QED BY <1>1, <1>3, <1>4

\* A position saved is one paid for.
LEMMA SavedPosition ==
  ASSUME Types, NEW m \in People, room'[m] \in Held, Saved(m, room'[m]), Spent' \in Nat,
         room'[m].next + (IF send'[m] = "none" THEN 0 ELSE 1) <= Spent',
         room'[m].reserved <= room'[m].next + Block, send'[m] = "give" => room'[m].out # 0
  PROVE  Position(m)'
<1>1. room'[m].next \in Nat /\ room'[m].reserved \in Nat /\ Block \in Nat
  BY NumberTypes, ViewsAssumption
<1>2. room'[m].next <= Spent'
  BY <1>1
<1>3. file'[m].next = higher(room'[m].next, room'[m].reserved) /\ file'[m].reserved = file'[m].next
  BY DEF Saved
<1>4. file'[m].next <= Spent' + Block
  BY <1>1, <1>2, <1>3 DEF higher
<1>5. QED BY <1>3, <1>4 DEF Position

-----------------------------------------------------------------------------
(* Queues. *)

LEMMA TakenOf ==
  ASSUME Types, NEW x \in People, mail[x] # <<>>, Taken(x)
  PROVE  /\ mail'[x] \in Seq(Mail) /\ Head(mail[x]) = mail[x][1] /\ 1 \in DOMAIN mail[x]
         /\ Head(mail[x]) \in Mail
         /\ \A i \in DOMAIN mail'[x] : i \in Nat /\ i + 1 \in DOMAIN mail[x] /\ mail'[x][i] = mail[x][i + 1]
         /\ \A y \in People \ {x} : mail'[y] = mail[y]
         /\ said \subseteq said' => MailType'
<1>1. mail[x] \in Seq(Mail) /\ mail \in [People -> Seq(Mail)]
  BY DEF Types, MailType
<1>2. /\ Tail(mail[x]) \in Seq(Mail) /\ Len(Tail(mail[x])) = Len(mail[x]) - 1
      /\ \A i \in 1..Len(Tail(mail[x])) : Tail(mail[x])[i] = mail[x][i + 1]
      /\ Len(mail[x]) \in Nat /\ Len(mail[x]) # 0 /\ Head(mail[x]) = mail[x][1] /\ Head(mail[x]) \in Mail
  BY <1>1, HeadTailProperties, EmptySeq
<1>3. mail'[x] = Tail(mail[x]) /\ \A y \in People \ {x} : mail'[y] = mail[y]
  BY <1>1 DEF Taken
<1>4. \A i \in DOMAIN Tail(mail[x]) :
        i \in Nat /\ i + 1 \in DOMAIN mail[x] /\ Tail(mail[x])[i] = mail[x][i + 1]
  BY <1>1, <1>2
<1>5. mail' \in [People -> Seq(Mail)]
  BY <1>1, <1>2 DEF Taken
<1>6. ASSUME NEW y \in People, NEW i \in DOMAIN mail'[y], mail'[y][i].kind = "answer"
      PROVE  mail'[y][i].messages \subseteq said
  <2>1. CASE y = x
    BY <1>3, <1>4, <1>6, <2>1 DEF Types, MailType
  <2>2. CASE y # x
    BY <1>3, <1>6, <2>2 DEF Types, MailType
  <2>3. QED BY <2>1, <2>2
<1>8. said \subseteq said' => MailType'
  BY <1>5, <1>6 DEF MailType
<1>7. QED BY <1>1, <1>2, <1>3, <1>4, <1>8

LEMMA DeliverOf ==
  ASSUME Types, NEW to, NEW item \in Mail, item.kind # "answer", Deliver(to, item)
  PROVE  /\ \A x \in People \ to : mail'[x] = mail[x]
         /\ \A x \in People : \A i \in DOMAIN mail'[x] :
              i \in Nat /\ \/ i \in DOMAIN mail[x] /\ mail'[x][i] = mail[x][i]
                           \/ x \in to /\ i = Len(mail[x]) + 1 /\ mail'[x][i] = item
         /\ said \subseteq said' => MailType'
<1>1. mail \in [People -> Seq(Mail)]
  BY DEF Types, MailType
<1>2. \A x \in People :
        /\ Append(mail[x], item) \in Seq(Mail) /\ Len(Append(mail[x], item)) = Len(mail[x]) + 1
        /\ \A i \in 1..Len(mail[x]) : Append(mail[x], item)[i] = mail[x][i]
        /\ Append(mail[x], item)[Len(mail[x]) + 1] = item /\ Len(mail[x]) \in Nat
  BY <1>1, AppendProperties
<1>3. \A x \in People : mail'[x] = IF x \in to THEN Append(mail[x], item) ELSE mail[x]
  BY DEF Deliver
<1>4. mail' \in [People -> Seq(Mail)]
  BY <1>1, <1>2 DEF Deliver
<1>5. \A x \in People : \A i \in DOMAIN mail'[x] :
        i \in Nat /\ \/ i \in DOMAIN mail[x] /\ mail'[x][i] = mail[x][i]
                     \/ x \in to /\ i = Len(mail[x]) + 1 /\ mail'[x][i] = item
  <2> SUFFICES ASSUME NEW x \in People, NEW i \in DOMAIN mail'[x]
               PROVE i \in Nat /\ \/ i \in DOMAIN mail[x] /\ mail'[x][i] = mail[x][i]
                                  \/ x \in to /\ i = Len(mail[x]) + 1 /\ mail'[x][i] = item
    OBVIOUS
  <2>1. mail[x] \in Seq(Mail)
    BY <1>1
  <2>2. CASE x \notin to
    BY <2>1, <2>2, <1>3
  <2>3. CASE x \in to
    <3>1. mail'[x] = Append(mail[x], item)
      BY <2>3, <1>3
    <3>2. i \in 1..(Len(mail[x]) + 1)
      BY <3>1, <1>2
    <3>3. CASE i = Len(mail[x]) + 1
      BY <3>1, <3>3, <1>2, <2>3
    <3>4. CASE i # Len(mail[x]) + 1
      BY <3>2, <3>4, <1>2, <3>1, <2>1
    <3>5. QED BY <3>3, <3>4
  <2>4. QED BY <2>2, <2>3
<1>6. said \subseteq said' => MailType'
  BY <1>4, <1>5 DEF Types, MailType
<1>7. QED BY <1>3, <1>5, <1>6

LEMMA PostOf ==
  ASSUME Types, NEW m \in People, NEW item \in Said, Post(m, item)
  PROVE  /\ inbox' \in [People -> Seq(Said)]
         /\ \A x \in People : \A i \in DOMAIN inbox'[x] :
              i \in Nat /\ \/ i \in DOMAIN inbox[x] /\ inbox'[x][i] = inbox[x][i]
                           \/ x \in InRoom \ {m} /\ inbox'[x][i] = item
         /\ \A x \in People : inbox'[x] # <<>> => room[x].joined
<1>1. inbox \in [People -> Seq(Said)]
  BY DEF Types, InboxType
<1>2. \A x \in People :
        /\ Append(inbox[x], item) \in Seq(Said) /\ Len(Append(inbox[x], item)) = Len(inbox[x]) + 1
        /\ \A i \in 1..Len(inbox[x]) : Append(inbox[x], item)[i] = inbox[x][i]
        /\ Append(inbox[x], item)[Len(inbox[x]) + 1] = item /\ Len(inbox[x]) \in Nat
  BY <1>1, AppendProperties
<1>3. \A x \in People : inbox'[x] = IF x \in InRoom \ {m} THEN Append(inbox[x], item) ELSE inbox[x]
  BY DEF Post
<1>4. inbox' \in [People -> Seq(Said)]
  BY <1>1, <1>2 DEF Post
<1>5. ASSUME NEW x \in People, NEW i \in DOMAIN inbox'[x]
      PROVE  i \in Nat /\ \/ i \in DOMAIN inbox[x] /\ inbox'[x][i] = inbox[x][i]
                          \/ x \in InRoom \ {m} /\ inbox'[x][i] = item
  <2>1. inbox[x] \in Seq(Said)
    BY <1>1
  <2>2. CASE x \notin InRoom \ {m}
    BY <2>1, <2>2, <1>3, <1>5
  <2>3. CASE x \in InRoom \ {m}
    <3>1. inbox'[x] = Append(inbox[x], item)
      BY <2>3, <1>3
    <3>2. i \in 1..(Len(inbox[x]) + 1)
      BY <3>1, <1>2, <1>5
    <3>3. CASE i = Len(inbox[x]) + 1
      BY <3>1, <3>3, <1>2, <2>3
    <3>4. CASE i # Len(inbox[x]) + 1
      BY <3>2, <3>4, <1>2, <3>1, <2>1
    <3>5. QED BY <3>3, <3>4
  <2>4. QED BY <2>2, <2>3
<1>6. \A x \in People : inbox'[x] # <<>> => room[x].joined
  BY PersonTypes, NumberTypes, <1>3 DEF Types, InboxType, InRoom
<1>7. QED BY <1>4, <1>5, <1>6

LEMMA ArrivesOf ==
  ASSUME Types, NEW x \in People, NEW kind, Arrives(x, kind)
  PROVE  /\ inbox' \in [People -> Seq(Said)]
         /\ Head(inbox[x]) = inbox[x][1] /\ 1 \in DOMAIN inbox[x] /\ inbox[x][1] \in Said
         /\ inbox[x][1].kind = kind /\ room[x].joined
         /\ \A i \in DOMAIN inbox'[x] : i \in Nat /\ i + 1 \in DOMAIN inbox[x] /\ inbox'[x][i] = inbox[x][i + 1]
         /\ \A y \in People \ {x} : inbox'[y] = inbox[y]
         /\ upsets' \in 0..MaxUpsets
<1>1. inbox[x] \in Seq(Said) /\ inbox \in [People -> Seq(Said)] /\ inbox[x] # <<>>
  BY DEF Types, InboxType, Arrives
<1>2. /\ Tail(inbox[x]) \in Seq(Said) /\ Len(Tail(inbox[x])) = Len(inbox[x]) - 1
      /\ \A i \in 1..Len(Tail(inbox[x])) : Tail(inbox[x])[i] = inbox[x][i + 1]
      /\ Len(inbox[x]) \in Nat /\ Len(inbox[x]) # 0 /\ Head(inbox[x]) = inbox[x][1] /\ Head(inbox[x]) \in Said
  BY <1>1, HeadTailProperties, EmptySeq
<1>3. inbox'[x] = Tail(inbox[x]) /\ (\A y \in People \ {x} : inbox'[y] = inbox[y])
      /\ inbox' \in [People -> Seq(Said)]
  BY <1>1, <1>2 DEF Arrives
<1>4. \A i \in DOMAIN Tail(inbox[x]) :
        i \in Nat /\ i + 1 \in DOMAIN inbox[x] /\ Tail(inbox[x])[i] = inbox[x][i + 1]
  BY <1>1, <1>2
<1>5. upsets' \in 0..MaxUpsets
  BY CountOf DEF Arrives
<1>6. inbox[x][1].kind = kind /\ room[x].joined
  BY <1>1, <1>2 DEF Arrives, Types, InboxType
<1>7. 1 \in DOMAIN inbox[x] /\ inbox[x][1] \in Said
  BY <1>1, <1>2
<1>8. QED BY <1>2, <1>3, <1>4, <1>5, <1>6, <1>7

\* A text in a queue is a text that was said.
LEMMA SaidOf ==
  ASSUME Types
  PROVE  /\ \A texts : texts \subseteq said => Proper(texts)
         /\ Cardinality(said) \in Nat
         /\ \A h \in said : h \in Message /\ h.chain \in Chains /\ h.index \in Nat /\ h.index < Never
                            /\ h.at <= Cardinality(said)
<1>1. said \subseteq Message /\ IsFiniteSet(said)
      /\ \A h \in said : h.index < Never /\ h.at <= Cardinality(said)
  BY DEF Types, PastType
<1>2. Cardinality(said) \in Nat
  BY <1>1, FS_CardinalityType
<1>3. QED BY <1>1, <1>2 DEF Proper, Message

LEMMA InboxRests ==
  ASSUME Types, NEW x \in People, inbox' \in [People -> Seq(Said)], said \subseteq said',
         \A y \in People : room'[y].joined = room[y].joined,
         \A y \in People \ {x} : inbox'[y] = inbox[y],
         \A i \in DOMAIN inbox'[x] : i + 1 \in DOMAIN inbox[x] /\ inbox'[x][i] = inbox[x][i + 1],
         inbox[x] # <<>>
  PROVE  InboxType'
<1>1. \A y \in People : inbox'[y] # <<>> => room'[y].joined
  BY DEF Types, InboxType
<1>2. ASSUME NEW y \in People, NEW i \in DOMAIN inbox'[y], inbox'[y][i].kind = "text"
      PROVE  inbox'[y][i].text \in said'
  <2>1. CASE y = x
    BY <1>2, <2>1 DEF Types, InboxType
  <2>2. CASE y # x
    BY <1>2, <2>2 DEF Types, InboxType
  <2>3. QED BY <2>1, <2>2
<1>3. QED BY <1>1, <1>2 DEF InboxType

-----------------------------------------------------------------------------
(* Every action keeps the types, and what it leaves. *)

LEMMA TypesInit == Init => Types
<1> SUFFICES ASSUME Init PROVE Types
  OBVIOUS
<1>0. /\ Never \in Nat /\ 0 \in 0..Never /\ Never \in 0..Never /\ 0 \in 0..MaxChains
      /\ 0 \in 0..MaxSends /\ 0 \in 0..MaxMoves /\ 0 \in 0..MaxUpsets
      /\ Block \in Nat /\ Founders \subseteq People /\ MaxChains \in Nat
  BY NeverType, ViewsAssumption, ViewsBounds
<1>1. Empty \in Held /\ Empty.members = {} /\ Empty.next = 0 /\ Empty.reserved = 0
      /\ Empty.joined = FALSE
  BY <1>0 DEF Empty, Held, Offers
<1> DEFINE first(m) == [Empty EXCEPT !.joined = TRUE, !.encrypted = TRUE, !.members = Founders \ {m}]
<1>2. \A m \in People : first(m) \in Held /\ m \notin first(m).members
        /\ first(m).next = 0 /\ first(m).reserved = 0
  BY <1>0, <1>1 DEF Held
<1>3. \A m \in People : room[m] = IF m \in Founders THEN first(m) ELSE Empty
  BY DEF Init
<1> HIDE DEF first
<1>4. \A m \in People : room[m] \in Held /\ m \notin room[m].members
        /\ room[m].next = 0 /\ room[m].reserved = 0
  BY <1>1, <1>2, <1>3
<1>5. room \in [People -> Held]
  BY <1>4 DEF Init
<1>6. \A m \in People : file[m] = [room[m] EXCEPT !.joined = FALSE]
  BY DEF Init
<1>7. \A m \in People : file[m] \in Held /\ m \notin file[m].members /\ file[m].joined = FALSE
        /\ file[m].next = 0 /\ file[m].reserved = 0
  <2> SUFFICES ASSUME NEW m \in People
               PROVE  /\ file[m] \in Held /\ m \notin file[m].members /\ file[m].joined = FALSE
                      /\ file[m].next = 0 /\ file[m].reserved = 0
    OBVIOUS
  <2> DEFINE e == [room[m] EXCEPT !.joined = FALSE]
  <2>1. room[m] \in Held /\ FALSE \in BOOLEAN
    BY <1>4
  <2>2. /\ e \in Held /\ e.members = room[m].members /\ e.joined = FALSE
        /\ e.next = room[m].next /\ e.reserved = room[m].reserved
    BY <2>1, JoinedOf
  <2>3. file[m] = e
    BY <1>6
  <2> HIDE DEF e
  <2>4. QED BY <1>4, <2>2, <2>3
<1>8. file \in [People -> Held]
  BY <1>7 DEF Init
<1>9. RoomType /\ FileType
  BY <1>4, <1>5, <1>7, <1>8 DEF RoomType, FileType
<1>10. SendType /\ InviteType /\ PendingType
  BY <1>0 DEF Init, SendType, InviteType, PendingType, NotInviting, NoInvite
<1>11. InboxType /\ MailType
  <2>1. \A m \in People : inbox[m] = <<>> /\ mail[m] = <<>>
    BY DEF Init
  <2>2. inbox \in [People -> Seq(Said)] /\ mail \in [People -> Seq(Mail)]
    <3>1. << >> \in Seq(Said) /\ << >> \in Seq(Mail)
      OBVIOUS
    <3>2. QED BY <3>1 DEF Init
  <2>3. QED BY <2>1, <2>2 DEF InboxType, MailType
<1>12. PastType
  <2>1. IsFiniteSet({})
    BY FS_EmptySet
  <2>2. QED BY <2>1 DEF Init, PastType
<1>13. AskType /\ CountType
  BY <1>0 DEF Init, AskType, CountType
<1>14. Spent \in Nat
  <2>1. counts.sends = 0 /\ counts.moves = 0
    BY DEF Init
  <2>2. QED BY <2>1, <1>0 DEF Spent
<1>15. \A m \in People : Position(m)
  <2>1. \A m \in People : send[m] = "none"
    BY DEF Init
  <2>2. QED BY <2>1, <1>0, <1>4, <1>7, <1>14 DEF Position
<1>16. QED BY <1>9, <1>10, <1>11, <1>12, <1>13, <1>15 DEF Types

LEMMA SendRoomMessageTypes ==
  ASSUME Types, NEW m \in People, SendRoomMessage(m)
  PROVE  /\ Types'
         /\ \A x \in People \ {m} : room'[x] = room[x] /\ send'[x] = send[x] /\ minted'[x] = minted[x]
         /\ \/ UNCHANGED <<room, minted>> /\ send'[m] = "seal" /\ room[m].out # 0 /\ ~room[m].stale
            \/ /\ minted[m] + 1 \in 1..MaxChains /\ minted'[m] = minted[m] + 1
               /\ room'[m] = NewChain(m, room[m], minted[m] + 1) /\ send'[m] = "give"
<1> DEFINE n == minted[m] + 1
<1>1. /\ CountType' /\ Spent' = Spent + 1 /\ Spent \in Nat
  BY CountOf DEF SendRoomMessage
<1>2. /\ FileType' /\ InviteType' /\ PendingType' /\ MailType' /\ PastType'
  BY TypesStay DEF SendRoomMessage, past
<1>3. room[m] \in Held /\ m \notin room[m].members /\ send[m] = "none" /\ minted[m] \in 0..MaxChains
      /\ Position(m)
  BY PersonTypes DEF SendRoomMessage
<1>4. send' \in [People -> {"none", "give", "seal"}] /\ \A x \in People \ {m} : send'[x] = send[x]
  BY DEF SendRoomMessage, Step, Types, SendType
<1>5. CASE UNCHANGED <<room, minted>> /\ send'[m] = "seal" /\ room[m].out # 0 /\ ~room[m].stale
  <2>1. RoomType' /\ AskType' /\ InboxType'
    BY <1>5, TypesStay DEF SendRoomMessage, past
  <2>2. SendType'
    BY <1>4, <1>5 DEF SendType, Types
  <2>3. Position(m)'
    <3>1. room[m].next <= Spent /\ room[m].reserved <= room[m].next + Block
          /\ file[m].reserved = file[m].next /\ file[m].next <= Spent + Block
      BY <1>3, NumberTypes DEF Position
    <3>2. room[m].next \in Nat /\ file[m].next \in Nat /\ Block \in Nat
      BY NumberTypes, PersonTypes, ViewsAssumption
    <3>3. QED BY <3>1, <3>2, <1>1, <1>5 DEF Position, SendRoomMessage
  <2>4. \A x \in People \ {m} : Position(x)'
    BY <1>1, <1>4, <1>5, PositionStays DEF SendRoomMessage
  <2>5. QED BY <1>1, <1>2, <1>4, <1>5, <2>1, <2>2, <2>3, <2>4, TypesNext
<1>6. CASE /\ n <= MaxChains /\ minted' = [minted EXCEPT ![m] = n]
           /\ Keep(m, NewChain(m, room[m], n)) /\ send'[m] = "give"
  <2>1. n \in 1..MaxChains /\ MaxChains \in Nat
    BY <1>3, <1>6, ViewsBounds
  <2>2. /\ NewChain(m, room[m], n) \in Held /\ m \notin NewChain(m, room[m], n).members
        /\ NewChain(m, room[m], n).joined = room[m].joined
        /\ NewChain(m, room[m], n).next = 0 /\ NewChain(m, room[m], n).reserved = 0
        /\ NewChain(m, room[m], n).out = n
    BY <1>3, <2>1, NewChainOf
  <2>3. /\ RoomType' /\ room'[m] = NewChain(m, room[m], n)
        /\ \A x \in People \ {m} : room'[x] = room[x]
    BY <2>2, <1>6, KeepOf
  <2>4. \A x \in People : room'[x].joined = room[x].joined
    BY <2>2, <2>3
  <2>5. AskType' /\ InboxType'
    BY <2>4, PlacesStay DEF SendRoomMessage, past
  <2>6. minted' \in [People -> 0..MaxChains] /\ minted'[m] = n
        /\ \A x \in People \ {m} : minted'[x] = minted[x]
    BY <1>6, <2>1 DEF Types, SendType
  <2>7. SendType'
    BY <1>4, <2>6 DEF SendType
  <2>8. Position(m)'
    <3>1. file[m].reserved = file[m].next /\ file[m].next <= Spent + Block
      BY <1>3 DEF Position
    <3>2. file[m].next \in Nat /\ Block \in Nat
      BY NumberTypes, PersonTypes, ViewsAssumption
    <3>3. room'[m].next = 0 /\ room'[m].reserved = 0 /\ room'[m].out # 0 /\ send'[m] = "give"
          /\ file'[m] = file[m]
      BY <1>6, <2>1, <2>2, <2>3 DEF SendRoomMessage
    <3>4. QED BY <3>1, <3>2, <3>3, <1>1 DEF Position
  <2>9. \A x \in People \ {m} : Position(x)'
    BY <1>1, <1>4, <2>3, PositionStays DEF SendRoomMessage
  <2>10. QED BY <1>1, <1>2, <1>4, <1>6, <2>1, <2>3, <2>5, <2>6, <2>7, <2>8, <2>9, TypesNext
<1>7. QED
  BY <1>5, <1>6 DEF SendRoomMessage, Step, Types, SendType

LEMMA DistributeChainTypes ==
  ASSUME Types, NEW m \in People, DistributeChain(m)
  PROVE  /\ Types' /\ send'[m] = "seal"
         /\ room'[m] = [room[m] EXCEPT !.shared = TRUE]
         /\ \A x \in People \ {m} : room'[x] = room[x] /\ send'[x] = send[x]
         /\ \A x \in People : \A i \in DOMAIN inbox'[x] :
              i \in Nat /\ \/ i \in DOMAIN inbox[x] /\ inbox'[x][i] = inbox[x][i]
                           \/ inbox'[x][i] = ChainBroadcast(m)
<1> DEFINE r == [room[m] EXCEPT !.shared = TRUE]
<1>1. room[m] \in Held /\ m \notin room[m].members /\ Position(m) /\ send[m] = "give"
  BY PersonTypes DEF DistributeChain
<1>2. r \in Held /\ m \notin r.members /\ r.joined = room[m].joined /\ r.next = room[m].next
      /\ r.reserved = room[m].reserved /\ r.out = room[m].out
  BY <1>1 DEF Held
<1>3. Keep(m, r)
  BY DEF DistributeChain
<1> HIDE DEF r
<1>4. RoomType' /\ room'[m] = r /\ \A x \in People \ {m} : room'[x] = room[x]
  BY <1>2, <1>3, KeepOf
<1>5. \A x \in People : room'[x].joined = room[x].joined
  BY <1>2, <1>4
<1>6. FileType' /\ InviteType' /\ PendingType' /\ MailType' /\ PastType' /\ AskType'
  BY <1>5, TypesStay, PlacesStay DEF DistributeChain, past
<1>7. send'[m] = "seal" /\ SendType' /\ \A x \in People \ {m} : send'[x] = send[x]
  BY DEF DistributeChain, Step, Types, SendType
<1>8. CountType' /\ Spent' = Spent /\ Spent \in Nat
  BY CountOf DEF DistributeChain, Types, CountType
<1>9. ChainBroadcast(m) \in Said /\ ChainBroadcast(m).kind = "chain"
  BY <1>1, NumberTypes, ViewsBounds DEF Position, Chains, ChainBroadcast, Said
<1>10. /\ inbox' \in [People -> Seq(Said)]
       /\ \A x \in People : \A i \in DOMAIN inbox'[x] :
              i \in Nat /\ \/ i \in DOMAIN inbox[x] /\ inbox'[x][i] = inbox[x][i]
                           \/ inbox'[x][i] = ChainBroadcast(m)
       /\ \A x \in People : inbox'[x] # <<>> => room[x].joined
  <2>1. CASE UNCHANGED inbox
    BY <2>1 DEF Types, InboxType
  <2>2. CASE Post(m, ChainBroadcast(m))
    BY <2>2, <1>9, PostOf
  <2>3. QED BY <2>1, <2>2 DEF DistributeChain
<1>11. InboxType'
  <2>1. said' = said
    BY DEF DistributeChain, past
  <2>2. QED BY <2>1, <1>5, <1>9, <1>10 DEF InboxType, Types
<1>12. Position(m)'
  BY <1>1, <1>2, <1>4, <1>7, <1>8 DEF Position, DistributeChain
<1>13. \A x \in People \ {m} : Position(x)'
  BY <1>4, <1>7, <1>8, PositionStays DEF DistributeChain
<1>14. QED BY <1>4, <1>6, <1>7, <1>8, <1>10, <1>11, <1>12, <1>13, TypesNext DEF r

LEMMA BroadcastFailsTypes ==
  ASSUME Types, NEW m \in People, BroadcastFails(m)
  PROVE  Types' /\ send'[m] = "none" /\ \A x \in People \ {m} : send'[x] = send[x]
<1>1. /\ RoomType' /\ FileType' /\ InviteType' /\ PendingType' /\ MailType' /\ PastType' /\ AskType'
      /\ InboxType'
  BY TypesStay DEF BroadcastFails, past
<1>2. send'[m] = "none" /\ SendType' /\ \A x \in People \ {m} : send'[x] = send[x]
  BY DEF BroadcastFails, Step, Types, SendType
<1>3. CountType' /\ Spent' = Spent /\ Spent \in Nat
  BY CountOf DEF BroadcastFails, Types, CountType
<1>4. \A x \in People : Position(x)'
  BY <1>2, <1>3, PositionStays DEF BroadcastFails
<1>5. QED BY <1>1, <1>2, <1>3, <1>4, TypesNext

LEMMA SealRoomMessageTypes ==
  ASSUME Types, NEW m \in People, SealRoomMessage(m)
  PROVE  /\ Types' /\ send'[m] = "none"
         /\ \A x \in People \ {m} : room'[x] = room[x] /\ file'[x] = file[x] /\ send'[x] = send[x]
         /\ SameStanding(room'[m], room[m])
         /\ room'[m].out = room[m].out /\ room'[m].stale = room[m].stale /\ room'[m].views = room[m].views
         /\ \A c \in Chains : room'[m].passed[c] >= room[m].passed[c]
         /\ \A c \in Chains : c # <<m, room[m].out>> => room'[m].passed[c] = room[m].passed[c]
         /\ \/ UNCHANGED file
            \/ /\ file'[m].encrypted = room[m].encrypted
               /\ file'[m].removed = room[m].removed \cup file[m].removed
               /\ file'[m].members \subseteq (room[m].members \cup file[m].members) \ file'[m].removed
               /\ file'[m].out = room[m].out /\ file'[m].stale = room[m].stale
               /\ file'[m].views = room[m].views /\ file'[m].passed = room[m].passed
         /\ \/ UNCHANGED <<inbox, said, hist>>
            \/ /\ Usable(room[m]) /\ said' = said \cup {SealRoomChain(m)}
               /\ SealRoomChain(m).chain \in Chains /\ SealRoomChain(m).chain = <<m, room[m].out>>
               /\ SealRoomChain(m).for = room[m].members /\ SealRoomChain(m).barred = room[m].removed
               /\ SealRoomChain(m).index = room[m].next
               /\ SealRoomChain(m).index < room'[m].passed[SealRoomChain(m).chain]
               /\ hist' = [hist EXCEPT ![m] = @ \cup {SealRoomChain(m)}]
         /\ \A x \in People : \A i \in DOMAIN inbox'[x] :
              i \in Nat /\ \/ i \in DOMAIN inbox[x] /\ inbox'[x][i] = inbox[x][i]
                           \/ inbox'[x][i].kind = "text"
<1> DEFINE r    == room[m]
           need == r.next >= r.reserved
           kept == [r EXCEPT !.reserved = IF need THEN r.next + Block ELSE r.reserved]
           text == SealRoomChain(m)
<1>1. /\ r \in Held /\ m \notin r.members /\ Position(m) /\ send[m] = "seal"
      /\ r.next \in Nat /\ r.reserved \in Nat /\ Block \in Nat
      /\ file[m] \in Held /\ file[m].next \in Nat
  BY PersonTypes, NumberTypes, ViewsAssumption DEF SealRoomMessage
<1>2. /\ kept \in Held /\ m \notin kept.members /\ kept.joined = r.joined /\ SameStanding(kept, r)
      /\ kept.next = r.next /\ kept.reserved \in Nat
      /\ kept.reserved <= r.next + Block
      /\ kept.out = r.out /\ kept.stale = r.stale /\ kept.shared = r.shared
      /\ kept.views = r.views /\ kept.passed = r.passed
  <2>1. r.reserved <= r.next + Block
    BY <1>1 DEF Position
  <2> DEFINE k == IF need THEN r.next + Block ELSE r.reserved
  <2>2. k \in Nat /\ k <= r.next + Block
    BY <2>1, <1>1
  <2> HIDE DEF k
  <2>3. kept = [r EXCEPT !.reserved = k]
    BY DEF k
  <2> HIDE DEF kept
  <2>4. QED BY <2>2, <2>3, <1>1 DEF Held, SameStanding
<1>3. r.next + 1 <= Spent /\ Spent \in Nat /\ Spent < Never /\ Never \in Nat
  BY <1>1, CountOf, NeverType DEF Position
<1>4. IF need THEN PersistRoomChain(m, kept) ELSE UNCHANGED file
  BY DEF SealRoomMessage
<1>5. IF Usable(r)
      THEN /\ Keep(m, [NoteChainPositions(Show(kept, {text}), {text}) EXCEPT !.next = @ + 1])
           /\ Post(m, [kind |-> "text", text |-> text])
           /\ said' = said \cup {text} /\ hist' = [hist EXCEPT ![m] = @ \cup {text}]
      ELSE Keep(m, kept) /\ UNCHANGED <<inbox, said, hist>>
  BY DEF SealRoomMessage
<1>6. /\ text.chain = <<m, r.out>> /\ text.index = r.next /\ text.for = r.members
      /\ text.barred = r.removed /\ text.at = Cardinality(said) + 1
      /\ text = [chain |-> <<m, r.out>>, index |-> r.next, for |-> r.members,
                 barred |-> r.removed, at |-> Cardinality(said) + 1]
  BY DEF SealRoomChain
<1> HIDE DEF kept, text
<1>7. FileType' /\ (\A x \in People \ {m} : file'[x] = file[x])
      /\ \/ UNCHANGED file
         \/ /\ file'[m].encrypted = r.encrypted /\ file'[m].removed = r.removed \cup file[m].removed
            /\ file'[m].members \subseteq (r.members \cup file[m].members) \ file'[m].removed
            /\ file'[m].out = r.out /\ file'[m].stale = r.stale
            /\ file'[m].views = r.views /\ file'[m].passed = r.passed
  <2>1. CASE need
    BY <2>1, <1>2, <1>4, PersistOf DEF Saved, SameStanding
  <2>2. CASE ~need
    BY <2>2, <1>4, TypesStay
  <2>3. QED BY <2>1, <2>2
<1>8. /\ file'[m].reserved = file'[m].next /\ file'[m].next <= Spent + Block
  <2>1. CASE need
    BY <2>1, <1>2, <1>4, PersistOf, <1>1, <1>3 DEF Saved, higher
  <2>2. CASE ~need
    BY <2>2, <1>1, <1>4 DEF Position
  <2>3. QED BY <2>1, <2>2
<1>9. send'[m] = "none" /\ SendType' /\ \A x \in People \ {m} : send'[x] = send[x]
  BY DEF SealRoomMessage, Step, Types, SendType
<1>10. CountType' /\ Spent' = Spent
  BY CountOf DEF SealRoomMessage, Types, CountType
<1>11. InviteType' /\ PendingType'
  BY TypesStay DEF SealRoomMessage
<1>12. CASE ~Usable(r)
  <2>1. Keep(m, kept) /\ UNCHANGED <<inbox, said, hist>>
    BY <1>5, <1>12
  <2>2. RoomType' /\ room'[m] = kept /\ \A x \in People \ {m} : room'[x] = room[x]
    BY <2>1, <1>2, KeepOf
  <2>3. \A x \in People : room'[x].joined = room[x].joined
    BY <2>2, <1>2
  <2>4. MailType' /\ PastType' /\ AskType' /\ InboxType'
    BY <2>1, <2>3, TypesStay, PlacesStay DEF SealRoomMessage
  <2>5. Position(m)'
    BY <2>2, <1>1, <1>2, <1>3, <1>8, <1>9, <1>10 DEF Position
  <2>6. \A x \in People \ {m} : Position(x)'
    BY <2>2, <1>3, <1>7, <1>9, <1>10, PositionStays
  <2>7. Types'
    BY <2>2, <2>4, <2>5, <2>6, <1>7, <1>9, <1>10, <1>11, TypesNext
  <2>8. \A x \in People : \A i \in DOMAIN inbox'[x] :
              i \in Nat /\ i \in DOMAIN inbox[x] /\ inbox'[x][i] = inbox[x][i]
    <3>1. \A x \in People : inbox[x] \in Seq(Said)
      BY PersonTypes
    <3>2. QED BY <3>1, <2>1
  <2>9. \A c \in Chains : r.passed[c] \in Nat
    BY <1>1, NumberTypes
  <2>10. QED BY <2>1, <2>2, <2>7, <2>8, <2>9, <1>2, <1>7, <1>9
<1>13. CASE Usable(r)
  <2>1. /\ Keep(m, [NoteChainPositions(Show(kept, {text}), {text}) EXCEPT !.next = @ + 1])
        /\ Post(m, [kind |-> "text", text |-> text])
        /\ said' = said \cup {text} /\ hist' = [hist EXCEPT ![m] = @ \cup {text}]
    BY <1>5, <1>13
  <2>2. /\ IsFiniteSet(said) /\ Cardinality(said) \in Nat
        /\ \A h \in said : h.at <= Cardinality(said)
    BY SaidOf DEF Types, PastType
  <2>3. text \in Message /\ <<m, r.out>> \in Chains
    BY <1>1, <1>13, NumberTypes, ViewsBounds, <1>6, <2>2 DEF Usable, Chains, Message
  <2>4. text.index < Never /\ Proper({text})
    <3>1. text.index < Never
      BY <1>1, <1>3, <1>6
    <3>2. QED BY <2>3, <3>1 DEF Proper
  <2> DEFINE s == Show(kept, {text})
             t == NoteChainPositions(s, {text})
             u == [t EXCEPT !.next = t.next + 1]
  <2>5. /\ s \in Held /\ s.joined = r.joined /\ SameStanding(s, r) /\ SameChain(s, kept)
        /\ s.views = r.views /\ s.passed = r.passed
    BY <1>6, <2>2, <2>3, <1>2, ShowOf DEF SameStanding, SameChain
  <2> HIDE DEF s
  <2>6. /\ t \in Held /\ t.joined = r.joined /\ SameStanding(t, r) /\ SameChain(t, kept)
        /\ t.views = r.views
        /\ \A c \in Chains : t.passed[c] >= r.passed[c]
        /\ \A c \in Chains : c # <<m, r.out>> => t.passed[c] = r.passed[c]
        /\ text.index < t.passed[<<m, r.out>>]
    <3>1. /\ t \in Held /\ t.joined = s.joined /\ SameStanding(t, s) /\ SameChain(t, s)
          /\ t.views = s.views
          /\ \A c \in Chains : /\ t.passed[c] >= s.passed[c]
                               /\ \A h \in {text} : h.chain = c => h.index < t.passed[c]
                               /\ (\A h \in {text} : h.chain # c) => t.passed[c] = s.passed[c]
      BY <2>4, <2>5, NoteOf DEF SameStanding, SameChain
    <3>2. QED BY <3>1, <2>3, <2>5, <1>6 DEF SameStanding, SameChain
  <2> HIDE DEF t
  <2>7. t.next = r.next /\ t.reserved = kept.reserved /\ t.out = r.out /\ t.stale = r.stale
        /\ m \notin t.members
    BY <2>6, <1>1, <1>2 DEF SameChain, SameStanding
  <2>8. /\ u \in Held /\ u.joined = t.joined /\ SameStanding(u, t) /\ u.next = r.next + 1
        /\ u.reserved = kept.reserved /\ u.out = r.out /\ u.stale = r.stale
        /\ u.views = t.views /\ u.passed = t.passed /\ m \notin u.members
    <3>1. t.next + 1 \in Nat
      BY <2>7, <1>1
    <3>2. QED BY <3>1, <2>6, <2>7 DEF Held, SameStanding
  <2>9. Keep(m, u)
    BY <2>1 DEF u, t, s
  <2> HIDE DEF u
  <2>10. RoomType' /\ room'[m] = u /\ \A x \in People \ {m} : room'[x] = room[x]
    BY <2>8, <2>9, KeepOf
  <2>11. \A x \in People : room'[x].joined = room[x].joined
    BY <2>6, <2>8, <2>10
  <2>12. AskType' /\ MailType'
    BY <2>1, <2>11, TypesStay, PlacesStay DEF SealRoomMessage
  <2>13. PastType'
    <3>1. text \notin said
      BY <1>6, <2>2
    <3>2. IsFiniteSet(said') /\ Cardinality(said') = Cardinality(said) + 1
      BY <3>1, <2>1, <2>2, FS_AddElement
    <3>3. \A h \in said' : h.index < Never /\ h.at <= Cardinality(said')
      <4> SUFFICES ASSUME NEW h \in said' PROVE h.index < Never /\ h.at <= Cardinality(said')
        OBVIOUS
      <4>1. CASE h = text
        BY <4>1, <3>2, <2>4, <2>2, <1>6
      <4>2. CASE h \in said
        BY <4>2, SaidOf, <3>2, <2>2 DEF Message
      <4>3. QED BY <4>1, <4>2, <2>1
    <3>4. said' \subseteq Message
      BY <2>1, <2>3 DEF Types, PastType
    <3>5. hist' \in [People -> SUBSET said']
      BY <2>1 DEF Types, PastType
    <3>6. invited' \subseteq People /\ before' \in [People -> SUBSET said']
      BY <2>1 DEF Types, PastType, SealRoomMessage
    <3>7. QED BY <3>2, <3>3, <3>4, <3>5, <3>6 DEF PastType
  <2> DEFINE item == [kind |-> "text", text |-> text]
  <2>14. item \in Said /\ item.kind = "text" /\ item.text = text
    BY <2>3 DEF Said
  <2>15. Post(m, item)
    BY <2>1
  <2> HIDE DEF item
  <2>16. /\ inbox' \in [People -> Seq(Said)]
         /\ \A x \in People : \A i \in DOMAIN inbox'[x] :
              i \in Nat /\ \/ i \in DOMAIN inbox[x] /\ inbox'[x][i] = inbox[x][i]
                           \/ inbox'[x][i] = item
         /\ \A x \in People : inbox'[x] # <<>> => room[x].joined
    BY <2>14, <2>15, PostOf
  <2>17. InboxType'
    BY <2>1, <2>11, <2>14, <2>16 DEF InboxType, Types
  <2>18. Position(m)'
    BY <1>1, <1>3, <1>2, <2>8, <2>10, <1>8, <1>9, <1>10 DEF Position
  <2>19. \A x \in People \ {m} : Position(x)'
    BY <2>10, <1>3, <1>7, <1>9, <1>10, PositionStays
  <2>20. Types'
    BY <2>10, <2>12, <2>13, <2>17, <2>18, <2>19, <1>7, <1>9, <1>10, <1>11, TypesNext
  <2>21. SameStanding(room'[m], r) /\ room'[m].out = r.out /\ room'[m].stale = r.stale
         /\ room'[m].views = r.views
    BY <2>6, <2>8, <2>10 DEF SameStanding
  <2>22. /\ \A c \in Chains : room'[m].passed[c] >= r.passed[c]
         /\ \A c \in Chains : c # <<m, r.out>> => room'[m].passed[c] = r.passed[c]
         /\ text.index < room'[m].passed[<<m, r.out>>]
    BY <2>6, <2>8, <2>10
  <2>23. \A x \in People : \A i \in DOMAIN inbox'[x] :
              i \in Nat /\ \/ i \in DOMAIN inbox[x] /\ inbox'[x][i] = inbox[x][i]
                           \/ inbox'[x][i].kind = "text"
    BY <2>14, <2>16
  <2>24. QED BY <2>1, <2>3, <2>10, <2>20, <2>21, <2>22, <2>23, <1>6, <1>7, <1>9, <1>13 DEF text
<1>14. QED BY <1>12, <1>13

\* A save where nobody joins, leaves or sends.
LEMMA SavesPlaces ==
  ASSUME Types, NEW m \in People, NEW r \in Held, m \notin r.members, KeepAndSave(m, r),
         r.joined = room[m].joined, r.next = room[m].next, r.reserved = room[m].reserved,
         r.out = room[m].out, UNCHANGED send, Spent' >= Spent, Spent' \in Nat
  PROVE  /\ \A x \in People : Position(x)'
         /\ \A x \in People : room'[x].joined = room[x].joined
<1>1. /\ RoomType' /\ room'[m].joined = r.joined /\ SameChain(room'[m], r) /\ Saved(m, room'[m])
      /\ \A x \in People \ {m} : room'[x] = room[x] /\ file'[x] = file[x]
  BY KeepAndSaveOf
<1>2. Position(m) /\ Spent \in Nat /\ Block \in Nat /\ room[m].next \in Nat /\ room[m].reserved \in Nat
  BY PersonTypes, NumberTypes, CountOf, ViewsAssumption
<1>3. room'[m] \in Held
  BY <1>1 DEF RoomType
<1>4. Position(m)'
  BY <1>2, <1>1, <1>3, SavedPosition DEF Position, SameChain
<1>5. \A x \in People \ {m} : Position(x)'
  BY <1>1, PositionStays
<1>6. QED BY <1>1, <1>4, <1>5

LEMMA InviteToRoomTypes ==
  ASSUME Types, NEW m \in People, NEW p \in People \ {m}, InviteToRoom(m, p)
  PROVE  /\ Types' /\ room[m].encrypted /\ p \notin room[m].removed
         /\ \A x \in People \ {m} : room'[x] = room[x] /\ file'[x] = file[x]
         /\ room'[m].encrypted = room[m].encrypted /\ room'[m].removed = room[m].removed
         /\ room'[m].members = room[m].members \cup {p}
         /\ SameChain(room'[m], room[m]) /\ room'[m].passed = room[m].passed
         /\ \A c \in Chains : /\ room'[m].views[c] >= room[m].views[c]
                              /\ room'[m].views[c] > room[m].views[c] =>
                                   room'[m].views[c] + Retention < room[m].passed[c]
         /\ Saved(m, room'[m])
<1> DEFINE r == [room[m] EXCEPT !.members = room[m].members \cup {p}]
<1>1. room[m] \in Held /\ m \notin room[m].members
  BY PersonTypes
<1>2. /\ r \in Held /\ m \notin r.members /\ r.members = room[m].members \cup {p}
      /\ r.encrypted = room[m].encrypted /\ r.removed = room[m].removed /\ r.joined = room[m].joined
      /\ SameChain(r, room[m]) /\ r.views = room[m].views /\ r.passed = room[m].passed
  BY <1>1 DEF Held, SameChain
<1>3. KeepAndSave(m, r)
  BY DEF InviteToRoom
<1> HIDE DEF r
<1>4. /\ RoomType' /\ FileType'
      /\ SameStanding(room'[m], r) /\ SameChain(room'[m], r)
      /\ room'[m].passed = r.passed
      /\ \A c \in Chains : /\ room'[m].views[c] >= r.views[c]
                           /\ room'[m].views[c] > r.views[c] =>
                                room'[m].views[c] + Retention < r.passed[c]
      /\ Saved(m, room'[m])
      /\ \A x \in People \ {m} : room'[x] = room[x] /\ file'[x] = file[x]
  BY <1>2, <1>3, KeepAndSaveOf
<1>5. CountType' /\ Spent' = Spent + Block /\ Spent \in Nat /\ Block \in Nat
  BY CountOf, ViewsAssumption DEF InviteToRoom
<1>6. (\A x \in People : Position(x)') /\ \A x \in People : room'[x].joined = room[x].joined
  BY <1>2, <1>3, <1>5, SavesPlaces DEF SameChain, InviteToRoom
<1>7. SendType' /\ PendingType' /\ MailType' /\ PastType' /\ AskType' /\ InboxType'
  BY <1>6, TypesStay, PlacesStay DEF InviteToRoom, past
<1>8. InviteType'
  <2> DEFINE it == [pc |-> "bundle", whom |-> p]
  <2>1. it \in [pc : {"none", "bundle", "tell"}, whom : People \cup {None}] /\ it.whom # None
    BY ViewsAssumption
  <2>2. invite' = [invite EXCEPT ![m] = it]
    BY DEF InviteToRoom
  <2> HIDE DEF it
  <2>3. QED BY <2>1, <2>2 DEF Types, InviteType
<1>9. Types'
  BY <1>4, <1>5, <1>6, <1>7, <1>8, TypesNext
<1>10. SameChain(room'[m], room[m])
  BY <1>2, <1>4 DEF SameChain
<1>11. /\ room'[m].encrypted = room[m].encrypted /\ room'[m].removed = room[m].removed
       /\ room'[m].members = room[m].members \cup {p} /\ room'[m].passed = room[m].passed
  BY <1>2, <1>4 DEF SameStanding
<1>12. room[m].encrypted /\ p \notin room[m].removed
  BY DEF InviteToRoom
<1>13. QED BY <1>2, <1>4, <1>9, <1>10, <1>11, <1>12

\* What a roster says.
LEMMA RosterOf ==
  ASSUME NEW m \in People, NEW r \in Held
  PROVE  /\ Roster(m, r) \in Mail /\ Roster(m, r).kind = "roster" /\ Roster(m, r).by = m
         /\ Roster(m, r).members = r.members \cup {m}
         /\ Roster(m, r).removed = IF m = Owner THEN r.removed ELSE {}
         /\ Roster(m, r).members \subseteq People /\ Roster(m, r).removed \subseteq People
<1>1. r.members \cup {m} \subseteq People /\ (IF m = Owner THEN r.removed ELSE {}) \subseteq People
  BY NumberTypes
<1>2. QED BY <1>1 DEF Roster, Mail

LEMMA SendInviteTypes ==
  ASSUME Types, NEW m \in People, SendInvite(m)
  PROVE  /\ Types' /\ invite[m].whom \in People
         /\ LET p == invite[m].whom
                it == [kind |-> "invite", by |-> m, chains |-> ChainBundleFor(room[m], m, p),
                       members |-> Roster(m, room[m]).members, removed |-> Roster(m, room[m]).removed]
            IN  /\ it \in Invitation /\ Deliver({p}, it)
                /\ \A x \in People : \A i \in DOMAIN mail'[x] :
                     i \in Nat /\ \/ i \in DOMAIN mail[x] /\ mail'[x][i] = mail[x][i]
                                  \/ x = p /\ i = Len(mail[x]) + 1 /\ mail'[x][i] = it
<1> DEFINE p == invite[m].whom
           it == [kind |-> "invite", by |-> m, chains |-> ChainBundleFor(room[m], m, p),
                  members |-> Roster(m, room[m]).members, removed |-> Roster(m, room[m]).removed]
<1>1. p \in People /\ room[m] \in Held
  BY PersonTypes DEF SendInvite
<1>2. it \in Invitation /\ it.kind = "invite"
  BY <1>1, BundleOf, RosterOf DEF Invitation
<1>3. it \in Mail /\ it.kind # "answer"
  BY <1>2 DEF Mail
<1>4. Deliver({p}, it)
  BY DEF SendInvite
<1>5. /\ invited' = invited \cup {p} /\ UNCHANGED <<room, file, send, pending, inbox, hist, said>>
      /\ UNCHANGED <<missed, asking, minted, counts>>
      /\ invite' = [invite EXCEPT ![m].pc = "tell"]
      /\ invite[m].pc = "bundle"
  BY DEF SendInvite
<1>6. \E B \in SUBSET said : before' = [before EXCEPT ![p] = B]
  <2> DEFINE was == {h \in hist[m] : p \notin h.for /\ ~CanOpen(room[p], h) /\ ~Underway(p, h.chain)}
  <2>1. before' = [before EXCEPT ![p] = IF p \in invited THEN @ \cap was ELSE was]
    BY DEF SendInvite
  <2>2. was \subseteq said /\ before[p] \cap was \subseteq said
    BY <1>1, PersonTypes
  <2> HIDE DEF was
  <2>3. before \in [People -> SUBSET said]
    BY DEF Types, PastType
  <2>4. before' = [before EXCEPT ![p] = IF p \in invited THEN before[p] \cap was ELSE was]
    BY <2>1, <2>3, <1>1
  <2>5. (IF p \in invited THEN before[p] \cap was ELSE was) \in SUBSET said
    BY <2>2
  <2>6. QED BY <2>4, <2>5
<1> HIDE DEF it
<1>7. /\ MailType'
      /\ \A x \in People : \A i \in DOMAIN mail'[x] :
           i \in Nat /\ \/ i \in DOMAIN mail[x] /\ mail'[x][i] = mail[x][i]
                        \/ x = p /\ i = Len(mail[x]) + 1 /\ mail'[x][i] = it
  BY <1>3, <1>4, <1>5, DeliverOf
<1>8. RoomType' /\ FileType' /\ SendType' /\ PendingType' /\ AskType' /\ InboxType'
  BY <1>5, TypesStay
<1>9. InviteType'
  <2> USE DEF Types, InviteType
  <2>1. invite' \in [People -> [pc : {"none", "bundle", "tell"}, whom : People \cup {None}]]
    BY <1>5
  <2>2. \A x \in People : invite'[x].whom = invite[x].whom /\ (invite'[x].pc # "none" => invite[x].pc # "none")
    BY <1>5
  <2>3. QED BY <2>1, <2>2
<1>10. PastType'
  <2>1. PICK B \in SUBSET said : before' = [before EXCEPT ![p] = B]
    BY <1>6
  <2>2. before' \in [People -> SUBSET said]
    BY <2>1 DEF Types, PastType
  <2>3. QED BY <2>2, <1>1, <1>5 DEF Types, PastType
<1>11. CountType' /\ Spent' = Spent /\ Spent \in Nat
  BY CountOf, <1>5 DEF SendInvite, Types, CountType
<1>12. \A x \in People : Position(x)'
  BY <1>5, <1>11, PositionStays
<1>13. QED BY <1>1, <1>2, <1>4, <1>7, <1>8, <1>9, <1>10, <1>11, <1>12, TypesNext DEF it

LEMMA TellMembersTypes ==
  ASSUME Types, NEW m \in People, TellMembers(m)
  PROVE  /\ Types'
         /\ \A x \in People : \A i \in DOMAIN mail'[x] :
              i \in Nat /\ \/ i \in DOMAIN mail[x] /\ mail'[x][i] = mail[x][i]
                           \/ x \in room[m].members /\ i = Len(mail[x]) + 1
                              /\ mail'[x][i] = Roster(m, room[m])
<1>1. room[m] \in Held
  BY PersonTypes
<1>2. Roster(m, room[m]) \in Mail /\ Roster(m, room[m]).kind # "answer"
  BY <1>1, RosterOf
<1>3. /\ Deliver(room[m].members \ {invite[m].whom}, Roster(m, room[m]))
      /\ invite' = [invite EXCEPT ![m] = NotInviting]
      /\ UNCHANGED <<room, file, send, pending, inbox, hist, past, asking, minted, counts, upsets>>
  BY DEF TellMembers
<1>4. /\ MailType'
      /\ \A x \in People : \A i \in DOMAIN mail'[x] :
              i \in Nat /\ \/ i \in DOMAIN mail[x] /\ mail'[x][i] = mail[x][i]
                           \/ x \in room[m].members /\ i = Len(mail[x]) + 1
                              /\ mail'[x][i] = Roster(m, room[m])
  <2> DEFINE item == Roster(m, room[m])
             to == room[m].members \ {invite[m].whom}
  <2>1. item \in Mail /\ item.kind # "answer" /\ Deliver(to, item) /\ said \subseteq said'
    BY <1>2, <1>3 DEF past
  <2>2. to \subseteq room[m].members
    OBVIOUS
  <2> HIDE DEF item, to
  <2>3. /\ MailType'
        /\ \A x \in People : \A i \in DOMAIN mail'[x] :
              i \in Nat /\ \/ i \in DOMAIN mail[x] /\ mail'[x][i] = mail[x][i]
                           \/ x \in to /\ i = Len(mail[x]) + 1 /\ mail'[x][i] = item
    BY <2>1, DeliverOf
  <2>4. QED BY <2>2, <2>3 DEF item
<1>5. RoomType' /\ FileType' /\ SendType' /\ PendingType' /\ AskType' /\ InboxType' /\ PastType' /\ CountType'
  BY <1>3, TypesStay DEF past
<1>6. InviteType'
  BY <1>3 DEF Types, InviteType, NotInviting
<1>7. Spent' = Spent /\ Spent \in Nat
  BY <1>3, CountOf
<1>8. \A x \in People : Position(x)'
  BY <1>3, <1>7, PositionStays
<1>9. QED BY <1>4, <1>5, <1>6, <1>8, TypesNext

LEMMA RemoveMemberTypes ==
  ASSUME Types, NEW p \in People, RemoveMember(p)
  PROVE  /\ Types' /\ room[Owner].encrypted /\ p \in room[Owner].members
         /\ \A x \in People \ {Owner} : room'[x] = room[x] /\ file'[x] = file[x]
         /\ room'[Owner].encrypted = room[Owner].encrypted
         /\ room'[Owner].removed = room[Owner].removed \cup {p}
         /\ room'[Owner].members = room[Owner].members \ {p}
         /\ room'[Owner].stale = TRUE /\ room'[Owner].out = room[Owner].out
         /\ room'[Owner].passed = room[Owner].passed
         /\ \A c \in Chains : /\ room'[Owner].views[c] >= room[Owner].views[c]
                              /\ room'[Owner].views[c] > room[Owner].views[c] =>
                                   room'[Owner].views[c] + Retention < room[Owner].passed[c]
         /\ Saved(Owner, room'[Owner])
         /\ \E item \in Mail :
              /\ item.kind = "roster" /\ item.by = Owner
              /\ item.members = (room[Owner].members \ {p}) \cup {Owner}
              /\ item.removed = room[Owner].removed \cup {p}
              /\ \A x \in People : \A i \in DOMAIN mail'[x] :
                   i \in Nat /\ \/ i \in DOMAIN mail[x] /\ mail'[x][i] = mail[x][i]
                                \/ x \in room[Owner].members \ {p} /\ i = Len(mail[x]) + 1
                                   /\ mail'[x][i] = item
<1> DEFINE r == [room[Owner] EXCEPT !.members = room[Owner].members \ {p},
                                    !.removed = room[Owner].removed \cup {p}, !.stale = TRUE]
           item == Roster(Owner, r)
<1>0. Owner \in People
  BY ViewsAssumption
<1>1. room[Owner] \in Held /\ Owner \notin room[Owner].members
  BY <1>0, PersonTypes
<1>2. /\ r \in Held /\ Owner \notin r.members /\ r.members = room[Owner].members \ {p}
      /\ r.removed = room[Owner].removed \cup {p} /\ r.stale = TRUE
      /\ r.encrypted = room[Owner].encrypted /\ r.joined = room[Owner].joined
      /\ r.out = room[Owner].out /\ r.next = room[Owner].next /\ r.reserved = room[Owner].reserved
      /\ r.views = room[Owner].views /\ r.passed = room[Owner].passed
  BY <1>1 DEF Held
<1>3. KeepAndSave(Owner, r) /\ Deliver(r.members, item) /\ Counted("moves", MaxMoves)
      /\ room[Owner].encrypted /\ p \in room[Owner].members
  BY DEF RemoveMember
<1>3a. UNCHANGED <<send, invite, pending, inbox, hist, past, asking, minted, upsets>>
  BY DEF RemoveMember
<1> HIDE DEF r
<1>4. /\ RoomType' /\ FileType'
      /\ SameStanding(room'[Owner], r) /\ SameChain(room'[Owner], r)
      /\ room'[Owner].passed = r.passed
      /\ \A c \in Chains : /\ room'[Owner].views[c] >= r.views[c]
                           /\ room'[Owner].views[c] > r.views[c] =>
                                room'[Owner].views[c] + Retention < r.passed[c]
      /\ Saved(Owner, room'[Owner])
      /\ \A x \in People \ {Owner} : room'[x] = room[x] /\ file'[x] = file[x]
  BY <1>0, <1>2, <1>3, KeepAndSaveOf
<1>5. CountType' /\ Spent' = Spent + Block /\ Spent \in Nat /\ Block \in Nat
  BY <1>3, <1>3a, CountOf, ViewsAssumption
<1>6. (\A x \in People : Position(x)') /\ \A x \in People : room'[x].joined = room[x].joined
  BY <1>0, <1>2, <1>3, <1>3a, <1>5, SavesPlaces
<1>7. item \in Mail /\ item.kind = "roster" /\ item.by = Owner /\ item.members = r.members \cup {Owner}
      /\ item.removed = r.removed
  BY <1>0, <1>2, RosterOf
<1> HIDE DEF item
<1>8. /\ MailType'
      /\ \A x \in People : \A i \in DOMAIN mail'[x] :
           i \in Nat /\ \/ i \in DOMAIN mail[x] /\ mail'[x][i] = mail[x][i]
                        \/ x \in r.members /\ i = Len(mail[x]) + 1 /\ mail'[x][i] = item
  BY <1>3, <1>3a, <1>7, DeliverOf DEF past
<1>9. SendType' /\ InviteType' /\ PendingType' /\ PastType' /\ AskType' /\ InboxType'
  BY <1>3a, <1>6, TypesStay, PlacesStay DEF past
<1>10. Types'
  BY <1>4, <1>5, <1>6, <1>8, <1>9, TypesNext
<1>11. \E it \in Mail :
              /\ it.kind = "roster" /\ it.by = Owner
              /\ it.members = (room[Owner].members \ {p}) \cup {Owner}
              /\ it.removed = room[Owner].removed \cup {p}
              /\ \A x \in People : \A i \in DOMAIN mail'[x] :
                   i \in Nat /\ \/ i \in DOMAIN mail[x] /\ mail'[x][i] = mail[x][i]
                                \/ x \in room[Owner].members \ {p} /\ i = Len(mail[x]) + 1
                                   /\ mail'[x][i] = it
  BY <1>2, <1>7, <1>8
<1>12. QED BY <1>2, <1>3, <1>4, <1>10, <1>11 DEF SameStanding, SameChain

\* Where only what one member has read changes.
LEMMA DecodeOf ==
  ASSUME Types, NEW x \in People, NEW texts, texts \subseteq said, Decode(x, texts),
         UNCHANGED <<said, invited, before>>
  PROVE  /\ RoomType' /\ PastType'
         /\ room'[x].joined = room[x].joined /\ SameStanding(room'[x], room[x])
         /\ SameChain(room'[x], room[x]) /\ room'[x].views = room[x].views
         /\ \A c \in Chains : /\ room'[x].passed[c] >= room[x].passed[c]
                              /\ room'[x].passed[c] # room[x].passed[c] => \E h \in said : h.chain = c
         /\ \A h \in hist'[x] : h \in hist[x] \/ (h \in said /\ h.index < room'[x].passed[h.chain])
         /\ \A y \in People \ {x} : room'[y] = room[y] /\ hist'[y] = hist[y]
<1> DEFINE opened == {h \in texts \ hist[x] : CanOpen(room[x], h)}
           s == Show(room[x], texts)
           t == NoteChainPositions(s, opened)
<1>1. room[x] \in Held /\ x \notin room[x].members /\ hist[x] \subseteq said
  BY PersonTypes
<1>2. /\ said \subseteq Message /\ Cardinality(said) \in Nat /\ \A h \in said : h.at <= Cardinality(said)
  BY SaidOf
<1>3. opened \subseteq said
  OBVIOUS
<1>4. Keep(x, t) /\ hist' = [hist EXCEPT ![x] = hist[x] \cup opened]
  BY DEF Decode
<1> HIDE DEF opened
<1>5. /\ s \in Held /\ s.joined = room[x].joined /\ SameStanding(s, room[x]) /\ SameChain(s, room[x])
      /\ s.views = room[x].views /\ s.passed = room[x].passed
  BY <1>2, <1>1, ShowOf DEF SameStanding, SameChain
<1> HIDE DEF s
<1>6. Proper(opened)
  BY <1>3, SaidOf
<1>7. /\ t \in Held /\ t.joined = s.joined /\ SameStanding(t, s) /\ SameChain(t, s) /\ t.views = s.views
      /\ \A c \in Chains : /\ t.passed[c] >= s.passed[c]
                           /\ \A h \in opened : h.chain = c => h.index < t.passed[c]
                           /\ (\A h \in opened : h.chain # c) => t.passed[c] = s.passed[c]
  BY <1>5, <1>6, NoteOf DEF SameStanding, SameChain
<1> HIDE DEF t
<1>8. x \notin t.members /\ SameStanding(t, room[x]) /\ SameChain(t, room[x])
  BY <1>1, <1>5, <1>7 DEF SameStanding, SameChain
<1>9. RoomType' /\ room'[x] = t /\ \A y \in People \ {x} : room'[y] = room[y]
  BY <1>4, <1>7, <1>8, KeepOf
<1>10. /\ hist' \in [People -> SUBSET said] /\ hist'[x] = hist[x] \cup opened
       /\ \A y \in People \ {x} : hist'[y] = hist[y]
  BY <1>1, <1>3, <1>4 DEF Types, PastType
<1>11. PastType'
  BY <1>10 DEF Types, PastType
<1>12. \A h \in said : h.chain \in Chains
  BY SaidOf
<1>13. \A c \in Chains : /\ t.passed[c] >= room[x].passed[c]
                         /\ t.passed[c] # room[x].passed[c] => \E h \in said : h.chain = c
  BY <1>3, <1>5, <1>7
<1>14. \A h \in hist'[x] : h \in hist[x] \/ (h \in said /\ h.index < t.passed[h.chain])
  BY <1>3, <1>7, <1>10, <1>12
<1>15. QED BY <1>5, <1>7, <1>8, <1>9, <1>10, <1>11, <1>13, <1>14

\* Nothing that positions depend on changes.
LEMMA PositionsStay ==
  ASSUME Types, UNCHANGED <<file, send>>, Spent' >= Spent, Spent' \in Nat,
         \A x \in People : SameChain(room'[x], room[x])
  PROVE  \A x \in People : Position(x)'
<1> SUFFICES ASSUME NEW x \in People PROVE Position(x)'
  OBVIOUS
<1>1. /\ room'[x].next = room[x].next /\ room'[x].reserved = room[x].reserved
      /\ room'[x].out = room[x].out
  BY DEF SameChain
<1>2. room[x].next \in Nat /\ file[x].next \in Nat /\ Spent \in Nat /\ Block \in Nat /\ Position(x)
  BY PersonTypes, NumberTypes, CountOf, ViewsAssumption
<1>3. room[x].next + (IF send[x] = "none" THEN 0 ELSE 1) <= Spent'
  <2>1. CASE send[x] = "none"
    BY <2>1, <1>2 DEF Position
  <2>2. CASE send[x] # "none"
    BY <2>2, <1>2 DEF Position
  <2>3. QED BY <2>1, <2>2
<1>4. file[x].next <= Spent' + Block
  BY <1>2 DEF Position
<1>5. QED BY <1>1, <1>2, <1>3, <1>4 DEF Position

LEMMA SameChainSelf == \A r : SameChain(r, r) /\ SameStanding(r, r)
  BY DEF SameChain, SameStanding

\* A broadcast: whose it is, and to whom.
LEMMA SaidTypes ==
  ASSUME NEW it \in Said
  PROVE  /\ it.kind = "chain" => it.chain \in Chains /\ it.to \subseteq People /\ it.chain[1] \in People
         /\ it.kind \in {"chain", "text"}
  BY DEF Said, Chains

LEMMA HandleChainBroadcastTypes ==
  ASSUME Types, NEW x \in People, HandleChainBroadcast(x)
  PROVE  LET given == inbox[x][1] IN
         /\ Types' /\ 1 \in DOMAIN inbox[x] /\ given \in Said /\ given.kind = "chain" /\ given.chain \in Chains
         /\ \A y \in People \ {x} : room'[y] = room[y] /\ inbox'[y] = inbox[y]
         /\ \A i \in DOMAIN inbox'[x] : i \in Nat /\ i + 1 \in DOMAIN inbox[x] /\ inbox'[x][i] = inbox[x][i + 1]
         /\ SameStanding(room'[x], room[x]) /\ SameChain(room'[x], room[x])
         /\ room'[x].passed = room[x].passed
         /\ \A c \in Chains : room'[x].views[c] <= room[x].views[c]
         /\ \A c \in Chains : room'[x].views[c] # room[x].views[c] =>
              given.chain = c /\ x \in given.to
<1> DEFINE given == inbox[x][1]
           offered == DecodeChainBroadcast(x, given)
           r == LearnChainViews(room[x], offered)
<1>1. Arrives(x, "chain") /\ UNCHANGED <<hist, missed>>
  BY DEF HandleChainBroadcast
<1>2. UNCHANGED <<file, send, invite, pending, mail, said, invited, before, asking, minted, counts>>
  BY <1>1 DEF Arrives
<1>3. /\ inbox' \in [People -> Seq(Said)]
      /\ Head(inbox[x]) = given /\ 1 \in DOMAIN inbox[x] /\ given \in Said
      /\ given.kind = "chain" /\ room[x].joined
      /\ \A i \in DOMAIN inbox'[x] : i \in Nat /\ i + 1 \in DOMAIN inbox[x] /\ inbox'[x][i] = inbox[x][i + 1]
      /\ \A y \in People \ {x} : inbox'[y] = inbox[y]
      /\ upsets' \in 0..MaxUpsets
  BY <1>1, ArrivesOf
<1>4. given.chain \in Chains
  BY <1>3, SaidTypes
<1>5. Keep(x, r) \/ UNCHANGED room
  BY <1>3 DEF HandleChainBroadcast
<1>6. room[x] \in Held /\ x \notin room[x].members
  BY PersonTypes
<1>7. offered \in Offers /\ \A c \in Chains : offered[c] # Never => c = given.chain /\ x \in given.to
  BY NeverType DEF DecodeChainBroadcast, Offers
<1> HIDE DEF offered
<1>8. /\ r \in Held /\ r.joined = room[x].joined /\ SameStanding(r, room[x]) /\ SameChain(r, room[x])
      /\ r.passed = room[x].passed
      /\ \A c \in Chains : r.views[c] <= room[x].views[c] /\ r.views[c] \in {room[x].views[c], offered[c]}
  BY <1>6, <1>7, LearnOf DEF SameStanding, SameChain
<1>9. \A c \in Chains : r.views[c] # room[x].views[c] => c = given.chain /\ x \in given.to
  BY <1>7, <1>6, <1>8, NumberTypes, NeverType
<1> HIDE DEF r
<1>10. /\ RoomType' /\ (\A y \in People \ {x} : room'[y] = room[y])
       /\ room'[x].joined = room[x].joined
       /\ SameStanding(room'[x], room[x]) /\ SameChain(room'[x], room[x])
       /\ room'[x].passed = room[x].passed
       /\ \A c \in Chains : room'[x].views[c] <= room[x].views[c]
       /\ \A c \in Chains : room'[x].views[c] # room[x].views[c] => given.chain = c /\ x \in given.to
  <2>1. CASE UNCHANGED room
    BY <1>6, NumberTypes, <2>1, TypesStay, SameChainSelf
  <2>2. CASE Keep(x, r)
    BY <1>6, <1>8, <2>2, KeepOf, <1>9 DEF SameStanding
  <2>3. QED BY <1>5, <2>1, <2>2
<1>11. \A y \in People : room'[y].joined = room[y].joined /\ SameChain(room'[y], room[y])
  BY <1>10, SameChainSelf
<1>12. FileType' /\ SendType' /\ InviteType' /\ PendingType' /\ MailType' /\ PastType' /\ AskType'
  BY <1>1, <1>2, <1>11, TypesStay, PlacesStay
<1>13. InboxType'
  <2>1. inbox[x] # <<>>
    BY <1>1 DEF Arrives
  <2>2. QED BY <2>1, <1>2, <1>3, <1>11, InboxRests
<1>14. CountType' /\ Spent' = Spent /\ Spent \in Nat
  BY <1>2, <1>3, CountOf DEF Types, CountType
<1>15. \A y \in People : Position(y)'
  BY <1>2, <1>11, <1>14, PositionsStay
<1>16. QED BY <1>3, <1>4, <1>10, <1>12, <1>13, <1>14, <1>15, TypesNext

LEMMA HandleRoomMessageTypes ==
  ASSUME Types, NEW x \in People, HandleRoomMessage(x)
  PROVE  /\ Types'
         /\ \A y \in People \ {x} : room'[y] = room[y] /\ inbox'[y] = inbox[y] /\ hist'[y] = hist[y]
         /\ \A i \in DOMAIN inbox'[x] : i \in Nat /\ i + 1 \in DOMAIN inbox[x] /\ inbox'[x][i] = inbox[x][i + 1]
         /\ SameStanding(room'[x], room[x]) /\ SameChain(room'[x], room[x])
         /\ room'[x].views = room[x].views
         /\ \A c \in Chains : /\ room'[x].passed[c] >= room[x].passed[c]
                              /\ room'[x].passed[c] # room[x].passed[c] => \E h \in said : h.chain = c
         /\ \A h \in hist'[x] : h \in hist[x] \/ (h \in said /\ h.index < room'[x].passed[h.chain])
<1> DEFINE texts == {Head(inbox[x]).text}
<1>1. Arrives(x, "text") /\ Decode(x, texts)
  BY DEF HandleRoomMessage
<1>2. UNCHANGED <<file, send, invite, pending, mail, said, invited, before, asking, minted, counts>>
  BY <1>1 DEF Arrives
<1>3. /\ inbox' \in [People -> Seq(Said)]
      /\ Head(inbox[x]) = inbox[x][1] /\ 1 \in DOMAIN inbox[x] /\ inbox[x][1].kind = "text"
      /\ \A i \in DOMAIN inbox'[x] : i \in Nat /\ i + 1 \in DOMAIN inbox[x] /\ inbox'[x][i] = inbox[x][i + 1]
      /\ \A y \in People \ {x} : inbox'[y] = inbox[y]
      /\ upsets' \in 0..MaxUpsets
  BY <1>1, ArrivesOf
<1>4. texts \subseteq said
  BY <1>3 DEF Types, InboxType
<1> HIDE DEF texts
<1>5. /\ RoomType' /\ PastType'
      /\ room'[x].joined = room[x].joined /\ SameStanding(room'[x], room[x])
      /\ SameChain(room'[x], room[x]) /\ room'[x].views = room[x].views
      /\ \A c \in Chains : /\ room'[x].passed[c] >= room[x].passed[c]
                           /\ room'[x].passed[c] # room[x].passed[c] => \E h \in said : h.chain = c
      /\ \A h \in hist'[x] : h \in hist[x] \/ (h \in said /\ h.index < room'[x].passed[h.chain])
      /\ \A y \in People \ {x} : room'[y] = room[y] /\ hist'[y] = hist[y]
  BY <1>1, <1>2, <1>4, DecodeOf
<1>6. \A y \in People : room'[y].joined = room[y].joined /\ SameChain(room'[y], room[y])
  BY <1>5, SameChainSelf
<1>7. FileType' /\ SendType' /\ InviteType' /\ PendingType' /\ MailType' /\ AskType'
  BY <1>2, <1>6, TypesStay, PlacesStay
<1>8. InboxType'
  <2>1. inbox[x] # <<>>
    BY <1>1 DEF Arrives
  <2>2. QED BY <2>1, <1>2, <1>3, <1>6, InboxRests
<1>9. CountType' /\ Spent' = Spent /\ Spent \in Nat
  BY <1>2, <1>3, CountOf DEF Types, CountType
<1>10. \A y \in People : Position(y)'
  BY <1>2, <1>6, <1>9, PositionsStay
<1>11. QED BY <1>3, <1>5, <1>7, <1>8, <1>9, <1>10, TypesNext

LEMMA MailTypes ==
  ASSUME NEW it \in Mail
  PROVE  /\ it.kind = "roster" => it.by \in People /\ it.members \subseteq People /\ it.removed \subseteq People
         /\ it.kind = "invite" => it \in Invitation
         /\ it.kind = "ask" => it.by \in People
         /\ it.kind \in {"invite", "roster", "ask", "answer"}
  BY DEF Mail, Invitation

LEMMA InvitationTypes ==
  ASSUME NEW it \in Invitation
  PROVE  /\ it.kind = "invite" /\ it.by \in People /\ it.chains \in Offers
         /\ it.members \subseteq People /\ it.removed \subseteq People
         /\ \A c \in Chains : it.chains[c] \in 0..Never /\ it.chains[c] \in Nat /\ it.chains[c] <= Never
<1>1. it.chains \in [Chains -> 0..Never]
  BY DEF Invitation, Offers
<1>2. \A i \in 0..Never : i \in Nat /\ i <= Never
  BY NeverType
<1>3. QED BY <1>1, <1>2 DEF Invitation

LEMMA MailedOf ==
  ASSUME Types, NEW x \in People, NEW kind, Mailed(x, kind), Taken(x)
  PROVE  /\ mail[x] # <<>> /\ Head(mail[x]) = mail[x][1] /\ 1 \in DOMAIN mail[x] /\ mail[x][1] \in Mail
         /\ mail[x][1].kind = kind
         /\ \A i \in DOMAIN mail'[x] : i \in Nat /\ i + 1 \in DOMAIN mail[x] /\ mail'[x][i] = mail[x][i + 1]
         /\ \A y \in People \ {x} : mail'[y] = mail[y]
         /\ MailType' /\ SendType' /\ InviteType'
<1>1. mail[x] # <<>> /\ Head(mail[x]).kind = kind /\ UNCHANGED <<send, invite, said, minted>>
  BY DEF Mailed
<1>2. QED BY <1>1, TakenOf, TypesStay

LEMMA ApplyRosterTypes ==
  ASSUME Types, NEW x \in People, ApplyRoster(x)
  PROVE  LET it == mail[x][1] IN
         /\ Types' /\ 1 \in DOMAIN mail[x] /\ it \in Mail /\ it.kind = "roster"
         /\ \A i \in DOMAIN mail'[x] : i \in Nat /\ i + 1 \in DOMAIN mail[x] /\ mail'[x][i] = mail[x][i + 1]
         /\ \A y \in People \ {x} : room'[y] = room[y] /\ file'[y] = file[y] /\ mail'[y] = mail[y]
         /\ \/ UNCHANGED <<room, file>>
            \/ /\ room[x].encrypted /\ room'[x].encrypted /\ Saved(x, room'[x])
               /\ room'[x].out = room[x].out /\ room'[x].passed = room[x].passed
               /\ \A c \in Chains : /\ room'[x].views[c] >= room[x].views[c]
                                    /\ room'[x].views[c] > room[x].views[c] =>
                                         room'[x].views[c] + Retention < room[x].passed[c]
               /\ \/ /\ it.by # Owner /\ room'[x].removed = room[x].removed
                     /\ room'[x].members = room[x].members \cup (it.members \ ({x} \cup room[x].removed))
                     /\ room'[x].stale = room[x].stale
                  \/ /\ it.by = Owner /\ room'[x].members = it.members \ {x}
                     /\ room'[x].removed = (room[x].removed \cup it.removed) \ it.members
                     /\ room'[x].stale = (room[x].stale \/ ~(it.removed \subseteq room[x].removed))
<1> DEFINE it == mail[x][1]
           gone == (room[x].removed \cup it.removed) \ it.members
           q == [room[x] EXCEPT !.members = room[x].members \cup (it.members \ ({x} \cup room[x].removed))]
           r == [room[x] EXCEPT !.members = it.members \ {x}, !.removed = gone,
                                !.stale = room[x].stale \/ ~(it.removed \subseteq room[x].removed)]
<1>1. Mailed(x, "roster") /\ Taken(x) /\ UNCHANGED <<pending, hist, missed>> /\ upsets' \in 0..MaxUpsets
  BY CountOf DEF ApplyRoster
<1>2. UNCHANGED <<send, invite, inbox, said, invited, before, asking, minted, counts>>
  BY <1>1 DEF Mailed
<1>3. /\ Head(mail[x]) = it /\ 1 \in DOMAIN mail[x] /\ it \in Mail /\ it.kind = "roster"
      /\ \A i \in DOMAIN mail'[x] : i \in Nat /\ i + 1 \in DOMAIN mail[x] /\ mail'[x][i] = mail[x][i + 1]
      /\ \A y \in People \ {x} : mail'[y] = mail[y]
      /\ MailType' /\ SendType' /\ InviteType'
  BY <1>1, MailedOf
<1>4. it.by \in People /\ it.members \subseteq People /\ it.removed \subseteq People
  BY <1>3, MailTypes
<1>5. room[x] \in Held /\ x \notin room[x].members /\ room[x].removed \subseteq People
      /\ room[x].members \subseteq People /\ room[x].stale \in BOOLEAN /\ room[x].encrypted \in BOOLEAN
  BY PersonTypes, NumberTypes
<1>6. \/ UNCHANGED <<room, file>>
      \/ room[x].encrypted /\ it.by # Owner /\ KeepAndSave(x, q)
      \/ room[x].encrypted /\ it.by = Owner /\ KeepAndSave(x, r)
  BY <1>3 DEF ApplyRoster
<1>7. PendingType' /\ PastType' /\ CountType' /\ Spent' = Spent /\ Spent \in Nat
  BY <1>1, <1>2, TypesStay, CountOf DEF Types, CountType
<1>8. /\ q \in Held /\ x \notin q.members /\ q.joined = room[x].joined /\ q.encrypted = room[x].encrypted
      /\ SameChain(q, room[x]) /\ q.views = room[x].views /\ q.passed = room[x].passed
      /\ q.removed = room[x].removed /\ q.members = room[x].members \cup (it.members \ ({x} \cup room[x].removed))
  <2> DEFINE w == room[x].members \cup (it.members \ ({x} \cup room[x].removed))
  <2>1. w \subseteq People /\ x \notin w
    BY <1>4, <1>5
  <2>2. q = [room[x] EXCEPT !.members = w]
    OBVIOUS
  <2> HIDE DEF w
  <2>3. [room[x] EXCEPT !.members = w] \in Held
    BY <2>1, <1>5 DEF Held
  <2>4. QED BY <2>1, <2>2, <2>3, <1>5 DEF Held, SameChain, w
<1>9. /\ r \in Held /\ x \notin r.members /\ r.joined = room[x].joined /\ r.encrypted = room[x].encrypted
      /\ r.next = room[x].next /\ r.reserved = room[x].reserved /\ r.out = room[x].out
      /\ r.views = room[x].views /\ r.passed = room[x].passed
      /\ r.removed = gone /\ r.members = it.members \ {x}
      /\ r.stale = (room[x].stale \/ ~(it.removed \subseteq room[x].removed))
  <2> DEFINE b == room[x].stale \/ ~(it.removed \subseteq room[x].removed)
             w == it.members \ {x}
  <2>1. gone \subseteq People /\ w \subseteq People /\ x \notin w /\ b \in BOOLEAN
    BY <1>4, <1>5
  <2> HIDE DEF gone, w, b
  <2>2. /\ [room[x] EXCEPT !.members = w, !.removed = gone, !.stale = b] \in Held
    BY <2>1, <1>5 DEF Held
  <2>3. r = [room[x] EXCEPT !.members = w, !.removed = gone, !.stale = b]
    BY DEF w, b
  <2> HIDE DEF r
  <2>4. QED BY <2>1, <2>2, <2>3, <1>5 DEF Held, w, b
<1> HIDE DEF q, r
<1>10. CASE UNCHANGED <<room, file>>
  BY <1>2, <1>10, TypesStay, <1>7, PositionStays, <1>3, TypesNext
<1>11. ASSUME NEW s \in {q, r}, room[x].encrypted, KeepAndSave(x, s)
       PROVE  /\ Types' /\ room'[x].encrypted /\ Saved(x, room'[x])
              /\ SameStanding(room'[x], s) /\ SameChain(room'[x], s)
              /\ room'[x].out = room[x].out /\ room'[x].passed = room[x].passed
              /\ \A c \in Chains : /\ room'[x].views[c] >= room[x].views[c]
                                   /\ room'[x].views[c] > room[x].views[c] =>
                                        room'[x].views[c] + Retention < room[x].passed[c]
              /\ \A y \in People \ {x} : room'[y] = room[y] /\ file'[y] = file[y]
  <2>1. /\ s \in Held /\ x \notin s.members /\ s.joined = room[x].joined /\ s.encrypted = room[x].encrypted
        /\ s.next = room[x].next /\ s.reserved = room[x].reserved /\ s.out = room[x].out
        /\ s.views = room[x].views /\ s.passed = room[x].passed
    BY <1>8, <1>9, <1>11 DEF SameChain
  <2>2. /\ RoomType' /\ FileType'
        /\ SameStanding(room'[x], s) /\ SameChain(room'[x], s) /\ room'[x].passed = s.passed
        /\ \A c \in Chains : /\ room'[x].views[c] >= s.views[c]
                             /\ room'[x].views[c] > s.views[c] =>
                                  room'[x].views[c] + Retention < s.passed[c]
        /\ Saved(x, room'[x])
        /\ \A y \in People \ {x} : room'[y] = room[y] /\ file'[y] = file[y]
    BY <2>1, <1>11, KeepAndSaveOf
  <2>3. (\A y \in People : Position(y)') /\ \A y \in People : room'[y].joined = room[y].joined
    BY <2>1, <1>2, <1>7, <1>11, SavesPlaces
  <2>4. AskType' /\ InboxType'
    BY <1>2, <2>3, PlacesStay
  <2>5. Types'
    BY <1>3, <1>7, <2>2, <2>3, <2>4, TypesNext
  <2>6. QED BY <2>1, <2>2, <2>5, <1>11 DEF SameStanding, SameChain
<1>12. CASE room[x].encrypted /\ it.by # Owner /\ KeepAndSave(x, q)
  <2>1. q \in {q, r}
    OBVIOUS
  <2>2. /\ Types' /\ room'[x].encrypted /\ Saved(x, room'[x])
        /\ SameStanding(room'[x], q) /\ SameChain(room'[x], q)
        /\ room'[x].out = room[x].out /\ room'[x].passed = room[x].passed
        /\ \A c \in Chains : /\ room'[x].views[c] >= room[x].views[c]
                             /\ room'[x].views[c] > room[x].views[c] =>
                                  room'[x].views[c] + Retention < room[x].passed[c]
        /\ \A y \in People \ {x} : room'[y] = room[y] /\ file'[y] = file[y]
    BY <2>1, <1>11, <1>12
  <2>3. /\ room'[x].removed = room[x].removed /\ room'[x].stale = room[x].stale
        /\ room'[x].members = room[x].members \cup (it.members \ ({x} \cup room[x].removed))
    BY <2>2, <1>8 DEF SameStanding, SameChain
  <2>4. it.by # Owner /\ room[x].encrypted
    BY <1>12
  <2> HIDE DEF it
  <2>5. QED BY <1>3, <2>2, <2>3, <2>4 DEF it
<1>13. CASE room[x].encrypted /\ it.by = Owner /\ KeepAndSave(x, r)
  <2>1. r \in {q, r}
    OBVIOUS
  <2>2. /\ Types' /\ room'[x].encrypted /\ Saved(x, room'[x])
        /\ SameStanding(room'[x], r) /\ SameChain(room'[x], r)
        /\ room'[x].out = room[x].out /\ room'[x].passed = room[x].passed
        /\ \A c \in Chains : /\ room'[x].views[c] >= room[x].views[c]
                             /\ room'[x].views[c] > room[x].views[c] =>
                                  room'[x].views[c] + Retention < room[x].passed[c]
        /\ \A y \in People \ {x} : room'[y] = room[y] /\ file'[y] = file[y]
    BY <2>1, <1>11, <1>13
  <2>3. /\ room'[x].removed = gone /\ room'[x].members = it.members \ {x}
        /\ room'[x].stale = (room[x].stale \/ ~(it.removed \subseteq room[x].removed))
    BY <2>2, <1>9 DEF SameStanding, SameChain
  <2>4. it.by = Owner /\ room[x].encrypted
    BY <1>13
  <2> HIDE DEF gone
  <2>5. QED BY <1>3, <2>2, <2>3, <2>4 DEF gone
<1>14. QED BY <1>6, <1>10, <1>12, <1>13

LEMMA HandleRoomInviteTypes ==
  ASSUME Types, NEW x \in People, HandleRoomInvite(x)
  PROVE  LET it == mail[x][1] IN
         /\ Types' /\ 1 \in DOMAIN mail[x] /\ it \in Invitation
         /\ \A i \in DOMAIN mail'[x] : i \in Nat /\ i + 1 \in DOMAIN mail[x] /\ mail'[x][i] = mail[x][i + 1]
         /\ \A y \in People \ {x} : room'[y] = room[y] /\ file'[y] = file[y] /\ mail'[y] = mail[y]
                                    /\ pending'[y] = pending[y]
         /\ \/ UNCHANGED <<room, file>> /\ pending'[x] = [pc |-> "waiting", what |-> it]
            \/ UNCHANGED <<room, file, pending>>
            \/ /\ UNCHANGED pending
               /\ it.by \in room[x].members
               /\ SameStanding(room'[x], room[x]) /\ SameChain(room'[x], room[x])
               /\ room'[x].passed = room[x].passed /\ Saved(x, room'[x])
               /\ \A c \in Chains : \/ room'[x].views[c] >= room[x].views[c] \/ room'[x].views[c] >= it.chains[c]
               /\ \A c \in Chains : room'[x].views[c] > room[x].views[c] =>
                                      room'[x].views[c] + Retention < room[x].passed[c]
<1> DEFINE it == mail[x][1]
           r == LearnChainViews(room[x], it.chains)
<1>1. Mailed(x, "invite") /\ Taken(x) /\ UNCHANGED <<hist, missed, upsets>>
  BY DEF HandleRoomInvite
<1>2. UNCHANGED <<send, invite, inbox, said, invited, before, asking, minted, counts>>
  BY <1>1 DEF Mailed
<1>3. /\ Head(mail[x]) = it /\ 1 \in DOMAIN mail[x] /\ it \in Mail /\ it.kind = "invite"
      /\ \A i \in DOMAIN mail'[x] : i \in Nat /\ i + 1 \in DOMAIN mail[x] /\ mail'[x][i] = mail[x][i + 1]
      /\ \A y \in People \ {x} : mail'[y] = mail[y]
      /\ MailType' /\ SendType' /\ InviteType'
  BY <1>1, MailedOf
<1>4. it \in Invitation /\ it.chains \in Offers /\ \A c \in Chains : it.chains[c] \in Nat
  BY <1>3, MailTypes, InvitationTypes
<1>5. room[x] \in Held /\ x \notin room[x].members /\ \A c \in Chains : room[x].views[c] \in Nat
  BY PersonTypes, NumberTypes
<1>6. PastType' /\ CountType' /\ Spent' = Spent /\ Spent \in Nat
  BY <1>1, <1>2, TypesStay, CountOf
<1> DEFINE w == [pc |-> "waiting", what |-> it]
<1>7. \/ UNCHANGED <<room, file>> /\ pending' = [pending EXCEPT ![x] = w]
      \/ UNCHANGED <<room, file, pending>>
      \/ UNCHANGED pending /\ it.by \in room[x].members /\ KeepAndSave(x, r)
  BY <1>3 DEF HandleRoomInvite
<1>8. w \in [pc : {"none", "waiting", "adopt"}, what : Invitation \cup {None}]
  BY <1>4
<1>8a. w.what = it /\ w.pc # "none"
  OBVIOUS
<1>9. CASE UNCHANGED <<room, file>> /\ pending' = [pending EXCEPT ![x] = w]
  <2>1. RoomType' /\ FileType' /\ AskType' /\ InboxType'
    BY <1>2, <1>9, TypesStay
  <2>2. \A y \in People : Position(y)'
    BY <1>2, <1>6, <1>9, PositionStays
  <2> HIDE DEF w
  <2>3. pending'[x] = w /\ \A y \in People \ {x} : pending'[y] = pending[y]
    BY <1>9 DEF Types, PendingType
  <2>4. pending' \in [People -> [pc : {"none", "waiting", "adopt"}, what : Invitation \cup {None}]]
    BY <1>8, <1>9 DEF Types, PendingType
  <2>5. \A y \in People : pending'[y].pc # "none" => pending'[y].what \in Invitation
    BY <2>3, <1>4, <1>8a DEF Types, PendingType
  <2>6. PendingType'
    BY <2>4, <2>5 DEF PendingType
  <2>7. Types'
    BY <1>3, <1>6, <2>1, <2>2, <2>6, TypesNext
  <2>8. QED BY <1>3, <1>4, <1>9, <2>3, <2>7 DEF w
<1>10. CASE UNCHANGED <<room, file, pending>>
  BY <1>2, <1>10, TypesStay, <1>6, PositionStays, <1>3, <1>4, TypesNext
<1>11. CASE UNCHANGED pending /\ it.by \in room[x].members /\ KeepAndSave(x, r)
  <2>1. /\ r \in Held /\ r.joined = room[x].joined /\ SameStanding(r, room[x]) /\ SameChain(r, room[x])
        /\ r.passed = room[x].passed
        /\ \A c \in Chains : r.views[c] <= room[x].views[c] /\ r.views[c] \in {room[x].views[c], it.chains[c]}
    BY <1>4, <1>5, LearnOf DEF SameStanding, SameChain
  <2>1a. \A c \in Chains : r.views[c] \in Nat
    BY <2>1, NumberTypes
  <2> HIDE DEF r
  <2>2. x \notin r.members /\ r.next = room[x].next /\ r.reserved = room[x].reserved /\ r.out = room[x].out
    BY <2>1, <1>5 DEF SameStanding, SameChain
  <2>3. /\ RoomType' /\ FileType'
        /\ SameStanding(room'[x], r) /\ SameChain(room'[x], r) /\ room'[x].passed = r.passed
        /\ \A c \in Chains : /\ room'[x].views[c] >= r.views[c]
                             /\ room'[x].views[c] > r.views[c] =>
                                  room'[x].views[c] + Retention < r.passed[c]
        /\ Saved(x, room'[x])
        /\ \A y \in People \ {x} : room'[y] = room[y] /\ file'[y] = file[y]
    BY <1>11, <2>1, <2>2, KeepAndSaveOf
  <2>4. (\A y \in People : Position(y)') /\ \A y \in People : room'[y].joined = room[y].joined
    BY <2>1, <2>2, <1>2, <1>6, <1>11, SavesPlaces
  <2>5. AskType' /\ InboxType' /\ PendingType'
    BY <1>2, <1>11, <2>4, PlacesStay, TypesStay
  <2>6. Types'
    BY <1>3, <1>6, <2>3, <2>4, <2>5, TypesNext
  <2>7. SameStanding(room'[x], room[x]) /\ SameChain(room'[x], room[x]) /\ room'[x].passed = room[x].passed
    BY <2>1, <2>3 DEF SameStanding, SameChain
  <2>8. ASSUME NEW c \in Chains
        PROVE  /\ room'[x].views[c] >= room[x].views[c] \/ room'[x].views[c] >= it.chains[c]
               /\ room'[x].views[c] > room[x].views[c] => room'[x].views[c] + Retention < room[x].passed[c]
    BY <2>3, NumberTypes, <2>1a, <1>4, <1>5, <2>1 DEF RoomType
  <2>9. QED BY <1>3, <1>4, <1>11, <2>3, <2>6, <2>7, <2>8
<1>12. QED BY <1>7, <1>9, <1>10, <1>11

LEMMA ServeCatchupTypes ==
  ASSUME Types, NEW x \in People, ServeCatchup(x)
  PROVE  /\ Types' /\ 1 \in DOMAIN mail[x]
         /\ \A i \in DOMAIN mail'[x] : i \in Nat /\ i + 1 \in DOMAIN mail[x] /\ mail'[x][i] = mail[x][i + 1]
         /\ \A y \in People \ {x} : \A i \in DOMAIN mail'[y] :
              i \in Nat /\ \/ i \in DOMAIN mail[y] /\ mail'[y][i] = mail[y][i]
                           \/ i = Len(mail[y]) + 1 /\ mail'[y][i].kind = "answer"
<1> DEFINE it == mail[x][1]
           texts == RoomHistorySince(x, it.since)
           item == [kind |-> "answer", by |-> x, messages |-> texts]
<1>1. /\ Mailed(x, "ask") /\ UNCHANGED <<room, file, pending, hist, missed, upsets>>
  BY DEF ServeCatchup
<1>2. UNCHANGED <<send, invite, inbox, said, invited, before, asking, minted, counts>>
  BY <1>1 DEF Mailed
<1>3. mail[x] \in Seq(Mail) /\ mail[x] # <<>> /\ mail \in [People -> Seq(Mail)]
  BY <1>1 DEF Mailed, Types, MailType
<1>4. /\ Tail(mail[x]) \in Seq(Mail) /\ Len(Tail(mail[x])) = Len(mail[x]) - 1
      /\ \A i \in 1..Len(Tail(mail[x])) : Tail(mail[x])[i] = mail[x][i + 1]
      /\ Len(mail[x]) \in Nat /\ Len(mail[x]) # 0 /\ Head(mail[x]) = it /\ it \in Mail /\ 1 \in DOMAIN mail[x]
  BY <1>3, HeadTailProperties, EmptySeq
<1>5. texts \subseteq said /\ texts \subseteq Message
  BY PersonTypes, SaidOf DEF RoomHistorySince
<1> HIDE DEF texts
<1>6. item \in Mail /\ item.kind = "answer" /\ item.messages = texts
  BY <1>5 DEF Mail
<1> HIDE DEF item
<1>7. \A y \in People :
        mail'[y] = IF y = x THEN Tail(mail[x])
                   ELSE IF y = it.by /\ room[x].joined /\ it.by \in room[x].members /\ texts # {}
                   THEN Append(mail[y], item) ELSE mail[y]
  BY <1>4 DEF ServeCatchup, item, texts
<1>8. \A y \in People :
        /\ Append(mail[y], item) \in Seq(Mail) /\ Len(Append(mail[y], item)) = Len(mail[y]) + 1
        /\ \A i \in 1..Len(mail[y]) : Append(mail[y], item)[i] = mail[y][i]
        /\ Append(mail[y], item)[Len(mail[y]) + 1] = item /\ Len(mail[y]) \in Nat
  BY <1>3, <1>6, AppendProperties
<1>9. \A i \in DOMAIN mail'[x] : i \in Nat /\ i + 1 \in DOMAIN mail[x] /\ mail'[x][i] = mail[x][i + 1]
  <2>1. \A i \in DOMAIN Tail(mail[x]) :
          i \in Nat /\ i + 1 \in DOMAIN mail[x] /\ Tail(mail[x])[i] = mail[x][i + 1]
    BY <1>3, <1>4
  <2>2. mail'[x] = Tail(mail[x])
    BY <1>7
  <2>3. QED BY <2>1, <2>2
<1>10. ASSUME NEW y \in People \ {x}, NEW i \in DOMAIN mail'[y]
       PROVE  i \in Nat /\ \/ i \in DOMAIN mail[y] /\ mail'[y][i] = mail[y][i]
                           \/ i = Len(mail[y]) + 1 /\ mail'[y][i] = item
  <2>1. mail[y] \in Seq(Mail)
    BY <1>3
  <2>2. CASE mail'[y] = mail[y]
    BY <2>1, <2>2
  <2>3. CASE mail'[y] = Append(mail[y], item)
    <3>1. i \in 1..(Len(mail[y]) + 1)
      BY <2>3, <1>8
    <3>2. CASE i = Len(mail[y]) + 1
      BY <2>3, <3>2, <1>8
    <3>3. CASE i # Len(mail[y]) + 1
      BY <3>1, <3>3, <1>8, <2>1, <2>3
    <3>4. QED BY <3>2, <3>3
  <2>4. QED BY <2>2, <2>3, <1>7
<1>11. mail' \in [People -> Seq(Mail)]
  <2>1. \A y \in People : mail'[y] \in Seq(Mail)
    BY <1>3, <1>4, <1>7, <1>8
  <2>2. mail' = [y \in People |-> mail'[y]]
    BY DEF ServeCatchup
  <2>3. QED BY <2>1, <2>2
<1>12. ASSUME NEW y \in People, NEW i \in DOMAIN mail'[y], mail'[y][i].kind = "answer"
       PROVE  mail'[y][i].messages \subseteq said
  <2>1. CASE y = x
    BY <2>1, <1>9, <1>12 DEF Types, MailType
  <2>2. CASE y # x
    <3>1. CASE mail'[y][i] = item
      BY <3>1, <1>5, <1>6
    <3>2. CASE i \in DOMAIN mail[y] /\ mail'[y][i] = mail[y][i]
      BY <3>2, <1>12 DEF Types, MailType
    <3>3. QED BY <2>2, <3>1, <3>2, <1>10
  <2>3. QED BY <2>1, <2>2
<1>13. MailType'
  BY <1>2, <1>11, <1>12 DEF MailType
<1>14. RoomType' /\ FileType' /\ SendType' /\ InviteType' /\ PendingType' /\ PastType' /\ AskType'
       /\ InboxType' /\ CountType' /\ Spent' = Spent /\ Spent \in Nat
  BY <1>1, <1>2, TypesStay, CountOf
<1>15. \A y \in People : Position(y)'
  BY <1>1, <1>2, <1>14, PositionStays
<1>16. \A y \in People \ {x} : \A i \in DOMAIN mail'[y] :
              i \in Nat /\ \/ i \in DOMAIN mail[y] /\ mail'[y][i] = mail[y][i]
                           \/ i = Len(mail[y]) + 1 /\ mail'[y][i].kind = "answer"
  BY <1>6, <1>10
<1>17. QED BY <1>4, <1>9, <1>13, <1>14, <1>15, <1>16, TypesNext

LEMMA MergeCatchupTypes ==
  ASSUME Types, NEW x \in People, MergeCatchup(x)
  PROVE  /\ Types' /\ 1 \in DOMAIN mail[x]
         /\ \A i \in DOMAIN mail'[x] : i \in Nat /\ i + 1 \in DOMAIN mail[x] /\ mail'[x][i] = mail[x][i + 1]
         /\ \A y \in People \ {x} : room'[y] = room[y] /\ mail'[y] = mail[y] /\ hist'[y] = hist[y]
         /\ SameStanding(room'[x], room[x]) /\ SameChain(room'[x], room[x])
         /\ room'[x].views = room[x].views
         /\ \A c \in Chains : /\ room'[x].passed[c] >= room[x].passed[c]
                              /\ room'[x].passed[c] # room[x].passed[c] => \E h \in said : h.chain = c
         /\ \A h \in hist'[x] : h \in hist[x] \/ (h \in said /\ h.index < room'[x].passed[h.chain])
<1> DEFINE texts == mail[x][1].messages
<1>1. Mailed(x, "answer") /\ Taken(x) /\ UNCHANGED <<file, pending>>
      /\ upsets' \in 0..MaxUpsets
  BY CountOf DEF MergeCatchup
<1>2. UNCHANGED <<send, invite, inbox, said, invited, before, asking, minted, counts>>
  BY <1>1 DEF Mailed
<1>3. /\ Head(mail[x]) = mail[x][1] /\ 1 \in DOMAIN mail[x] /\ mail[x][1].kind = "answer"
      /\ \A i \in DOMAIN mail'[x] : i \in Nat /\ i + 1 \in DOMAIN mail[x] /\ mail'[x][i] = mail[x][i + 1]
      /\ \A y \in People \ {x} : mail'[y] = mail[y]
      /\ MailType' /\ SendType' /\ InviteType'
  BY <1>1, MailedOf
<1>4. texts \subseteq said
  BY <1>3 DEF Types, MailType
<1>5. Decode(x, texts) \/ UNCHANGED <<room, hist, missed>>
  BY <1>3 DEF MergeCatchup
<1> HIDE DEF texts
<1>6. /\ RoomType' /\ PastType'
      /\ room'[x].joined = room[x].joined /\ SameStanding(room'[x], room[x])
      /\ SameChain(room'[x], room[x]) /\ room'[x].views = room[x].views
      /\ \A c \in Chains : /\ room'[x].passed[c] >= room[x].passed[c]
                           /\ room'[x].passed[c] # room[x].passed[c] => \E h \in said : h.chain = c
      /\ \A h \in hist'[x] : h \in hist[x] \/ (h \in said /\ h.index < room'[x].passed[h.chain])
      /\ \A y \in People \ {x} : room'[y] = room[y] /\ hist'[y] = hist[y]
  <2>1. CASE Decode(x, texts)
    BY <2>1, <1>2, <1>4, DecodeOf
  <2>2. CASE UNCHANGED <<room, hist, missed>>
    <3>1. RoomType' /\ PastType'
      BY <2>2, <1>2, TypesStay
    <3>2. \A c \in Chains : room[x].passed[c] \in Nat
      BY PersonTypes, NumberTypes
    <3>3. QED BY <2>2, <3>1, <3>2, SameChainSelf
  <2>3. QED BY <1>5, <2>1, <2>2
<1>7. \A y \in People : room'[y].joined = room[y].joined /\ SameChain(room'[y], room[y])
  BY <1>6, SameChainSelf
<1>8. FileType' /\ PendingType' /\ AskType' /\ InboxType'
  BY <1>1, <1>2, <1>7, TypesStay, PlacesStay
<1>9. CountType' /\ Spent' = Spent /\ Spent \in Nat
  BY <1>1, <1>2, CountOf DEF Types, CountType
<1>10. \A y \in People : Position(y)'
  BY <1>1, <1>2, <1>7, <1>9, PositionsStay
<1>11. QED BY <1>3, <1>6, <1>8, <1>9, <1>10, TypesNext

\* Somebody enters the room.
LEMMA EntersTypes ==
  ASSUME Types, NEW m \in People, NEW n \in Nat,
         Keep(m, [room[m] EXCEPT !.joined = TRUE, !.since = n]), UNCHANGED <<inbox, said>>
  PROVE  /\ RoomType' /\ InboxType' /\ InRoom' = InRoom \cup {m}
         /\ \A y \in People \ {m} : room'[y] = room[y]
         /\ SameStanding(room'[m], room[m]) /\ SameChain(room'[m], room[m])
         /\ room'[m].views = room[m].views /\ room'[m].passed = room[m].passed
         /\ room'[m].joined = TRUE
<1> DEFINE r == [room[m] EXCEPT !.joined = TRUE, !.since = n]
<1>1. room[m] \in Held /\ m \notin room[m].members
  BY PersonTypes
<1>2. /\ r \in Held /\ m \notin r.members /\ r.joined = TRUE
      /\ SameStanding(r, room[m]) /\ SameChain(r, room[m])
      /\ r.views = room[m].views /\ r.passed = room[m].passed
  BY <1>1 DEF Held, SameStanding, SameChain
<1> HIDE DEF r
<1>3. RoomType' /\ room'[m] = r /\ \A x \in People \ {m} : room'[x] = room[x]
  BY <1>2, KeepOf DEF r
<1>4. InRoom' = InRoom \cup {m}
  BY <1>2, <1>3 DEF InRoom
<1>5. InboxType'
  BY <1>2, <1>3 DEF Types, InboxType
<1>6. QED BY <1>2, <1>3, <1>4, <1>5

LEMMA JoinRoomTypes ==
  ASSUME Types, NEW m \in People, JoinRoom(m)
  PROVE  /\ Types'
         /\ \A y \in People \ {m} : room'[y] = room[y]
         /\ SameStanding(room'[m], room[m]) /\ SameChain(room'[m], room[m])
         /\ room'[m].views = room[m].views /\ room'[m].passed = room[m].passed
<1> DEFINE n == IF room[m].encrypted THEN room[m].since ELSE Cardinality(said)
<1>1. n \in Nat
  BY PersonTypes, NumberTypes, SaidOf
<1>2. /\ Keep(m, [room[m] EXCEPT !.joined = TRUE, !.since = n])
      /\ UNCHANGED <<file, send, invite, pending, inbox, mail, hist, past, minted>>
      /\ asking' \subseteq asking \cup {m} /\ Counted("moves", MaxMoves)
      /\ UNCHANGED upsets \/ upsets' \in 0..MaxUpsets
  BY PersonTypes, CountOf DEF JoinRoom, Held
<1> HIDE DEF n
<1>3. /\ RoomType' /\ InboxType' /\ InRoom' = InRoom \cup {m}
      /\ \A y \in People \ {m} : room'[y] = room[y]
      /\ SameStanding(room'[m], room[m]) /\ SameChain(room'[m], room[m])
      /\ room'[m].views = room[m].views /\ room'[m].passed = room[m].passed
  BY <1>1, <1>2, EntersTypes DEF past
<1>4. FileType' /\ SendType' /\ InviteType' /\ PendingType' /\ MailType' /\ PastType'
  BY <1>2, TypesStay DEF past
<1>5. AskType'
  BY <1>2, <1>3 DEF Types, AskType
<1>6. CountType' /\ Spent' = Spent + Block /\ Spent \in Nat /\ Block \in Nat
  BY <1>2, CountOf, ViewsAssumption
<1>7. \A y \in People : SameChain(room'[y], room[y])
  BY <1>3, SameChainSelf
<1>8. \A y \in People : Position(y)'
  BY <1>2, <1>6, <1>7, PositionsStay
<1>9. QED BY <1>3, <1>4, <1>5, <1>6, <1>8, TypesNext

LEMMA RequestCatchupTypes ==
  ASSUME Types, NEW m \in People, RequestCatchup(m)
  PROVE  /\ Types'
         /\ \A x \in People : \A i \in DOMAIN mail'[x] :
              i \in Nat /\ \/ i \in DOMAIN mail[x] /\ mail'[x][i] = mail[x][i]
                           \/ i = Len(mail[x]) + 1 /\ mail'[x][i].kind = "ask"
<1>1. UNCHANGED <<room, file, send, invite, pending, inbox, hist, past, minted, counts, upsets>>
      /\ asking' \subseteq asking
  BY DEF RequestCatchup
<1>2. MailType' /\ \A x \in People : \A i \in DOMAIN mail'[x] :
              i \in Nat /\ \/ i \in DOMAIN mail[x] /\ mail'[x][i] = mail[x][i]
                           \/ i = Len(mail[x]) + 1 /\ mail'[x][i].kind = "ask"
  <2>1. CASE UNCHANGED mail
    <3>1. \A x \in People : mail[x] \in Seq(Mail)
      BY PersonTypes
    <3>2. MailType'
      BY <2>1, <1>1, TypesStay DEF past
    <3>3. QED BY <2>1, <3>1, <3>2
  <2>2. ASSUME NEW peer \in room[m].members,
               Deliver({peer}, [kind |-> "ask", by |-> m, since |-> room[m].since])
        PROVE  MailType' /\ \A x \in People : \A i \in DOMAIN mail'[x] :
              i \in Nat /\ \/ i \in DOMAIN mail[x] /\ mail'[x][i] = mail[x][i]
                           \/ i = Len(mail[x]) + 1 /\ mail'[x][i].kind = "ask"
    <3> DEFINE item == [kind |-> "ask", by |-> m, since |-> room[m].since]
    <3>1. room[m].since \in Nat
      BY PersonTypes, NumberTypes
    <3>2. item \in Mail /\ item.kind = "ask"
      BY <3>1 DEF Mail
    <3>3. Deliver({peer}, item)
      BY <2>2
    <3> HIDE DEF item
    <3>4. QED BY <3>2, <3>3, <1>1, DeliverOf DEF past
  <2>3. QED BY <2>1, <2>2 DEF RequestCatchup
<1>3. RoomType' /\ FileType' /\ SendType' /\ InviteType' /\ PendingType' /\ InboxType' /\ PastType' /\ CountType'
      /\ Spent' = Spent /\ Spent \in Nat
  BY <1>1, TypesStay, CountOf DEF past
<1>4. AskType'
  BY <1>1 DEF Types, AskType, InRoom
<1>5. \A y \in People : Position(y)'
  BY <1>1, <1>3, PositionStays
<1>6. QED BY <1>2, <1>3, <1>4, <1>5, TypesNext

LEMMA AcceptRoomInviteTypes ==
  ASSUME Types, NEW m \in People, AcceptRoomInvite(m)
  PROVE  /\ Types'
         /\ \A y \in People \ {m} : room'[y] = room[y] /\ pending'[y] = pending[y]
         /\ pending[m].pc # "none" /\ pending'[m].what = pending[m].what
         /\ SameStanding(room'[m], room[m]) /\ SameChain(room'[m], room[m])
         /\ room'[m].views = room[m].views /\ room'[m].passed = room[m].passed
<1>1. /\ Keep(m, [room[m] EXCEPT !.joined = TRUE]) /\ pending[m].pc = "waiting"
      /\ pending' = [pending EXCEPT ![m].pc = "adopt"]
      /\ UNCHANGED <<file, send, invite, inbox, mail, hist, past, asking, minted, counts, upsets>>
  BY DEF AcceptRoomInvite
<1>2. room[m].since \in Nat /\ room[m] \in Held
  BY PersonTypes, NumberTypes
<1>3. [room[m] EXCEPT !.joined = TRUE] = [room[m] EXCEPT !.joined = TRUE, !.since = room[m].since]
  BY <1>2 DEF Held
<1>4. /\ RoomType' /\ InboxType' /\ InRoom' = InRoom \cup {m}
      /\ \A y \in People \ {m} : room'[y] = room[y]
      /\ SameStanding(room'[m], room[m]) /\ SameChain(room'[m], room[m])
      /\ room'[m].views = room[m].views /\ room'[m].passed = room[m].passed
  BY <1>1, <1>2, <1>3, EntersTypes DEF past
<1>5. FileType' /\ SendType' /\ InviteType' /\ MailType' /\ PastType' /\ CountType' /\ Spent' = Spent /\ Spent \in Nat
  BY <1>1, TypesStay, CountOf DEF past
<1>6. PendingType' /\ pending'[m].what = pending[m].what
      /\ \A y \in People \ {m} : pending'[y] = pending[y]
  BY <1>1 DEF Types, PendingType
<1>7. AskType'
  BY <1>1, <1>4 DEF Types, AskType
<1>8. \A y \in People : SameChain(room'[y], room[y])
  BY <1>4, SameChainSelf
<1>9. \A y \in People : Position(y)'
  BY <1>1, <1>5, <1>8, PositionsStay
<1>10. QED BY <1>1, <1>4, <1>5, <1>6, <1>7, <1>9, TypesNext

LEMMA AdoptInviteStateTypes ==
  ASSUME Types, Others, NEW m \in People, AdoptInviteState(m)
  PROVE  LET it == pending[m].what
             gone == IF it.by = Owner THEN (room[m].removed \cup it.removed) \ it.members
                     ELSE room[m].removed
         IN
         /\ Types' /\ it \in Invitation /\ pending[m].pc = "adopt" /\ pending'[m].pc = "none"
         /\ \A y \in People \ {m} : room'[y] = room[y] /\ file'[y] = file[y] /\ pending'[y] = pending[y]
         /\ room'[m].encrypted = TRUE /\ room'[m].removed = gone
         /\ room'[m].members = room[m].members \cup {it.by} \cup (it.members \ ({m} \cup gone))
         /\ SameChain(room'[m], room[m]) /\ room'[m].passed = room[m].passed /\ Saved(m, room'[m])
         /\ \A c \in Chains : room'[m].views[c] >= room[m].views[c] \/ room'[m].views[c] >= it.chains[c]
         /\ \A c \in Chains : room'[m].views[c] > room[m].views[c] =>
                                room'[m].views[c] + Retention < room[m].passed[c]
         /\ ("outdated" \in Upsets \/ it.by \notin gone)
<1> DEFINE it == pending[m].what
           gone == IF it.by = Owner THEN (room[m].removed \cup it.removed) \ it.members
                   ELSE room[m].removed
           s == LearnChainViews(room[m], it.chains)
           w == room[m].members \cup {it.by} \cup (it.members \ ({m} \cup gone))
           n == IF room[m].encrypted THEN room[m].since ELSE Cardinality(said)
           r == [s EXCEPT !.encrypted = TRUE, !.removed = gone, !.members = w, !.since = n]
<1>1. pending[m].pc = "adopt" /\ pending' = [pending EXCEPT ![m] = NoInvite]
      /\ UNCHANGED <<send, invite, inbox, mail, hist, past, asking, minted, counts>>
      /\ upsets' \in 0..MaxUpsets
  BY CountOf DEF AdoptInviteState
<1>2. it \in Invitation /\ it.by \in People /\ it.by # m /\ it.chains \in Offers
      /\ it.members \subseteq People /\ it.removed \subseteq People
      /\ \A c \in Chains : it.chains[c] \in Nat
  BY <1>1, PersonTypes, InvitationTypes DEF Others
<1>3. room[m] \in Held /\ m \notin room[m].members /\ room[m].removed \subseteq People
      /\ room[m].members \subseteq People /\ room[m].since \in Nat /\ room[m].encrypted \in BOOLEAN
      /\ \A c \in Chains : room[m].views[c] \in Nat
  BY PersonTypes, NumberTypes
<1>4. /\ s \in Held /\ s.joined = room[m].joined /\ SameStanding(s, room[m]) /\ SameChain(s, room[m])
      /\ s.passed = room[m].passed /\ s.since = room[m].since
      /\ \A c \in Chains : s.views[c] <= room[m].views[c] /\ s.views[c] \in {room[m].views[c], it.chains[c]}
  BY <1>2, <1>3, LearnOf DEF SameStanding, SameChain
<1>5. KeepAndSave(m, r) /\ UpsetIf(it.by \in gone, "outdated")
  <2>1. s.removed = room[m].removed /\ s.members = room[m].members /\ s.since = room[m].since
        /\ s.encrypted = room[m].encrypted
    BY <1>4 DEF SameStanding
  <2> DEFINE gone2 == IF it.by = Owner THEN (s.removed \cup it.removed) \ it.members ELSE s.removed
             r2 == [s EXCEPT !.encrypted = TRUE, !.removed = gone2,
                             !.members = @ \cup {it.by} \cup (it.members \ ({m} \cup gone2)),
                             !.since = IF s.encrypted THEN @ ELSE Cardinality(said)]
  <2>2. KeepAndSave(m, r2) /\ UpsetIf(it.by \in gone2, "outdated")
    BY DEF AdoptInviteState
  <2>3. gone2 = gone
    BY <2>1
  <2> HIDE DEF s, gone2, gone
  <2>4. r2 = r
    BY <2>1, <2>3, <1>4 DEF Held
  <2>5. QED BY <2>2, <2>3, <2>4
<1>6. gone \subseteq People /\ w \subseteq People /\ m \notin w /\ n \in Nat
  BY <1>2, <1>3, SaidOf
<1> HIDE DEF s, gone, w, n
<1>7. /\ r \in Held /\ m \notin r.members /\ r.joined = s.joined /\ SameChain(r, s)
      /\ r.views = s.views /\ r.passed = s.passed
      /\ r.encrypted = TRUE /\ r.removed = gone /\ r.members = w
  BY <1>4, <1>6 DEF Held, SameChain
<1> HIDE DEF r
<1>8. /\ r.joined = room[m].joined /\ r.next = room[m].next /\ r.reserved = room[m].reserved
      /\ r.out = room[m].out /\ SameChain(r, room[m]) /\ r.passed = room[m].passed
  BY <1>4, <1>7 DEF SameChain
<1>9. /\ RoomType' /\ FileType'
      /\ SameStanding(room'[m], r) /\ SameChain(room'[m], r) /\ room'[m].passed = r.passed
      /\ \A c \in Chains : /\ room'[m].views[c] >= r.views[c]
                           /\ room'[m].views[c] > r.views[c] =>
                                room'[m].views[c] + Retention < r.passed[c]
      /\ Saved(m, room'[m])
      /\ \A y \in People \ {m} : room'[y] = room[y] /\ file'[y] = file[y]
  BY <1>5, <1>7, KeepAndSaveOf
<1>10. CountType' /\ Spent' = Spent /\ Spent \in Nat
  BY <1>1, CountOf DEF Types, CountType
<1>11. (\A y \in People : Position(y)') /\ \A y \in People : room'[y].joined = room[y].joined
  BY <1>1, <1>5, <1>7, <1>8, <1>10, SavesPlaces
<1>12. AskType' /\ InboxType' /\ SendType' /\ InviteType' /\ MailType' /\ PastType'
  BY <1>1, <1>11, PlacesStay, TypesStay DEF past
<1>13. PendingType' /\ pending'[m].pc = "none" /\ \A y \in People \ {m} : pending'[y] = pending[y]
  BY <1>1 DEF Types, PendingType, NoInvite
<1>14. Types'
  BY <1>9, <1>10, <1>11, <1>12, <1>13, TypesNext
<1>15. ASSUME NEW c \in Chains
       PROVE  /\ room'[m].views[c] >= room[m].views[c] \/ room'[m].views[c] >= it.chains[c]
              /\ room'[m].views[c] > room[m].views[c] => room'[m].views[c] + Retention < room[m].passed[c]
  BY <1>4, <1>9, NumberTypes, <1>2, <1>3, <1>7, <1>8 DEF RoomType
<1>16. room'[m].encrypted = TRUE /\ room'[m].removed = gone /\ room'[m].members = w
       /\ SameChain(room'[m], room[m]) /\ room'[m].passed = room[m].passed
  BY <1>7, <1>8, <1>9 DEF SameStanding, SameChain
<1>17. "outdated" \in Upsets \/ it.by \notin gone
  BY <1>5 DEF UpsetIf, Upset
<1>18. QED BY <1>1, <1>2, <1>9, <1>13, <1>14, <1>15, <1>16, <1>17 DEF gone, w

LEMMA LeaveRoomTypes ==
  ASSUME Types, NEW m \in People, LeaveRoom(m)
  PROVE  /\ Types' /\ inbox'[m] = <<>>
         /\ \A y \in People \ {m} : room'[y] = room[y] /\ inbox'[y] = inbox[y]
         /\ SameStanding(room'[m], room[m]) /\ SameChain(room'[m], room[m])
         /\ room'[m].views = room[m].views /\ room'[m].passed = room[m].passed
<1> DEFINE r == [room[m] EXCEPT !.joined = FALSE]
<1>1. /\ Keep(m, r) /\ Counted("moves", MaxMoves) /\ inbox' = [inbox EXCEPT ![m] = <<>>]
      /\ asking' = asking \ {m}
      /\ UNCHANGED <<file, send, invite, pending, mail, hist, past, minted>>
      /\ (UNCHANGED upsets \/ upsets' \in 0..MaxUpsets)
  BY CountOf DEF LeaveRoom
<1>2. room[m] \in Held /\ m \notin room[m].members
  BY PersonTypes
<1>3. /\ r \in Held /\ m \notin r.members /\ r.joined = FALSE
      /\ SameStanding(r, room[m]) /\ SameChain(r, room[m])
      /\ r.views = room[m].views /\ r.passed = room[m].passed
  BY <1>2 DEF Held, SameStanding, SameChain
<1> HIDE DEF r
<1>4. RoomType' /\ room'[m] = r /\ \A x \in People \ {m} : room'[x] = room[x]
  BY <1>1, <1>3, KeepOf
<1>5. FileType' /\ SendType' /\ InviteType' /\ PendingType' /\ MailType' /\ PastType'
  BY <1>1, TypesStay DEF past
<1>6. CountType' /\ Spent' = Spent + Block /\ Spent \in Nat /\ Block \in Nat
  BY <1>1, CountOf, ViewsAssumption
<1>7. AskType'
  BY <1>1, <1>4 DEF Types, AskType, InRoom
<1>8. /\ inbox'[m] = <<>> /\ \A y \in People \ {m} : inbox'[y] = inbox[y]
      /\ inbox' \in [People -> Seq(Said)]
  <2>1. << >> \in Seq(Said)
    OBVIOUS
  <2>2. QED BY <2>1, <1>1 DEF Types, InboxType
<1>9. InboxType'
  <2>1. \A y \in People : inbox'[y] # <<>> => room'[y].joined
    BY <1>4, <1>8 DEF Types, InboxType
  <2>2. \A y \in People : \A i \in DOMAIN inbox'[y] : inbox'[y][i].kind = "text" => inbox'[y][i].text \in said'
    BY <1>8, <1>1 DEF Types, InboxType, past
  <2>3. QED BY <2>1, <2>2, <1>8 DEF InboxType
<1>10. \A y \in People : SameChain(room'[y], room[y])
  BY <1>3, <1>4, SameChainSelf
<1>11. \A y \in People : Position(y)'
  BY <1>1, <1>6, <1>10, PositionsStay
<1>12. QED BY <1>3, <1>4, <1>5, <1>6, <1>7, <1>8, <1>9, <1>11, TypesNext

\* A restart, whichever way the program stopped.
LEMMA RestartTypes ==
  ASSUME Types, NEW m \in People, Quit(m) \/ Crash(m)
  PROVE  /\ Types'
         /\ \E entry \in Held :
              /\ RestartFrom(m, entry)
              /\ \/ entry = file[m]
                 \/ /\ room[m].encrypted /\ entry.encrypted = room[m].encrypted
                    /\ entry.removed = room[m].removed \cup file[m].removed
                    /\ entry.members \subseteq (room[m].members \cup file[m].members) \ entry.removed
                    /\ entry.out = room[m].out /\ entry.stale = room[m].stale
                    /\ entry.views = room[m].views /\ entry.passed = room[m].passed
              /\ file'[m] = entry
              /\ SameStanding(room'[m], entry) /\ SameChain(room'[m], entry)
              /\ room'[m].views = entry.views /\ room'[m].passed = entry.passed
              /\ "lost" \in Upsets \/ (entry.views = room[m].views /\ entry.passed = room[m].passed)
         /\ inbox'[m] = <<>> /\ pending'[m].pc = "none" /\ send'[m] = "none" /\ invite'[m] = NotInviting
         /\ \A y \in People \ {m} : /\ room'[y] = room[y] /\ inbox'[y] = inbox[y] /\ file'[y] = file[y]
                                    /\ pending'[y] = pending[y] /\ send'[y] = send[y] /\ invite'[y] = invite[y]
<1>1. /\ room[m] \in Held /\ m \notin room[m].members
      /\ file[m] \in Held /\ m \notin file[m].members /\ file[m].joined = FALSE
      /\ Position(m) /\ send[m] \in {"none", "give", "seal"}
  BY PersonTypes
<1>2. Spent \in Nat /\ Block \in Nat
  BY CountOf, ViewsAssumption
<1>3. PICK entry \in Held :
        /\ RestartFrom(m, entry)
        /\ \/ entry = file[m]
           \/ /\ room[m].encrypted /\ entry.encrypted = room[m].encrypted
              /\ entry.removed = room[m].removed \cup file[m].removed
              /\ entry.members \subseteq (room[m].members \cup file[m].members) \ entry.removed
              /\ entry.out = room[m].out /\ entry.stale = room[m].stale
              /\ entry.views = room[m].views /\ entry.passed = room[m].passed
        /\ m \notin entry.members /\ entry.joined = FALSE
        /\ entry.reserved = entry.next /\ entry.next <= Spent + Block
  <2>1. CASE RestartFrom(m, file[m])
    BY <2>1, <1>1 DEF Position
  <2>2. CASE room[m].encrypted /\ RestartFrom(m, Entry(m, room[m]))
    <3> DEFINE e == Entry(m, room[m])
    <3>1. /\ e \in Held /\ e.joined = FALSE
          /\ e.encrypted = room[m].encrypted
          /\ e.removed = room[m].removed \cup file[m].removed
          /\ e.members \subseteq (room[m].members \cup file[m].members) \ e.removed
          /\ e.out = room[m].out /\ e.stale = room[m].stale
          /\ e.views = room[m].views /\ e.passed = room[m].passed
          /\ e.next = higher(room[m].next, room[m].reserved) /\ e.reserved = e.next
      BY <1>1, EntryOf
    <3> HIDE DEF e
    <3>2. room[m].next \in Nat /\ room[m].reserved \in Nat
      BY <1>1, NumberTypes
    <3>3. room[m].next <= Spent /\ room[m].reserved <= room[m].next + Block
      <4>1. CASE send[m] = "none"
        BY <4>1, <1>1, <3>2 DEF Position
      <4>2. CASE send[m] # "none"
        BY <4>2, <1>1, <1>2, <3>2 DEF Position
      <4>3. QED BY <4>1, <4>2
    <3>4. e.next <= Spent + Block
      BY <1>2, <3>1, <3>2, <3>3 DEF higher
    <3>5. m \notin e.members /\ RestartFrom(m, e)
      BY <1>1, <2>2, <3>1 DEF e
    <3>6. QED BY <2>2, <3>1, <3>4, <3>5
  <2>3. QED BY <2>1, <2>2 DEF Quit, Crash
<1> DEFINE r == [entry EXCEPT !.since = room[m].since]
<1>4. /\ Counted("moves", MaxMoves) /\ file' = [file EXCEPT ![m] = entry] /\ Keep(m, r)
      /\ send' = [send EXCEPT ![m] = "none"] /\ invite' = [invite EXCEPT ![m] = NotInviting]
      /\ pending' = [pending EXCEPT ![m] = NoInvite]
      /\ inbox' = [inbox EXCEPT ![m] = <<>>] /\ asking' = asking \ {m}
      /\ UNCHANGED <<mail, hist, past, minted>>
      /\ (UNCHANGED upsets \/ upsets' \in 0..MaxUpsets)
  BY <1>3, CountOf DEF RestartFrom
<1>5. room[m].since \in Nat
  BY <1>1, NumberTypes
<1>6. /\ r \in Held /\ m \notin r.members /\ r.joined = FALSE
      /\ SameStanding(r, entry) /\ SameChain(r, entry)
      /\ r.views = entry.views /\ r.passed = entry.passed
  BY <1>3, <1>5 DEF Held, SameStanding, SameChain
<1> HIDE DEF r
<1>7. RoomType' /\ room'[m] = r /\ \A x \in People \ {m} : room'[x] = room[x]
  BY <1>4, <1>6, KeepOf
<1>8. FileType' /\ file'[m] = entry /\ \A x \in People \ {m} : file'[x] = file[x]
  BY <1>3, <1>4, FileBecomes
<1>9. MailType' /\ PastType'
  BY <1>4, TypesStay DEF past
<1>10. CountType' /\ Spent' = Spent + Block
  BY <1>4, CountOf
<1>11. AskType'
  BY <1>4, <1>7 DEF Types, AskType, InRoom
<1>12. /\ inbox'[m] = <<>> /\ \A y \in People \ {m} : inbox'[y] = inbox[y]
       /\ inbox' \in [People -> Seq(Said)]
  <2>1. << >> \in Seq(Said)
    OBVIOUS
  <2>2. QED BY <2>1, <1>4 DEF Types, InboxType
<1>13. InboxType'
  <2>1. \A y \in People : inbox'[y] # <<>> => room'[y].joined
    BY <1>7, <1>12 DEF Types, InboxType
  <2>2. \A y \in People : \A i \in DOMAIN inbox'[y] : inbox'[y][i].kind = "text" => inbox'[y][i].text \in said'
    BY <1>12, <1>4 DEF Types, InboxType, past
  <2>3. QED BY <2>1, <2>2, <1>12 DEF InboxType
<1>14. /\ SendType' /\ send'[m] = "none" /\ \A y \in People \ {m} : send'[y] = send[y]
  BY <1>4 DEF Types, SendType
<1>15. /\ PendingType' /\ pending'[m].pc = "none" /\ \A y \in People \ {m} : pending'[y] = pending[y]
  BY <1>4 DEF Types, PendingType, NoInvite
<1>16. /\ InviteType' /\ invite'[m] = NotInviting /\ \A y \in People \ {m} : invite'[y] = invite[y]
  BY <1>4 DEF Types, InviteType, NotInviting
<1>17. Position(m)'
  <2>1. room'[m].next = entry.next /\ room'[m].reserved = entry.reserved /\ file'[m] = entry
        /\ entry.next \in Nat
    BY <1>3, <1>6, <1>7, <1>8, NumberTypes DEF SameChain
  <2>2. QED BY <2>1, <1>2, <1>3, <1>10, <1>14 DEF Position
<1>18. \A y \in People \ {m} : Position(y)'
  BY <1>2, <1>7, <1>8, <1>10, <1>14, PositionStays
<1>19. Types'
  BY <1>7, <1>8, <1>9, <1>10, <1>11, <1>13, <1>14, <1>15, <1>16, <1>17, <1>18, TypesNext
<1>20. "lost" \in Upsets \/ (entry.views = room[m].views /\ entry.passed = room[m].passed)
  BY <1>3 DEF RestartFrom, UpsetIf, Upset
<1>21. QED
  <2>1. \E e \in Held :
              /\ RestartFrom(m, e)
              /\ \/ e = file[m]
                 \/ /\ room[m].encrypted /\ e.encrypted = room[m].encrypted
                    /\ e.removed = room[m].removed \cup file[m].removed
                    /\ e.members \subseteq (room[m].members \cup file[m].members) \ e.removed
                    /\ e.out = room[m].out /\ e.stale = room[m].stale
                    /\ e.views = room[m].views /\ e.passed = room[m].passed
              /\ file'[m] = e
              /\ SameStanding(room'[m], e) /\ SameChain(room'[m], e)
              /\ room'[m].views = e.views /\ room'[m].passed = e.passed
              /\ "lost" \in Upsets \/ (e.views = room[m].views /\ e.passed = room[m].passed)
    BY <1>3, <1>6, <1>7, <1>8, <1>20
  <2>2. QED BY <2>1, <1>7, <1>8, <1>12, <1>14, <1>15, <1>16, <1>19

LEMMA OthersInit == Init => Others
<1> SUFFICES ASSUME Init PROVE Others
  OBVIOUS
<1>1. \A m \in People : invite[m].whom = None /\ pending[m].pc = "none" /\ mail[m] = <<>>
  BY DEF Init, NotInviting, NoInvite
<1>2. QED BY <1>1, ViewsAssumption DEF Others

LEMMA OthersStep ==
  ASSUME Types, Others, Next
  PROVE  Others'
<1> USE DEF Others
<1>1. ASSUME UNCHANGED <<invite, pending>>,
             \A x \in People : \A i \in DOMAIN mail'[x] :
                \/ mail'[x][i].kind # "invite"
                \/ \E j \in DOMAIN mail[x] : mail'[x][i] = mail[x][j]
      PROVE  Others'
  BY <1>1
<1>2. ASSUME NEW x \in People, NEW kind, Mailed(x, kind), UNCHANGED pending,
             \A i \in DOMAIN mail'[x] : i \in Nat /\ i + 1 \in DOMAIN mail[x] /\ mail'[x][i] = mail[x][i + 1],
             \A y \in People \ {x} : mail'[y] = mail[y]
      PROVE  Others'
  <2>1. UNCHANGED invite
    BY <1>2 DEF Mailed
  <2>2. \A y \in People : \A i \in DOMAIN mail'[y] : \E j \in DOMAIN mail[y] : mail'[y][i] = mail[y][j]
    <3> SUFFICES ASSUME NEW y \in People, NEW i \in DOMAIN mail'[y]
                 PROVE \E j \in DOMAIN mail[y] : mail'[y][i] = mail[y][j]
      OBVIOUS
    <3>1. CASE y = x
      BY <3>1, <1>2
    <3>2. CASE y # x
      BY <3>2, <1>2
    <3>3. QED BY <3>1, <3>2
  <2>3. QED BY <1>1, <1>2, <2>1, <2>2
<1>3. ASSUME UNCHANGED <<invite, pending, mail>> PROVE Others'
  BY <1>3
<1>4. ASSUME NEW m \in People,
             \/ SendRoomMessage(m) \/ DistributeChain(m) \/ BroadcastFails(m) \/ SealRoomMessage(m)
             \/ HandleChainBroadcast(m) \/ HandleRoomMessage(m) \/ JoinRoom(m) \/ LeaveRoom(m)
      PROVE  Others'
  BY <1>3, <1>4 DEF SendRoomMessage, DistributeChain, BroadcastFails, SealRoomMessage,
                    HandleChainBroadcast, HandleRoomMessage, Arrives, JoinRoom, LeaveRoom
<1>5. ASSUME NEW m \in People, SendInvite(m) PROVE Others'
  <2> DEFINE it == [kind |-> "invite", by |-> m, chains |-> ChainBundleFor(room[m], m, invite[m].whom),
                    members |-> Roster(m, room[m]).members, removed |-> Roster(m, room[m]).removed]
  <2>a. \A x \in People : \A i \in DOMAIN mail'[x] :
             i \in Nat /\ \/ i \in DOMAIN mail[x] /\ mail'[x][i] = mail[x][i]
                          \/ x = invite[m].whom /\ i = Len(mail[x]) + 1 /\ mail'[x][i] = it
    BY <1>5, SendInviteTypes
  <2>b. it.by = m
    OBVIOUS
  <2> HIDE DEF it
  <2>1. \A x \in People : \A i \in DOMAIN mail'[x] :
             \/ i \in DOMAIN mail[x] /\ mail'[x][i] = mail[x][i]
             \/ x = invite[m].whom /\ mail'[x][i].by = m
    BY <2>a, <2>b
  <2>2. UNCHANGED pending /\ \A x \in People : invite'[x].whom = invite[x].whom
    BY <1>5 DEF SendInvite, Types, InviteType
  <2>3. invite[m].whom # m
    OBVIOUS
  <2>4. \A x \in People : \A i \in DOMAIN mail'[x] : mail'[x][i].kind = "invite" => mail'[x][i].by # x
    BY <2>1, <2>3
  <2>5. QED BY <2>2, <2>4
<1>6. ASSUME NEW m \in People, TellMembers(m) PROVE Others'
  <2>1. \A x \in People : \A i \in DOMAIN mail'[x] :
             \/ i \in DOMAIN mail[x] /\ mail'[x][i] = mail[x][i]
             \/ mail'[x][i] = Roster(m, room[m])
    BY <1>6, TellMembersTypes
  <2>2. Roster(m, room[m]).kind = "roster"
    BY DEF Roster
  <2>3. UNCHANGED pending /\ invite' = [invite EXCEPT ![m] = NotInviting]
    BY <1>6 DEF TellMembers
  <2>4. \A x \in People : invite'[x].whom # x
    BY <2>3, ViewsAssumption DEF Types, InviteType, NotInviting
  <2>5. QED BY <2>1, <2>2, <2>3, <2>4
<1>7. ASSUME NEW m \in People, ApplyRoster(m) PROVE Others'
  <2>1. Mailed(m, "roster") /\ UNCHANGED pending
    BY <1>7 DEF ApplyRoster
  <2>2. QED BY <1>2, <1>7, <2>1, ApplyRosterTypes
<1>8. ASSUME NEW x \in People, HandleRoomInvite(x) PROVE Others'
  <2>1. Mailed(x, "invite")
    BY <1>8 DEF HandleRoomInvite
  <2>2. /\ 1 \in DOMAIN mail[x] /\ mail[x][1] \in Invitation
        /\ \A i \in DOMAIN mail'[x] : i \in Nat /\ i + 1 \in DOMAIN mail[x] /\ mail'[x][i] = mail[x][i + 1]
        /\ \A y \in People \ {x} : mail'[y] = mail[y] /\ pending'[y] = pending[y]
        /\ pending'[x] = [pc |-> "waiting", what |-> mail[x][1]] \/ UNCHANGED pending
    BY <1>8, HandleRoomInviteTypes
  <2>3. mail[x][1].kind = "invite"
    BY <2>2, InvitationTypes
  <2>4. pending'[x].pc # "none" => pending'[x].what.by # x
    BY <2>2, <2>3
  <2>5. \A y \in People : \A i \in DOMAIN mail'[y] : mail'[y][i].kind = "invite" => mail'[y][i].by # y
    BY <2>2
  <2>6. QED BY <2>1, <2>2, <2>4, <2>5 DEF Mailed
<1>9. ASSUME NEW x \in People, ServeCatchup(x) PROVE Others'
  <2>1. UNCHANGED <<invite, pending>>
    BY <1>9 DEF ServeCatchup, Mailed
  <2>2. /\ \A i \in DOMAIN mail'[x] : i \in Nat /\ i + 1 \in DOMAIN mail[x] /\ mail'[x][i] = mail[x][i + 1]
        /\ \A y \in People \ {x} : \A i \in DOMAIN mail'[y] :
              \/ i \in DOMAIN mail[y] /\ mail'[y][i] = mail[y][i]
              \/ mail'[y][i].kind = "answer"
    BY <1>9, ServeCatchupTypes
  <2>3. QED BY <1>1, <2>1, <2>2
<1>10. ASSUME NEW x \in People, MergeCatchup(x) PROVE Others'
  BY <1>10, <1>2, MergeCatchupTypes DEF MergeCatchup
<1>11. ASSUME NEW m \in People, RequestCatchup(m) PROVE Others'
  BY <1>11, RequestCatchupTypes, <1>1 DEF RequestCatchup
<1>12. ASSUME NEW m \in People, AcceptRoomInvite(m) PROVE Others'
  BY <1>12, AcceptRoomInviteTypes DEF AcceptRoomInvite
<1>13. ASSUME NEW m \in People, AdoptInviteState(m) PROVE Others'
  <2>1. UNCHANGED <<invite, mail>>
    BY <1>13 DEF AdoptInviteState
  <2>2. pending'[m].pc = "none" /\ \A y \in People \ {m} : pending'[y] = pending[y]
    BY <1>13, AdoptInviteStateTypes
  <2>3. QED BY <2>1, <2>2
<1>14. ASSUME NEW m \in People, Quit(m) \/ Crash(m) PROVE Others'
  <2>1. UNCHANGED mail
    BY <1>14 DEF RestartFrom, Quit, Crash
  <2>2. /\ pending'[m].pc = "none" /\ invite'[m] = NotInviting
        /\ \A y \in People \ {m} : pending'[y] = pending[y] /\ invite'[y] = invite[y]
    BY <1>14, RestartTypes
  <2>3. QED BY <2>1, <2>2, ViewsAssumption DEF NotInviting
<1>15. ASSUME NEW m \in People, NEW p \in People \ {m}, InviteToRoom(m, p) PROVE Others'
  BY <1>15 DEF InviteToRoom, Types, InviteType
<1>16. ASSUME NEW p \in People, RemoveMember(p) PROVE Others'
  <2>1. UNCHANGED <<invite, pending>>
    BY <1>16 DEF RemoveMember
  <2>2. PICK item \in Mail :
              /\ item.kind = "roster" /\ item.by = Owner
              /\ item.members = (room[Owner].members \ {p}) \cup {Owner}
              /\ item.removed = room[Owner].removed \cup {p}
              /\ \A x \in People : \A i \in DOMAIN mail'[x] :
                   i \in Nat /\ \/ i \in DOMAIN mail[x] /\ mail'[x][i] = mail[x][i]
                                \/ x \in room[Owner].members \ {p} /\ i = Len(mail[x]) + 1
                                   /\ mail'[x][i] = item
    BY <1>16, RemoveMemberTypes
  <2>3. QED BY <1>1, <2>1, <2>2
<1>17. QED
  BY <1>4, <1>5, <1>6, <1>7, <1>8, <1>9, <1>10, <1>11, <1>12, <1>13, <1>14, <1>15, <1>16 DEF Next

LEMMA TypedInit == Init => Typed
  BY TypesInit, OthersInit DEF Typed

LEMMA TypedStep == Typed /\ [Next]_vars => Typed'
<1> SUFFICES ASSUME Typed, [Next]_vars PROVE Typed'
  OBVIOUS
<1>1. CASE Next
  <2>1. Types /\ Others
    BY DEF Typed
  <2>2. ASSUME NEW m \in People,
               \/ SendRoomMessage(m) \/ DistributeChain(m) \/ BroadcastFails(m) \/ SealRoomMessage(m)
               \/ SendInvite(m) \/ TellMembers(m)
        PROVE  Types'
    BY <2>1, <2>2, SendRoomMessageTypes, DistributeChainTypes, BroadcastFailsTypes,
       SealRoomMessageTypes, SendInviteTypes, TellMembersTypes
  <2>3. ASSUME NEW m \in People,
               \/ HandleChainBroadcast(m) \/ HandleRoomMessage(m)
               \/ ApplyRoster(m) \/ HandleRoomInvite(m) \/ ServeCatchup(m) \/ MergeCatchup(m)
        PROVE  Types'
    BY <2>1, <2>3, HandleChainBroadcastTypes, HandleRoomMessageTypes, ApplyRosterTypes,
       HandleRoomInviteTypes, ServeCatchupTypes, MergeCatchupTypes
  <2>4. ASSUME NEW m \in People,
               \/ JoinRoom(m) \/ RequestCatchup(m) \/ AcceptRoomInvite(m) \/ AdoptInviteState(m)
               \/ LeaveRoom(m) \/ Quit(m) \/ Crash(m)
        PROVE  Types'
    BY <2>1, <2>4, JoinRoomTypes, RequestCatchupTypes, AcceptRoomInviteTypes,
       AdoptInviteStateTypes, LeaveRoomTypes, RestartTypes
  <2>5. Types'
    BY <1>1, <2>1, <2>2, <2>3, <2>4, InviteToRoomTypes, RemoveMemberTypes DEF Next
  <2>6. QED BY <1>1, <2>1, <2>5, OthersStep DEF Typed
<1>2. CASE UNCHANGED vars
  BY <1>2 DEF vars, past, Typed, Types, Others, RoomType, FileType, SendType, InviteType, PendingType,
     InboxType, MailType, PastType, AskType, CountType, Position, Spent, InRoom
<1>3. QED BY <1>1, <1>2

\* Every variable keeps its type, whatever goes wrong: the room's records and the file's,
\* the steps of sends and invitations, what is on its way and what was read.
THEOREM TypeCorrect == Spec => []TypeOK
<1>1. Typed => TypeOK
  BY TypesMean DEF Typed
<1>2. QED BY <1>1, TypedInit, TypedStep, PTL DEF Spec

-----------------------------------------------------------------------------
(* What could be opened. *)

\* What a step does to what a member can open: a save may wind a view on, past the window
\* only; a restart goes back to what was saved.
LEMMA StillReads ==
  ASSUME Typed, Next, "lost" \notin Upsets, NEW x \in People, NEW c \in Chains,
         room'[x].views[c] > room[x].views[c]
  PROVE  room'[x].views[c] + Retention < room'[x].passed[c]
<1>0. Types /\ Others /\ room[x] \in Held /\ room[x].views[c] \in Nat
  BY PersonTypes, NumberTypes DEF Typed
<1>1. ASSUME room'[x] = room[x] \/ room'[x].views = room[x].views PROVE FALSE
  BY <1>0, <1>1
<1>2. ASSUME NEW m \in People, SendRoomMessage(m) PROVE FALSE
  <2> DEFINE n == minted[m] + 1
  <2>1. n \in 1..MaxChains /\ room'[m] = NewChain(m, room[m], n) /\ x = m
    BY <1>0, <1>1, <1>2, SendRoomMessageTypes
  <2> HIDE DEF n
  <2> DEFINE d == <<m, n>>
  <2>2. room'[m].views[d] = 0 /\ \A e \in Chains \ {d} : room'[m].views[e] = room[m].views[e]
    <3>1. room[m] \in Held
      BY <1>0, <2>1
    <3>2. /\ NewChain(m, room[m], n).views[<<m, n>>] = 0
          /\ \A e \in Chains \ {<<m, n>>} : NewChain(m, room[m], n).views[e] = room[m].views[e]
      BY <2>1, <3>1, NewChainOf
    <3>3. QED BY <2>1, <3>2
  <2> HIDE DEF d
  <2>3. CASE c = d
    <3>1. 0 > room[x].views[c]
      BY <2>1, <2>2, <2>3
    <3>2. QED BY <3>1, <1>0
  <2>4. CASE c # d
    BY <2>2, <2>4, <2>1, <1>0
  <2>5. QED BY <2>3, <2>4
<1>3. ASSUME NEW m \in People, DistributeChain(m) PROVE FALSE
  <2>1. room'[m].views = room[m].views /\ \A y \in People \ {m} : room'[y] = room[y]
    <3>1. room[m] \in Held /\ room'[m] = [room[m] EXCEPT !.shared = TRUE]
          /\ \A y \in People \ {m} : room'[y] = room[y]
      BY <1>0, <1>3, DistributeChainTypes, PersonTypes
    <3>2. QED BY <3>1 DEF Held
  <2>2. QED BY <1>1, <2>1
<1>4. ASSUME NEW m \in People,
             \/ BroadcastFails(m) \/ SendInvite(m) \/ TellMembers(m) \/ ServeCatchup(m) \/ RequestCatchup(m)
      PROVE FALSE
  BY <1>1, <1>4 DEF BroadcastFails, SendInvite, TellMembers, ServeCatchup, RequestCatchup
<1>5. ASSUME NEW m \in People, SealRoomMessage(m) \/ HandleRoomMessage(m) \/ MergeCatchup(m) PROVE FALSE
  BY <1>0, <1>1, <1>5, SealRoomMessageTypes, HandleRoomMessageTypes, MergeCatchupTypes
<1>6. ASSUME NEW m \in People, JoinRoom(m) \/ AcceptRoomInvite(m) \/ LeaveRoom(m) PROVE FALSE
  BY <1>0, <1>1, <1>6, JoinRoomTypes, AcceptRoomInviteTypes, LeaveRoomTypes
<1>7. ASSUME NEW m \in People, HandleChainBroadcast(m) PROVE FALSE
  <2>1. room'[m].views[c] <= room[m].views[c] /\ \A y \in People \ {m} : room'[y] = room[y]
    BY <1>0, <1>7, HandleChainBroadcastTypes
  <2>2. x = m
    BY <1>1, <2>1
  <2>3. room'[x].views[c] \in Nat
    BY <1>0, <1>7, HandleChainBroadcastTypes, NumberTypes DEF Types, RoomType
  <2>4. QED BY <1>0, <2>1, <2>2, <2>3
<1>8. ASSUME NEW m \in People, Quit(m) \/ Crash(m) PROVE FALSE
  BY <1>0, <1>1, <1>8, RestartTypes
<1>9. ASSUME NEW m \in People, ApplyRoster(m) PROVE room'[x].views[c] + Retention < room'[x].passed[c]
  BY <1>0, <1>9, ApplyRosterTypes, <1>1
<1>10. ASSUME NEW m \in People, HandleRoomInvite(m)
       PROVE room'[x].views[c] + Retention < room'[x].passed[c]
  BY <1>0, <1>10, HandleRoomInviteTypes, <1>1
<1>11. ASSUME NEW m \in People, AdoptInviteState(m)
       PROVE room'[x].views[c] + Retention < room'[x].passed[c]
  BY <1>0, <1>11, AdoptInviteStateTypes, <1>1
<1>12. ASSUME NEW m \in People, NEW p \in People \ {m}, InviteToRoom(m, p)
       PROVE room'[x].views[c] + Retention < room'[x].passed[c]
  BY <1>0, <1>12, InviteToRoomTypes, <1>1
<1>13. ASSUME NEW p \in People, RemoveMember(p)
       PROVE room'[x].views[c] + Retention < room'[x].passed[c]
  BY <1>0, <1>13, RemoveMemberTypes, <1>1, ViewsAssumption
<1>14. QED
  BY <1>2, <1>3, <1>4, <1>5, <1>6, <1>7, <1>8, <1>9, <1>10, <1>11, <1>12, <1>13 DEF Next

-----------------------------------------------------------------------------
(* What somebody cannot open, and will not be able to. *)

\* Nothing new comes.
LEMMA BeyondFrame ==
  ASSUME NEW x \in People, NEW c \in Chains, NEW k \in Nat, Beyond(x, c, k),
         room'[x].views[c] > k, file'[x].views[c] > k,
         \A i \in DOMAIN inbox'[x] :
           \/ inbox'[x][i].kind # "chain" \/ inbox'[x][i].chain # c \/ x \notin inbox'[x][i].to
           \/ \E j \in DOMAIN inbox[x] : inbox'[x][i] = inbox[x][j],
         \A i \in DOMAIN mail'[x] :
           \/ mail'[x][i].kind # "invite" \/ mail'[x][i].chains[c] > k
           \/ \E j \in DOMAIN mail[x] : mail'[x][i] = mail[x][j],
         pending'[x].pc # "none" =>
           \/ pending'[x].what.chains[c] > k
           \/ pending[x].pc # "none" /\ pending'[x].what = pending[x].what
  PROVE  Beyond(x, c, k)'
<1>1. ~(\E i \in DOMAIN inbox'[x] :
          inbox'[x][i].kind = "chain" /\ inbox'[x][i].chain = c /\ x \in inbox'[x][i].to)
  BY DEF Beyond, Underway
<1>2. \A i \in DOMAIN mail'[x] : mail'[x][i].kind = "invite" => mail'[x][i].chains[c] > k
  BY DEF Beyond
<1>3. pending'[x].pc # "none" => pending'[x].what.chains[c] > k
  BY DEF Beyond
<1>4. QED BY <1>1, <1>2, <1>3 DEF Beyond, Underway

\* The file has what a save gave it.
LEMMA SavedBeyond ==
  ASSUME NEW x \in People, NEW c \in Chains, NEW k \in Nat, Saved(x, room'[x]), room'[x].views[c] > k
  PROVE  file'[x].views[c] > k
  BY DEF Saved

LEMMA ViewTypes ==
  ASSUME Types, NEW x \in People, NEW c \in Chains
  PROVE  room[x].views[c] \in Nat /\ file[x].views[c] \in Nat
  BY PersonTypes, NumberTypes

\* What brings somebody further: a broadcast with a slot for them, an invitation, and what
\* they mint themselves.
LEMMA BeyondStays ==
  ASSUME Typed, Next, NEW x \in People, NEW c \in Chains, NEW k \in Nat, Beyond(x, c, k),
         \A m \in People : DistributeChain(m) => c # <<m, room[m].out>> \/ x \notin room[m].members,
         \A m \in People : SendInvite(m) /\ invite[m].whom = x => ChainBundleFor(room[m], m, x)[c] > k,
         SendRoomMessage(x) => room'[x].views[c] = room[x].views[c]
  PROVE  Beyond(x, c, k)'
<1>0. Types /\ Others /\ Types'
  BY TypedStep DEF Typed
<1>1. /\ room[x].views[c] > k /\ file[x].views[c] > k
      /\ room[x].views[c] \in Nat /\ file[x].views[c] \in Nat /\ room'[x].views[c] \in Nat
      /\ room[x] \in Held /\ file[x] \in Held
  BY <1>0, PersonTypes, NumberTypes DEF Beyond, Types, RoomType
<1>2. UNCHANGED inbox =>
        \A i \in DOMAIN inbox'[x] : \E j \in DOMAIN inbox[x] : inbox'[x][i] = inbox[x][j]
  OBVIOUS
<1>3. UNCHANGED mail =>
        \A i \in DOMAIN mail'[x] : \E j \in DOMAIN mail[x] : mail'[x][i] = mail[x][j]
  OBVIOUS
<1>4. ASSUME NEW m \in People, SendRoomMessage(m) PROVE Beyond(x, c, k)'
  <2>1. room'[x].views[c] = room[x].views[c]
    <3>1. CASE x = m
      BY <3>1, <1>4
    <3>2. CASE x # m
      <4>1. room'[x] = room[x]
        BY <3>2, <1>0, <1>4, SendRoomMessageTypes
      <4>2. QED BY <4>1
    <3>3. QED BY <3>1, <3>2
  <2>2. UNCHANGED <<file, inbox, mail, pending>>
    BY <1>4 DEF SendRoomMessage
  <2>3. QED BY <1>1, <1>2, <1>3, <2>1, <2>2, BeyondFrame
<1>5. ASSUME NEW m \in People, DistributeChain(m) PROVE Beyond(x, c, k)'
  <2>1. /\ room'[m] = [room[m] EXCEPT !.shared = TRUE] /\ \A y \in People \ {m} : room'[y] = room[y]
        /\ \A i \in DOMAIN inbox'[x] :
              i \in Nat /\ \/ i \in DOMAIN inbox[x] /\ inbox'[x][i] = inbox[x][i]
                           \/ inbox'[x][i] = ChainBroadcast(m)
    BY <1>0, <1>5, DistributeChainTypes
  <2>2. room'[x].views = room[x].views
    <3>1. room[m] \in Held
      BY <1>0, PersonTypes
    <3>2. room'[m].views = room[m].views
      BY <2>1, <3>1 DEF Held
    <3>3. QED BY <2>1, <3>2
  <2>3. ChainBroadcast(m).chain = <<m, room[m].out>> /\ ChainBroadcast(m).to = room[m].members
    BY DEF ChainBroadcast
  <2>4. ChainBroadcast(m).chain # c \/ x \notin ChainBroadcast(m).to
    BY <1>5, <2>3
  <2>5. UNCHANGED <<file, mail, pending>>
    BY <1>5 DEF DistributeChain
  <2>6. \A i \in DOMAIN inbox'[x] :
           \/ inbox'[x][i].kind # "chain" \/ inbox'[x][i].chain # c \/ x \notin inbox'[x][i].to
           \/ \E j \in DOMAIN inbox[x] : inbox'[x][i] = inbox[x][j]
    BY <2>1, <2>4
  <2>7. QED BY <1>1, <1>3, <2>2, <2>5, <2>6, BeyondFrame
<1>6. ASSUME NEW m \in People, BroadcastFails(m) PROVE Beyond(x, c, k)'
  BY <1>1, <1>2, <1>3, <1>6, BeyondFrame DEF BroadcastFails
<1>7. ASSUME NEW m \in People, SealRoomMessage(m) PROVE Beyond(x, c, k)'
  <2>1. /\ room'[m].views = room[m].views
        /\ \A y \in People \ {m} : room'[y] = room[y] /\ file'[y] = file[y]
        /\ UNCHANGED file \/ file'[m].views = room[m].views
        /\ \A i \in DOMAIN inbox'[x] :
              \/ i \in DOMAIN inbox[x] /\ inbox'[x][i] = inbox[x][i]
              \/ inbox'[x][i].kind = "text"
    BY <1>0, <1>7, SealRoomMessageTypes
  <2>2. UNCHANGED <<mail, pending>>
    BY <1>7 DEF SealRoomMessage
  <2>3. room'[x].views[c] > k /\ file'[x].views[c] > k
    <3>1. CASE x = m
      BY <2>1, <1>1, <3>1
    <3>2. CASE x # m
      BY <2>1, <1>1, <3>2
    <3>3. QED BY <3>1, <3>2
  <2>4. \A i \in DOMAIN inbox'[x] :
           inbox'[x][i].kind # "chain" \/ \E j \in DOMAIN inbox[x] : inbox'[x][i] = inbox[x][j]
    BY <2>1
  <2>5. QED BY <1>3, <2>2, <2>3, <2>4, BeyondFrame
<1>8. ASSUME NEW m \in People, SendInvite(m) PROVE Beyond(x, c, k)'
  <2> DEFINE p == invite[m].whom
             it == [kind |-> "invite", by |-> m, chains |-> ChainBundleFor(room[m], m, p),
                    members |-> Roster(m, room[m]).members, removed |-> Roster(m, room[m]).removed]
  <2>1. \A i \in DOMAIN mail'[x] :
          i \in Nat /\ \/ i \in DOMAIN mail[x] /\ mail'[x][i] = mail[x][i]
                       \/ x = p /\ i = Len(mail[x]) + 1 /\ mail'[x][i] = it
    BY <1>0, <1>8, SendInviteTypes
  <2>2. x = p => it.chains[c] > k
    BY <1>8
  <2>3. UNCHANGED <<room, file, inbox, pending>>
    BY <1>8 DEF SendInvite
  <2> HIDE DEF it, p
  <2>4. \A i \in DOMAIN mail'[x] :
           mail'[x][i].chains[c] > k \/ \E j \in DOMAIN mail[x] : mail'[x][i] = mail[x][j]
    BY <2>1, <2>2
  <2>5. QED BY <1>1, <1>2, <2>3, <2>4, BeyondFrame
<1>9. ASSUME NEW m \in People, TellMembers(m) PROVE Beyond(x, c, k)'
  <2>1. \A i \in DOMAIN mail'[x] :
             \/ i \in DOMAIN mail[x] /\ mail'[x][i] = mail[x][i]
             \/ mail'[x][i] = Roster(m, room[m])
    BY <1>0, <1>9, TellMembersTypes
  <2>2. Roster(m, room[m]).kind = "roster"
    BY DEF Roster
  <2>3. UNCHANGED <<room, file, inbox, pending>>
    BY <1>9 DEF TellMembers
  <2>4. \A i \in DOMAIN mail'[x] :
           mail'[x][i].kind # "invite" \/ \E j \in DOMAIN mail[x] : mail'[x][i] = mail[x][j]
    BY <2>1, <2>2
  <2>5. QED BY <1>1, <1>2, <2>3, <2>4, BeyondFrame
<1>10. ASSUME NEW m \in People, HandleChainBroadcast(m) PROVE Beyond(x, c, k)'
  <2>1. /\ 1 \in DOMAIN inbox[m] /\ inbox[m][1].kind = "chain"
        /\ \A y \in People \ {m} : room'[y] = room[y] /\ inbox'[y] = inbox[y]
        /\ \A i \in DOMAIN inbox'[m] : i + 1 \in DOMAIN inbox[m] /\ inbox'[m][i] = inbox[m][i + 1]
        /\ \A d \in Chains : room'[m].views[d] # room[m].views[d] =>
              inbox[m][1].chain = d /\ m \in inbox[m][1].to
    BY <1>0, <1>10, HandleChainBroadcastTypes
  <2>2. UNCHANGED <<file, mail, pending>>
    BY <1>10 DEF HandleChainBroadcast, Arrives
  <2>3. room'[x].views[c] = room[x].views[c]
    <3>1. CASE x = m
      BY <2>1, <3>1 DEF Beyond, Underway
    <3>2. CASE x # m
      BY <2>1, <3>2
    <3>3. QED BY <3>1, <3>2
  <2>4. \A i \in DOMAIN inbox'[x] : \E j \in DOMAIN inbox[x] : inbox'[x][i] = inbox[x][j]
    <3>1. CASE x = m
      BY <2>1, <3>1
    <3>2. CASE x # m
      BY <2>1, <3>2
    <3>3. QED BY <3>1, <3>2
  <2>5. QED BY <1>1, <1>3, <2>2, <2>3, <2>4, BeyondFrame
<1>11. ASSUME NEW m \in People, HandleRoomMessage(m) PROVE Beyond(x, c, k)'
  <2>1. /\ \A y \in People \ {m} : room'[y] = room[y] /\ inbox'[y] = inbox[y]
        /\ \A i \in DOMAIN inbox'[m] : i \in Nat /\ i + 1 \in DOMAIN inbox[m] /\ inbox'[m][i] = inbox[m][i + 1]
        /\ room'[m].views = room[m].views
    BY <1>0, <1>11, HandleRoomMessageTypes
  <2>2. UNCHANGED <<file, mail, pending>>
    BY <1>11 DEF HandleRoomMessage, Arrives
  <2>3. room'[x].views[c] = room[x].views[c]
    BY <2>1
  <2>4. \A i \in DOMAIN inbox'[x] : \E j \in DOMAIN inbox[x] : inbox'[x][i] = inbox[x][j]
    <3>1. CASE x = m
      BY <2>1, <3>1
    <3>2. CASE x # m
      BY <2>1, <3>2
    <3>3. QED BY <3>1, <3>2
  <2>5. QED BY <1>1, <1>3, <2>2, <2>3, <2>4, BeyondFrame
<1>12. ASSUME NEW m \in People, ApplyRoster(m) PROVE Beyond(x, c, k)'
  <2>1. /\ \A i \in DOMAIN mail'[m] : i \in Nat /\ i + 1 \in DOMAIN mail[m] /\ mail'[m][i] = mail[m][i + 1]
        /\ \A y \in People \ {m} : room'[y] = room[y] /\ file'[y] = file[y] /\ mail'[y] = mail[y]
        /\ \/ UNCHANGED <<room, file>>
           \/ Saved(m, room'[m]) /\ room'[m].views[c] >= room[m].views[c]
    BY <1>0, <1>12, ApplyRosterTypes
  <2>2. UNCHANGED <<inbox, pending>>
    BY <1>12 DEF ApplyRoster, Mailed
  <2>3. room'[x].views[c] > k /\ file'[x].views[c] > k
    <3>1. CASE x = m
      BY <2>1, <1>1, <3>1, SavedBeyond
    <3>2. CASE x # m
      BY <2>1, <1>1, <3>2
    <3>3. QED BY <3>1, <3>2
  <2>4. \A i \in DOMAIN mail'[x] : \E j \in DOMAIN mail[x] : mail'[x][i] = mail[x][j]
    <3>1. CASE x = m
      BY <2>1, <3>1
    <3>2. CASE x # m
      BY <2>1, <3>2
    <3>3. QED BY <3>1, <3>2
  <2>5. QED BY <1>2, <2>2, <2>3, <2>4, BeyondFrame
<1>13. ASSUME NEW m \in People, HandleRoomInvite(m) PROVE Beyond(x, c, k)'
  <2> DEFINE it == mail[m][1]
  <2>1. /\ 1 \in DOMAIN mail[m] /\ it \in Invitation
        /\ \A i \in DOMAIN mail'[m] : i \in Nat /\ i + 1 \in DOMAIN mail[m] /\ mail'[m][i] = mail[m][i + 1]
        /\ \A y \in People \ {m} : room'[y] = room[y] /\ file'[y] = file[y] /\ mail'[y] = mail[y]
                                   /\ pending'[y] = pending[y]
        /\ \/ UNCHANGED <<room, file>> /\ pending'[m] = [pc |-> "waiting", what |-> it]
           \/ UNCHANGED <<room, file, pending>>
           \/ /\ UNCHANGED pending /\ Saved(m, room'[m])
              /\ room'[m].views[c] >= room[m].views[c] \/ room'[m].views[c] >= it.chains[c]
    <3>1. QED BY <1>0, <1>13, HandleRoomInviteTypes
  <2>2. it.kind = "invite" /\ it.chains[c] \in Nat
    BY <2>1, InvitationTypes
  <2>3. UNCHANGED inbox
    BY <1>13 DEF HandleRoomInvite, Mailed
  <2>4. \A i \in DOMAIN mail'[x] : \E j \in DOMAIN mail[x] : mail'[x][i] = mail[x][j]
    <3>1. CASE x = m
      BY <2>1, <3>1
    <3>2. CASE x # m
      BY <2>1, <3>2
    <3>3. QED BY <3>1, <3>2
  <2>5. CASE x # m
    BY <1>1, <1>2, <2>1, <2>3, <2>4, <2>5, BeyondFrame
  <2>6. CASE x = m
    <3>1. it.chains[c] > k
      BY <2>1, <2>2, <2>6 DEF Beyond
    <3>2. room'[x].views[c] > k /\ file'[x].views[c] > k
      <4>1. CASE UNCHANGED <<room, file>>
        BY <4>1, <1>1
      <4>2. CASE /\ Saved(m, room'[m])
                 /\ room'[m].views[c] >= room[m].views[c] \/ room'[m].views[c] >= it.chains[c]
        BY <4>2, <3>1, <1>1, <2>2, <2>6, SavedBeyond
      <4>3. QED BY <2>1, <4>1, <4>2
    <3>3. UNCHANGED pending \/ pending'[x].what = it
      BY <2>1, <2>6
    <3> HIDE DEF it
    <3>4. QED BY <1>2, <2>3, <2>4, <3>1, <3>2, <3>3, BeyondFrame
  <2>7. QED BY <2>5, <2>6
<1>14. ASSUME NEW m \in People, ServeCatchup(m) PROVE Beyond(x, c, k)'
  <2>1. /\ \A i \in DOMAIN mail'[m] : i \in Nat /\ i + 1 \in DOMAIN mail[m] /\ mail'[m][i] = mail[m][i + 1]
        /\ \A y \in People \ {m} : \A i \in DOMAIN mail'[y] :
              \/ i \in DOMAIN mail[y] /\ mail'[y][i] = mail[y][i]
              \/ mail'[y][i].kind = "answer"
    BY <1>0, <1>14, ServeCatchupTypes
  <2>2. UNCHANGED <<room, file, inbox, pending>>
    BY <1>14 DEF ServeCatchup, Mailed
  <2>3. \A i \in DOMAIN mail'[x] :
          mail'[x][i].kind # "invite" \/ \E j \in DOMAIN mail[x] : mail'[x][i] = mail[x][j]
    <3>1. CASE x = m
      BY <2>1, <3>1
    <3>2. CASE x # m
      BY <2>1, <3>2
    <3>3. QED BY <3>1, <3>2
  <2>4. QED BY <1>1, <1>2, <2>2, <2>3, BeyondFrame
<1>15. ASSUME NEW m \in People, MergeCatchup(m) PROVE Beyond(x, c, k)'
  <2>1. /\ \A i \in DOMAIN mail'[m] : i \in Nat /\ i + 1 \in DOMAIN mail[m] /\ mail'[m][i] = mail[m][i + 1]
        /\ \A y \in People \ {m} : room'[y] = room[y] /\ mail'[y] = mail[y]
        /\ room'[m].views = room[m].views
    BY <1>0, <1>15, MergeCatchupTypes
  <2>2. UNCHANGED <<file, inbox, pending>>
    BY <1>15 DEF MergeCatchup, Mailed
  <2>3. room'[x].views[c] = room[x].views[c]
    BY <2>1
  <2>4. \A i \in DOMAIN mail'[x] : \E j \in DOMAIN mail[x] : mail'[x][i] = mail[x][j]
    <3>1. CASE x = m
      BY <2>1, <3>1
    <3>2. CASE x # m
      BY <2>1, <3>2
    <3>3. QED BY <3>1, <3>2
  <2>5. QED BY <1>1, <1>2, <2>2, <2>3, <2>4, BeyondFrame
<1>16. ASSUME NEW m \in People, JoinRoom(m) PROVE Beyond(x, c, k)'
  BY <1>0, <1>16, JoinRoomTypes, <1>1, <1>2, <1>3, BeyondFrame DEF JoinRoom
<1>17. ASSUME NEW m \in People, RequestCatchup(m) PROVE Beyond(x, c, k)'
  BY <1>0, <1>17, RequestCatchupTypes, <1>1, <1>2, BeyondFrame DEF RequestCatchup
<1>18. ASSUME NEW m \in People, AcceptRoomInvite(m) PROVE Beyond(x, c, k)'
  BY <1>0, <1>18, AcceptRoomInviteTypes, <1>1, <1>2, <1>3, BeyondFrame DEF AcceptRoomInvite
<1>19. ASSUME NEW m \in People, AdoptInviteState(m) PROVE Beyond(x, c, k)'
  <2> DEFINE it == pending[m].what
  <2>1. /\ it \in Invitation /\ pending[m].pc = "adopt" /\ pending'[m].pc = "none"
        /\ \A y \in People \ {m} : room'[y] = room[y] /\ file'[y] = file[y] /\ pending'[y] = pending[y]
        /\ Saved(m, room'[m])
        /\ \A d \in Chains : room'[m].views[d] >= room[m].views[d] \/ room'[m].views[d] >= it.chains[d]
    BY <1>0, <1>19, AdoptInviteStateTypes
  <2>2. UNCHANGED <<inbox, mail>>
    BY <1>19 DEF AdoptInviteState
  <2>3. CASE x # m
    BY <1>1, <1>2, <1>3, <2>1, <2>2, <2>3, BeyondFrame
  <2>4. CASE x = m
    <3>1. it.chains[c] > k /\ it.chains[c] \in Nat
      BY <2>1, <2>4, InvitationTypes DEF Beyond
    <3>2. room'[x].views[c] > k
      BY <3>1, <1>1, <2>1, <2>4
    <3>3. file'[x].views[c] > k
      BY <3>2, <2>1, <2>4, SavedBeyond
    <3>4. QED BY <1>2, <1>3, <2>1, <2>2, <2>4, <3>2, <3>3, BeyondFrame
  <2>5. QED BY <2>3, <2>4
<1>20. ASSUME NEW m \in People, LeaveRoom(m) PROVE Beyond(x, c, k)'
  <2>1. /\ room'[x].views = room[x].views /\ inbox'[m] = <<>>
        /\ \A y \in People \ {m} : inbox'[y] = inbox[y]
    BY <1>0, <1>20, LeaveRoomTypes
  <2>2. UNCHANGED <<file, mail, pending>>
    BY <1>20 DEF LeaveRoom
  <2>3. \A i \in DOMAIN inbox'[x] : \E j \in DOMAIN inbox[x] : inbox'[x][i] = inbox[x][j]
    BY <2>1
  <2>4. QED BY <1>1, <1>3, <2>1, <2>2, <2>3, BeyondFrame
<1>21. ASSUME NEW m \in People, Quit(m) \/ Crash(m) PROVE Beyond(x, c, k)'
  <2>1. /\ inbox'[m] = <<>> /\ pending'[m].pc = "none"
        /\ \A y \in People \ {m} : /\ room'[y] = room[y] /\ inbox'[y] = inbox[y] /\ file'[y] = file[y]
                                   /\ pending'[y] = pending[y]
        /\ \E entry \in Held : /\ entry.views = file[m].views \/ entry.views = room[m].views
                               /\ file'[m] = entry /\ room'[m].views = entry.views
    <3>1. PICK entry \in Held :
              /\ RestartFrom(m, entry)
              /\ \/ entry = file[m]
                 \/ /\ room[m].encrypted /\ entry.encrypted = room[m].encrypted
                    /\ entry.removed = room[m].removed \cup file[m].removed
                    /\ entry.members \subseteq (room[m].members \cup file[m].members) \ entry.removed
                    /\ entry.out = room[m].out /\ entry.stale = room[m].stale
                    /\ entry.views = room[m].views /\ entry.passed = room[m].passed
              /\ file'[m] = entry
              /\ SameStanding(room'[m], entry) /\ SameChain(room'[m], entry)
              /\ room'[m].views = entry.views /\ room'[m].passed = entry.passed
              /\ "lost" \in Upsets \/ (entry.views = room[m].views /\ entry.passed = room[m].passed)
      BY <1>0, <1>21, RestartTypes
    <3>2. QED BY <3>1, <1>0, <1>21, RestartTypes
  <2>2. UNCHANGED mail
    BY <1>21 DEF RestartFrom, Quit, Crash
  <2>3. room'[x].views[c] > k /\ file'[x].views[c] > k
    <3>1. CASE x = m
      BY <2>1, <1>1, <3>1
    <3>2. CASE x # m
      BY <2>1, <1>1, <3>2
    <3>3. QED BY <3>1, <3>2
  <2>4. \A i \in DOMAIN inbox'[x] : \E j \in DOMAIN inbox[x] : inbox'[x][i] = inbox[x][j]
    BY <2>1
  <2>5. QED BY <1>3, <2>1, <2>2, <2>3, <2>4, BeyondFrame
<1>22. ASSUME NEW m \in People, NEW p \in People \ {m}, InviteToRoom(m, p) PROVE Beyond(x, c, k)'
  <2>1. /\ \A y \in People \ {m} : room'[y] = room[y] /\ file'[y] = file[y]
        /\ room'[m].views[c] >= room[m].views[c] /\ Saved(m, room'[m])
    BY <1>0, <1>22, InviteToRoomTypes
  <2>2. UNCHANGED <<inbox, mail, pending>>
    BY <1>22 DEF InviteToRoom
  <2>3. room'[x].views[c] > k /\ file'[x].views[c] > k
    <3>1. CASE x = m
      BY <2>1, <1>1, <3>1, SavedBeyond
    <3>2. CASE x # m
      BY <2>1, <1>1, <3>2
    <3>3. QED BY <3>1, <3>2
  <2>4. QED BY <1>2, <1>3, <2>2, <2>3, BeyondFrame
<1>23. ASSUME NEW p \in People, RemoveMember(p) PROVE Beyond(x, c, k)'
  <2>1. /\ \A y \in People \ {Owner} : room'[y] = room[y] /\ file'[y] = file[y]
        /\ room'[Owner].views[c] >= room[Owner].views[c] /\ Saved(Owner, room'[Owner])
    BY <1>0, <1>23, RemoveMemberTypes
  <2>2. PICK item \in Mail :
              /\ item.kind = "roster" /\ item.by = Owner
              /\ item.members = (room[Owner].members \ {p}) \cup {Owner}
              /\ item.removed = room[Owner].removed \cup {p}
              /\ \A y \in People : \A i \in DOMAIN mail'[y] :
                   i \in Nat /\ \/ i \in DOMAIN mail[y] /\ mail'[y][i] = mail[y][i]
                                \/ y \in room[Owner].members \ {p} /\ i = Len(mail[y]) + 1
                                   /\ mail'[y][i] = item
    BY <1>0, <1>23, RemoveMemberTypes
  <2>3. \A i \in DOMAIN mail'[x] :
          mail'[x][i].kind # "invite" \/ \E j \in DOMAIN mail[x] : mail'[x][i] = mail[x][j]
    BY <2>2
  <2>4. UNCHANGED <<inbox, pending>>
    BY <1>23 DEF RemoveMember
  <2>5. room'[x].views[c] > k /\ file'[x].views[c] > k
    <3>1. CASE x = Owner
      BY <2>1, <1>1, <3>1, SavedBeyond
    <3>2. CASE x # Owner
      BY <2>1, <1>1, <3>2
    <3>3. QED BY <3>1, <3>2
  <2>6. QED BY <1>2, <2>3, <2>4, <2>5, BeyondFrame
<1>24. QED
  BY <1>4, <1>5, <1>6, <1>7, <1>8, <1>9, <1>10, <1>11, <1>12, <1>13, <1>14, <1>15, <1>16, <1>17,
     <1>18, <1>19, <1>20, <1>21, <1>22, <1>23 DEF Next

\* A step that mints nothing: whose chain is in use, and what has been read of which.
LEMMA ChainFrame ==
  ASSUME Typed, Next, \A m \in People : ~SendRoomMessage(m), NEW y \in People
  PROVE  /\ room'[y].out \in {room[y].out, file[y].out} /\ file'[y].out \in {room[y].out, file[y].out}
         /\ send'[y] = "give" => send[y] = "give" /\ room'[y].out = room[y].out
         /\ \A c \in Chains : \/ room'[y].passed[c] \in {room[y].passed[c], file[y].passed[c]}
                              \/ \E h \in said : h.chain = c
                              \/ c = <<y, room[y].out>>
         /\ \A c \in Chains : file'[y].passed[c] \in {room[y].passed[c], file[y].passed[c]}
<1> DEFINE Goal == /\ room'[y].out \in {room[y].out, file[y].out} /\ file'[y].out \in {room[y].out, file[y].out}
                   /\ send'[y] = "give" => send[y] = "give" /\ room'[y].out = room[y].out
                   /\ \A c \in Chains : \/ room'[y].passed[c] \in {room[y].passed[c], file[y].passed[c]}
                                        \/ \E h \in said : h.chain = c
                                        \/ c = <<y, room[y].out>>
                   /\ \A c \in Chains : file'[y].passed[c] \in {room[y].passed[c], file[y].passed[c]}
<1>0. Types /\ Others /\ room[y] \in Held /\ file[y] \in Held
  BY PersonTypes DEF Typed
<1>1. ASSUME UNCHANGED <<room[y], file[y]>>, send'[y] = send[y] \/ send'[y] = "none" PROVE Goal
  BY <1>1
<1>2. ASSUME UNCHANGED file, UNCHANGED send, SameChain(room'[y], room[y]),
             \A c \in Chains : \/ room'[y].passed[c] = room[y].passed[c]
                               \/ \E h \in said : h.chain = c
      PROVE  Goal
  BY <1>2 DEF SameChain
<1>3. ASSUME UNCHANGED send, room'[y].out = room[y].out, Saved(y, room'[y]),
             room'[y].passed = room[y].passed
      PROVE  Goal
  BY <1>3 DEF Saved
<1>4. ASSUME NEW m \in People, DistributeChain(m) PROVE Goal
  <2>1. /\ room[m] \in Held /\ room'[m] = [room[m] EXCEPT !.shared = TRUE] /\ send'[m] = "seal"
        /\ \A x \in People \ {m} : room'[x] = room[x] /\ send'[x] = send[x]
    BY <1>0, <1>4, DistributeChainTypes, PersonTypes
  <2>2. room'[m].out = room[m].out /\ room'[m].passed = room[m].passed
    BY <2>1 DEF Held
  <2>3. UNCHANGED file
    BY <1>4 DEF DistributeChain
  <2>4. QED BY <2>1, <2>2, <2>3
<1>5. ASSUME NEW m \in People, BroadcastFails(m) PROVE Goal
  BY <1>5, <1>0, BroadcastFailsTypes, <1>1 DEF BroadcastFails
<1>6. ASSUME NEW m \in People, SealRoomMessage(m) PROVE Goal
  <2>1. /\ send'[m] = "none" /\ room'[m].out = room[m].out
        /\ \A x \in People \ {m} : room'[x] = room[x] /\ file'[x] = file[x] /\ send'[x] = send[x]
        /\ \A c \in Chains : c # <<m, room[m].out>> => room'[m].passed[c] = room[m].passed[c]
        /\ UNCHANGED file \/ (file'[m].out = room[m].out /\ file'[m].passed = room[m].passed)
    BY <1>0, <1>6, SealRoomMessageTypes
  <2>2. CASE y # m
    BY <1>1, <2>1, <2>2
  <2>3. CASE y = m
    BY <2>1, <2>3
  <2>4. QED BY <2>2, <2>3
<1>7. ASSUME NEW m \in People,
             \/ SendInvite(m) \/ TellMembers(m) \/ ServeCatchup(m) \/ RequestCatchup(m)
      PROVE Goal
  BY <1>1, <1>7 DEF SendInvite, TellMembers, ServeCatchup, RequestCatchup, Mailed
<1>8. ASSUME NEW m \in People, HandleChainBroadcast(m) PROVE Goal
  BY <1>0, <1>8, HandleChainBroadcastTypes, <1>1, <1>2 DEF HandleChainBroadcast, Arrives
<1>9. ASSUME NEW m \in People, HandleRoomMessage(m) PROVE Goal
  BY <1>0, <1>9, HandleRoomMessageTypes, <1>1, <1>2 DEF HandleRoomMessage, Arrives
<1>10. ASSUME NEW m \in People, MergeCatchup(m) PROVE Goal
  BY <1>0, <1>10, MergeCatchupTypes, <1>1, <1>2 DEF MergeCatchup, Mailed
<1>11. ASSUME NEW m \in People, ApplyRoster(m) PROVE Goal
  BY <1>0, <1>11, ApplyRosterTypes, <1>1, <1>3 DEF ApplyRoster, Mailed
<1>12. ASSUME NEW m \in People, HandleRoomInvite(m) PROVE Goal
  BY <1>0, <1>12, HandleRoomInviteTypes, <1>1, <1>3 DEF HandleRoomInvite, Mailed, SameChain
<1>13. ASSUME NEW m \in People, JoinRoom(m) PROVE Goal
  BY <1>13, <1>0, <1>1, <1>2, JoinRoomTypes DEF JoinRoom
<1>14. ASSUME NEW m \in People, AcceptRoomInvite(m) PROVE Goal
  BY <1>14, <1>0, <1>1, <1>2, AcceptRoomInviteTypes DEF AcceptRoomInvite
<1>15. ASSUME NEW m \in People, LeaveRoom(m) PROVE Goal
  BY <1>15, <1>0, <1>1, <1>2, LeaveRoomTypes DEF LeaveRoom
<1>16. ASSUME NEW m \in People, AdoptInviteState(m) PROVE Goal
  BY <1>0, <1>16, AdoptInviteStateTypes, <1>1, <1>3 DEF AdoptInviteState, SameChain
<1>17. ASSUME NEW m \in People, Quit(m) \/ Crash(m) PROVE Goal
  <2>1. /\ send'[m] = "none"
        /\ \A x \in People \ {m} : room'[x] = room[x] /\ file'[x] = file[x] /\ send'[x] = send[x]
    BY <1>0, <1>17, RestartTypes
  <2>2. PICK entry \in Held :
              /\ RestartFrom(m, entry)
              /\ \/ entry = file[m]
                 \/ /\ room[m].encrypted /\ entry.encrypted = room[m].encrypted
                    /\ entry.removed = room[m].removed \cup file[m].removed
                    /\ entry.members \subseteq (room[m].members \cup file[m].members) \ entry.removed
                    /\ entry.out = room[m].out /\ entry.stale = room[m].stale
                    /\ entry.views = room[m].views /\ entry.passed = room[m].passed
              /\ file'[m] = entry
              /\ SameStanding(room'[m], entry) /\ SameChain(room'[m], entry)
              /\ room'[m].views = entry.views /\ room'[m].passed = entry.passed
              /\ "lost" \in Upsets \/ (entry.views = room[m].views /\ entry.passed = room[m].passed)
    BY <1>0, <1>17, RestartTypes
  <2>3. CASE y # m
    BY <1>1, <2>1, <2>3
  <2>4. CASE y = m
    BY <2>2, <2>1, <2>4 DEF SameChain
  <2>5. QED BY <2>3, <2>4
<1>18. ASSUME NEW m \in People, NEW p \in People \ {m}, InviteToRoom(m, p) PROVE Goal
  BY <1>0, <1>18, InviteToRoomTypes, <1>1, <1>3 DEF InviteToRoom, SameChain
<1>19. ASSUME NEW p \in People, RemoveMember(p) PROVE Goal
  BY <1>0, <1>19, RemoveMemberTypes, <1>1, <1>3 DEF RemoveMember
<1>20. Goal
  BY <1>4, <1>5, <1>6, <1>7, <1>8, <1>9, <1>10, <1>11, <1>12, <1>13, <1>14, <1>15, <1>16, <1>17,
     <1>18, <1>19 DEF Next
<1>21. QED BY <1>20

\* One thing is said at a time, by somebody whose send had got that far.
LEMMA SaidStep ==
  ASSUME Typed, Next
  PROVE  \/ UNCHANGED said
         \/ \E m \in People :
              /\ SealRoomMessage(m) /\ Usable(room[m]) /\ send[m] = "seal"
              /\ said' = said \cup {SealRoomChain(m)}
<1>1. ASSUME NEW m \in People, SealRoomMessage(m)
      PROVE  \/ UNCHANGED said
             \/ /\ Usable(room[m]) /\ send[m] = "seal" /\ said' = said \cup {SealRoomChain(m)}
  BY <1>1 DEF SealRoomMessage
<1>2. ASSUME NEW m \in People,
             \/ SendRoomMessage(m) \/ DistributeChain(m) \/ BroadcastFails(m)
             \/ SendInvite(m) \/ TellMembers(m) \/ HandleChainBroadcast(m) \/ HandleRoomMessage(m)
             \/ ApplyRoster(m) \/ HandleRoomInvite(m) \/ ServeCatchup(m) \/ MergeCatchup(m)
      PROVE  UNCHANGED said
  BY <1>2 DEF SendRoomMessage, DistributeChain, BroadcastFails, SendInvite, TellMembers,
     HandleChainBroadcast, HandleRoomMessage, ApplyRoster, HandleRoomInvite, ServeCatchup, MergeCatchup,
     Arrives, Mailed, past
<1>3. ASSUME NEW m \in People,
             \/ JoinRoom(m) \/ RequestCatchup(m) \/ AcceptRoomInvite(m) \/ AdoptInviteState(m)
             \/ LeaveRoom(m) \/ Quit(m) \/ Crash(m)
      PROVE  UNCHANGED said
  <2>1. \A e : RestartFrom(m, e) => UNCHANGED said
    BY DEF RestartFrom, past
  <2>2. Quit(m) \/ Crash(m) => UNCHANGED said
    BY <2>1 DEF Quit, Crash
  <2>3. QED BY <1>3, <2>2 DEF JoinRoom, RequestCatchup, AcceptRoomInvite, AdoptInviteState, LeaveRoom, past
<1>4. ASSUME NEW m \in People, NEW p \in People \ {m}, InviteToRoom(m, p) PROVE UNCHANGED said
  BY <1>4 DEF InviteToRoom, past
<1>5. ASSUME NEW p \in People, RemoveMember(p) PROVE UNCHANGED said
  BY <1>5 DEF RemoveMember, past
<1>6. QED BY <1>1, <1>2, <1>3, <1>4, <1>5 DEF Next

LEMMA MaxChainsType == MaxChains \in Nat
  BY ViewsBounds

LEMMA MintedStep ==
  ASSUME Typed, Next, \A m \in People : ~SendRoomMessage(m)
  PROVE  UNCHANGED minted
<1>2. ASSUME NEW m \in People,
             \/ DistributeChain(m) \/ BroadcastFails(m) \/ SealRoomMessage(m)
             \/ SendInvite(m) \/ TellMembers(m) \/ HandleChainBroadcast(m) \/ HandleRoomMessage(m)
             \/ ApplyRoster(m) \/ HandleRoomInvite(m) \/ ServeCatchup(m) \/ MergeCatchup(m)
      PROVE  UNCHANGED minted
  BY <1>2 DEF DistributeChain, BroadcastFails, SealRoomMessage, SendInvite, TellMembers,
     HandleChainBroadcast, HandleRoomMessage, ApplyRoster, HandleRoomInvite, ServeCatchup, MergeCatchup,
     Arrives, Mailed
<1>3. ASSUME NEW m \in People,
             \/ JoinRoom(m) \/ RequestCatchup(m) \/ AcceptRoomInvite(m) \/ AdoptInviteState(m)
             \/ LeaveRoom(m) \/ Quit(m) \/ Crash(m)
      PROVE  UNCHANGED minted
  BY <1>3 DEF RestartFrom, Quit, Crash, JoinRoom, RequestCatchup, AcceptRoomInvite,
     AdoptInviteState, LeaveRoom
<1>4. ASSUME NEW m \in People, NEW p \in People \ {m}, InviteToRoom(m, p) PROVE UNCHANGED minted
  BY <1>4 DEF InviteToRoom
<1>5. ASSUME NEW p \in People, RemoveMember(p) PROVE UNCHANGED minted
  BY <1>5 DEF RemoveMember
<1>6. QED BY <1>2, <1>3, <1>4, <1>5 DEF Next

LEMMA OutTypes ==
  ASSUME Types, NEW y \in People
  PROVE  room[y].out \in Nat /\ file[y].out \in Nat /\ minted[y] \in Nat
<1>1. /\ room[y].out \in 0..MaxChains /\ file[y].out \in 0..MaxChains /\ minted[y] \in 0..MaxChains
  BY PersonTypes, NumberTypes
<1>2. QED BY <1>1, MaxChainsType

LEMMA ChainedInit == Init => Chained
<1> SUFFICES ASSUME Init PROVE Chained
  OBVIOUS
<1>1. Typed
  BY TypedInit
<1>2. Never \in Nat /\ Never # 0 /\ Never > Never - 1
  BY NeverType
<1>3. \A m \in People : /\ minted[m] = 0 /\ send[m] = "none" /\ inbox[m] = <<>> /\ mail[m] = <<>>
                        /\ pending[m].pc = "none"
  BY DEF Init, NoInvite
<1>4. Empty.out = 0 /\ (\A c \in Chains : Empty.views[c] = Never /\ Empty.passed[c] = 0)
  BY DEF Empty
<1>5. \A m \in People : /\ room[m].out = 0 /\ file[m].out = 0
                        /\ \A c \in Chains : /\ room[m].views[c] = Never /\ room[m].passed[c] = 0
                                             /\ file[m].views[c] = Never /\ file[m].passed[c] = 0
  <2> SUFFICES ASSUME NEW m \in People
               PROVE  /\ room[m].out = 0 /\ file[m].out = 0
                      /\ \A c \in Chains : /\ room[m].views[c] = Never /\ room[m].passed[c] = 0
                                           /\ file[m].views[c] = Never /\ file[m].passed[c] = 0
    OBVIOUS
  <2>1. room[m] \in Held
    BY <1>1, PersonTypes DEF Typed
  <2>2. room[m].out = Empty.out /\ room[m].views = Empty.views /\ room[m].passed = Empty.passed
    <3> DEFINE r == [Empty EXCEPT !.joined = TRUE, !.encrypted = TRUE, !.members = Founders \ {m}]
    <3>1. r.out = Empty.out /\ r.views = Empty.views /\ r.passed = Empty.passed
      BY DEF Empty
    <3>2. room[m] = r \/ room[m] = Empty
      BY DEF Init
    <3> HIDE DEF r
    <3>3. QED BY <3>1, <3>2
  <2>3. file[m] = [room[m] EXCEPT !.joined = FALSE]
    BY DEF Init
  <2>4. file[m].out = room[m].out /\ file[m].views = room[m].views /\ file[m].passed = room[m].passed
    BY <2>1, <2>3 DEF Held
  <2>5. QED BY <2>2, <2>4, <1>4
<1>6. Numbered
  <2>1. \A m \in People : room[m].out <= minted[m] /\ file[m].out <= minted[m]
    BY <1>3, <1>5
  <2>2. said = {} /\ \A m \in People : send[m] # "give"
    <3>1. said = {}
      BY DEF Init
    <3>2. QED BY <3>1, <1>3
  <2>3. QED BY <2>1, <2>2 DEF Numbered
<1>7. \A c \in Chains : \A x \in People : Beyond(x, c, Never - 1)
  BY <1>2, <1>3, <1>5 DEF Beyond, Underway
<1>8. Unminted
  BY <1>5, <1>7 DEF Unminted, Chains
<1>9. QED BY <1>1, <1>6, <1>8 DEF Chained

LEMMA NumberedStep ==
  ASSUME Chained, Next
  PROVE  Numbered'
<1>0. Typed /\ Types /\ Numbered
  BY DEF Chained, Typed
<1> USE MaxChainsType
<1>1. \A m \in People : minted[m] \in Nat /\ minted[m] \in 0..MaxChains
  <2>1. \A m \in People : minted[m] \in 0..MaxChains
    BY <1>0, PersonTypes
  <2>2. QED BY <2>1
<1>2. \A h \in said : h.chain \in Chains /\ h.chain[1] \in People /\ h.chain[2] \in Nat
  BY <1>0, SaidOf, ViewsBounds DEF Chains
<1>3. ASSUME NEW m \in People, SendRoomMessage(m) PROVE Numbered'
  <2> DEFINE n == minted[m] + 1
  <2>1. UNCHANGED <<said, file>>
    BY <1>3 DEF SendRoomMessage, past
  <2>2. /\ \A x \in People \ {m} : room'[x] = room[x] /\ send'[x] = send[x] /\ minted'[x] = minted[x]
        /\ \/ UNCHANGED <<room, minted>> /\ send'[m] = "seal"
           \/ /\ n \in 1..MaxChains /\ minted'[m] = n
              /\ room'[m] = NewChain(m, room[m], n) /\ send'[m] = "give"
    BY <1>0, <1>3, SendRoomMessageTypes
  <2>3. CASE UNCHANGED <<room, minted>> /\ send'[m] = "seal"
    BY <2>2, <2>3, <2>1, <1>0 DEF Numbered
  <2>4. CASE /\ n \in 1..MaxChains /\ minted'[m] = n
             /\ room'[m] = NewChain(m, room[m], n) /\ send'[m] = "give"
    <3>1. room[m] \in Held
      BY <1>0, PersonTypes
    <3>2. room'[m].out = n
      <4> HIDE DEF n
      <4>1. NewChain(m, room[m], n).out = n
        BY <3>1, <2>4, NewChainOf
      <4>2. QED BY <4>1, <2>4
    <3>3. \A y \in People : minted'[y] \in Nat /\ minted[y] <= minted'[y]
      BY <1>1, <2>2, <2>4
    <3>4. \A y \in People : room'[y].out <= minted'[y] /\ file'[y].out <= minted'[y]
      <4> SUFFICES ASSUME NEW y \in People PROVE room'[y].out <= minted'[y] /\ file'[y].out <= minted'[y]
        OBVIOUS
      <4>1. room[y].out \in Nat /\ file[y].out \in Nat /\ room[y].out <= minted[y] /\ file[y].out <= minted[y]
        BY <1>0, OutTypes DEF Numbered
      <4>2. CASE y = m
        BY <4>1, <4>2, <3>2, <3>3, <2>1, <2>4, <1>1
      <4>3. CASE y # m
        BY <4>1, <4>3, <2>1, <2>2
      <4>4. QED BY <4>2, <4>3
    <3>5. \A h \in said' : h.chain[2] <= minted'[h.chain[1]]
      BY <1>0, <1>1, <1>2, <2>1, <3>3 DEF Numbered
    <3>6. ASSUME NEW y \in People, send'[y] = "give", NEW h \in said'
          PROVE  h.chain # <<y, room'[y].out>>
      <4>1. CASE y = m
        BY <2>1, <3>6, <1>0, <4>1, <3>2, <1>1 DEF Numbered
      <4>2. CASE y # m
        BY <4>2, <3>6, <2>1, <2>2, <1>0 DEF Numbered
      <4>3. QED BY <4>1, <4>2
    <3>7. QED BY <3>4, <3>5, <3>6 DEF Numbered
  <2>5. QED BY <2>2, <2>3, <2>4
<1>4. CASE \A m \in People : ~SendRoomMessage(m)
  <2>1. UNCHANGED minted
    BY <1>0, <1>4, MintedStep
  <2>2. \A y \in People : /\ room'[y].out \in {room[y].out, file[y].out}
                          /\ file'[y].out \in {room[y].out, file[y].out}
                          /\ send'[y] = "give" => send[y] = "give" /\ room'[y].out = room[y].out
    BY <1>0, <1>4, ChainFrame
  <2>3. \A y \in People : room'[y].out <= minted'[y] /\ file'[y].out <= minted'[y]
    BY <2>1, <2>2, <1>0 DEF Numbered
  <2>4. CASE UNCHANGED said
    BY <2>1, <2>2, <2>3, <2>4, <1>0 DEF Numbered
  <2>5. ASSUME NEW m \in People, send[m] = "seal", said' = said \cup {SealRoomChain(m)}
        PROVE  Numbered'
    <3>1. SealRoomChain(m).chain = <<m, room[m].out>>
      BY DEF SealRoomChain
    <3>2. \A h \in said' : h.chain[2] <= minted'[h.chain[1]]
      BY <3>1, <2>1, <2>5, <1>0 DEF Numbered
    <3>3. ASSUME NEW y \in People, send'[y] = "give", NEW h \in said'
          PROVE  h.chain # <<y, room'[y].out>>
      <4>1. y # m /\ send[y] = "give" /\ room'[y].out = room[y].out
        BY <2>2, <2>5, <3>3
      <4>2. CASE h = SealRoomChain(m)
        BY <3>1, <4>1, <4>2
      <4>3. CASE h \in said
        BY <4>1, <4>3, <1>0 DEF Numbered
      <4>4. QED BY <4>2, <4>3, <2>5
    <3>4. QED BY <2>3, <3>2, <3>3 DEF Numbered
  <2>6. QED BY <1>0, <2>4, <2>5, SaidStep
<1>5. QED BY <1>3, <1>4

\* Nobody brings anybody a chain that is yet to be minted.
LEMMA UnmintedStep ==
  ASSUME Chained, Next
  PROVE  Unminted'
<1>0. Typed /\ Types /\ Others /\ Numbered /\ Unminted
  BY DEF Chained, Typed
<1> SUFFICES ASSUME NEW m \in People, NEW n \in 1..MaxChains, n > minted'[m], NEW x \in People
             PROVE  /\ Beyond(x, <<m, n>>, Never - 1)'
                    /\ room'[x].passed[<<m, n>>] = 0 /\ file'[x].passed[<<m, n>>] = 0
  BY DEF Unminted
<1> DEFINE c == <<m, n>>
           k == Never - 1
<1>1. c \in Chains /\ n \in Nat /\ c[1] = m /\ c[2] = n
  BY ViewsBounds DEF Chains
<1>2. k \in Nat /\ Never > k
  BY NeverType
<1>3. minted[m] \in Nat /\ minted'[m] >= minted[m]
      /\ (SendRoomMessage(x) => room'[x].views[c] = room[x].views[c] /\ room'[x].passed[c] = room[x].passed[c])
  <2>1. minted[m] \in Nat
    BY <1>0, OutTypes
  <2>2. CASE \A o \in People : ~SendRoomMessage(o)
    <3>1. UNCHANGED minted
      BY <1>0, <2>2, MintedStep
    <3>2. QED BY <3>1, <2>1, <2>2
  <2>3. ASSUME NEW o \in People, SendRoomMessage(o)
        PROVE  /\ minted'[m] >= minted[m]
               /\ o = x => room'[x].views[c] = room[x].views[c] /\ room'[x].passed[c] = room[x].passed[c]
    <3> DEFINE i == minted[o] + 1
    <3>1. /\ \A y \in People \ {o} : minted'[y] = minted[y]
          /\ \/ UNCHANGED <<room, minted>>
             \/ i \in 1..MaxChains /\ minted'[o] = i /\ room'[o] = NewChain(o, room[o], i)
      BY <1>0, <2>3, SendRoomMessageTypes
    <3>2. minted'[m] >= minted[m]
      BY <3>1, <2>1
    <3>3. ASSUME o = x PROVE room'[x].views[c] = room[x].views[c] /\ room'[x].passed[c] = room[x].passed[c]
      <4>1. CASE UNCHANGED room
        BY <4>1
      <4>2. CASE i \in 1..MaxChains /\ minted'[o] = i /\ room'[o] = NewChain(o, room[o], i)
        <5>1. room[o] \in Held
          BY <1>0, PersonTypes
        <5>2. c # <<o, i>>
          BY <4>2, <1>1
        <5> HIDE DEF i, c
        <5>3. /\ NewChain(o, room[o], i).passed = room[o].passed
              /\ \A d \in Chains \ {<<o, i>>} : NewChain(o, room[o], i).views[d] = room[o].views[d]
          BY <4>2, <5>1, NewChainOf
        <5>4. QED BY <3>3, <4>2, <5>2, <5>3, <1>1
      <4>3. QED BY <3>1, <4>1, <4>2
    <3>4. QED BY <3>2, <3>3
  <2>4. QED BY <2>1, <2>2, <2>3
<1>4. n > minted[m]
  <2>1. minted'[m] \in Nat
    BY <1>0, TypedStep, ViewsBounds DEF Typed, Types, SendType
  <2>2. QED BY <2>1, <1>1, <1>3
<1>5. /\ Beyond(x, c, k) /\ \A y \in People : room[y].passed[c] = 0 /\ file[y].passed[c] = 0
  BY <1>0, <1>4 DEF Unminted
<1>6. \A o \in People : c # <<o, room[o].out>>
  BY <1>0, OutTypes, <1>1, <1>3, <1>4 DEF Numbered
<1>7. \A h \in said : h.chain # c
  BY <1>0, <1>1, <1>3, <1>4 DEF Numbered
<1> HIDE DEF c, k
<1>8. \A o \in People : SendInvite(o) /\ invite[o].whom = x => ChainBundleFor(room[o], o, x)[c] > k
  <2> SUFFICES ASSUME NEW o \in People PROVE ChainBundleFor(room[o], o, x)[c] > k
    OBVIOUS
  <2>1. ChainBundleFor(room[o], o, x)[c] = Never
    <3>1. room[o] \in Held /\ room[o].passed[c] = 0
      BY <1>0, <1>5, PersonTypes
    <3>2. QED BY <3>1, <1>1, BundleOf
  <2>2. QED BY <2>1, <1>2
<1>9. Beyond(x, c, k)'
  BY <1>0, <1>1, <1>2, <1>3, <1>5, <1>6, <1>8, BeyondStays
<1>10. room'[x].passed[c] = 0 /\ file'[x].passed[c] = 0
  <2>1. CASE \A o \in People : ~SendRoomMessage(o)
    BY <1>0, <1>1, <2>1, ChainFrame, <1>5, <1>6, <1>7
  <2>2. ASSUME NEW o \in People, SendRoomMessage(o)
        PROVE room'[x].passed[c] = 0 /\ file'[x].passed[c] = 0
    <3>1. UNCHANGED file
      BY <2>2 DEF SendRoomMessage
    <3>2. room'[x].passed[c] = room[x].passed[c]
      <4>1. CASE o = x
        BY <4>1, <2>2, <1>3
      <4>2. CASE o # x
        BY <4>2, <2>2, <1>0, SendRoomMessageTypes
      <4>3. QED BY <4>1, <4>2
    <3>3. QED BY <3>1, <3>2, <1>5
  <2>3. QED BY <2>1, <2>2
<1>11. QED BY <1>9, <1>10 DEF c, k

LEMMA ChainedStep == Chained /\ [Next]_vars => Chained'
<1> SUFFICES ASSUME Chained, [Next]_vars PROVE Chained'
  OBVIOUS
<1>1. Typed'
  BY TypedStep DEF Chained
<1>2. CASE Next
  BY <1>1, <1>2, NumberedStep, UnmintedStep DEF Chained
<1>3. CASE UNCHANGED vars
  BY <1>1, <1>3 DEF vars, past, Chained, Numbered, Unminted, Beyond, Underway
<1>4. QED BY <1>2, <1>3

-----------------------------------------------------------------------------
(* Who is invited, and from where they read. *)

\* As long as nothing is lost positions only advance, and what is opened moves them.
LEMMA PassedStep ==
  ASSUME Typed, Next, "lost" \notin Upsets, NEW y \in People
  PROVE  /\ \A c \in Chains : room'[y].passed[c] >= room[y].passed[c]
         /\ \A h \in hist'[y] : h \in hist[y] \/ h.index < room'[y].passed[h.chain]
<1> DEFINE Goal == /\ \A c \in Chains : room'[y].passed[c] >= room[y].passed[c]
                   /\ \A h \in hist'[y] : h \in hist[y] \/ h.index < room'[y].passed[h.chain]
<1>0. Types /\ Others /\ room[y] \in Held /\ \A c \in Chains : room[y].passed[c] \in Nat
  BY PersonTypes, NumberTypes DEF Typed
<1>1. ASSUME room'[y].passed = room[y].passed, hist'[y] = hist[y] PROVE Goal
  BY <1>0, <1>1
<1>2. ASSUME NEW m \in People, SendRoomMessage(m) PROVE Goal
  <2> DEFINE n == minted[m] + 1
  <2>1. /\ \A x \in People \ {m} : room'[x] = room[x]
        /\ UNCHANGED room \/ (n \in 1..MaxChains /\ room'[m] = NewChain(m, room[m], n))
    BY <1>0, <1>2, SendRoomMessageTypes
  <2>2. UNCHANGED hist
    BY <1>2 DEF SendRoomMessage
  <2> HIDE DEF n
  <2>3. CASE y = m
    <3>1. CASE UNCHANGED room
      BY <1>1, <2>2, <3>1
    <3>2. CASE n \in 1..MaxChains /\ room'[m] = NewChain(m, room[m], n)
      <4>1. NewChain(m, room[m], n).passed = room[m].passed
        BY <1>0, <2>3, <3>2, NewChainOf
      <4>2. QED BY <1>1, <2>2, <2>3, <3>2, <4>1
    <3>3. QED BY <2>1, <3>1, <3>2
  <2>4. CASE y # m
    BY <1>1, <2>1, <2>2, <2>4
  <2>5. QED BY <2>3, <2>4
<1>3. ASSUME NEW m \in People, DistributeChain(m) PROVE Goal
  BY <1>0, <1>3, DistributeChainTypes, PersonTypes, <1>1 DEF DistributeChain, past, Held
<1>4. ASSUME NEW m \in People,
             \/ BroadcastFails(m) \/ SendInvite(m) \/ TellMembers(m) \/ ServeCatchup(m) \/ RequestCatchup(m)
      PROVE Goal
  BY <1>1, <1>4 DEF BroadcastFails, SendInvite, TellMembers, ServeCatchup, RequestCatchup, Mailed, past
<1>5. ASSUME NEW m \in People, SealRoomMessage(m) PROVE Goal
  <2>1. /\ \A x \in People \ {m} : room'[x] = room[x]
        /\ \A c \in Chains : room'[m].passed[c] >= room[m].passed[c]
        /\ \/ UNCHANGED hist
           \/ /\ SealRoomChain(m).index < room'[m].passed[SealRoomChain(m).chain]
              /\ hist' = [hist EXCEPT ![m] = @ \cup {SealRoomChain(m)}]
    <3>1. QED BY <1>0, <1>5, SealRoomMessageTypes
  <2>2. hist \in [People -> SUBSET said]
    BY <1>0 DEF Types, PastType
  <2>3. CASE UNCHANGED hist
    BY <1>0, <2>1, <2>3
  <2>4. CASE /\ SealRoomChain(m).index < room'[m].passed[SealRoomChain(m).chain]
             /\ hist' = [hist EXCEPT ![m] = @ \cup {SealRoomChain(m)}]
    <3>1. CASE y = m
      BY <2>2, <2>4, <3>1, <2>1
    <3>2. CASE y # m
      BY <1>1, <2>1, <2>2, <2>4, <3>2
    <3>3. QED BY <3>1, <3>2
  <2>5. QED BY <2>1, <2>3, <2>4
<1>6. ASSUME NEW m \in People, HandleChainBroadcast(m) PROVE Goal
  BY <1>0, <1>6, HandleChainBroadcastTypes, <1>1 DEF HandleChainBroadcast
<1>7. ASSUME NEW m \in People, HandleRoomMessage(m) PROVE Goal
  BY <1>0, <1>7, HandleRoomMessageTypes, <1>1
<1>8. ASSUME NEW m \in People, MergeCatchup(m) PROVE Goal
  BY <1>0, <1>8, MergeCatchupTypes, <1>1
<1>9. ASSUME NEW m \in People, ApplyRoster(m) PROVE Goal
  BY <1>0, <1>9, ApplyRosterTypes, <1>1 DEF ApplyRoster
<1>10. ASSUME NEW m \in People, HandleRoomInvite(m) PROVE Goal
  BY <1>0, <1>10, HandleRoomInviteTypes, <1>1 DEF HandleRoomInvite
<1>11. ASSUME NEW m \in People, JoinRoom(m) \/ AcceptRoomInvite(m) \/ LeaveRoom(m) PROVE Goal
  <2>1. (\A x \in People \ {m} : room'[x] = room[x]) /\ room'[m].passed = room[m].passed
    BY <1>0, <1>11, JoinRoomTypes, AcceptRoomInviteTypes, LeaveRoomTypes
  <2>2. UNCHANGED hist
    BY <1>11 DEF JoinRoom, AcceptRoomInvite, LeaveRoom, past
  <2>3. QED BY <1>1, <2>1, <2>2
<1>12. ASSUME NEW m \in People, AdoptInviteState(m) PROVE Goal
  BY <1>0, <1>12, AdoptInviteStateTypes, <1>1 DEF AdoptInviteState, past
<1>13. ASSUME NEW m \in People, Quit(m) \/ Crash(m) PROVE Goal
  <2>1. \A x \in People \ {m} : room'[x] = room[x]
    BY <1>0, <1>13, RestartTypes
  <2>2. PICK entry \in Held :
              /\ RestartFrom(m, entry)
              /\ \/ entry = file[m]
                 \/ /\ room[m].encrypted /\ entry.encrypted = room[m].encrypted
                    /\ entry.removed = room[m].removed \cup file[m].removed
                    /\ entry.members \subseteq (room[m].members \cup file[m].members) \ entry.removed
                    /\ entry.out = room[m].out /\ entry.stale = room[m].stale
                    /\ entry.views = room[m].views /\ entry.passed = room[m].passed
              /\ file'[m] = entry
              /\ SameStanding(room'[m], entry) /\ SameChain(room'[m], entry)
              /\ room'[m].views = entry.views /\ room'[m].passed = entry.passed
              /\ "lost" \in Upsets \/ (entry.views = room[m].views /\ entry.passed = room[m].passed)
    BY <1>0, <1>13, RestartTypes
  <2>3. UNCHANGED hist
    BY <2>2 DEF RestartFrom, past
  <2>4. QED BY <1>1, <2>1, <2>2, <2>3
<1>14. ASSUME NEW m \in People, NEW p \in People \ {m}, InviteToRoom(m, p) PROVE Goal
  BY <1>0, <1>14, InviteToRoomTypes, <1>1 DEF InviteToRoom, past
<1>15. ASSUME NEW p \in People, RemoveMember(p) PROVE Goal
  BY <1>0, <1>15, RemoveMemberTypes, <1>1 DEF RemoveMember, past
<1>16. Goal
  BY <1>2, <1>3, <1>4, <1>5, <1>6, <1>7, <1>8, <1>9, <1>10, <1>11, <1>12, <1>13, <1>14, <1>15 DEF Next
<1>17. QED BY <1>16

LEMMA BehindStep ==
  ASSUME Typed, Behind, Next, "lost" \notin Upsets
  PROVE  Behind'
<1>0. Types
  BY DEF Typed
<1> SUFFICES ASSUME NEW y \in People, NEW h \in hist'[y] PROVE h.index < room'[y].passed[h.chain]
  BY DEF Behind
<1>1. /\ \A c \in Chains : room'[y].passed[c] >= room[y].passed[c]
      /\ h \in hist[y] \/ h.index < room'[y].passed[h.chain]
  BY PassedStep
<1>2. CASE h \in hist[y]
  <2>1. h \in said
    BY <1>0, <1>2, PersonTypes
  <2>2. h.chain \in Chains /\ h.index \in Nat
    BY <1>0, <2>1, SaidOf
  <2>3. room'[y].passed[h.chain] \in Nat /\ room[y].passed[h.chain] \in Nat
    BY <1>0, TypedStep, <2>2, NumberTypes DEF Typed, Types, RoomType
  <2>4. h.index < room[y].passed[h.chain]
    BY <1>2 DEF Behind
  <2>5. QED BY <1>1, <2>2, <2>3, <2>4
<1>3. QED BY <1>1, <1>2

LEMMA WiderStep ==
  ASSUME Typed, Wider, Next
  PROVE  Wider'
<1> SUFFICES ASSUME NEW y \in People, NEW c \in Chains PROVE room'[y].views[c] <= file'[y].views[c]
  BY DEF Wider
<1> DEFINE Goal == room'[y].views[c] <= file'[y].views[c]
<1>0. Types /\ Others /\ room[y] \in Held
  BY PersonTypes DEF Typed
<1>1. /\ room[y].views[c] <= file[y].views[c]
      /\ room[y].views[c] \in Nat /\ file[y].views[c] \in Nat
      /\ room'[y].views[c] \in Nat /\ file'[y].views[c] \in Nat
  BY TypedStep, <1>0, PersonTypes, NumberTypes DEF Typed, Types, RoomType, FileType, Wider
<1>2. ASSUME room'[y].views[c] <= room[y].views[c], file'[y] = file[y] PROVE Goal
  BY <1>1, <1>2
<1>3. ASSUME file'[y].views = room'[y].views PROVE Goal
  BY <1>1, <1>3
<1>4. ASSUME room'[y] = room[y], file'[y] = file[y] PROVE Goal
  BY <1>1, <1>4
<1>5. ASSUME room'[y].views = room[y].views, file'[y] = file[y] PROVE Goal
  BY <1>1, <1>5
<1>6. \A m \in People : Saved(m, room'[m]) => file'[m].views = room'[m].views
  BY DEF Saved
<1>7. ASSUME NEW m \in People, SendRoomMessage(m) PROVE Goal
  <2> DEFINE n == minted[m] + 1
  <2>1. /\ \A x \in People \ {m} : room'[x] = room[x]
        /\ UNCHANGED room \/ (n \in 1..MaxChains /\ room'[m] = NewChain(m, room[m], n))
    BY <1>0, <1>7, SendRoomMessageTypes
  <2>2. UNCHANGED file
    BY <1>7 DEF SendRoomMessage
  <2> HIDE DEF n
  <2>3. CASE y # m \/ UNCHANGED room
    BY <1>4, <2>1, <2>2, <2>3
  <2>4. CASE y = m /\ n \in 1..MaxChains /\ room'[m] = NewChain(m, room[m], n)
    <3>1. /\ NewChain(m, room[m], n).views[<<m, n>>] = 0
          /\ \A e \in Chains \ {<<m, n>>} : NewChain(m, room[m], n).views[e] = room[m].views[e]
      BY <1>0, <2>4, NewChainOf
    <3> DEFINE d == <<m, n>>
    <3>2. room'[y].views[d] = 0 /\ (c # d => room'[y].views[c] = room[y].views[c])
      BY <2>4, <3>1
    <3> HIDE DEF d
    <3>3. CASE c = d
      BY <1>1, <3>2, <3>3
    <3>4. CASE c # d
      BY <1>1, <3>2, <3>4, <2>2
    <3>5. QED BY <3>3, <3>4
  <2>5. QED BY <2>1, <2>3, <2>4
<1>8. ASSUME NEW m \in People, DistributeChain(m) PROVE Goal
  BY <1>0, <1>8, DistributeChainTypes, PersonTypes, <1>4, <1>5 DEF DistributeChain, Held
<1>9. ASSUME NEW m \in People,
             \/ BroadcastFails(m) \/ SendInvite(m) \/ TellMembers(m) \/ ServeCatchup(m) \/ RequestCatchup(m)
      PROVE Goal
  BY <1>4, <1>9 DEF BroadcastFails, SendInvite, TellMembers, ServeCatchup, RequestCatchup
<1>10. ASSUME NEW m \in People, SealRoomMessage(m) PROVE Goal
  BY <1>0, <1>10, SealRoomMessageTypes, <1>3, <1>4, <1>5
<1>11. ASSUME NEW m \in People, HandleChainBroadcast(m) PROVE Goal
  BY <1>0, <1>11, HandleChainBroadcastTypes, <1>2, <1>4 DEF HandleChainBroadcast, Arrives
<1>12. ASSUME NEW m \in People, HandleRoomMessage(m) \/ MergeCatchup(m) PROVE Goal
  BY <1>0, <1>12, HandleRoomMessageTypes, MergeCatchupTypes, <1>4, <1>5 DEF HandleRoomMessage,
     Arrives, MergeCatchup
<1>13. ASSUME NEW m \in People, ApplyRoster(m) PROVE Goal
  BY <1>0, <1>13, ApplyRosterTypes, <1>3, <1>4, <1>6
<1>14. ASSUME NEW m \in People, HandleRoomInvite(m) PROVE Goal
  BY <1>0, <1>14, HandleRoomInviteTypes, <1>3, <1>4, <1>6
<1>15. ASSUME NEW m \in People, JoinRoom(m) \/ AcceptRoomInvite(m) \/ LeaveRoom(m) PROVE Goal
  <2>1. (\A x \in People \ {m} : room'[x] = room[x]) /\ room'[m].views = room[m].views
    BY <1>0, <1>15, JoinRoomTypes, AcceptRoomInviteTypes, LeaveRoomTypes
  <2>2. UNCHANGED file
    BY <1>15 DEF JoinRoom, AcceptRoomInvite, LeaveRoom
  <2>3. QED BY <1>4, <1>5, <2>1, <2>2
<1>16. ASSUME NEW m \in People, AdoptInviteState(m) PROVE Goal
  BY <1>0, <1>16, AdoptInviteStateTypes, <1>3, <1>4, <1>6
<1>17. ASSUME NEW m \in People, Quit(m) \/ Crash(m) PROVE Goal
  <2>1. \A x \in People \ {m} : room'[x] = room[x] /\ file'[x] = file[x]
    BY <1>0, <1>17, RestartTypes
  <2>2. file'[m].views = room'[m].views
    <3>1. PICK entry \in Held :
              /\ RestartFrom(m, entry)
              /\ \/ entry = file[m]
                 \/ /\ room[m].encrypted /\ entry.encrypted = room[m].encrypted
                    /\ entry.removed = room[m].removed \cup file[m].removed
                    /\ entry.members \subseteq (room[m].members \cup file[m].members) \ entry.removed
                    /\ entry.out = room[m].out /\ entry.stale = room[m].stale
                    /\ entry.views = room[m].views /\ entry.passed = room[m].passed
              /\ file'[m] = entry
              /\ SameStanding(room'[m], entry) /\ SameChain(room'[m], entry)
              /\ room'[m].views = entry.views /\ room'[m].passed = entry.passed
              /\ "lost" \in Upsets \/ (entry.views = room[m].views /\ entry.passed = room[m].passed)
      BY <1>0, <1>17, RestartTypes
    <3>2. QED BY <3>1
  <2>3. QED BY <1>3, <1>4, <2>1, <2>2
<1>18. ASSUME NEW m \in People, NEW p \in People \ {m}, InviteToRoom(m, p) PROVE Goal
  BY <1>0, <1>18, InviteToRoomTypes, <1>3, <1>4, <1>6
<1>19. ASSUME NEW p \in People, RemoveMember(p) PROVE Goal
  <2>1. (\A x \in People \ {Owner} : room'[x] = room[x] /\ file'[x] = file[x]) /\ Saved(Owner, room'[Owner])
    BY <1>0, <1>19, RemoveMemberTypes
  <2>2. Owner \in People
    BY ViewsAssumption
  <2>3. QED BY <1>3, <1>4, <1>6, <2>1, <2>2
<1>20. Goal
  BY <1>7, <1>8, <1>9, <1>10, <1>11, <1>12, <1>13, <1>14, <1>15, <1>16, <1>17, <1>18, <1>19 DEF Next
<1>21. QED BY <1>20

\* The histories of invitations move as one is sent.
LEMMA InvitedStep ==
  ASSUME Typed, Next
  PROVE  \/ UNCHANGED <<invited, before>>
         \/ \E m \in People : SendInvite(m)
<1>2. ASSUME NEW m \in People,
             \/ SendRoomMessage(m) \/ DistributeChain(m) \/ BroadcastFails(m) \/ SealRoomMessage(m)
             \/ TellMembers(m) \/ HandleChainBroadcast(m) \/ HandleRoomMessage(m)
             \/ ApplyRoster(m) \/ HandleRoomInvite(m) \/ ServeCatchup(m) \/ MergeCatchup(m)
      PROVE  UNCHANGED <<invited, before>>
  BY <1>2 DEF SendRoomMessage, DistributeChain, BroadcastFails, SealRoomMessage, TellMembers,
     HandleChainBroadcast, HandleRoomMessage, ApplyRoster, HandleRoomInvite, ServeCatchup, MergeCatchup,
     Arrives, Mailed, past
<1>3. ASSUME NEW m \in People,
             \/ JoinRoom(m) \/ RequestCatchup(m) \/ AcceptRoomInvite(m) \/ AdoptInviteState(m)
             \/ LeaveRoom(m) \/ Quit(m) \/ Crash(m)
      PROVE  UNCHANGED <<invited, before>>
  <2>1. \A e : RestartFrom(m, e) => UNCHANGED <<invited, before>>
    BY DEF RestartFrom, past
  <2>2. Quit(m) \/ Crash(m) => UNCHANGED <<invited, before>>
    BY <2>1 DEF Quit, Crash
  <2>3. QED BY <1>3, <2>2 DEF JoinRoom, RequestCatchup, AcceptRoomInvite, AdoptInviteState, LeaveRoom, past
<1>4. ASSUME NEW m \in People, NEW p \in People \ {m}, InviteToRoom(m, p) PROVE UNCHANGED <<invited, before>>
  BY <1>4 DEF InviteToRoom, past
<1>5. ASSUME NEW p \in People, RemoveMember(p) PROVE UNCHANGED <<invited, before>>
  BY <1>5 DEF RemoveMember, past
<1>6. QED BY <1>2, <1>3, <1>4, <1>5 DEF Next

\* Where invitations come from.
LEMMA InvitationsStep ==
  ASSUME Typed, Next, NEW y \in People
  PROVE  /\ \A i \in DOMAIN mail'[y] :
              \/ mail'[y][i].kind # "invite" \/ \E j \in DOMAIN mail[y] : mail'[y][i] = mail[y][j]
              \/ \E m \in People : SendInvite(m) /\ invite[m].whom = y
         /\ pending'[y].pc # "none" =>
              \/ pending[y].pc # "none" \/ \E j \in DOMAIN mail[y] : mail[y][j].kind = "invite"
<1> DEFINE InMail == \A i \in DOMAIN mail'[y] :
              \/ mail'[y][i].kind # "invite" \/ \E j \in DOMAIN mail[y] : mail'[y][i] = mail[y][j]
              \/ \E m \in People : SendInvite(m) /\ invite[m].whom = y
           Waiting == pending'[y].pc # "none" =>
              \/ pending[y].pc # "none" \/ \E j \in DOMAIN mail[y] : mail[y][j].kind = "invite"
<1>0. Types /\ Others
  BY DEF Typed
<1>1. UNCHANGED mail => InMail
  OBVIOUS
<1>2. UNCHANGED pending => Waiting
  OBVIOUS
<1>3. ASSUME NEW m \in People, 1 \in DOMAIN mail[m],
             \A i \in DOMAIN mail'[m] : i + 1 \in DOMAIN mail[m] /\ mail'[m][i] = mail[m][i + 1],
             \A x \in People \ {m} : mail'[x] = mail[x]
      PROVE  InMail
  <2>1. CASE y = m
    BY <1>3, <2>1
  <2>2. CASE y # m
    BY <1>3, <2>2
  <2>3. QED BY <2>1, <2>2
<1>4. ASSUME NEW m \in People,
             \/ SendRoomMessage(m) \/ DistributeChain(m) \/ BroadcastFails(m) \/ SealRoomMessage(m)
             \/ HandleChainBroadcast(m) \/ HandleRoomMessage(m) \/ JoinRoom(m) \/ LeaveRoom(m)
      PROVE  InMail /\ Waiting
  <2>1. UNCHANGED <<mail, pending>>
    BY <1>4 DEF SendRoomMessage, DistributeChain, BroadcastFails, SealRoomMessage,
       HandleChainBroadcast, HandleRoomMessage, JoinRoom, LeaveRoom, Arrives
  <2>2. QED BY <1>1, <1>2, <2>1
<1>5. ASSUME NEW m \in People, SendInvite(m) PROVE InMail /\ Waiting
  <2>1. UNCHANGED pending
    BY <1>5 DEF SendInvite
  <2> DEFINE p == invite[m].whom
             it == [kind |-> "invite", by |-> m, chains |-> ChainBundleFor(room[m], m, p),
                    members |-> Roster(m, room[m]).members, removed |-> Roster(m, room[m]).removed]
  <2>2. \A i \in DOMAIN mail'[y] :
          i \in Nat /\ \/ i \in DOMAIN mail[y] /\ mail'[y][i] = mail[y][i]
                       \/ y = p /\ i = Len(mail[y]) + 1 /\ mail'[y][i] = it
    BY <1>0, <1>5, SendInviteTypes
  <2> HIDE DEF it
  <2>3. InMail
    BY <1>5, <2>2
  <2>4. QED BY <1>2, <2>1, <2>3
<1>6. ASSUME NEW m \in People, TellMembers(m) PROVE InMail /\ Waiting
  <2>1. \A i \in DOMAIN mail'[y] :
          \/ i \in DOMAIN mail[y] /\ mail'[y][i] = mail[y][i]
          \/ mail'[y][i] = Roster(m, room[m])
    BY <1>0, <1>6, TellMembersTypes
  <2>2. Roster(m, room[m]).kind = "roster"
    BY DEF Roster
  <2>3. UNCHANGED pending
    BY <1>6 DEF TellMembers
  <2>4. InMail
    BY <2>1, <2>2
  <2>5. QED BY <1>2, <2>3, <2>4
<1>7. ASSUME NEW m \in People, ApplyRoster(m) PROVE InMail /\ Waiting
  <2>1. /\ 1 \in DOMAIN mail[m]
        /\ \A i \in DOMAIN mail'[m] : i + 1 \in DOMAIN mail[m] /\ mail'[m][i] = mail[m][i + 1]
        /\ \A x \in People \ {m} : mail'[x] = mail[x]
    BY <1>0, <1>7, ApplyRosterTypes
  <2>2. UNCHANGED pending
    BY <1>7 DEF ApplyRoster
  <2>3. InMail
    BY <1>3, <2>1
  <2>4. QED BY <1>2, <2>2, <2>3
<1>8. ASSUME NEW m \in People, HandleRoomInvite(m) PROVE InMail /\ Waiting
  <2>1. /\ 1 \in DOMAIN mail[m] /\ mail[m][1] \in Invitation
        /\ \A i \in DOMAIN mail'[m] : i + 1 \in DOMAIN mail[m] /\ mail'[m][i] = mail[m][i + 1]
        /\ \A x \in People \ {m} : mail'[x] = mail[x] /\ pending'[x] = pending[x]
    BY <1>0, <1>8, HandleRoomInviteTypes
  <2>2. mail[m][1].kind = "invite"
    BY <2>1, InvitationTypes
  <2>3. Waiting
    <3>1. CASE y = m
      BY <2>1, <2>2, <3>1
    <3>2. CASE y # m
      BY <2>1, <3>2
    <3>3. QED BY <3>1, <3>2
  <2>4. InMail
    BY <1>3, <2>1
  <2>5. QED BY <2>3, <2>4
<1>9. ASSUME NEW m \in People, ServeCatchup(m) PROVE InMail /\ Waiting
  <2>1. /\ 1 \in DOMAIN mail[m]
        /\ \A i \in DOMAIN mail'[m] : i + 1 \in DOMAIN mail[m] /\ mail'[m][i] = mail[m][i + 1]
        /\ \A x \in People \ {m} : \A i \in DOMAIN mail'[x] :
             \/ i \in DOMAIN mail[x] /\ mail'[x][i] = mail[x][i]
             \/ mail'[x][i].kind = "answer"
    BY <1>0, <1>9, ServeCatchupTypes
  <2>2. UNCHANGED pending
    BY <1>9 DEF ServeCatchup
  <2>3. InMail
    <3>1. CASE y = m
      BY <2>1, <3>1
    <3>2. CASE y # m
      BY <2>1, <3>2
    <3>3. QED BY <3>1, <3>2
  <2>4. QED BY <1>2, <2>2, <2>3
<1>10. ASSUME NEW m \in People, MergeCatchup(m) PROVE InMail /\ Waiting
  BY <1>0, <1>10, MergeCatchupTypes, <1>3, <1>2 DEF MergeCatchup
<1>11. ASSUME NEW m \in People, RequestCatchup(m) PROVE InMail /\ Waiting
  BY <1>0, <1>11, RequestCatchupTypes, <1>2 DEF RequestCatchup
<1>12. ASSUME NEW m \in People, AcceptRoomInvite(m) PROVE InMail /\ Waiting
  <2>1. pending[m].pc # "none" /\ \A x \in People \ {m} : pending'[x] = pending[x]
    BY <1>0, <1>12, AcceptRoomInviteTypes
  <2>2. UNCHANGED mail
    BY <1>12 DEF AcceptRoomInvite
  <2>3. Waiting
    <3>1. CASE y = m
      BY <2>1, <3>1
    <3>2. CASE y # m
      BY <2>1, <3>2
    <3>3. QED BY <3>1, <3>2
  <2>4. QED BY <1>1, <2>2, <2>3
<1>13. ASSUME NEW m \in People, AdoptInviteState(m) PROVE InMail /\ Waiting
  BY <1>0, <1>13, AdoptInviteStateTypes, <1>1 DEF AdoptInviteState
<1>14. ASSUME NEW m \in People, Quit(m) \/ Crash(m) PROVE InMail /\ Waiting
  <2>1. pending'[m].pc = "none" /\ \A x \in People \ {m} : pending'[x] = pending[x]
    BY <1>0, <1>14, RestartTypes
  <2>2. UNCHANGED mail
    BY <1>14 DEF RestartFrom, Quit, Crash
  <2>3. Waiting
    BY <2>1
  <2>4. QED BY <1>1, <2>2, <2>3
<1>15. ASSUME NEW m \in People, NEW p \in People \ {m}, InviteToRoom(m, p) PROVE InMail /\ Waiting
  <2>1. UNCHANGED <<mail, pending>>
    BY <1>15 DEF InviteToRoom
  <2>2. QED BY <1>1, <1>2, <2>1
<1>16. ASSUME NEW p \in People, RemoveMember(p) PROVE InMail /\ Waiting
  <2>1. PICK item \in Mail :
              /\ item.kind = "roster" /\ item.by = Owner
              /\ item.members = (room[Owner].members \ {p}) \cup {Owner}
              /\ item.removed = room[Owner].removed \cup {p}
              /\ \A x \in People : \A i \in DOMAIN mail'[x] :
                   i \in Nat /\ \/ i \in DOMAIN mail[x] /\ mail'[x][i] = mail[x][i]
                                \/ x \in room[Owner].members \ {p} /\ i = Len(mail[x]) + 1
                                   /\ mail'[x][i] = item
    BY <1>0, <1>16, RemoveMemberTypes
  <2>2. UNCHANGED pending
    BY <1>16 DEF RemoveMember
  <2>3. InMail
    BY <2>1
  <2>4. QED BY <1>2, <2>2, <2>3
<1>17. InMail /\ Waiting
  BY <1>4, <1>5, <1>6, <1>7, <1>8, <1>9, <1>10, <1>11, <1>12, <1>13, <1>14, <1>15, <1>16 DEF Next
<1>18. QED BY <1>17

LEMMA UninvitedStep ==
  ASSUME Typed, Uninvited, Next
  PROVE  Uninvited'
<1>1. Types /\ invited \subseteq invited' /\ \A m \in People : SendInvite(m) => invite[m].whom \in invited'
  BY InvitedStep DEF Typed, SendInvite
<1>2. SUFFICES ASSUME NEW y \in People, y \notin invited'
               PROVE  pending'[y].pc = "none" /\ \A i \in DOMAIN mail'[y] : mail'[y][i].kind # "invite"
  BY DEF Uninvited
<1>3. /\ pending[y].pc = "none"
      /\ \A i \in DOMAIN mail[y] : mail[y][i].kind # "invite"
  BY <1>1, <1>2 DEF Uninvited
<1>4. \A m \in People : ~(SendInvite(m) /\ invite[m].whom = y)
  BY <1>1, <1>2
<1>5. QED BY <1>3, <1>4, InvitationsStep

\* Who mints a chain reads no further in any other.
LEMMA MintsNew ==
  ASSUME Typed, Numbered, NEW p \in People, SendRoomMessage(p), NEW c \in Chains, c[2] <= minted[c[1]]
  PROVE  room'[p].views[c] = room[p].views[c]
<1> DEFINE n == minted[p] + 1
<1>0. Types /\ room[p] \in Held /\ minted[p] \in Nat /\ c[2] \in Nat
  <2>1. Types
    BY DEF Typed
  <2>2. c[2] \in 1..MaxChains
    BY DEF Chains
  <2>3. c[2] \in Nat
    BY <2>2, MaxChainsType
  <2>4. room[p] \in Held
    BY <2>1, PersonTypes
  <2>5. minted[p] \in Nat
    BY <2>1, OutTypes
  <2>6. QED BY <2>1, <2>3, <2>4, <2>5
<1>1. UNCHANGED room \/ (n \in 1..MaxChains /\ room'[p] = NewChain(p, room[p], n))
  BY <1>0, SendRoomMessageTypes
<1>2. c # <<p, n>>
  <2>1. n > minted[p]
    BY <1>0
  <2> HIDE DEF n
  <2>2. SUFFICES ASSUME c = <<p, n>> PROVE FALSE
    OBVIOUS
  <2>3. n <= minted[p]
    BY <2>2
  <2>4. n = c[2] /\ n \in Nat
    BY <1>0, <2>2
  <2>5. QED BY <1>0, <2>1, <2>3, <2>4
<1> HIDE DEF n
<1>3. n \in 1..MaxChains => \A d \in Chains \ {<<p, n>>} : NewChain(p, room[p], n).views[d] = room[p].views[d]
  BY <1>0, NewChainOf
<1>4. QED BY <1>1, <1>2, <1>3

LEMMA ForwardStep ==
  ASSUME Kept, Next, "lost" \notin Upsets
  PROVE  Forward'
<1>0. Typed /\ Types /\ Numbered /\ Behind /\ Wider /\ Uninvited /\ Forward
  BY DEF Kept, Chained, Typed
<1> SUFFICES ASSUME NEW p \in People, NEW h \in before'[p]
             PROVE  Beyond(p, h.chain, h.index)'
  BY DEF Forward
<1>1. before \in [People -> SUBSET said]
  BY <1>0 DEF Types, PastType
<1>2. ASSUME NEW m \in People, SendInvite(m), invite[m].whom = p
      PROVE  /\ h \in hist[m] /\ ~CanOpen(room[p], h) /\ ~Underway(p, h.chain)
             /\ p \in invited => h \in before[p]
  <2> DEFINE was == {t \in hist[m] : p \notin t.for /\ ~CanOpen(room[p], t) /\ ~Underway(p, t.chain)}
  <2>1. before' = [before EXCEPT ![p] = IF p \in invited THEN @ \cap was ELSE was]
    BY <1>2 DEF SendInvite
  <2>2. before'[p] = IF p \in invited THEN before[p] \cap was ELSE was
    BY <1>1, <2>1
  <2>3. QED BY <2>2
<1>3. ASSUME \A m \in People : ~(SendInvite(m) /\ invite[m].whom = p)
      PROVE  h \in before[p]
  <2>1. CASE UNCHANGED before
    BY <2>1
  <2>2. ASSUME NEW m \in People, SendInvite(m) PROVE h \in before[p]
    <3>1. invite[m].whom # p
      BY <1>3, <2>2
    <3>2. PICK S : before' = [before EXCEPT ![invite[m].whom] = S]
      BY <2>2 DEF SendInvite
    <3>3. before'[p] = before[p]
      BY <1>1, <3>1, <3>2
    <3>4. QED BY <3>3
  <2>3. QED BY <1>0, <2>1, <2>2, InvitedStep
<1>4. h \in said
  BY <1>0, PersonTypes, <1>1, <1>2, <1>3
<1>5. h.chain \in Chains /\ h.index \in Nat /\ h.chain[1] \in People /\ h.chain[2] \in 1..MaxChains
      /\ h.chain = <<h.chain[1], h.chain[2]>>
  BY <1>0, <1>4, SaidOf DEF Chains
<1> DEFINE c == h.chain
           k == h.index
<1>6. Beyond(p, c, k)
  <2>1. CASE h \in before[p]
    BY <1>0, <2>1 DEF Forward
  <2>2. CASE h \notin before[p]
    <3>1. PICK m \in People : SendInvite(m) /\ invite[m].whom = p
      BY <1>3, <2>2
    <3>2. ~CanOpen(room[p], h) /\ ~Underway(p, c) /\ p \notin invited
      BY <1>2, <2>2, <3>1
    <3>3. room[p].views[c] \in Nat /\ file[p].views[c] \in Nat /\ room[p].views[c] <= file[p].views[c]
      BY <1>0, <1>5, ViewTypes DEF Wider
    <3>4. room[p].views[c] > k
      BY <1>5, <3>2, <3>3 DEF CanOpen
    <3>5. file[p].views[c] > k
      BY <1>5, <3>3, <3>4
    <3>6. /\ pending[p].pc = "none"
          /\ \A i \in DOMAIN mail[p] : mail[p][i].kind # "invite"
      BY <1>0, <3>2 DEF Uninvited
    <3>7. QED BY <3>2, <3>4, <3>5, <3>6 DEF Beyond
  <2>3. QED BY <2>1, <2>2
<1>7. \A m \in People : DistributeChain(m) => c # <<m, room[m].out>>
  BY <1>0, <1>4 DEF DistributeChain, Numbered
<1>8. ASSUME NEW m \in People, SendInvite(m), invite[m].whom = p
      PROVE  ChainBundleFor(room[m], m, p)[c] > k
  <2>1. h \in hist[m] /\ room[m] \in Held
    BY <1>0, <1>2, <1>8, PersonTypes
  <2>2. k < room[m].passed[c] /\ room[m].passed[c] \in Nat
    BY <1>0, <1>5, <2>1, NumberTypes DEF Behind
  <2>3. /\ ChainBundleFor(room[m], m, p)[c] >= room[m].passed[c] /\ ChainBundleFor(room[m], m, p) \in Offers
    BY <1>5, <2>1, BundleOf
  <2>4. ChainBundleFor(room[m], m, p)[c] \in Nat
    BY <1>5, <2>3, NeverType DEF Offers
  <2>5. QED BY <1>5, <2>2, <2>3, <2>4
<1>9. SendRoomMessage(p) => room'[p].views[c] = room[p].views[c]
  BY <1>0, <1>4, <1>5, MintsNew DEF Numbered
<1> HIDE DEF c, k
<1>10. Beyond(p, c, k)'
  <2>1. c \in Chains /\ k \in Nat
    BY <1>5 DEF c, k
  <2>2. QED BY <1>0, <1>6, <1>7, <1>8, <1>9, <2>1, BeyondStays
<1>11. QED BY <1>10 DEF c, k

LEMMA KeptInit == Init => Kept
<1> SUFFICES ASSUME Init PROVE Kept
  OBVIOUS
<1>1. Chained /\ Types
  BY ChainedInit DEF Chained, Typed
<1>2. \A y \in People : hist[y] = {} /\ before[y] = {} /\ mail[y] = <<>> /\ pending[y].pc = "none"
  BY DEF Init, NoInvite
<1>3. Behind /\ Uninvited /\ Forward
  BY <1>2 DEF Behind, Uninvited, Forward
<1>4. Wider
  <2> SUFFICES ASSUME NEW y \in People, NEW c \in Chains PROVE room[y].views[c] <= file[y].views[c]
    BY DEF Wider
  <2>1. room[y] \in Held /\ room[y].views[c] \in Nat
    BY <1>1, PersonTypes, ViewTypes
  <2>2. file[y].views = room[y].views
    BY <2>1 DEF Init, Held
  <2>3. QED BY <2>1, <2>2
<1>5. QED BY <1>1, <1>3, <1>4 DEF Kept

LEMMA KeptStep ==
  ASSUME Kept, [Next]_vars, "lost" \notin Upsets
  PROVE  Kept'
<1>1. Chained'
  BY ChainedStep DEF Kept
<1>2. CASE Next
  BY <1>2, BehindStep, WiderStep, UninvitedStep, <1>1, ForwardStep DEF Kept, Chained
<1>3. CASE UNCHANGED vars
  BY <1>1, <1>3 DEF vars, past, Kept, Behind, Wider, Uninvited, Forward, Beyond, Underway
<1>4. QED BY <1>2, <1>3

\* Who is invited reads what is said from then on, and nothing the inviter had seen said
\* before it, as long as no program stops with positions it has not saved.
THEOREM ForwardHolds ==
  ASSUME "lost" \notin Upsets
  PROVE  Spec => []NewcomersReadForward
<1>1. Init => Kept
  BY KeptInit
<1>2. Kept /\ [Next]_vars => Kept'
  BY KeptStep
<1>3. Kept => NewcomersReadForward
  <2> SUFFICES ASSUME Kept, NEW p \in People, NEW h \in before[p] PROVE ~CanOpen(room[p], h)
    BY DEF NewcomersReadForward
  <2>1. Types /\ Forward
    BY DEF Kept, Chained, Typed
  <2>2. h \in said
    BY <2>1 DEF Types, PastType
  <2>3. h.chain \in Chains /\ h.index \in Nat
    BY <2>1, <2>2, SaidOf
  <2>4. room[p].views[h.chain] \in Nat /\ room[p].views[h.chain] > h.index
    BY <2>1, <2>3, ViewTypes DEF Forward, Beyond
  <2>5. QED BY <2>3, <2>4 DEF CanOpen
<1>4. QED BY <1>1, <1>2, <1>3, PTL DEF Spec

-----------------------------------------------------------------------------
(* Removals: what everybody knows of them, and what is on its way. *)

\* What y's other steps, and anybody else's, leave of y's standing and chain.
LEMMA CalmStep ==
  ASSUME Typed, Next, NEW y \in People,
         ~SendRoomMessage(y), ~ApplyRoster(y), ~AdoptInviteState(y), ~(Quit(y) \/ Crash(y)),
         \A p \in People \ {y} : ~InviteToRoom(y, p),
         \A p \in People : y = Owner => ~RemoveMember(p)
  PROVE  /\ SameStanding(room'[y], room[y])
         /\ room'[y].out = room[y].out /\ room'[y].stale = room[y].stale
         /\ file'[y] = file[y] \/ Refiled(y)
         /\ send[y] = "none" => send'[y] = "none"
<1> DEFINE Goal == /\ SameStanding(room'[y], room[y])
                   /\ room'[y].out = room[y].out /\ room'[y].stale = room[y].stale
                   /\ file'[y] = file[y] \/ Refiled(y)
                   /\ send[y] = "none" => send'[y] = "none"
<1>0. Types /\ Others /\ room[y] \in Held
  BY PersonTypes DEF Typed
<1>1. ASSUME UNCHANGED <<room[y], file[y]>>, send'[y] = send[y] \/ send[y] # "none" PROVE Goal
  BY <1>1, SameChainSelf
<1>2. \A m \in People : Saved(m, room'[m]) => Refiled(m)
  BY DEF Saved, Refiled
<1>3. ASSUME SameStanding(room'[y], room[y]), SameChain(room'[y], room[y]), UNCHANGED send,
             file'[y] = file[y] \/ Saved(y, room'[y])
      PROVE  Goal
  BY <1>2, <1>3 DEF SameChain
<1>4. ASSUME NEW m \in People, SendRoomMessage(m) PROVE Goal
  BY <1>4, <1>0, SendRoomMessageTypes, <1>1 DEF SendRoomMessage
<1>5. ASSUME NEW m \in People, DistributeChain(m) PROVE Goal
  <2>1. /\ room'[m] = [room[m] EXCEPT !.shared = TRUE]
        /\ \A x \in People \ {m} : room'[x] = room[x] /\ send'[x] = send[x]
    BY <1>0, <1>5, DistributeChainTypes
  <2>2. UNCHANGED file /\ send[m] = "give"
    BY <1>5 DEF DistributeChain
  <2>3. CASE y = m
    BY <1>0, <2>1, <2>3, <2>2 DEF Held, SameStanding
  <2>4. CASE y # m
    BY <1>1, <2>1, <2>2, <2>4
  <2>5. QED BY <2>3, <2>4
<1>6. ASSUME NEW m \in People, BroadcastFails(m) PROVE Goal
  BY <1>6, <1>0, BroadcastFailsTypes, <1>1 DEF BroadcastFails
<1>7. ASSUME NEW m \in People, SealRoomMessage(m) PROVE Goal
  <2>1. /\ send'[m] = "none"
        /\ \A x \in People \ {m} : room'[x] = room[x] /\ file'[x] = file[x] /\ send'[x] = send[x]
        /\ SameStanding(room'[m], room[m])
        /\ room'[m].out = room[m].out /\ room'[m].stale = room[m].stale
        /\ \/ UNCHANGED file
           \/ /\ file'[m].encrypted = room[m].encrypted
              /\ file'[m].removed = room[m].removed \cup file[m].removed
              /\ file'[m].members \subseteq (room[m].members \cup file[m].members) \ file'[m].removed
              /\ file'[m].out = room[m].out /\ file'[m].stale = room[m].stale
    BY <1>0, <1>7, SealRoomMessageTypes
  <2>2. CASE y # m
    BY <1>1, <2>1, <2>2
  <2>3. CASE y = m
    BY <2>1, <1>7, <2>3 DEF Refiled, SameStanding, SealRoomMessage
  <2>4. QED BY <2>2, <2>3
<1>8. ASSUME NEW m \in People,
             \/ SendInvite(m) \/ TellMembers(m) \/ ServeCatchup(m) \/ RequestCatchup(m)
      PROVE Goal
  BY <1>1, <1>8 DEF SendInvite, TellMembers, ServeCatchup, RequestCatchup, Mailed
<1>9. ASSUME NEW m \in People, UNCHANGED <<file, send>>, \A x \in People \ {m} : room'[x] = room[x],
             SameStanding(room'[m], room[m]), SameChain(room'[m], room[m])
      PROVE  Goal
  BY <1>1, <1>3, <1>9
<1>10. ASSUME NEW m \in People, HandleChainBroadcast(m) PROVE Goal
  <2>1. UNCHANGED <<file, send>>
    BY <1>10 DEF HandleChainBroadcast, Arrives
  <2>2. QED BY <1>0, <1>9, <1>10, <2>1, HandleChainBroadcastTypes
<1>11. ASSUME NEW m \in People, HandleRoomMessage(m) PROVE Goal
  BY <1>11, <1>0, <1>9, HandleRoomMessageTypes DEF HandleRoomMessage, Arrives
<1>12. ASSUME NEW m \in People, MergeCatchup(m) PROVE Goal
  BY <1>12, <1>0, <1>9, MergeCatchupTypes DEF MergeCatchup, Mailed
<1>13. ASSUME NEW m \in People, JoinRoom(m) \/ AcceptRoomInvite(m) PROVE Goal
  BY <1>13, <1>0, <1>9, JoinRoomTypes, AcceptRoomInviteTypes DEF JoinRoom, AcceptRoomInvite
<1>14. ASSUME NEW m \in People, LeaveRoom(m) PROVE Goal
  BY <1>14, <1>0, <1>9, LeaveRoomTypes DEF LeaveRoom
<1>15. ASSUME NEW m \in People, HandleRoomInvite(m) PROVE Goal
  BY <1>0, <1>15, HandleRoomInviteTypes, <1>1, <1>3 DEF HandleRoomInvite, Mailed
<1>16. ASSUME NEW m \in People, ApplyRoster(m) PROVE Goal
  <2>1. m # y
    BY <1>16
  <2>2. room'[y] = room[y] /\ file'[y] = file[y]
    BY <1>0, <1>16, <2>1, ApplyRosterTypes
  <2>3. UNCHANGED send
    BY <1>16 DEF ApplyRoster, Mailed
  <2>4. QED BY <1>1, <2>2, <2>3
<1>17. ASSUME NEW m \in People, AdoptInviteState(m) PROVE Goal
  <2>1. m # y
    BY <1>17
  <2>2. room'[y] = room[y] /\ file'[y] = file[y]
    <3>1. \A x \in People \ {m} : room'[x] = room[x] /\ file'[x] = file[x]
      BY <1>0, <1>17, AdoptInviteStateTypes
    <3>2. QED BY <2>1, <3>1
  <2>3. UNCHANGED send
    BY <1>17 DEF AdoptInviteState
  <2>4. QED BY <1>1, <2>2, <2>3
<1>18. ASSUME NEW m \in People, Quit(m) \/ Crash(m) PROVE Goal
  BY <1>18, <1>0, RestartTypes, <1>1
<1>19. ASSUME NEW m \in People, NEW p \in People \ {m}, InviteToRoom(m, p) PROVE Goal
  <2>1. m # y
    BY <1>19
  <2>2. room'[y] = room[y] /\ file'[y] = file[y]
    BY <1>0, <1>19, <2>1, InviteToRoomTypes
  <2>3. UNCHANGED send
    BY <1>19 DEF InviteToRoom
  <2>4. QED BY <1>1, <2>2, <2>3
<1>20. ASSUME NEW p \in People, RemoveMember(p) PROVE Goal
  BY <1>20, <1>0, RemoveMemberTypes, <1>1 DEF RemoveMember
<1>21. Goal
  BY <1>4, <1>5, <1>6, <1>7, <1>8, <1>10, <1>11, <1>12, <1>13, <1>14, <1>15, <1>16, <1>17,
     <1>18, <1>19, <1>20 DEF Next
<1>22. QED BY <1>21

LEMMA OwnerType == Owner \in People
  BY ViewsAssumption

\* A roster at the head of the mail, taken.
LEMMA RosterTaken ==
  ASSUME Typed, Informed, NEW y \in People, ApplyRoster(y), ~UNCHANGED <<room, file>>
  PROVE  /\ room[y].encrypted /\ room'[y].encrypted /\ Refiled(y) /\ file[y].removed \subseteq room'[y].removed
         /\ room[y].removed \subseteq room'[y].removed
         /\ room'[y].removed \subseteq (room[y].removed \cup mail[y][1].removed) \ {y}
         /\ mail[y][1].kind = "roster" /\ 1 \in DOMAIN mail[y]
         /\ room'[y].members \cap room'[y].removed = {}
         /\ room'[y].out = room[y].out
         /\ room'[y].stale \/ (room'[y].stale = room[y].stale /\ room'[y].removed \subseteq room[y].removed)
<1> DEFINE it == mail[y][1]
<1>0. Types /\ Knows(y) /\ InOrder(y)
  BY DEF Typed, Informed
<1>1. /\ 1 \in DOMAIN mail[y] /\ it \in Mail /\ it.kind = "roster"
      /\ room[y].encrypted /\ room'[y].encrypted /\ Saved(y, room'[y])
      /\ room'[y].out = room[y].out
      /\ \/ /\ it.by # Owner /\ room'[y].removed = room[y].removed
            /\ room'[y].members = room[y].members \cup (it.members \ ({y} \cup room[y].removed))
            /\ room'[y].stale = room[y].stale
         \/ /\ it.by = Owner /\ room'[y].members = it.members \ {y}
            /\ room'[y].removed = (room[y].removed \cup it.removed) \ it.members
            /\ room'[y].stale = (room[y].stale \/ ~(it.removed \subseteq room[y].removed))
  BY <1>0, ApplyRosterTypes
<1>2. Word(y, it) /\ (it.by = Owner => it.members \cap room[y].removed = {})
  BY <1>0, <1>1 DEF InOrder, States, Bans
<1>3. Refiled(y)
  BY <1>1 DEF Saved, Refiled
<1>4. room[y].removed \subseteq Gone \ {y} /\ it.removed \subseteq Gone \ {y} /\ file[y].removed = room[y].removed
      /\ room[y].members \cap room[y].removed = {}
  BY <1>0, <1>2 DEF Knows, Word
<1>5. CASE /\ it.by # Owner /\ room'[y].removed = room[y].removed
           /\ room'[y].members = room[y].members \cup (it.members \ ({y} \cup room[y].removed))
           /\ room'[y].stale = room[y].stale
  BY <1>1, <1>3, <1>4, <1>5
<1>6. CASE /\ it.by = Owner /\ room'[y].members = it.members \ {y}
           /\ room'[y].removed = (room[y].removed \cup it.removed) \ it.members
           /\ room'[y].stale = (room[y].stale \/ ~(it.removed \subseteq room[y].removed))
  <2>1. room[y].removed \subseteq room'[y].removed
    BY <1>2, <1>6
  <2>2. room'[y].stale \/ (room'[y].stale = room[y].stale /\ room'[y].removed \subseteq room[y].removed)
    <3>1. CASE it.removed \subseteq room[y].removed
      BY <1>6, <3>1, <1>0, PersonTypes, NumberTypes
    <3>2. CASE ~(it.removed \subseteq room[y].removed)
      BY <1>6, <3>2
    <3>3. QED BY <3>1, <3>2
  <2>3. room'[y].removed \subseteq (room[y].removed \cup it.removed) \ {y} /\ room'[y].members \cap room'[y].removed = {}
    BY <1>4, <1>6
  <2>4. QED BY <1>1, <1>3, <1>4, <2>1, <2>2, <2>3
<1>7. QED BY <1>1, <1>5, <1>6

\* An invitation adopted.
LEMMA InviteAdopted ==
  ASSUME Typed, Informed, Settled, NEW y \in People, AdoptInviteState(y)
  PROVE  /\ room'[y].encrypted = TRUE /\ Refiled(y) /\ pending[y].pc # "none" /\ pending'[y].pc = "none"
         /\ room[y].removed \subseteq room'[y].removed
         /\ room'[y].removed \subseteq Bans(y) \ {y}
         /\ room'[y].members \cap room'[y].removed = {}
         /\ room'[y].out = room[y].out /\ room'[y].stale = room[y].stale
         /\ room'[y].removed = room[y].removed \/ room'[y].out = 0
<1> DEFINE it == pending[y].what
           gone == IF it.by = Owner THEN (room[y].removed \cup it.removed) \ it.members
                   ELSE room[y].removed
<1>0. Types /\ Others /\ Knows(y) /\ InOrder(y)
  BY DEF Typed, Informed
<1>1. /\ it \in Invitation /\ pending[y].pc = "adopt" /\ pending'[y].pc = "none"
      /\ room'[y].encrypted = TRUE /\ room'[y].removed = gone
      /\ room'[y].members = room[y].members \cup {it.by} \cup (it.members \ ({y} \cup gone))
      /\ SameChain(room'[y], room[y]) /\ Saved(y, room'[y])
  BY <1>0, AdoptInviteStateTypes
<1>2. Word(y, it)
  BY <1>0, <1>1 DEF InOrder
<1>3. Refiled(y) /\ room'[y].out = room[y].out /\ room'[y].stale = room[y].stale
  BY <1>1 DEF Saved, Refiled, SameChain
<1>4. gone \subseteq (room[y].removed \cup it.removed) /\ room[y].removed \subseteq Gone \ {y} /\ it.removed \subseteq Gone \ {y}
  BY <1>0, <1>2 DEF Knows, Word
<1>5. room'[y].removed \subseteq Bans(y) \ {y}
  BY <1>1, <1>4 DEF Bans
<1>6. CASE room[y].encrypted
  BY <1>6, <1>1, <1>3, <1>5 DEF Settled
<1>7. CASE ~room[y].encrypted
  BY <1>0, <1>7, <1>2, <1>1, <1>3, <1>5 DEF Knows, Word
<1>8. QED BY <1>6, <1>7

\* A restart is from the file, or from what a save would leave.
LEMMA Restarted ==
  ASSUME Typed, Informed, NEW y \in People, Quit(y) \/ Crash(y)
  PROVE  /\ room'[y].encrypted = room[y].encrypted /\ file'[y].encrypted = room[y].encrypted
         /\ room'[y].removed = room[y].removed /\ file'[y].removed = room[y].removed
         /\ room'[y].members \cap room[y].removed = {} /\ file'[y].members = room'[y].members
         /\ room'[y].members \subseteq room[y].members \cup file[y].members
         /\ room'[y].out = file'[y].out /\ room'[y].stale = file'[y].stale
         /\ \/ room'[y].out = room[y].out /\ room'[y].stale = room[y].stale
            \/ room'[y].out = file[y].out /\ room'[y].stale = file[y].stale
         /\ pending'[y].pc = "none" /\ send'[y] = "none"
<1>0. Types /\ Knows(y)
  BY DEF Typed, Informed
<1>1. PICK entry \in Held :
              /\ RestartFrom(y, entry)
              /\ \/ entry = file[y]
                 \/ /\ room[y].encrypted /\ entry.encrypted = room[y].encrypted
                    /\ entry.removed = room[y].removed \cup file[y].removed
                    /\ entry.members \subseteq (room[y].members \cup file[y].members) \ entry.removed
                    /\ entry.out = room[y].out /\ entry.stale = room[y].stale
                    /\ entry.views = room[y].views /\ entry.passed = room[y].passed
              /\ file'[y] = entry
              /\ SameStanding(room'[y], entry) /\ SameChain(room'[y], entry)
              /\ room'[y].views = entry.views /\ room'[y].passed = entry.passed
              /\ "lost" \in Upsets \/ (entry.views = room[y].views /\ entry.passed = room[y].passed)
  BY <1>0, RestartTypes
<1>2. pending'[y].pc = "none" /\ send'[y] = "none"
  BY <1>0, RestartTypes
<1>3. /\ entry.encrypted = room[y].encrypted /\ entry.removed = room[y].removed
      /\ entry.members \cap room[y].removed = {}
      /\ entry.members \subseteq room[y].members \cup file[y].members
      /\ \/ entry.out = room[y].out /\ entry.stale = room[y].stale
         \/ entry.out = file[y].out /\ entry.stale = file[y].stale
  BY <1>0, <1>1 DEF Knows
<1>4. QED BY <1>1, <1>2, <1>3 DEF SameStanding, SameChain

\* Nobody forgets a removal.
LEMMA RemovedStays ==
  ASSUME Typed, Informed, Settled, Next, NEW y \in People
  PROVE  room[y].removed \subseteq room'[y].removed
<1>0. Types /\ room[y] \in Held
  BY PersonTypes DEF Typed
<1>1. ASSUME SendRoomMessage(y) PROVE room'[y].removed = room[y].removed
  <2> DEFINE n == minted[y] + 1
  <2>1. UNCHANGED room \/ (n \in 1..MaxChains /\ room'[y] = NewChain(y, room[y], n))
    BY <1>0, <1>1, SendRoomMessageTypes
  <2> HIDE DEF n
  <2>2. n \in 1..MaxChains => NewChain(y, room[y], n).removed = room[y].removed
    BY <1>0, NewChainOf
  <2>3. QED BY <2>1, <2>2
<1>2. CASE ApplyRoster(y)
  BY <1>2, RosterTaken
<1>3. CASE AdoptInviteState(y)
  BY <1>3, InviteAdopted
<1>4. CASE Quit(y) \/ Crash(y)
  BY <1>4, Restarted
<1>5. ASSUME NEW p \in People \ {y}, InviteToRoom(y, p) PROVE room'[y].removed = room[y].removed
  BY <1>0, <1>5, InviteToRoomTypes
<1>6. ASSUME NEW p \in People, RemoveMember(p), y = Owner PROVE room[y].removed \subseteq room'[y].removed
  BY <1>0, <1>6, RemoveMemberTypes
<1>7. CASE /\ ~SendRoomMessage(y) /\ ~ApplyRoster(y) /\ ~AdoptInviteState(y) /\ ~(Quit(y) \/ Crash(y))
           /\ \A p \in People \ {y} : ~InviteToRoom(y, p)
           /\ \A p \in People : y = Owner => ~RemoveMember(p)
  BY <1>7, CalmStep DEF SameStanding
<1>8. QED BY <1>1, <1>2, <1>3, <1>4, <1>5, <1>6, <1>7

LEMMA GoneStays ==
  ASSUME Typed, Informed, Settled, Next
  PROVE  Gone \subseteq Gone'
  BY RemovedStays, OwnerType DEF Gone

LEMMA KnowsStep ==
  ASSUME Typed, Informed, Settled, Next, NEW y \in People
  PROVE  Knows(y)'
<1>0. Types /\ Knows(y) /\ InOrder(y) /\ Gone \subseteq Gone' /\ room[y] \in Held
  BY GoneStays, PersonTypes DEF Typed, Informed
<1>1. /\ file[y].removed = room[y].removed /\ file[y].encrypted = room[y].encrypted
      /\ room[y].removed \subseteq Gone \ {y}
      /\ room[y].members \cap room[y].removed = {} /\ file[y].members \cap room[y].removed = {}
      /\ ~room[y].encrypted =>
            /\ room[y].removed = {} /\ room[y].members = {} /\ file[y].members = {}
            /\ room[y].out = 0 /\ file[y].out = 0 /\ send[y] = "none"
  BY <1>0 DEF Knows
<1>2. ASSUME SameStanding(room'[y], room[y]), room'[y].out = room[y].out,
             file'[y] = file[y] \/ Refiled(y), send[y] = "none" => send'[y] = "none"
      PROVE  Knows(y)'
  BY <1>2, <1>1, <1>0 DEF SameStanding, Refiled, Knows
<1>3. ASSUME room'[y].encrypted, Refiled(y), room[y].removed \subseteq room'[y].removed,
             room'[y].removed \subseteq Gone' \ {y}, room'[y].members \cap room'[y].removed = {}
      PROVE  Knows(y)'
  BY <1>1, <1>3 DEF Refiled, Knows
<1>4. ASSUME SendRoomMessage(y) PROVE Knows(y)'
  <2> DEFINE n == minted[y] + 1
  <2>1. UNCHANGED room \/ (n \in 1..MaxChains /\ room'[y] = NewChain(y, room[y], n))
    BY <1>0, <1>4, SendRoomMessageTypes
  <2>2. UNCHANGED file /\ room[y].encrypted
    BY <1>4 DEF SendRoomMessage
  <2> HIDE DEF n
  <2>3. SameStanding(room'[y], room[y])
    <3>1. n \in 1..MaxChains => /\ NewChain(y, room[y], n).removed = room[y].removed
                                /\ NewChain(y, room[y], n).members = room[y].members
                                /\ NewChain(y, room[y], n).encrypted = room[y].encrypted
      BY <1>0, NewChainOf
    <3>2. QED BY <2>1, <3>1 DEF SameStanding
  <2>4. QED BY <1>0, <1>1, <2>2, <2>3 DEF SameStanding, Knows
<1>5. ASSUME ApplyRoster(y) PROVE Knows(y)'
  <2>1. CASE UNCHANGED <<room, file>>
    <3>1. UNCHANGED send
      BY <1>5 DEF ApplyRoster, Mailed
    <3>2. QED BY <1>2, <2>1, <3>1, SameChainSelf
  <2>2. CASE ~UNCHANGED <<room, file>>
    BY <1>5, <2>2, RosterTaken, <1>0, <1>1, <1>3 DEF InOrder, States, Word
  <2>3. QED BY <2>1, <2>2
<1>6. ASSUME AdoptInviteState(y) PROVE Knows(y)'
  BY <1>6, InviteAdopted, <1>0, <1>1, <1>3 DEF InOrder, Word, Bans
<1>7. ASSUME Quit(y) \/ Crash(y) PROVE Knows(y)'
  BY <1>7, Restarted, <1>0, <1>1 DEF Knows
<1>8. ASSUME NEW p \in People \ {y}, InviteToRoom(y, p) PROVE Knows(y)'
  BY <1>0, <1>8, InviteToRoomTypes, <1>1, <1>3 DEF Saved, Refiled
<1>9. ASSUME NEW p \in People, RemoveMember(p), y = Owner PROVE Knows(y)'
  <2>1. /\ room[Owner].encrypted /\ p \in room[Owner].members
        /\ room'[Owner].encrypted = room[Owner].encrypted
        /\ room'[Owner].removed = room[Owner].removed \cup {p}
        /\ room'[Owner].members = room[Owner].members \ {p} /\ Saved(Owner, room'[Owner])
    BY <1>0, <1>9, RemoveMemberTypes
  <2>2. Refiled(y) /\ p # y
    <3>1. Refiled(y)
      BY <1>9, <2>1 DEF Saved, Refiled
    <3>2. Owner \notin room[Owner].members
      BY <1>0, PersonTypes, OwnerType
    <3>3. QED BY <1>9, <2>1, <3>1, <3>2
  <2>3. room'[y].members \cap room'[y].removed = {} /\ room'[y].removed \subseteq Gone' \ {y}
    BY <1>1, <1>9, <2>1, <2>2 DEF Gone
  <2>4. QED BY <1>3, <1>9, <2>1, <2>2, <2>3
<1>10. CASE /\ ~SendRoomMessage(y) /\ ~ApplyRoster(y) /\ ~AdoptInviteState(y) /\ ~(Quit(y) \/ Crash(y))
            /\ \A p \in People \ {y} : ~InviteToRoom(y, p)
            /\ \A p \in People : y = Owner => ~RemoveMember(p)
  BY <1>2, <1>10, CalmStep
<1>11. QED BY <1>4, <1>5, <1>6, <1>7, <1>8, <1>9, <1>10

\* At most one more roster or invitation, in which the owner lists nobody removed.
LEMMA OrderAppended ==
  ASSUME NEW y \in People, InOrder(y), mail[y] \in Seq(Mail), Gone \subseteq Gone', Bans(y) \subseteq Gone,
         y = Owner \/ Bans(y)' \subseteq Bans(y),
         pending'[y].pc # "none" => pending[y].pc # "none" /\ pending'[y].what = pending[y].what,
         \A i \in DOMAIN mail'[y] :
            i \in Nat /\ \/ i \in DOMAIN mail[y] /\ mail'[y][i] = mail[y][i]
                         \/ /\ i = Len(mail[y]) + 1
                            /\ States(mail'[y][i]) =>
                                 /\ Word(y, mail[y][i])'
                                 /\ mail'[y][i].by = Owner => mail'[y][i].members \cap Gone = {}
  PROVE  InOrder(y)'
<1>1. pending'[y].pc # "none" => Word(y, pending[y].what)' /\ pending'[y].what = pending[y].what
  BY DEF InOrder, Word
<1>2. \A i \in DOMAIN mail'[y] : States(mail'[y][i]) => Word(y, mail[y][i])'
  <2> SUFFICES ASSUME NEW i \in DOMAIN mail'[y], States(mail'[y][i]) PROVE Word(y, mail[y][i])'
    OBVIOUS
  <2>1. CASE i \in DOMAIN mail[y] /\ mail'[y][i] = mail[y][i]
    BY <2>1 DEF InOrder, Word
  <2>2. CASE ~(i \in DOMAIN mail[y] /\ mail'[y][i] = mail[y][i])
    BY <2>2
  <2>3. QED BY <2>1, <2>2
<1>3. ASSUME NEW i \in DOMAIN mail'[y], States(mail'[y][i]), mail'[y][i].by = Owner
      PROVE  /\ mail'[y][i].members \cap Bans(y)' = {}
             /\ \A j \in DOMAIN mail'[y] : j < i /\ States(mail'[y][j]) =>
                  mail'[y][i].members \cap mail'[y][j].removed = {}
  <2>1. y # Owner /\ Bans(y)' \subseteq Bans(y)
    BY <1>2, <1>3 DEF Word
  <2>2. Len(mail[y]) \in Nat /\ DOMAIN mail[y] = 1..Len(mail[y])
    OBVIOUS
  <2>3. CASE i \in DOMAIN mail[y] /\ mail'[y][i] = mail[y][i]
    BY <1>3, <2>3, <2>2, <2>1 DEF InOrder
  <2>4. CASE ~(i \in DOMAIN mail[y] /\ mail'[y][i] = mail[y][i])
    BY <1>3, <2>4, <2>2, <2>1 DEF InOrder, Word
  <2>5. QED BY <2>3, <2>4
<1>4. QED BY <1>1, <1>2, <1>3 DEF InOrder

\* The first of the mail is taken, and with it what it says of removals.
LEMMA OrderTaken ==
  ASSUME NEW y \in People, InOrder(y), mail[y] \in Seq(Mail), mail'[y] \in Seq(Mail), Gone \subseteq Gone',
         1 \in DOMAIN mail[y],
         \A i \in DOMAIN mail'[y] : i \in Nat /\ i + 1 \in DOMAIN mail[y] /\ mail'[y][i] = mail[y][i + 1],
         Bans(y)' \subseteq Bans(y) \cup (IF States(mail[y][1]) THEN mail[y][1].removed ELSE {}),
         pending'[y].pc # "none" =>
           \/ pending[y].pc # "none" /\ pending'[y].what = pending[y].what
           \/ States(mail[y][1]) /\ pending'[y].what = mail[y][1]
  PROVE  InOrder(y)'
<1>1. pending'[y].pc # "none" => Word(y, pending[y].what)'
  <2> SUFFICES ASSUME pending'[y].pc # "none" PROVE Word(y, pending[y].what)'
    OBVIOUS
  <2>1. CASE pending[y].pc # "none" /\ pending'[y].what = pending[y].what
    BY <2>1 DEF InOrder, Word
  <2>2. CASE States(mail[y][1]) /\ pending'[y].what = mail[y][1]
    BY <2>2 DEF InOrder, Word
  <2>3. QED BY <2>1, <2>2
<1>2. \A i \in DOMAIN mail'[y] : States(mail'[y][i]) => Word(y, mail[y][i])'
  <2> SUFFICES ASSUME NEW i \in DOMAIN mail'[y], States(mail'[y][i]) PROVE Word(y, mail[y][i])'
    OBVIOUS
  <2> DEFINE k == i + 1
  <2>1. k \in DOMAIN mail[y] /\ mail'[y][i] = mail[y][k]
    OBVIOUS
  <2> HIDE DEF k
  <2>2. QED BY <2>1 DEF InOrder, Word
<1>3. ASSUME NEW i \in DOMAIN mail'[y], States(mail'[y][i]), mail'[y][i].by = Owner
      PROVE  /\ mail'[y][i].members \cap Bans(y)' = {}
             /\ \A j \in DOMAIN mail'[y] : j < i /\ States(mail'[y][j]) =>
                  mail'[y][i].members \cap mail'[y][j].removed = {}
  <2> DEFINE k == i + 1
  <2>1. k \in DOMAIN mail[y] /\ mail'[y][i] = mail[y][k] /\ 1 < k
    OBVIOUS
  <2>2. \A j \in DOMAIN mail'[y] : j < i => j + 1 \in DOMAIN mail[y] /\ mail'[y][j] = mail[y][j + 1] /\ j + 1 < k
    OBVIOUS
  <2> HIDE DEF k
  <2>3. /\ mail[y][k].members \cap Bans(y) = {}
        /\ \A j \in DOMAIN mail[y] : j < k /\ States(mail[y][j]) =>
             mail[y][k].members \cap mail[y][j].removed = {}
    BY <1>3, <2>1 DEF InOrder
  <2>4. mail'[y][i].members \cap Bans(y)' = {}
    BY <2>1, <2>3
  <2>5. QED BY <2>1, <2>2, <2>3, <2>4
<1>4. QED BY <1>1, <1>2, <1>3 DEF InOrder

\* Nobody removed is invited, as long as nobody brings them back unknowing.
LEMMA InvitesOnlyKept ==
  ASSUME "readmit" \notin Upsets, NEW m \in People, SendInvite(m)
  PROVE  invite[m].whom \notin Gone
  BY DEF SendInvite, Upset, Gone

\* What the owner says now, and to whom, goes with what the owner has removed.
LEMMA SpokenNow ==
  ASSUME Typed, Informed, NEW m \in People, NEW y \in People \ Gone, y # m
  PROVE  /\ Roster(m, room[m]).removed \subseteq Gone \ {y}
         /\ m # Owner => Roster(m, room[m]).removed = {}
         /\ m \in Roster(m, room[m]).members
         /\ m = Owner => Roster(m, room[m]).members \cap Gone = {}
<1>1. room[m] \in Held /\ Knows(Owner)
  BY PersonTypes, OwnerType DEF Typed, Informed
<1>2. /\ Roster(m, room[m]).members = room[m].members \cup {m}
      /\ Roster(m, room[m]).removed = IF m = Owner THEN room[m].removed ELSE {}
  BY <1>1, RosterOf
<1>3. Owner \notin Gone /\ room[Owner].members \cap Gone = {}
  BY <1>1 DEF Knows, Gone
<1>4. QED BY <1>2, <1>3 DEF Gone

\* When y's list of the removed is as it was.
LEMMA RemovedSame ==
  ASSUME Typed, Informed, Next, NEW y \in People
  PROVE  \/ room'[y].removed = room[y].removed
         \/ ApplyRoster(y) \/ AdoptInviteState(y)
         \/ y = Owner /\ \E p \in People : RemoveMember(p)
<1>0. Types /\ room[y] \in Held
  BY PersonTypes DEF Typed
<1>1. ASSUME SendRoomMessage(y) PROVE room'[y].removed = room[y].removed
  <2> DEFINE n == minted[y] + 1
  <2>1. UNCHANGED room \/ (n \in 1..MaxChains /\ room'[y] = NewChain(y, room[y], n))
    BY <1>0, <1>1, SendRoomMessageTypes
  <2> HIDE DEF n
  <2>2. n \in 1..MaxChains => NewChain(y, room[y], n).removed = room[y].removed
    BY <1>0, NewChainOf
  <2>3. QED BY <2>1, <2>2
<1>2. CASE Quit(y) \/ Crash(y)
  BY <1>2, Restarted
<1>3. ASSUME NEW p \in People \ {y}, InviteToRoom(y, p) PROVE room'[y].removed = room[y].removed
  BY <1>0, <1>3, InviteToRoomTypes
<1>4. CASE /\ ~SendRoomMessage(y) /\ ~ApplyRoster(y) /\ ~AdoptInviteState(y) /\ ~(Quit(y) \/ Crash(y))
           /\ \A p \in People \ {y} : ~InviteToRoom(y, p)
           /\ \A p \in People : y = Owner => ~RemoveMember(p)
  BY <1>4, CalmStep DEF SameStanding
<1>5. QED BY <1>1, <1>2, <1>3, <1>4

LEMMA InOrderStep ==
  ASSUME Typed, Informed, Settled, Next, "readmit" \notin Upsets, NEW y \in People
  PROVE  InOrder(y)'
<1>0. /\ Types /\ Others /\ Knows(y) /\ InOrder(y) /\ Gone \subseteq Gone'
      /\ mail[y] \in Seq(Mail) /\ mail'[y] \in Seq(Mail)
  BY TypedStep, GoneStays DEF Typed, Types, MailType, Informed
<1>1. Bans(y) \subseteq Gone
  BY <1>0 DEF InOrder, Word, Knows, Bans
<1> DEFINE Pends == pending'[y].pc # "none" => pending[y].pc # "none" /\ pending'[y].what = pending[y].what
<1>2. ASSUME room'[y].removed = room[y].removed, Pends PROVE Bans(y)' \subseteq Bans(y)
  BY <1>2 DEF Bans
<1>3. ASSUME mail'[y] = mail[y]
      PROVE  \A i \in DOMAIN mail'[y] : i \in Nat /\ i \in DOMAIN mail[y] /\ mail'[y][i] = mail[y][i]
  BY <1>0, <1>3
<1>4. ASSUME room'[y].removed = room[y].removed, Pends, mail'[y] = mail[y] PROVE InOrder(y)'
  BY <1>0, <1>1, <1>2, <1>3, <1>4, OrderAppended
<1>5. ASSUME ApplyRoster(y) PROVE InOrder(y)'
  <2>1. /\ 1 \in DOMAIN mail[y] /\ mail[y][1].kind = "roster"
        /\ \A i \in DOMAIN mail'[y] : i \in Nat /\ i + 1 \in DOMAIN mail[y] /\ mail'[y][i] = mail[y][i + 1]
    BY <1>0, <1>5, ApplyRosterTypes
  <2>2. UNCHANGED pending
    BY <1>5 DEF ApplyRoster
  <2>3. States(mail[y][1])
    BY <2>1 DEF States
  <2>4. room'[y].removed \subseteq room[y].removed \cup mail[y][1].removed
    <3>1. CASE UNCHANGED <<room, file>>
      BY <3>1
    <3>2. CASE ~UNCHANGED <<room, file>>
      BY <1>5, <3>2, RosterTaken
    <3>3. QED BY <3>1, <3>2
  <2>5. Bans(y)' \subseteq Bans(y) \cup (IF States(mail[y][1]) THEN mail[y][1].removed ELSE {})
    BY <2>2, <2>3, <2>4 DEF Bans
  <2>6. QED BY <1>0, <2>1, <2>2, <2>5, OrderTaken
<1>6. ASSUME AdoptInviteState(y) PROVE InOrder(y)'
  BY <1>6, InviteAdopted, <1>0, <1>1, <1>3, OrderAppended DEF Bans, AdoptInviteState
<1>7. ASSUME y = Owner, NEW p \in People, RemoveMember(p) PROVE InOrder(y)'
  <2>1. PICK item \in Mail :
              /\ item.kind = "roster" /\ item.by = Owner
              /\ item.members = (room[Owner].members \ {p}) \cup {Owner}
              /\ item.removed = room[Owner].removed \cup {p}
              /\ \A x \in People : \A i \in DOMAIN mail'[x] :
                   i \in Nat /\ \/ i \in DOMAIN mail[x] /\ mail'[x][i] = mail[x][i]
                                \/ x \in room[Owner].members \ {p} /\ i = Len(mail[x]) + 1
                                   /\ mail'[x][i] = item
    BY <1>0, <1>7, RemoveMemberTypes
  <2>2. y \notin room[Owner].members
    BY <1>0, <1>7, PersonTypes
  <2>3. UNCHANGED pending
    BY <1>7 DEF RemoveMember
  <2>4. \A i \in DOMAIN mail'[y] : i \in Nat /\ i \in DOMAIN mail[y] /\ mail'[y][i] = mail[y][i]
    BY <2>1, <2>2
  <2>5. QED BY <1>0, <1>1, <1>7, <2>3, <2>4, OrderAppended
<1>8. ASSUME room'[y].removed = room[y].removed PROVE InOrder(y)'
  <2> DEFINE Goal == InOrder(y)'
  <2>1. ASSUME NEW m \in People,
               \/ SendRoomMessage(m) \/ DistributeChain(m) \/ BroadcastFails(m) \/ SealRoomMessage(m)
               \/ HandleChainBroadcast(m) \/ HandleRoomMessage(m) \/ JoinRoom(m) \/ LeaveRoom(m)
        PROVE  Goal
    <3>1. UNCHANGED <<mail, pending>>
      BY <2>1 DEF SendRoomMessage, DistributeChain, BroadcastFails, SealRoomMessage,
         HandleChainBroadcast, HandleRoomMessage, JoinRoom, LeaveRoom, Arrives
    <3>2. QED BY <1>4, <1>8, <3>1
  <2>2. ASSUME NEW m \in People, NEW p \in People \ {m}, InviteToRoom(m, p) PROVE Goal
    BY <2>2, <1>4, <1>8 DEF InviteToRoom
  <2>3. ASSUME NEW m \in People, SendInvite(m) PROVE Goal
    <3> DEFINE p == invite[m].whom
               it == [kind |-> "invite", by |-> m, chains |-> ChainBundleFor(room[m], m, p),
                      members |-> Roster(m, room[m]).members, removed |-> Roster(m, room[m]).removed]
    <3>1. \A i \in DOMAIN mail'[y] :
            i \in Nat /\ \/ i \in DOMAIN mail[y] /\ mail'[y][i] = mail[y][i]
                         \/ y = p /\ i = Len(mail[y]) + 1 /\ mail'[y][i] = it
      BY <1>0, <2>3, SendInviteTypes
    <3>2. UNCHANGED pending
      BY <2>3 DEF SendInvite
    <3>3. it.by = m /\ it.members = Roster(m, room[m]).members /\ it.removed = Roster(m, room[m]).removed
      OBVIOUS
    <3> HIDE DEF it
    <3>4. ASSUME y = p
          PROVE  /\ it.removed \subseteq Gone \ {y} /\ (it.by # Owner => it.removed = {})
                 /\ it.by \in it.members /\ it.by # y
                 /\ it.by = Owner => it.members \cap Gone = {}
      <4>1. y \notin Gone
        BY <2>3, <3>4, InvitesOnlyKept
      <4>2. y # m
        BY <1>0, <3>4 DEF Others
      <4>3. QED BY <3>3, <4>1, <4>2, SpokenNow
    <3>5. \A i \in DOMAIN mail'[y] :
            i \in Nat /\ \/ i \in DOMAIN mail[y] /\ mail'[y][i] = mail[y][i]
                         \/ /\ i = Len(mail[y]) + 1
                            /\ States(mail'[y][i]) =>
                                 /\ Word(y, mail[y][i])'
                                 /\ mail'[y][i].by = Owner => mail'[y][i].members \cap Gone = {}
      BY <1>0, <3>1, <3>4 DEF Word
    <3>6. QED BY <1>0, <1>1, <1>2, <1>8, <3>2, <3>5, OrderAppended
  <2>4. ASSUME NEW m \in People, TellMembers(m) PROVE Goal
    <3> DEFINE it == Roster(m, room[m])
    <3>1. \A i \in DOMAIN mail'[y] :
            i \in Nat /\ \/ i \in DOMAIN mail[y] /\ mail'[y][i] = mail[y][i]
                         \/ y \in room[m].members /\ i = Len(mail[y]) + 1 /\ mail'[y][i] = it
      BY <1>0, <2>4, TellMembersTypes
    <3>2. UNCHANGED pending
      BY <2>4 DEF TellMembers
    <3>3. it.by = m
      BY DEF Roster
    <3>4. ASSUME y \in room[m].members
          PROVE  /\ it.removed \subseteq Gone' \ {y} /\ (it.by # Owner => it.removed = {})
                 /\ it.by \in it.members /\ it.by # y
                 /\ it.by = Owner => it.members \cap Gone = {}
      <4>1. y # m
        BY <1>0, <3>4, PersonTypes
      <4>2. CASE m = Owner
        <5>1. y \notin Gone
          BY <3>4, <4>2, OwnerType DEF Informed, Knows, Gone
        <5>2. QED BY <1>0, <3>3, <4>1, <5>1, SpokenNow
      <4>3. CASE m # Owner
        <5>1. room[m] \in Held
          BY <1>0, PersonTypes
        <5>2. it.removed = {} /\ m \in it.members
          BY <4>3, <5>1, RosterOf
        <5>3. QED BY <3>3, <4>1, <4>3, <5>2
      <4>4. QED BY <4>2, <4>3
    <3> HIDE DEF it
    <3>5. \A i \in DOMAIN mail'[y] :
            i \in Nat /\ \/ i \in DOMAIN mail[y] /\ mail'[y][i] = mail[y][i]
                         \/ /\ i = Len(mail[y]) + 1
                            /\ States(mail'[y][i]) =>
                                 /\ Word(y, mail[y][i])'
                                 /\ mail'[y][i].by = Owner => mail'[y][i].members \cap Gone = {}
      BY <1>0, <3>1, <3>4 DEF Word
    <3>6. QED BY <1>0, <1>1, <1>2, <1>8, <3>2, <3>5, OrderAppended
  <2>5. ASSUME NEW m \in People, ApplyRoster(m) PROVE Goal
    <3>1. CASE m = y
      BY <1>5, <2>5, <3>1
    <3>2. CASE m # y
      BY <1>0, <2>5, <3>2, ApplyRosterTypes, <1>4, <1>8 DEF ApplyRoster
    <3>3. QED BY <3>1, <3>2
  <2>6. ASSUME NEW m \in People, HandleRoomInvite(m) PROVE Goal
    <3>1. /\ 1 \in DOMAIN mail[m] /\ mail[m][1] \in Invitation
          /\ \A i \in DOMAIN mail'[m] : i \in Nat /\ i + 1 \in DOMAIN mail[m] /\ mail'[m][i] = mail[m][i + 1]
          /\ \A x \in People \ {m} : mail'[x] = mail[x] /\ pending'[x] = pending[x]
          /\ pending'[m] = [pc |-> "waiting", what |-> mail[m][1]] \/ UNCHANGED pending
      BY <1>0, <2>6, HandleRoomInviteTypes
    <3>2. CASE m = y
      <4>1. States(mail[y][1])
        BY <3>1, <3>2, InvitationTypes DEF States
      <4>2. CASE UNCHANGED pending
        BY <1>2, <1>8, <4>2, <1>0, <3>1, <3>2, OrderTaken
      <4>3. CASE pending'[m] = [pc |-> "waiting", what |-> mail[m][1]]
        <5>1. pending'[y].what = mail[y][1] /\ pending'[y].pc # "none"
          BY <3>2, <4>3
        <5>2. Bans(y)' \subseteq Bans(y) \cup (IF States(mail[y][1]) THEN mail[y][1].removed ELSE {})
          BY <1>8, <4>1, <5>1 DEF Bans
        <5>3. QED BY <1>0, <3>1, <3>2, <4>1, <5>1, <5>2, OrderTaken
      <4>4. QED BY <3>1, <4>2, <4>3
    <3>3. CASE m # y
      BY <1>4, <1>8, <3>1, <3>3
    <3>4. QED BY <3>2, <3>3
  <2>7. ASSUME NEW m \in People, ServeCatchup(m) PROVE Goal
    <3>1. /\ 1 \in DOMAIN mail[m]
          /\ \A i \in DOMAIN mail'[m] : i \in Nat /\ i + 1 \in DOMAIN mail[m] /\ mail'[m][i] = mail[m][i + 1]
          /\ \A x \in People \ {m} : \A i \in DOMAIN mail'[x] :
               i \in Nat /\ \/ i \in DOMAIN mail[x] /\ mail'[x][i] = mail[x][i]
                            \/ i = Len(mail[x]) + 1 /\ mail'[x][i].kind = "answer"
      BY <1>0, <2>7, ServeCatchupTypes
    <3>2. UNCHANGED pending
      BY <2>7 DEF ServeCatchup
    <3>3. Bans(y)' \subseteq Bans(y)
      BY <1>2, <1>8, <3>2
    <3>4. CASE m = y
      BY <1>0, <3>1, <3>2, <3>3, <3>4, OrderTaken
    <3>5. CASE m # y
      BY <3>1, <3>5, <1>0, <1>1, <3>2, <3>3, OrderAppended DEF States
    <3>6. QED BY <3>4, <3>5
  <2>8. ASSUME NEW m \in People, MergeCatchup(m) PROVE Goal
    <3>1. /\ 1 \in DOMAIN mail[m]
          /\ \A i \in DOMAIN mail'[m] : i \in Nat /\ i + 1 \in DOMAIN mail[m] /\ mail'[m][i] = mail[m][i + 1]
          /\ \A x \in People \ {m} : mail'[x] = mail[x]
      BY <1>0, <2>8, MergeCatchupTypes
    <3>2. UNCHANGED pending
      BY <2>8 DEF MergeCatchup
    <3>3. Bans(y)' \subseteq Bans(y)
      BY <1>2, <1>8, <3>2
    <3>4. CASE m = y
      BY <1>0, <3>1, <3>2, <3>3, <3>4, OrderTaken
    <3>5. CASE m # y
      BY <1>4, <1>8, <3>1, <3>2, <3>5
    <3>6. QED BY <3>4, <3>5
  <2>9. ASSUME NEW m \in People, RequestCatchup(m) PROVE Goal
    BY <1>0, <2>9, RequestCatchupTypes, <1>1, <1>2, <1>8, OrderAppended DEF RequestCatchup, States
  <2>10. ASSUME NEW m \in People, AcceptRoomInvite(m) PROVE Goal
    BY <1>0, <2>10, AcceptRoomInviteTypes, <1>4, <1>8 DEF AcceptRoomInvite
  <2>11. ASSUME NEW m \in People, AdoptInviteState(m) PROVE Goal
    BY <1>0, <2>11, AdoptInviteStateTypes, <1>4, <1>8 DEF AdoptInviteState
  <2>12. ASSUME NEW m \in People, Quit(m) \/ Crash(m) PROVE Goal
    <3>1. pending'[m].pc = "none" /\ \A x \in People \ {m} : pending'[x] = pending[x]
      BY <1>0, <2>12, RestartTypes
    <3>2. UNCHANGED mail
      BY <2>12 DEF RestartFrom, Quit, Crash
    <3>3. Pends
      BY <3>1
    <3>4. QED BY <1>4, <1>8, <3>2, <3>3
  <2>13. ASSUME NEW p \in People, RemoveMember(p) PROVE Goal
    <3>1. PICK item \in Mail :
              /\ item.kind = "roster" /\ item.by = Owner
              /\ item.members = (room[Owner].members \ {p}) \cup {Owner}
              /\ item.removed = room[Owner].removed \cup {p}
              /\ \A x \in People : \A i \in DOMAIN mail'[x] :
                   i \in Nat /\ \/ i \in DOMAIN mail[x] /\ mail'[x][i] = mail[x][i]
                                \/ x \in room[Owner].members \ {p} /\ i = Len(mail[x]) + 1
                                   /\ mail'[x][i] = item
      BY <1>0, <2>13, RemoveMemberTypes
    <3>2. UNCHANGED pending
      BY <2>13 DEF RemoveMember
    <3>3. Gone' = Gone \cup {p}
      BY <1>0, <2>13, RemoveMemberTypes DEF Gone
    <3>4. ASSUME y \in room[Owner].members \ {p}
          PROVE  /\ item.removed \subseteq Gone' \ {y} /\ (item.by # Owner => item.removed = {})
                 /\ item.by \in item.members /\ item.by # y
                 /\ item.by = Owner => item.members \cap Gone = {}
      <4>1. room[Owner].members \cap Gone = {} /\ Owner \notin Gone /\ Owner \notin room[Owner].members
        BY <1>0, OwnerType, PersonTypes DEF Informed, Knows, Gone
      <4>2. QED BY <3>1, <3>3, <3>4, <4>1 DEF Gone
    <3>5. \A i \in DOMAIN mail'[y] :
            i \in Nat /\ \/ i \in DOMAIN mail[y] /\ mail'[y][i] = mail[y][i]
                         \/ /\ i = Len(mail[y]) + 1
                            /\ States(mail'[y][i]) =>
                                 /\ Word(y, mail[y][i])'
                                 /\ mail'[y][i].by = Owner => mail'[y][i].members \cap Gone = {}
      BY <3>1, <3>4 DEF Word
    <3>6. QED BY <1>0, <1>1, <1>2, <1>8, <3>2, <3>5, OrderAppended
  <2>14. QED
    BY <2>1, <2>2, <2>3, <2>4, <2>5, <2>6, <2>7, <2>8, <2>9, <2>10, <2>11, <2>12, <2>13 DEF Next
<1>9. QED BY <1>5, <1>6, <1>7, <1>8, RemovedSame

-----------------------------------------------------------------------------
(* What the removed can read. *)

LEMMA CleanStays ==
  ASSUME Chained, Next, "readmit" \notin Upsets, NEW x \in People, x \in Gone,
         NEW c \in Chains, c[2] <= minted[c[1]], Clean(x, c),
         \A m \in People : DistributeChain(m) => c # <<m, room[m].out>> \/ x \notin room[m].members
  PROVE  Clean(x, c)'
<1> DEFINE k == Never - 1
<1>1. k \in Nat /\ Never' = Never
  BY NeverType DEF Never
<1>2. Typed /\ Numbered /\ Beyond(x, c, k)
  BY DEF Chained, Clean
<1>3. \A m \in People : ~(SendInvite(m) /\ invite[m].whom = x)
  BY InvitesOnlyKept
<1>4. SendRoomMessage(x) => room'[x].views[c] = room[x].views[c]
  BY <1>2, MintsNew
<1> HIDE DEF k
<1>5. Beyond(x, c, k)'
  BY <1>1, <1>2, <1>3, <1>4, BeyondStays
<1>6. QED BY <1>5 DEF k, Clean

LEMMA ShutStays ==
  ASSUME Chained, Informed, Next, "readmit" \notin Upsets, NEW m \in People, Shut(m),
         NEW r \in {room[m], file[m]}, r.out # 0, ~r.stale, NEW x \in room[m].removed
  PROVE  x \in People /\ x \in Gone /\ x # m /\ <<m, r.out>> \in Chains /\ Clean(x, <<m, r.out>>)'
<1>0. Typed /\ Types /\ Numbered /\ Knows(m)
  BY DEF Chained, Typed, Informed
<1>1. r \in Held /\ room[m] \in Held
  BY <1>0, PersonTypes
<1>2. r.out \in 1..MaxChains /\ x \in People
  BY <1>1, NumberTypes, MaxChainsType
<1>3. x \in Gone /\ x # m /\ x \notin room[m].members
  BY <1>0 DEF Knows
<1> DEFINE c == <<m, r.out>>
<1>4. c \in Chains /\ c[1] = m /\ c[2] = r.out
  BY <1>2 DEF Chains
<1>5. c[2] <= minted[c[1]]
  BY <1>0, <1>4 DEF Numbered
<1>6. Clean(x, c)
  BY DEF Shut
<1>7. \A n \in People : DistributeChain(n) => c # <<n, room[n].out>> \/ x \notin room[n].members
  BY <1>3, <1>4
<1> HIDE DEF c
<1>8. Clean(x, c)'
  BY <1>2, <1>3, <1>4, <1>5, <1>6, <1>7, CleanStays
<1>9. QED BY <1>2, <1>3, <1>4, <1>8 DEF c

LEMMA ShutStep ==
  ASSUME Chained, Informed, Settled, Next, "readmit" \notin Upsets, NEW m \in People, Shut(m)
  PROVE  Shut(m)'
<1>0. Typed /\ Types /\ Numbered /\ Unminted /\ Knows(m) /\ room[m] \in Held
  BY PersonTypes DEF Chained, Typed, Informed
<1> SUFFICES ASSUME NEW q \in {room'[m], file'[m]}, q.out # 0, ~q.stale, NEW x \in room'[m].removed
             PROVE  Clean(x, <<m, q.out>>)'
  BY DEF Shut
<1>1. ASSUME NEW r \in {room[m], file[m]}, q.out = r.out, q.stale = r.stale, x \in room[m].removed
      PROVE  Clean(x, <<m, q.out>>)'
  BY <1>1, ShutStays DEF Clean, Beyond, Underway
<1>2. Refiled(m) => q.out = room'[m].out /\ q.stale = room'[m].stale
  BY DEF Refiled
<1>3. ASSUME SendRoomMessage(m) PROVE Clean(x, <<m, q.out>>)'
  <2> DEFINE n == minted[m] + 1
  <2>1. /\ \A y \in People \ {m} : room'[y] = room[y]
        /\ UNCHANGED room \/ (n \in 1..MaxChains /\ room'[m] = NewChain(m, room[m], n))
    BY <1>0, <1>3, SendRoomMessageTypes
  <2>2. UNCHANGED <<file, inbox, mail, pending>>
    BY <1>3 DEF SendRoomMessage
  <2>3. CASE UNCHANGED room
    BY <1>1, <2>2, <2>3
  <2>4. CASE n \in 1..MaxChains /\ room'[m] = NewChain(m, room[m], n)
    <3>0. minted[m] \in Nat
      BY <1>0, OutTypes
    <3>1. n > minted[m]
      BY <3>0
    <3> HIDE DEF n
    <3>2. NewChain(m, room[m], n).out = n /\ NewChain(m, room[m], n).removed = room[m].removed
      BY <1>0, <2>4, NewChainOf
    <3>2a. room'[m].out = n /\ room'[m].removed = room[m].removed
      BY <2>4, <3>2
    <3>3. CASE q = file'[m]
      BY <1>1, <2>2, <3>2a, <3>3
    <3>4. CASE q = room'[m]
      <4>1. x \in People /\ x # m
        BY <1>0, <3>2a, NumberTypes DEF Knows
      <4>2. Clean(x, <<m, n>>)
        BY <1>0, <2>4, <3>1, <4>1 DEF Unminted, Clean
      <4>3. room'[x] = room[x]
        BY <2>1, <4>1
      <4>4. Never' = Never
        BY DEF Never
      <4>5. q.out = n
        BY <3>2a, <3>4
      <4>6. QED BY <2>2, <4>2, <4>3, <4>4, <4>5 DEF Clean, Beyond, Underway
    <3>5. QED BY <3>3, <3>4
  <2>5. QED BY <2>1, <2>3, <2>4
<1>4. ASSUME ApplyRoster(m) PROVE Clean(x, <<m, q.out>>)'
  <2>1. CASE UNCHANGED <<room, file>>
    BY <1>1, <2>1
  <2>2. CASE ~UNCHANGED <<room, file>>
    BY <1>0, <1>4, <2>2, RosterTaken, <1>1, <1>2
  <2>3. QED BY <2>1, <2>2
<1>5. ASSUME AdoptInviteState(m) PROVE Clean(x, <<m, q.out>>)'
  BY <1>0, <1>5, InviteAdopted, <1>1, <1>2
<1>6. ASSUME Quit(m) \/ Crash(m) PROVE Clean(x, <<m, q.out>>)'
  BY <1>0, <1>6, Restarted, <1>1
<1>7. ASSUME NEW p \in People \ {m}, InviteToRoom(m, p) PROVE Clean(x, <<m, q.out>>)'
  BY <1>0, <1>7, InviteToRoomTypes, <1>1, <1>2 DEF Saved, Refiled, SameChain
<1>8. ASSUME NEW p \in People, RemoveMember(p), m = Owner PROVE Clean(x, <<m, q.out>>)'
  BY <1>0, <1>8, RemoveMemberTypes DEF Saved
<1>9. CASE /\ ~SendRoomMessage(m) /\ ~ApplyRoster(m) /\ ~AdoptInviteState(m) /\ ~(Quit(m) \/ Crash(m))
           /\ \A p \in People \ {m} : ~InviteToRoom(m, p)
           /\ \A p \in People : m = Owner => ~RemoveMember(p)
  BY <1>0, <1>9, CalmStep, <1>1, <1>2 DEF SameStanding
<1>10. QED BY <1>3, <1>4, <1>5, <1>6, <1>7, <1>8, <1>9

LEMMA PastStep ==
  ASSUME Chained, Informed, Settled, Past, Next, "readmit" \notin Upsets, \A m \in People : Shut(m)
  PROVE  Past'
<1>0. Typed /\ Types /\ Numbered /\ Gone \subseteq Gone'
  BY GoneStays DEF Chained, Typed
<1>1. ASSUME NEW h \in said, NEW x \in h.barred PROVE x \in Gone' /\ Clean(x, h.chain)'
  <2>1. x \in Gone /\ Clean(x, h.chain)
    BY <1>1 DEF Past
  <2>2. x \in People
    <3>1. room[Owner] \in Held
      BY <1>0, PersonTypes, OwnerType
    <3>2. QED BY <2>1, <3>1, NumberTypes DEF Gone
  <2>3. h.chain \in Chains /\ h.chain[2] <= minted[h.chain[1]]
    BY <1>0, SaidOf DEF Numbered
  <2>4. \A m \in People : DistributeChain(m) => h.chain # <<m, room[m].out>>
    BY <1>0 DEF DistributeChain, Numbered
  <2>5. Clean(x, h.chain)'
    BY <2>1, <2>2, <2>3, <2>4, CleanStays
  <2>6. QED BY <1>0, <2>1, <2>5
<1>2. ASSUME NEW m \in People, Usable(room[m]), NEW h, h = SealRoomChain(m), NEW x \in h.barred
      PROVE  x \in Gone' /\ Clean(x, h.chain)'
  <2>1. PICK r \in {room[m], file[m]} : r = room[m]
    OBVIOUS
  <2>2. h.chain = <<m, r.out>> /\ h.barred = room[m].removed
    BY <1>2, <2>1 DEF SealRoomChain
  <2>3. Shut(m) /\ r.out # 0 /\ ~r.stale /\ x \in room[m].removed
    BY <1>2, <2>1, <2>2 DEF Usable
  <2>4. x \in Gone /\ Clean(x, <<m, r.out>>)'
    BY <2>3, ShutStays
  <2>5. Clean(x, h.chain)'
    BY <2>2, <2>4 DEF Clean, Beyond, Underway
  <2>6. QED BY <1>0, <2>4, <2>5
<1>3. CASE UNCHANGED said
  <2>1. \A h \in said' : h \in said
    BY <1>3
  <2>2. QED BY <1>1, <2>1 DEF Past
<1>4. CASE \E m \in People :
              /\ SealRoomMessage(m) /\ Usable(room[m]) /\ send[m] = "seal"
              /\ said' = said \cup {SealRoomChain(m)}
  <2>1. PICK m \in People : Usable(room[m]) /\ said' = said \cup {SealRoomChain(m)}
    BY <1>4
  <2>2. ASSUME NEW h \in said', NEW x \in h.barred PROVE x \in Gone' /\ Clean(x, h.chain)'
    BY <2>1, <1>1, <1>2
  <2>3. QED BY <2>2 DEF Past
<1>5. QED BY <1>0, <1>3, <1>4, SaidStep

LEMMA OwnerStays ==
  ASSUME Typed, Informed, Settled, Next
  PROVE  room'[Owner].encrypted
<1> DEFINE y == Owner
<1>0. Types /\ room[y] \in Held /\ y \in People /\ room[y].encrypted
  BY PersonTypes, OwnerType DEF Typed, Informed
<1>1. ASSUME SendRoomMessage(y) PROVE room'[y].encrypted
  <2> DEFINE n == minted[y] + 1
  <2>1. UNCHANGED room \/ (n \in 1..MaxChains /\ room'[y] = NewChain(y, room[y], n))
    BY <1>0, <1>1, SendRoomMessageTypes
  <2> HIDE DEF n
  <2>2. n \in 1..MaxChains => NewChain(y, room[y], n).encrypted = room[y].encrypted
    BY <1>0, NewChainOf
  <2>3. QED BY <1>0, <2>1, <2>2
<1>2. ASSUME ApplyRoster(y) PROVE room'[y].encrypted
  BY <1>0, <1>2, RosterTaken
<1>3. ASSUME AdoptInviteState(y) PROVE room'[y].encrypted
  BY <1>0, <1>3, InviteAdopted
<1>4. ASSUME Quit(y) \/ Crash(y) PROVE room'[y].encrypted
  BY <1>0, <1>4, Restarted
<1>5. ASSUME NEW p \in People \ {y}, InviteToRoom(y, p) PROVE room'[y].encrypted
  BY <1>0, <1>5, InviteToRoomTypes
<1>6. ASSUME NEW p \in People, RemoveMember(p) PROVE room'[y].encrypted
  BY <1>0, <1>6, RemoveMemberTypes
<1>7. CASE /\ ~SendRoomMessage(y) /\ ~ApplyRoster(y) /\ ~AdoptInviteState(y) /\ ~(Quit(y) \/ Crash(y))
           /\ \A p \in People \ {y} : ~InviteToRoom(y, p)
           /\ \A p \in People : ~RemoveMember(p)
  BY <1>0, <1>7, CalmStep DEF SameStanding
<1>8. QED BY <1>1, <1>2, <1>3, <1>4, <1>5, <1>6, <1>7

LEMMA SecludedInit == Init => Secluded
<1> SUFFICES ASSUME Init PROVE Secluded
  OBVIOUS
<1>1. Chained
  BY ChainedInit
<1>2. said = {}
  BY DEF Init
<1>3. \A m \in People :
        /\ mail[m] = <<>> /\ pending[m].pc = "none" /\ send[m] = "none"
        /\ room[m].removed = {} /\ room[m].out = 0 /\ m \notin room[m].members
        /\ ~room[m].encrypted => room[m].members = {}
        /\ file[m].encrypted = room[m].encrypted /\ file[m].removed = room[m].removed
        /\ file[m].members = room[m].members /\ file[m].out = room[m].out
  BY <1>1, PersonTypes DEF Init, NoInvite, Empty, Chained, Typed, Held
<1>4. \A y \in People : Knows(y) /\ InOrder(y)
  BY <1>3 DEF Knows, InOrder
<1>5. room[Owner].encrypted
  BY OwnerType, ViewsAssumption DEF Init, Empty
<1>6. \A m \in People : Shut(m)
  BY <1>3 DEF Shut
<1>7. QED BY <1>1, <1>2, <1>4, <1>5, <1>6 DEF Secluded, Informed, Past

LEMMA SecludedStep ==
  ASSUME Secluded, [Next]_vars, [Settled]_vars, "readmit" \notin Upsets
  PROVE  Secluded'
<1>1. Chained' /\ Chained /\ Typed
  BY ChainedStep DEF Secluded, Chained
<1>2. CASE UNCHANGED vars
  BY <1>1, <1>2 DEF vars, past, Secluded, Informed, Knows, InOrder, Word, States, Bans, Gone, Shut, Past,
     Clean, Beyond, Underway, Never
<1>3. CASE Next /\ ~UNCHANGED vars
  BY <1>3, <1>1, KnowsStep, InOrderStep, OwnerStays, ShutStep, PastStep DEF Secluded, Informed
<1>4. QED BY <1>2, <1>3

\* Whoever is removed reads nothing sealed by anybody who knows of it, as long as nobody is
\* invited back by a member who has yet to hear of their removal, and nobody who has the
\* room adopts an invitation that contradicts what they know of removals.
THEOREM RemovedHolds ==
  ASSUME "readmit" \notin Upsets
  PROVE  Spec /\ [][Settled]_vars => []RemovedReadNothing
<1>1. Init => Secluded
  BY SecludedInit
<1>2. Secluded /\ [Next]_vars /\ [Settled]_vars => Secluded'
  BY SecludedStep
<1>3. Secluded => RemovedReadNothing
  <2> SUFFICES ASSUME Secluded, NEW h \in said, NEW x \in h.barred PROVE ~CanOpen(room[x], h)
    BY DEF RemovedReadNothing
  <2>1. Types /\ Past
    BY DEF Secluded, Chained, Typed
  <2>2. x \in People
    BY <2>1, PersonTypes, OwnerType, NumberTypes DEF Past, Gone
  <2>3. h.chain \in Chains /\ h.index \in Nat /\ h.index < Never /\ Never \in Nat
    BY <2>1, SaidOf, NeverType
  <2>4. room[x].views[h.chain] \in Nat
    BY <2>1, <2>2, <2>3, ViewTypes
  <2>5. room[x].views[h.chain] > Never - 1
    BY <2>1 DEF Past, Clean, Beyond
  <2>6. QED BY <2>3, <2>4, <2>5 DEF CanOpen
<1>4. QED BY <1>1, <1>2, <1>3, PTL DEF Spec

-----------------------------------------------------------------------------
(* What the members can read. *)

LEMMA GentleMeans ==
  ASSUME Gentle
  PROVE  /\ \A kind, condition : kind \notin {"unsent", "again", "outdated"} /\ UpsetIf(condition, kind) => ~condition
         /\ \A kind : kind \notin {"unsent", "again", "outdated"} => ~Upset(kind)
         /\ "lost" \notin Upsets /\ "readmit" \notin Upsets
  BY DEF Gentle, UpsetIf, Upset

LEMMA ReadsStay ==
  ASSUME Typed, Next, "lost" \notin Upsets, NEW x \in People, NEW c \in Chains, NEW k \in Nat, Reads(x, c, k)
  PROVE  Reads(x, c, k)'
<1>1. Typed' /\ Types /\ Types'
  BY TypedStep DEF Typed
<1>2. /\ room[x].views[c] \in Nat /\ room'[x].views[c] \in Nat
      /\ room[x].passed[c] \in Nat /\ room'[x].passed[c] \in Nat
  BY <1>1, NumberTypes DEF Types, RoomType
<1>3. room'[x].passed[c] >= room[x].passed[c]
  BY PassedStep
<1>4. room'[x].views[c] > room[x].views[c] => room'[x].views[c] + Retention < room'[x].passed[c]
  BY StillReads
<1>5. Retention \in Nat
  BY ViewsAssumption
<1>6. CASE room'[x].views[c] > room[x].views[c]
  BY <1>2, <1>4, <1>5, <1>6 DEF Reads
<1>7. CASE ~(room'[x].views[c] > room[x].views[c])
  BY <1>2, <1>7, <1>3, <1>5 DEF Reads
<1>8. QED BY <1>6, <1>7

LEMMA EntryKeeps ==
  ASSUME NEW m \in People, NEW r \in Held, file[m] \in Held
  PROVE  /\ r.members \ (r.removed \cup file[m].removed) \subseteq Entry(m, r).members
         /\ Entry(m, r).next >= r.next /\ Entry(m, r).next >= r.reserved /\ Entry(m, r).reserved = Entry(m, r).next
<1> DEFINE gone == r.removed \cup file[m].removed
           kept == higher(r.next, r.reserved)
           left == (IF r.members = {} THEN file[m].members ELSE r.members) \ gone
<1>1. r.members \ gone \subseteq left
  OBVIOUS
<1>2. r.next \in Nat /\ r.reserved \in Nat
  BY NumberTypes
<1>3. kept >= r.next /\ kept >= r.reserved
  BY <1>2 DEF higher
<1>4. Entry(m, r) = [r EXCEPT !.joined = FALSE, !.next = kept, !.reserved = kept,
                              !.removed = gone, !.members = left]
  BY DEF Entry, Held
<1> HIDE DEF gone, kept, left
<1>5. Entry(m, r).members = left /\ Entry(m, r).next = kept /\ Entry(m, r).reserved = kept
  BY <1>4 DEF Held
<1>6. QED BY <1>1, <1>3, <1>5 DEF gone

\* What a restart makes of the room, and of what is on disk.
LEMMA RestartedTo ==
  ASSUME Types, Gentle, NEW y \in People, Quit(y) \/ Crash(y)
  PROVE  /\ \E e \in Held :
              /\ e = file[y] \/ (e = Entry(y, room[y]) /\ room[y].encrypted)
              /\ file'[y] = e /\ room'[y] = [e EXCEPT !.since = room[y].since]
              /\ SameStanding(room'[y], e) /\ SameChain(room'[y], e)
              /\ room'[y].views = room[y].views /\ room'[y].passed = room[y].passed
              /\ e.views = room[y].views /\ e.passed = room[y].passed
              /\ room'[y].joined = FALSE /\ room'[y].since = room[y].since
         /\ ~Unread(y)
<1>1. room[y] \in Held /\ file[y] \in Held /\ file[y].joined = FALSE
  BY PersonTypes
<1> DEFINE e == IF Quit(y) /\ room[y].joined /\ room[y].encrypted THEN Entry(y, room[y]) ELSE file[y]
<1>2. RestartFrom(y, e)
  BY DEF Quit, Crash
<1>3. e \in Held /\ e.joined = FALSE /\ (e = file[y] \/ (e = Entry(y, room[y]) /\ room[y].encrypted))
  <2> DEFINE f == Entry(y, room[y])
  <2>1. f \in Held /\ f.joined = FALSE
    BY <1>1, EntryOf
  <2> HIDE DEF f
  <2>2. e = file[y] \/ (e = f /\ room[y].encrypted)
    BY DEF f
  <2> HIDE DEF e
  <2>3. QED BY <1>1, <2>1, <2>2 DEF f
<1> HIDE DEF e
<1>4. file'[y] = e /\ room'[y] = [e EXCEPT !.since = room[y].since]
  BY <1>2 DEF RestartFrom, Keep, Types, RoomType, FileType
<1>5. ~Unread(y) /\ e.views = room[y].views /\ e.passed = room[y].passed
  BY <1>2, GentleMeans DEF RestartFrom
<1>6. /\ SameStanding(room'[y], e) /\ SameChain(room'[y], e)
      /\ room'[y].views = e.views /\ room'[y].passed = e.passed
      /\ room'[y].joined = e.joined /\ room'[y].since = room[y].since
  BY <1>3, <1>4 DEF Held, SameStanding, SameChain
<1>7. QED BY <1>3, <1>4, <1>5, <1>6

\* Nobody is forgotten but the removed, and nobody forgets the room.
LEMMA StandingStep ==
  ASSUME Typed, Informed, Settled, Steady, Gentle, Next, NEW y \in People, Disk(y)
  PROVE  /\ room[y].members \ Gone' \subseteq room'[y].members
         /\ room'[y].encrypted = room[y].encrypted \/ (AdoptInviteState(y) /\ room'[y].encrypted)
<1> DEFINE Goal == /\ room[y].members \ Gone' \subseteq room'[y].members
                   /\ room'[y].encrypted = room[y].encrypted \/ (AdoptInviteState(y) /\ room'[y].encrypted)
<1>0. Types /\ Others /\ room[y] \in Held /\ file[y] \in Held /\ Gone \subseteq Gone' /\ Knows(y)
  BY PersonTypes, GoneStays DEF Typed, Informed
<1>1. ASSUME SendRoomMessage(y) PROVE Goal
  <2> DEFINE n == minted[y] + 1
  <2>1. UNCHANGED room \/ (n \in 1..MaxChains /\ room'[y] = NewChain(y, room[y], n))
    BY <1>0, <1>1, SendRoomMessageTypes
  <2> HIDE DEF n
  <2>2. n \in 1..MaxChains => /\ NewChain(y, room[y], n).encrypted = room[y].encrypted
                              /\ NewChain(y, room[y], n).members = room[y].members
    BY <1>0, NewChainOf
  <2>3. QED BY <2>1, <2>2
<1>2. ASSUME ApplyRoster(y) PROVE Goal
  <2>1. room[y].members \ Gone' \subseteq room'[y].members
    <3>1. UpsetIf(Undoes(y), "undone")
      BY <1>2 DEF ApplyRoster
    <3>2. ~Undoes(y)
      BY <3>1, GentleMeans
    <3>3. Head(mail[y]) = mail[y][1] /\ y \notin room[y].members
      <4>1. mail[y] # <<>>
        BY <1>2 DEF ApplyRoster, Mailed
      <4>2. mail[y] \in Seq(Mail) /\ y \notin room[y].members
        BY <1>0, PersonTypes
      <4>3. QED BY <4>1, <4>2
    <3>4. room[y].encrypted /\ mail[y][1].by = Owner => room[y].members \ Gone \subseteq mail[y][1].members
      BY <3>2, <3>3 DEF Undoes, Gone
    <3>5. \/ UNCHANGED <<room, file>>
          \/ mail[y][1].by # Owner /\ room[y].members \subseteq room'[y].members
          \/ room[y].encrypted /\ mail[y][1].by = Owner /\ room'[y].members = mail[y][1].members \ {y}
      BY <1>0, <1>2, ApplyRosterTypes
    <3>6. QED BY <1>0, <3>3, <3>4, <3>5
  <2>2. UNCHANGED <<room, file>> \/ (room[y].encrypted /\ room'[y].encrypted)
    BY <1>2, RosterTaken
  <2>3. room[y].encrypted \in BOOLEAN /\ room'[y].encrypted \in BOOLEAN
    BY <1>0, <1>2, ApplyRosterTypes, NumberTypes DEF Types, RoomType
  <2>4. QED BY <2>1, <2>2, <2>3
<1>3. ASSUME AdoptInviteState(y) PROVE Goal
  BY <1>0, <1>3, AdoptInviteStateTypes
<1>4. ASSUME Quit(y) \/ Crash(y) PROVE Goal
  <2>1. PICK e \in Held :
              /\ e = file[y] \/ (e = Entry(y, room[y]) /\ room[y].encrypted)
              /\ SameStanding(room'[y], e)
    BY <1>0, <1>4, RestartedTo
  <2>2. file[y].removed = room[y].removed /\ room[y].removed \subseteq Gone
    BY <1>0 DEF Knows
  <2>3. room[y].members \ Gone \subseteq e.members
    <3>1. CASE e = file[y]
      BY <3>1 DEF Disk
    <3>2. CASE e = Entry(y, room[y])
      BY <1>0, <2>2, <3>2, EntryKeeps
    <3>3. QED BY <2>1, <3>1, <3>2
  <2>4. room'[y].encrypted = room[y].encrypted
    BY <1>4, Restarted
  <2>5. QED BY <1>0, <2>1, <2>3, <2>4 DEF SameStanding
<1>5. ASSUME NEW p \in People \ {y}, InviteToRoom(y, p) PROVE Goal
  BY <1>0, <1>5, InviteToRoomTypes
<1>6. ASSUME NEW p \in People, RemoveMember(p), y = Owner PROVE Goal
  <2>1. /\ room'[Owner].encrypted = room[Owner].encrypted
        /\ room'[Owner].removed = room[Owner].removed \cup {p}
        /\ room'[Owner].members = room[Owner].members \ {p}
    BY <1>0, <1>6, RemoveMemberTypes
  <2>2. QED BY <1>6, <2>1 DEF Gone
<1>7. CASE /\ ~SendRoomMessage(y) /\ ~ApplyRoster(y) /\ ~AdoptInviteState(y) /\ ~(Quit(y) \/ Crash(y))
           /\ \A p \in People \ {y} : ~InviteToRoom(y, p)
           /\ \A p \in People : y = Owner => ~RemoveMember(p)
  BY <1>7, CalmStep DEF SameStanding
<1>8. QED BY <1>1, <1>2, <1>3, <1>4, <1>5, <1>6, <1>7

-----------------------------------------------------------------------------
(* What a step does to somebody's chain and positions. *)

\* Our own chain is not wound on.
LEMMA PruneOwn ==
  ASSUME NEW m \in People, NEW r \in Held, <<m, r.out>> \in Chains
  PROVE  PruneChainViews(m, r).views[<<m, r.out>>] = r.views[<<m, r.out>>]
<1> DEFINE v == [c \in Chains |-> IF c # <<m, r.out>> /\ r.views[c] # Never /\ r.passed[c] > Retention
                                  THEN higher(r.views[c], r.passed[c] - 1 - Retention) ELSE r.views[c]]
<1>1. v[<<m, r.out>>] = r.views[<<m, r.out>>]
  OBVIOUS
<1>2. PruneChainViews(m, r) = [r EXCEPT !.views = v]
  BY DEF PruneChainViews, Held
<1> HIDE DEF v
<1>3. PruneChainViews(m, r).views = v
  BY <1>2 DEF Held
<1>4. QED BY <1>1, <1>3

\* Positions move to one of what was opened.
LEMMA NoteUp ==
  ASSUME NEW r \in Held, NEW texts, Proper(texts), NEW c \in Chains
  PROVE  \/ NoteChainPositions(r, texts).passed[c] = r.passed[c]
         \/ \E h \in texts : h.chain = c /\ NoteChainPositions(r, texts).passed[c] = h.index + 1
<1> DEFINE S(d) == {r.passed[d]} \cup {h.index + 1 : h \in {t \in texts : t.chain = d}}
           v == [d \in Chains |-> highest(S(d))]
<1>1. r.passed[c] \in 0..Never
  BY DEF Held
<1>2. \A h \in texts : h.index \in Nat /\ h.index + 1 \in 0..Never
  BY NeverType DEF Proper, Message
<1>3. S(c) \subseteq 0..Never /\ S(c) # {}
  BY <1>1, <1>2
<1>4. highest(S(c)) \in S(c)
  BY <1>3, HighestOf, NeverType
<1>5. v[c] \in S(c)
  BY <1>4
<1>6. NoteChainPositions(r, texts) = [r EXCEPT !.passed = v]
  BY DEF NoteChainPositions, Held
<1>7. v[c] = r.passed[c] \/ \E h \in texts : h.chain = c /\ v[c] = h.index + 1
  BY <1>5
<1> HIDE DEF v
<1>8. NoteChainPositions(r, texts).passed = v
  BY <1>6 DEF Held
<1>9. QED BY <1>7, <1>8

LEMMA DecodeUp ==
  ASSUME Types, NEW x \in People, NEW texts, texts \subseteq said, Decode(x, texts),
         UNCHANGED <<said, invited, before>>
  PROVE  (\A c \in Chains : Opens(x, c)) /\ room'[x].since >= room[x].since
<1> DEFINE opened == {h \in texts \ hist[x] : CanOpen(room[x], h)}
           s == Show(room[x], texts)
           t == NoteChainPositions(s, opened)
<1>1. room[x] \in Held /\ x \notin room[x].members
  BY PersonTypes
<1>2. /\ said \subseteq Message /\ Cardinality(said) \in Nat /\ \A h \in said : h.at <= Cardinality(said)
  BY SaidOf
<1>3. opened \subseteq said /\ \A h \in opened : CanOpen(room[x], h)
  OBVIOUS
<1>4. Keep(x, t)
  BY DEF Decode
<1>5. room'[x].views = room[x].views
  BY DecodeOf
<1> HIDE DEF opened
<1>6. s \in Held /\ s.passed = room[x].passed
  BY <1>2, <1>1, ShowOf
<1>s. s.since >= room[x].since
  <2> DEFINE S == {room[x].since} \cup {h.at : h \in texts}
             top == highest(S)
             n == IF room[x].since <= Cardinality(said) THEN Cardinality(said) ELSE room[x].since
  <2>1. room[x].since \in Nat
    BY <1>1 DEF Held
  <2>1a. n \in Nat /\ Cardinality(said) <= n /\ room[x].since <= n
    BY <1>2, <2>1
  <2> HIDE DEF n
  <2>2. \A h \in texts : h.at \in 0..n
    BY <1>2, <2>1a DEF Message
  <2>3. S \subseteq 0..n /\ S # {} /\ room[x].since \in S
    BY <2>1, <2>1a, <2>2
  <2> HIDE DEF S
  <2>4. room[x].since <= top
    BY <2>1a, <2>3, HighestOf
  <2>5. s = [room[x] EXCEPT !.since = top]
    BY <1>1 DEF Show, Held, S
  <2> HIDE DEF top
  <2>6. s.since = top
    BY <1>1, <2>5 DEF Held
  <2>7. top \in Nat
    BY <2>6, <1>6 DEF Held
  <2>8. QED BY <2>1, <2>4, <2>6, <2>7
<1> HIDE DEF s
<1>7. Proper(opened)
  BY <1>3, SaidOf
<1>8. /\ \A c \in Chains : t.passed[c] = s.passed[c] \/ \E h \in opened : h.chain = c /\ t.passed[c] = h.index + 1
      /\ t.since = s.since /\ t \in Held
  BY <1>6, <1>7, NoteUp, NoteOf
<1> HIDE DEF t
<1>9. room'[x] = t
  BY <1>4 DEF Keep, Types, RoomType
<1>10. QED BY <1>3, <1>5, <1>6, <1>8, <1>9, <1>s DEF Opens

LEMMA LearntSlight ==
  ASSUME NEW r \in Held, NEW offered \in Offers
  PROVE  /\ LearnChainViews(r, offered) \in Held /\ Slight(LearnChainViews(r, offered), r)
         /\ \A c \in Chains : LearnChainViews(r, offered).views[c] <= offered[c]
<1> DEFINE v == [c \in Chains |-> lower(r.views[c], offered[c])]
<1>1. \A c \in Chains : r.views[c] \in Nat /\ offered[c] \in Nat
  BY NumberTypes, NeverType DEF Offers
<1>2. \A c \in Chains : v[c] <= offered[c]
  BY <1>1 DEF lower
<1>3. LearnChainViews(r, offered) = [r EXCEPT !.views = v]
  BY DEF LearnChainViews, Held
<1> HIDE DEF v
<1>4. LearnChainViews(r, offered).views = v
  BY <1>3 DEF Held
<1>5. LearnChainViews(r, offered) \in Held /\ Slight(LearnChainViews(r, offered), r)
  BY LearnOf DEF Slight
<1>6. QED BY <1>2, <1>4, <1>5

LEMMA RosterSaves ==
  ASSUME Types, NEW x \in People, ApplyRoster(x)
  PROVE  UNCHANGED <<room, file>> \/ Saves(x)
<1> DEFINE it == mail[x][1]
           gone == (room[x].removed \cup it.removed) \ it.members
           u == room[x].members \cup (it.members \ ({x} \cup room[x].removed))
           b == room[x].stale \/ ~(it.removed \subseteq room[x].removed)
           w == it.members \ {x}
           q == [room[x] EXCEPT !.members = u]
           r == [room[x] EXCEPT !.members = w, !.removed = gone, !.stale = b]
<1>1. Mailed(x, "roster") /\ Taken(x)
  BY DEF ApplyRoster
<1>2. /\ Head(mail[x]) = it /\ it \in Mail /\ it.kind = "roster"
  BY <1>1, MailedOf
<1>3. it.members \subseteq People /\ it.removed \subseteq People
  BY <1>2, MailTypes
<1>4. /\ room[x] \in Held /\ room[x].removed \subseteq People /\ room[x].members \subseteq People
      /\ room[x].stale \in BOOLEAN /\ \A c \in Chains : room[x].views[c] \in Nat
  BY PersonTypes, NumberTypes
<1>5. UNCHANGED <<room, file>> \/ KeepAndSave(x, q) \/ KeepAndSave(x, r)
  BY <1>2 DEF ApplyRoster
<1>6. gone \subseteq People /\ w \subseteq People /\ u \subseteq People /\ b \in BOOLEAN /\ (room[x].stale => b)
  BY <1>3, <1>4
<1> HIDE DEF gone, w, u, b
<1>7. q \in Held /\ Slight(q, room[x]) /\ q.since = room[x].since
  BY <1>4, <1>6 DEF Held, Slight
<1>8. r \in Held
  BY <1>4, <1>6 DEF Held
<1>9. Slight(r, room[x]) /\ r.since = room[x].since
  BY <1>4, <1>6 DEF Held, Slight
<1> HIDE DEF q, r
<1>10. QED BY <1>5, <1>7, <1>8, <1>9 DEF Saves

LEMMA InviteSaves ==
  ASSUME Types, NEW x \in People, HandleRoomInvite(x)
  PROVE  UNCHANGED <<room, file>> \/ Saves(x)
<1> DEFINE it == mail[x][1]
           r == LearnChainViews(room[x], it.chains)
<1>1. Mailed(x, "invite") /\ Taken(x)
  BY DEF HandleRoomInvite
<1>2. Head(mail[x]) = it /\ it \in Mail /\ it.kind = "invite"
  BY <1>1, MailedOf
<1>3. it.chains \in Offers
  BY <1>2, MailTypes, InvitationTypes
<1>4. room[x] \in Held
  BY PersonTypes
<1>5. UNCHANGED <<room, file>> \/ KeepAndSave(x, r)
  BY <1>2 DEF HandleRoomInvite
<1>6. r \in Held /\ Slight(r, room[x]) /\ r.since = room[x].since
  BY <1>3, <1>4, LearntSlight, LearnOf
<1> HIDE DEF r
<1>7. QED BY <1>5, <1>6 DEF Saves

LEMMA InvitingSaves ==
  ASSUME Types, NEW m \in People, NEW p \in People \ {m}, InviteToRoom(m, p)
  PROVE  Saves(m)
<1> DEFINE r == [room[m] EXCEPT !.members = room[m].members \cup {p}]
<1>1. room[m] \in Held /\ \A c \in Chains : room[m].views[c] \in Nat
  BY PersonTypes, NumberTypes
<1>2. r \in Held /\ Slight(r, room[m]) /\ r.since = room[m].since
  BY <1>1 DEF Held, Slight
<1>3. KeepAndSave(m, r)
  BY DEF InviteToRoom
<1> HIDE DEF r
<1>4. QED BY <1>2, <1>3 DEF Saves

LEMMA RemovingSaves ==
  ASSUME Types, NEW p \in People, RemoveMember(p)
  PROVE  Saves(Owner)
<1> DEFINE u == room[Owner].members \ {p}
           w == room[Owner].removed \cup {p}
           r == [room[Owner] EXCEPT !.members = u, !.removed = w, !.stale = TRUE]
<1>1. room[Owner] \in Held /\ \A c \in Chains : room[Owner].views[c] \in Nat
  BY PersonTypes, NumberTypes, OwnerType
<1>2. u \subseteq People /\ w \subseteq People
  BY <1>1 DEF Held
<1>3. KeepAndSave(Owner, r)
  BY DEF RemoveMember
<1> HIDE DEF u, w
<1>4. r \in Held
  BY <1>1, <1>2 DEF Held
<1>5. Slight(r, room[Owner]) /\ r.since = room[Owner].since
  BY <1>1, <1>2 DEF Held, Slight
<1> HIDE DEF r
<1>6. QED BY <1>3, <1>4, <1>5 DEF Saves

LEMMA AdoptingSaves ==
  ASSUME Types, Others, NEW m \in People, AdoptInviteState(m)
  PROVE  \E r \in Held :
           /\ KeepAndSave(m, r) /\ Slight(r, room[m])
           /\ \A c \in Chains : r.views[c] <= pending[m].what.chains[c]
           /\ r.since = IF room[m].encrypted THEN room[m].since ELSE Cardinality(said)
<1> DEFINE it == pending[m].what
           s == LearnChainViews(room[m], it.chains)
           gone == IF it.by = Owner THEN (s.removed \cup it.removed) \ it.members ELSE s.removed
           w == s.members \cup {it.by} \cup (it.members \ ({m} \cup gone))
           n == IF s.encrypted THEN s.since ELSE Cardinality(said)
           r == [s EXCEPT !.encrypted = TRUE, !.removed = gone, !.members = w, !.since = n]
<1>1. pending[m].pc = "adopt" /\ KeepAndSave(m, r)
  BY DEF AdoptInviteState
<1>2. it \in Invitation /\ it.by \in People /\ it.chains \in Offers
      /\ it.members \subseteq People /\ it.removed \subseteq People
  BY <1>1, PersonTypes, InvitationTypes
<1>3. room[m] \in Held
  BY PersonTypes
<1>4. /\ s \in Held /\ Slight(s, room[m]) /\ s.since = room[m].since /\ s.encrypted = room[m].encrypted
      /\ \A c \in Chains : s.views[c] <= it.chains[c]
  BY <1>2, <1>3, LearntSlight, LearnOf
<1>5. s.removed \subseteq People /\ s.members \subseteq People /\ s.since \in Nat
  BY <1>4, NumberTypes
<1> HIDE DEF s
<1>6. gone \subseteq People /\ w \subseteq People /\ n \in Nat
  BY <1>2, <1>5, SaidOf
<1>7. n = IF room[m].encrypted THEN room[m].since ELSE Cardinality(said)
  BY <1>4
<1> HIDE DEF gone, w, n
<1>8. r \in Held /\ r.since = n /\ r.views = s.views /\ Slight(r, s)
  <2>1. r \in Held
    BY <1>4, <1>6 DEF Held
  <2>2. \A c \in Chains : s.views[c] \in Nat
    BY <1>4, NumberTypes
  <2>3. QED BY <1>4, <1>6, <2>1, <2>2 DEF Held, Slight
<1> HIDE DEF r
<1>9. Slight(r, room[m])
  BY <1>4, <1>8 DEF Slight
<1>10. QED BY <1>1, <1>4, <1>7, <1>8, <1>9

LEMMA SaveOf ==
  ASSUME Types, NEW y \in People, NEW r \in Held, KeepAndSave(y, r), Slight(r, room[y])
  PROVE  /\ file'[y] = Entry(y, room'[y]) /\ room'[y].out = room[y].out /\ room'[y].next = room[y].next
         /\ room'[y].reserved = room[y].reserved /\ room'[y].shared = room[y].shared
         /\ room[y].stale => room'[y].stale
         /\ room'[y].passed = room[y].passed /\ room'[y].since = r.since /\ room'[y].joined = room[y].joined
         /\ room[y].out # 0 /\ room[y].views[Chain(y)] = 0 => room'[y].views[Chain(y)] = 0
         /\ \A c \in Chains : room'[y].views[c] <= r.views[c] \/ room'[y].views[c] + Retention < room[y].passed[c]
<1> DEFINE s == PruneChainViews(y, r)
<1>1. /\ s \in Held /\ s.out = r.out /\ s.next = r.next /\ s.reserved = r.reserved /\ s.shared = r.shared
      /\ s.stale = r.stale /\ s.passed = r.passed /\ s.since = r.since /\ s.joined = r.joined
      /\ \A c \in Chains : /\ s.views[c] >= r.views[c]
                           /\ s.views[c] > r.views[c] => s.views[c] + Retention < r.passed[c]
  BY PruneOf
<1>2. <<y, r.out>> \in Chains => s.views[<<y, r.out>>] = r.views[<<y, r.out>>]
  BY PruneOwn
<1>3. KeepAndSave(y, r) => Keep(y, s) /\ PersistRoomChain(y, s)
  BY DEF KeepAndSave
<1> HIDE DEF s
<1>4. room'[y] = s
  BY <1>3 DEF Keep, Types, RoomType
<1>5. file'[y] = Entry(y, s)
  BY <1>3 DEF PersistRoomChain, Types, FileType
<1>6. \A c \in Chains : r.views[c] \in Nat /\ s.views[c] \in Nat
  BY <1>1, NumberTypes
<1>7. \A c \in Chains : s.views[c] <= r.views[c] \/ s.views[c] + Retention < r.passed[c]
  BY <1>1, <1>6
<1>8. room[y].out # 0 /\ room[y].views[Chain(y)] = 0 => s.views[Chain(y)] = 0
  BY PersonTypes, NumberTypes, MaxChainsType, <1>6, <1>2 DEF Chain, Chains, Slight
<1>9. QED BY <1>1, <1>4, <1>5, <1>7, <1>8 DEF Slight

LEMMA SavesFiled ==
  ASSUME Types, NEW y \in People, Saves(y)
  PROVE  Filed(y)
<1>1. PICK r \in Held : /\ KeepAndSave(y, r) /\ Slight(r, room[y])
                        /\ room[y].encrypted => r.since = room[y].since
  BY DEF Saves
<1>2. /\ file'[y] = Entry(y, room'[y]) /\ room'[y].out = room[y].out /\ room'[y].next = room[y].next
      /\ room'[y].reserved = room[y].reserved /\ room'[y].shared = room[y].shared
      /\ room[y].stale => room'[y].stale
      /\ room'[y].passed = room[y].passed /\ room'[y].since = r.since
      /\ room'[y].joined = room[y].joined
      /\ room[y].out # 0 /\ room[y].views[Chain(y)] = 0 => room'[y].views[Chain(y)] = 0
      /\ \A c \in Chains : room'[y].views[c] <= r.views[c] \/ room'[y].views[c] + Retention < room[y].passed[c]
  BY <1>1, SaveOf
<1>3. /\ room[y] \in Held /\ room'[y] \in Held
      /\ \A c \in Chains : r.views[c] <= room[y].views[c] /\ r.views[c] \in Nat
  BY PruneOf, <1>1, PersonTypes, NumberTypes DEF KeepAndSave, Keep, Types, RoomType, Slight
<1>4. \A c \in Chains : room[y].views[c] \in Nat /\ room'[y].views[c] \in Nat
  BY <1>3, NumberTypes
<1>5. \A c \in Chains : room'[y].views[c] <= room[y].views[c] \/ room'[y].views[c] + Retention < room[y].passed[c]
  BY <1>2, <1>3, <1>4
<1>6. QED BY <1>1, <1>2, <1>5 DEF Filed

LEMMA ChainStep ==
  ASSUME Typed, Next, NEW y \in People
  PROVE  \/ Filed(y) \/ Idle(y)
         \/ SendRoomMessage(y) \/ DistributeChain(y) \/ SealRoomMessage(y) \/ Quit(y) \/ Crash(y)
<1> DEFINE Goal == \/ Filed(y) \/ Idle(y)
                   \/ SendRoomMessage(y) \/ DistributeChain(y) \/ SealRoomMessage(y) \/ Quit(y) \/ Crash(y)
<1>0. Types /\ Others /\ room[y] \in Held /\ file[y] \in Held /\ \A c \in Chains : room[y].views[c] \in Nat
  BY PersonTypes, NumberTypes DEF Typed
<1>1. ASSUME room'[y] = room[y], file'[y] = file[y] PROVE Goal
  BY <1>0, <1>1, SameChainSelf DEF Idle, Opens
<1>2. ASSUME file'[y] = file[y], SameChain(room'[y], room[y]), SameStanding(room'[y], room[y]),
             room'[y].views = room[y].views, \A c \in Chains : Opens(y, c)
      PROVE  Goal
  BY <1>0, <1>2 DEF Idle, SameStanding
<1>4. ASSUME NEW m \in People, SendRoomMessage(m) PROVE Goal
  BY <1>0, <1>4, SendRoomMessageTypes, <1>1 DEF SendRoomMessage
<1>5. ASSUME NEW m \in People, DistributeChain(m) PROVE Goal
  BY <1>0, <1>5, DistributeChainTypes, <1>1 DEF DistributeChain
<1>6. ASSUME NEW m \in People, SealRoomMessage(m) PROVE Goal
  BY <1>0, <1>6, SealRoomMessageTypes, <1>1
<1>7. ASSUME NEW m \in People,
             \/ BroadcastFails(m) \/ SendInvite(m) \/ TellMembers(m) \/ ServeCatchup(m) \/ RequestCatchup(m)
      PROVE Goal
  BY <1>1, <1>7 DEF BroadcastFails, SendInvite, TellMembers, ServeCatchup, RequestCatchup, Mailed
<1>8. ASSUME NEW m \in People, HandleChainBroadcast(m) PROVE Goal
  <2>1. UNCHANGED file
    BY <1>8 DEF HandleChainBroadcast, Arrives
  <2>2. /\ \A x \in People \ {m} : room'[x] = room[x]
        /\ SameStanding(room'[m], room[m]) /\ SameChain(room'[m], room[m]) /\ room'[m].passed = room[m].passed
        /\ \A c \in Chains : room'[m].views[c] <= room[m].views[c]
    BY <1>0, <1>8, HandleChainBroadcastTypes
  <2>3. CASE y = m
    BY <2>1, <2>2, <2>3 DEF Idle, Opens, SameStanding
  <2>4. CASE y # m
    BY <1>1, <2>1, <2>2, <2>4
  <2>5. QED BY <2>3, <2>4
<1>9. ASSUME NEW m \in People, HandleRoomMessage(m) PROVE Goal
  <2> DEFINE h == Head(inbox[m]).text
  <2>1. UNCHANGED <<file, said, invited, before>> /\ Arrives(m, "text") /\ Decode(m, {h})
    BY <1>9 DEF HandleRoomMessage, Arrives
  <2>2. /\ \A x \in People \ {m} : room'[x] = room[x]
        /\ SameStanding(room'[m], room[m]) /\ SameChain(room'[m], room[m]) /\ room'[m].views = room[m].views
    BY <1>0, <1>9, HandleRoomMessageTypes
  <2>3. h \in said
    BY <1>0, <2>1, ArrivesOf DEF Types, InboxType
  <2> HIDE DEF h
  <2>4. {h} \subseteq said
    BY <2>3
  <2>5. \A c \in Chains : Opens(m, c)
    BY <1>0, <2>1, <2>4, DecodeUp
  <2>6. QED BY <1>1, <1>2, <2>1, <2>2, <2>5
<1>10. ASSUME NEW m \in People, MergeCatchup(m) PROVE Goal
  <2> DEFINE texts == Head(mail[m]).messages
  <2>1. /\ UNCHANGED <<file, said, invited, before>> /\ Mailed(m, "answer") /\ Taken(m)
        /\ Decode(m, texts) \/ UNCHANGED room
    BY <1>10 DEF MergeCatchup, Mailed
  <2>2. /\ \A x \in People \ {m} : room'[x] = room[x]
        /\ SameStanding(room'[m], room[m]) /\ SameChain(room'[m], room[m]) /\ room'[m].views = room[m].views
    BY <1>0, <1>10, MergeCatchupTypes
  <2>3. texts \subseteq said
    BY <1>0, <2>1, MailedOf DEF Types, MailType
  <2> HIDE DEF texts
  <2>4. CASE UNCHANGED room
    BY <1>1, <2>1, <2>4
  <2>5. CASE Decode(m, texts)
    BY <1>0, <2>1, <2>3, <2>5, DecodeUp, <1>1, <1>2, <2>2
  <2>6. QED BY <2>1, <2>4, <2>5
<1>11. ASSUME NEW m \in People, JoinRoom(m) \/ AcceptRoomInvite(m) \/ LeaveRoom(m) PROVE Goal
  <2>1. UNCHANGED file
    BY <1>11 DEF JoinRoom, AcceptRoomInvite, LeaveRoom
  <2>2. /\ \A x \in People \ {m} : room'[x] = room[x]
        /\ SameStanding(room'[m], room[m]) /\ SameChain(room'[m], room[m]) /\ room'[m].views = room[m].views
        /\ room'[m].passed = room[m].passed
    BY <1>0, <1>11, JoinRoomTypes, AcceptRoomInviteTypes, LeaveRoomTypes
  <2>3. QED BY <1>1, <1>2, <2>1, <2>2 DEF Opens
<1>12. ASSUME NEW m \in People, Quit(m) \/ Crash(m) PROVE Goal
  BY <1>0, <1>12, RestartTypes, <1>1
<1>13. ASSUME NEW m \in People, ApplyRoster(m) PROVE Goal
  BY <1>0, <1>13, ApplyRosterTypes, RosterSaves, SavesFiled, <1>1
<1>14. ASSUME NEW m \in People, HandleRoomInvite(m) PROVE Goal
  BY <1>0, <1>14, HandleRoomInviteTypes, InviteSaves, SavesFiled, <1>1
<1>15. ASSUME NEW m \in People, AdoptInviteState(m) PROVE Goal
  <2>1. \A x \in People \ {m} : room'[x] = room[x] /\ file'[x] = file[x]
    BY <1>0, <1>15, AdoptInviteStateTypes
  <2>2. Saves(m)
    BY <1>0, <1>15, AdoptingSaves DEF Saves
  <2>3. QED BY <1>0, <1>1, <2>1, <2>2, SavesFiled
<1>16. ASSUME NEW m \in People, NEW p \in People \ {m}, InviteToRoom(m, p) PROVE Goal
  BY <1>0, <1>16, InviteToRoomTypes, InvitingSaves, <1>1, SavesFiled
<1>17. ASSUME NEW p \in People, RemoveMember(p) PROVE Goal
  <2>1. \A x \in People \ {Owner} : room'[x] = room[x] /\ file'[x] = file[x]
    BY <1>0, <1>17, RemoveMemberTypes
  <2>2. Saves(Owner)
    BY <1>0, <1>17, RemovingSaves
  <2>3. QED BY <1>0, <1>1, <2>1, <2>2, SavesFiled, OwnerType
<1>18. QED
  BY <1>4, <1>5, <1>6, <1>7, <1>8, <1>9, <1>10, <1>11, <1>12, <1>13, <1>14, <1>15, <1>16, <1>17 DEF Next

\* What sealing makes of our chain.
LEMMA SealOf ==
  ASSUME Types, NEW m \in People, SealRoomMessage(m)
  PROVE  /\ room'[m].out = room[m].out /\ room'[m].shared = room[m].shared /\ room'[m].stale = room[m].stale
         /\ room'[m].views = room[m].views /\ SameStanding(room'[m], room[m]) /\ room'[m].joined = room[m].joined
         /\ \/ room[m].next < room[m].reserved /\ room'[m].reserved = room[m].reserved /\ UNCHANGED file
            \/ /\ room'[m].reserved = room[m].next + Block
               /\ \E kept \in Held : /\ file'[m] = Entry(m, kept) /\ kept.members = room[m].members
                                     /\ kept.removed = room[m].removed /\ kept.out = room[m].out
                                     /\ kept.shared = room[m].shared /\ kept.stale = room[m].stale
                                     /\ kept.reserved = room'[m].reserved
         /\ \/ /\ ~Usable(room[m]) /\ UNCHANGED <<inbox, said, hist>>
               /\ room'[m].next = room[m].next /\ room'[m].passed = room[m].passed
               /\ room'[m].since = room[m].since
            \/ /\ Usable(room[m]) /\ room'[m].next = room[m].next + 1
               /\ Post(m, [kind |-> "text", text |-> SealRoomChain(m)])
               /\ said' = said \cup {SealRoomChain(m)}
               /\ room'[m].passed[Chain(m)] \in {room[m].passed[Chain(m)], room[m].next + 1}
               /\ room'[m].since >= Cardinality(said) + 1 /\ room'[m].since >= room[m].since
<1> DEFINE r    == room[m]
           need == r.next >= r.reserved
           k    == IF need THEN r.next + Block ELSE r.reserved
           kept == [r EXCEPT !.reserved = k]
           text == SealRoomChain(m)
<1>1. r \in Held /\ r.next \in Nat /\ r.reserved \in Nat /\ r.since \in Nat /\ Block \in Nat /\ Position(m)
  BY PersonTypes, NumberTypes, ViewsAssumption
<1>2. /\ IF need THEN PersistRoomChain(m, kept) ELSE UNCHANGED file
      /\ IF Usable(r)
         THEN /\ Keep(m, [NoteChainPositions(Show(kept, {text}), {text}) EXCEPT !.next = @ + 1])
              /\ Post(m, [kind |-> "text", text |-> text])
              /\ said' = said \cup {text}
         ELSE Keep(m, kept) /\ UNCHANGED <<inbox, said, hist>>
  BY DEF SealRoomMessage
<1>3. k \in Nat
  BY <1>1
<1> HIDE DEF k, text
<1>4. /\ kept \in Held /\ kept.next = r.next /\ kept.reserved = k /\ SameStanding(kept, r)
      /\ kept.out = r.out /\ kept.stale = r.stale /\ kept.shared = r.shared
      /\ kept.views = r.views /\ kept.passed = r.passed /\ kept.since = r.since /\ kept.joined = r.joined
  BY <1>1, <1>3 DEF Held, SameStanding
<1>5. \/ r.next < r.reserved /\ k = r.reserved /\ UNCHANGED file
      \/ k = r.next + Block /\ PersistRoomChain(m, kept)
  BY <1>1, <1>2 DEF k
<1>6. PersistRoomChain(m, kept) => file'[m] = Entry(m, kept)
  BY DEF PersistRoomChain, Types, FileType
<1> HIDE DEF kept
<1>7. CASE ~Usable(r)
  BY <1>2, <1>7, <1>4, <1>5, <1>6 DEF Keep, Types, RoomType, SameStanding
<1>8. CASE Usable(r)
  <2> DEFINE s == Show(kept, {text})
             t == NoteChainPositions(s, {text})
             u == [t EXCEPT !.next = t.next + 1]
  <2>1. Keep(m, u)
    BY <1>2, <1>8
  <2>2. /\ text.chain = Chain(m) /\ text.index = r.next /\ text.for = r.members
        /\ text.barred = r.removed /\ text.at = Cardinality(said) + 1
        /\ text = [chain |-> <<m, r.out>>, index |-> r.next, for |-> r.members,
                   barred |-> r.removed, at |-> Cardinality(said) + 1]
    BY DEF SealRoomChain, text, Chain
  <2>3. Cardinality(said) \in Nat
    BY SaidOf
  <2>4. Chain(m) \in Chains /\ text \in Message /\ text.index < Never
    <3>1. r.out \in 0..MaxChains /\ r.out # 0 /\ MaxChains \in Nat
      BY <1>1, <1>8, NumberTypes, ViewsBounds DEF Usable
    <3>2. Chain(m) \in Chains /\ r.members \subseteq People /\ r.removed \subseteq People
      BY <1>1, <3>1, NumberTypes DEF Chains, Chain
    <3>3. send[m] = "seal"
      BY DEF SealRoomMessage
    <3>4. r.next + 1 <= Spent /\ Spent \in Nat /\ Spent < Never /\ Never \in Nat
      BY <1>1, <3>3, CountOf, NeverType DEF Position
    <3>5. QED BY <3>2, <3>4, <1>1, <2>2, <2>3 DEF Message, Chain
  <2>5. /\ s \in Held /\ SameStanding(s, r) /\ SameChain(s, kept) /\ s.views = r.views /\ s.passed = r.passed
        /\ s.joined = r.joined
    BY <2>2, <2>3, <2>4, <1>4, ShowOf DEF SameStanding, SameChain
  <2>6. s.since >= Cardinality(said) + 1 /\ s.since >= r.since
    <3> DEFINE S == {kept.since} \cup {h.at : h \in {text}}
               top == highest(S)
               n == IF kept.since <= Cardinality(said) + 1 THEN Cardinality(said) + 1 ELSE kept.since
    <3>1. kept.since \in Nat /\ kept.since = r.since
      BY <1>1, <1>4
    <3>2. n \in Nat /\ Cardinality(said) + 1 <= n /\ kept.since <= n /\ text.at \in 0..n /\ kept.since \in 0..n
      BY <2>2, <2>3, <3>1
    <3> HIDE DEF n
    <3>3. S \subseteq 0..n /\ S # {} /\ kept.since \in S /\ text.at \in S
      BY <3>2
    <3> HIDE DEF S
    <3>4. kept.since <= top /\ text.at <= top
      BY <3>2, <3>3, HighestOf
    <3>5. s = [kept EXCEPT !.since = top]
      BY <1>4 DEF Show, Held, S
    <3> HIDE DEF top
    <3>6. s.since = top
      BY <1>4, <3>5 DEF Held
    <3>7. top \in Nat
      BY <3>6, <2>5 DEF Held
    <3>8. QED BY <3>1, <3>4, <3>6, <3>7, <2>2, <2>3
  <2> HIDE DEF s
  <2>7. /\ t \in Held /\ SameStanding(t, r) /\ SameChain(t, kept) /\ t.views = r.views
        /\ t.since = s.since /\ t.joined = r.joined
        /\ t.passed[Chain(m)] \in {r.passed[Chain(m)], r.next + 1}
    BY <2>4, <2>5, NoteOf, NoteUp, <2>2 DEF Proper, SameStanding, SameChain
  <2> HIDE DEF t
  <2>8. /\ SameStanding(u, t) /\ u.out = t.out /\ u.next = t.next + 1 /\ u.reserved = t.reserved
        /\ u.stale = t.stale /\ u.shared = t.shared /\ u.views = t.views /\ u.passed = t.passed
        /\ u.since = t.since /\ u.joined = t.joined
    BY <2>7 DEF Held, SameStanding
  <2> HIDE DEF u
  <2>9. room'[m] = u
    BY <2>1 DEF Keep, Types, RoomType
  <2>10. /\ u.joined = r.joined /\ u.out = r.out /\ u.shared = r.shared /\ u.stale = r.stale /\ u.views = r.views /\ SameStanding(u, r)
         /\ u.reserved = k /\ u.next = r.next + 1
         /\ u.passed[Chain(m)] \in {r.passed[Chain(m)], r.next + 1}
         /\ u.since >= Cardinality(said) + 1 /\ u.since >= r.since
    BY <2>6, <2>7, <2>8, <1>4 DEF SameStanding, SameChain
  <2>11. Post(m, [kind |-> "text", text |-> SealRoomChain(m)]) /\ said' = said \cup {SealRoomChain(m)}
    BY <1>2, <1>8 DEF text
  <2>12. \/ room[m].next < room[m].reserved /\ k = room[m].reserved /\ UNCHANGED file
         \/ /\ k = room[m].next + Block
            /\ file'[m] = Entry(m, kept) /\ kept \in Held /\ kept.members = room[m].members
            /\ kept.removed = room[m].removed /\ kept.out = room[m].out
            /\ kept.shared = room[m].shared /\ kept.stale = room[m].stale
            /\ kept.reserved = k
    BY <1>4, <1>5, <1>6 DEF SameStanding
  <2>13. QED BY <1>8, <2>9, <2>10, <2>11, <2>12
<1>9. QED BY <1>7, <1>8

LEMMA EntryMeans ==
  ASSUME NEW m \in People, NEW r \in Held, file[m] \in Held, NEW e, e = Entry(m, r)
  PROVE  /\ r.members \ (r.removed \cup file[m].removed) \subseteq e.members
         /\ e.next >= r.next /\ e.next >= r.reserved /\ e.reserved = e.next
         /\ e.out = r.out /\ e.stale = r.stale /\ e.shared = r.shared
<1> DEFINE f == Entry(m, r)
<1>1. /\ r.members \ (r.removed \cup file[m].removed) \subseteq f.members
      /\ f.next >= r.next /\ f.next >= r.reserved /\ f.reserved = f.next
  BY EntryKeeps
<1>2. f.out = r.out /\ f.stale = r.stale /\ f.shared = r.shared
  BY EntryOf
<1>3. e = f
  OBVIOUS
<1> HIDE DEF f
<1>4. QED BY <1>1, <1>2, <1>3

LEMMA DiskStep ==
  ASSUME Chained, Informed, Settled, Gentle, Next, NEW y \in People, Disk(y)
  PROVE  Disk(y)'
<1>0. /\ Typed /\ Types /\ Others /\ Types' /\ room[y] \in Held /\ file[y] \in Held
      /\ room'[y] \in Held /\ file'[y] \in Held
  BY PersonTypes, TypedStep DEF Typed, Chained, Types, RoomType, FileType
<1>1. /\ Gone \subseteq Gone' /\ room[y].removed \subseteq Gone /\ file[y].removed = room[y].removed
      /\ room'[y].removed \subseteq Gone'
  BY <1>0, GoneStays, KnowsStep DEF Informed, Knows
<1>2. /\ room[y].next \in Nat /\ room[y].reserved \in Nat /\ file[y].next \in Nat /\ file[y].reserved \in Nat
      /\ room'[y].next \in Nat /\ room'[y].reserved \in Nat /\ file'[y].next \in Nat
      /\ room[y].out \in 0..MaxChains /\ Block \in Nat \ {0} /\ MaxChains \in Nat
      /\ \A c \in Chains : room[y].views[c] \in Nat /\ room'[y].views[c] \in Nat
  BY <1>0, NumberTypes, ViewsAssumption, ViewsBounds
<1>3. room[y].out # 0 => Chain(y) \in Chains
  BY <1>2 DEF Chain, Chains
<1>4. ASSUME Filed(y) PROVE Disk(y)'
  <2>1. /\ file'[y] = Entry(y, room'[y])
        /\ room'[y].members \ (room'[y].removed \cup file[y].removed) \subseteq file'[y].members
        /\ file'[y].next >= room'[y].reserved
        /\ file'[y].out = room'[y].out /\ file'[y].stale = room'[y].stale /\ file'[y].shared = room'[y].shared
    BY <1>4, <1>0, EntryMeans DEF Filed
  <2>2. room'[y].members \ Gone' \subseteq file'[y].members
    BY <1>1, <2>1
  <2>3. Chain(y)' = Chain(y) /\ room'[y].out = room[y].out
    BY <1>4 DEF Filed, Chain
  <2>4. room'[y].out # 0 => room'[y].views[Chain(y)'] = 0
    BY <2>3, <1>4 DEF Filed, Disk
  <2>5. room'[y].next <= room'[y].reserved
    BY <1>4 DEF Filed, Disk
  <2>6. QED BY <1>2, <2>1, <2>2, <2>4, <2>5 DEF Disk
<1>5. ASSUME Idle(y) PROVE Disk(y)'
  <2>1. /\ file'[y] = file[y] /\ room'[y].members = room[y].members /\ SameChain(room'[y], room[y])
        /\ \A c \in Chains : room'[y].views[c] <= room[y].views[c]
    BY <1>5 DEF Idle
  <2>2. Chain(y)' = Chain(y)
    BY <2>1 DEF Chain, SameChain
  <2>3. room'[y].out # 0 => room'[y].views[Chain(y)'] = 0
    BY <2>1, <1>3, <2>2, <1>2 DEF SameChain, Disk
  <2>4. room'[y].members \ Gone' \subseteq file'[y].members
    BY <1>1, <2>1 DEF Disk
  <2>5. room'[y].next <= room'[y].reserved
    BY <2>1 DEF Disk, SameChain
  <2>6. IF file'[y].out = room'[y].out
        THEN /\ file'[y].shared => room'[y].shared
             /\ room'[y].stale => file'[y].stale
             /\ room'[y].reserved <= file'[y].next
        ELSE room'[y].out # 0 /\ file'[y].views[Chain(y)'] # 0
    BY <2>1, <2>2 DEF Disk, SameChain
  <2>7. QED BY <2>3, <2>4, <2>5, <2>6 DEF Disk
<1>6. ASSUME SendRoomMessage(y) PROVE Disk(y)'
  <2> DEFINE n == minted[y] + 1
             r == NewChain(y, room[y], n)
  <2>0. UNCHANGED file
    BY <1>6 DEF SendRoomMessage
  <2>1. room'[y] = room[y] \/ (n \in 1..MaxChains /\ room'[y] = r)
    BY <1>0, <1>6, SendRoomMessageTypes
  <2>2. CASE room'[y] = room[y]
    <3>1. Idle(y)
      BY <1>2, <2>0, <2>2, SameChainSelf DEF Idle, Opens
    <3>2. QED BY <3>1, <1>5
  <2>3. CASE n \in 1..MaxChains /\ room'[y] = r
    <3>1. /\ r.members = room[y].members /\ r.out = n /\ r.next = 0 /\ r.reserved = 0 /\ r.views[<<y, n>>] = 0
      BY <1>0, <2>3, NewChainOf
    <3> HIDE DEF r
    <3>2. file[y].out # n /\ n # 0 /\ n > minted[y]
      BY <1>0, OutTypes DEF Chained, Numbered
    <3>3. file[y].views[<<y, n>>] # 0
      BY <2>3, <3>2, NeverType DEF Chained, Unminted, Beyond
    <3> HIDE DEF n
    <3>4. Chain(y)' = <<y, n>>
      BY <2>3, <3>1 DEF Chain
    <3>5. room'[y].members \ Gone' \subseteq file'[y].members
      BY <1>1, <2>0, <2>3, <3>1 DEF Disk
    <3>6. QED BY <2>0, <2>3, <3>1, <3>2, <3>3, <3>4, <3>5 DEF Disk
  <2>4. QED BY <2>1, <2>2, <2>3
<1>7. ASSUME DistributeChain(y) PROVE Disk(y)'
  BY <1>0, <1>7, DistributeChainTypes, <1>1 DEF DistributeChain, Held, Chain, Disk
<1>8. ASSUME SealRoomMessage(y) PROVE Disk(y)'
  <2>1. /\ room'[y].out = room[y].out /\ room'[y].shared = room[y].shared /\ room'[y].stale = room[y].stale
        /\ room'[y].views = room[y].views /\ SameStanding(room'[y], room[y])
        /\ room'[y].next \in {room[y].next, room[y].next + 1}
    BY <1>0, <1>8, SealOf
  <2>2. Chain(y)' = Chain(y)
    BY <2>1 DEF Chain
  <2>3. room'[y].out # 0 => room'[y].views[Chain(y)'] = 0
    BY <2>1, <2>2 DEF Disk
  <2>4. \/ room[y].next < room[y].reserved /\ room'[y].reserved = room[y].reserved /\ UNCHANGED file
        \/ /\ room'[y].reserved = room[y].next + Block
           /\ \E kept \in Held : /\ file'[y] = Entry(y, kept) /\ kept.members = room[y].members
                                 /\ kept.removed = room[y].removed /\ kept.out = room[y].out
                                 /\ kept.shared = room[y].shared /\ kept.stale = room[y].stale
                                 /\ kept.reserved = room'[y].reserved
    BY <1>0, <1>8, SealOf
  <2>5. CASE room[y].next < room[y].reserved /\ room'[y].reserved = room[y].reserved /\ UNCHANGED file
    BY <1>1, <2>1, <2>5, <1>2, <2>2, <2>3 DEF Disk, SameStanding
  <2>6. ASSUME NEW kept \in Held, file'[y] = Entry(y, kept), kept.members = room[y].members,
               kept.removed = room[y].removed, kept.out = room[y].out,
               kept.shared = room[y].shared, kept.stale = room[y].stale,
               kept.reserved = room'[y].reserved, room'[y].reserved = room[y].next + Block
        PROVE Disk(y)'
    BY <2>6, <1>0, EntryMeans, <1>1, <2>1, <1>2, <2>3 DEF SameStanding, Disk
  <2>7. QED BY <2>4, <2>5, <2>6
<1>9. ASSUME Quit(y) \/ Crash(y) PROVE Disk(y)'
  <2>1. PICK e \in Held :
              /\ e = file[y] \/ (e = Entry(y, room[y]) /\ room[y].encrypted)
              /\ file'[y] = e /\ SameStanding(room'[y], e) /\ SameChain(room'[y], e)
              /\ room'[y].views = room[y].views /\ e.views = room[y].views
    BY <1>0, <1>9, RestartedTo
  <2>2. e.out = room[y].out /\ e.next = e.reserved
    <3>1. CASE e = file[y]
      BY <2>1, <3>1, PersonTypes, <1>0 DEF Disk, Position
    <3>2. CASE e = Entry(y, room[y])
      BY <3>2, <1>0, EntryMeans
    <3>3. QED BY <2>1, <3>1, <3>2
  <2>3. Chain(y)' = Chain(y)
    BY <2>1, <2>2 DEF Chain, SameChain
  <2>4. room'[y].out # 0 => room'[y].views[Chain(y)'] = 0
    BY <2>1, <2>2, <2>3 DEF Disk, SameChain
  <2>5. e.next \in Nat
    BY NumberTypes
  <2>6. QED BY <2>1, <2>2, <2>4, <2>5 DEF Disk, SameChain, SameStanding
<1>10. QED BY <1>0, <1>4, <1>5, <1>6, <1>7, <1>8, <1>9, ChainStep DEF Chained

LEMMA OutStep ==
  ASSUME Chained, Informed, Gentle, Next, NEW s \in People, Disk(s)
  PROVE  Mints(s) \/ (room'[s].out = room[s].out /\ room'[s].next >= room[s].next)
<1>0. Typed /\ Types /\ room[s] \in Held /\ room[s].next \in Nat
  BY PersonTypes, NumberTypes DEF Typed, Chained
<1>1. CASE Filed(s)
  BY <1>0, <1>1 DEF Filed
<1>2. CASE Idle(s)
  BY <1>0, <1>2 DEF Idle, SameChain
<1>3. CASE SendRoomMessage(s)
  BY <1>0, <1>3, SendRoomMessageTypes DEF Mints, SendRoomMessage, past
<1>4. CASE DistributeChain(s)
  <2>1. room'[s] = [room[s] EXCEPT !.shared = TRUE]
    BY <1>0, <1>4, DistributeChainTypes
  <2>2. QED BY <1>0, <2>1 DEF Held
<1>5. CASE SealRoomMessage(s)
  <2>1. room'[s].out = room[s].out /\ room'[s].next \in {room[s].next, room[s].next + 1}
    BY <1>0, <1>5, SealOf
  <2>2. QED BY <1>0, <2>1
<1>6. CASE Quit(s) \/ Crash(s)
  <2>1. PICK e \in Held :
              /\ e = file[s] \/ (e = Entry(s, room[s]) /\ room[s].encrypted)
              /\ file'[s] = e /\ SameChain(room'[s], e)
              /\ e.views = room[s].views
    BY <1>0, <1>6, RestartedTo
  <2>2. file[s] \in Held /\ file[s].next \in Nat /\ room[s].reserved \in Nat
    BY <1>0, PersonTypes, NumberTypes
  <2>3. e.out = room[s].out /\ e.next >= room[s].next
    <3>1. CASE e = file[s]
      BY <2>1, <3>1, <1>0, <2>2 DEF Disk
    <3>2. CASE e = Entry(s, room[s])
      BY <3>2, <1>0, <2>2, EntryMeans
    <3>3. QED BY <2>1, <3>1, <3>2
  <2>4. QED BY <2>1, <2>3 DEF SameChain
<1>7. QED BY <1>0, <1>1, <1>2, <1>3, <1>4, <1>5, <1>6, ChainStep

LEMMA CurrentStep ==
  ASSUME Chained, Informed, Gentle, Next, NEW s \in People, Disk(s), Current(s)'
  PROVE  /\ Chain(s)' = Chain(s) /\ room'[s].next >= room[s].next
         /\ DistributeChain(s) \/ Current(s)
<1>0. Typed /\ Types /\ room[s] \in Held /\ room[s].next \in Nat /\ room[s].stale \in BOOLEAN
  BY PersonTypes, NumberTypes DEF Typed, Chained
<1>1. ~Mints(s)
  <2> SUFFICES ASSUME Mints(s) PROVE FALSE
    OBVIOUS
  <2>1. ~NewChain(s, room[s], minted[s] + 1).shared
    BY <1>0, NewChainOf DEF Mints
  <2>2. QED BY <2>1 DEF Mints, Current
<1>2. room'[s].out = room[s].out /\ room'[s].next >= room[s].next
  BY <1>1, OutStep
<1>3. ASSUME ~DistributeChain(s) PROVE Current(s)
  <2>1. CASE Filed(s)
    BY <2>1 DEF Filed, Current
  <2>2. CASE Idle(s)
    BY <2>2 DEF Idle, SameChain, Current
  <2>3. CASE SendRoomMessage(s)
    <3>1. UNCHANGED room
      BY <1>0, <1>1, <2>3, SendRoomMessageTypes DEF Mints, SendRoomMessage, past
    <3>2. QED BY <3>1 DEF Current
  <2>4. CASE SealRoomMessage(s)
    BY <1>0, <2>4, SealOf DEF Current
  <2>5. CASE Quit(s) \/ Crash(s)
    <3>1. PICK e \in Held :
                /\ e = file[s] \/ (e = Entry(s, room[s]) /\ room[s].encrypted)
                /\ SameChain(room'[s], e)
      BY <1>0, <2>5, RestartedTo
    <3>2. e.out # 0 /\ e.out = room[s].out /\ e.shared /\ ~e.stale
      BY <1>2, <3>1 DEF Current, SameChain
    <3>3. file[s] \in Held
      BY <1>0, PersonTypes
    <3>4. CASE e = file[s]
      BY <3>2, <3>4 DEF Disk, Current
    <3>5. CASE e = Entry(s, room[s])
      BY <3>3, <3>5, <1>0, EntryMeans, <3>2 DEF Current
    <3>6. QED BY <3>1, <3>4, <3>5
  <2>6. QED BY <1>0, <1>3, <2>1, <2>2, <2>3, <2>4, <2>5, ChainStep
<1>4. QED BY <1>2, <1>3 DEF Chain

\* A send begins.
LEMMA SendingOf ==
  ASSUME Types, NEW x \in People, SendRoomMessage(x)
  PROVE  /\ room'[x].passed = room[x].passed /\ room'[x].since = room[x].since
         /\ room'[x].joined = room[x].joined /\ SameStanding(room'[x], room[x])
         /\ \A c \in Chains : room'[x].views[c] = 0 \/ room'[x].views[c] = room[x].views[c]
<1>1. room[x] \in Held
  BY PersonTypes
<1>2. ASSUME NEW n \in 1..MaxChains, room'[x] = NewChain(x, room[x], n)
      PROVE  /\ room'[x].passed = room[x].passed /\ room'[x].since = room[x].since
             /\ room'[x].joined = room[x].joined /\ SameStanding(room'[x], room[x])
             /\ \A c \in Chains : room'[x].views[c] = 0 \/ room'[x].views[c] = room[x].views[c]
  <2> DEFINE r == NewChain(x, room[x], n)
  <2>1. /\ r.passed = room[x].passed /\ r.since = room[x].since /\ r.joined = room[x].joined
        /\ r.encrypted = room[x].encrypted /\ r.members = room[x].members /\ r.removed = room[x].removed
        /\ r.views[<<x, n>>] = 0 /\ \A c \in Chains \ {<<x, n>>} : r.views[c] = room[x].views[c]
    BY <1>1, NewChainOf
  <2>2. room'[x] = r
    BY <1>2
  <2> HIDE DEF r
  <2>3. QED BY <2>1, <2>2 DEF SameStanding
<1>3. UNCHANGED room \/ \E n \in 1..MaxChains : room'[x] = NewChain(x, room[x], n)
  BY SendRoomMessageTypes
<1>4. QED BY <1>2, <1>3, SameChainSelf

\* Positions on somebody's chain stay behind it.
LEMMA SeenStep ==
  ASSUME Chained, Informed, Gentle, Next, \A y \in People : Disk(y) /\ Seen(y), NEW x \in People
  PROVE  Seen(x)'
<1>0. /\ Typed /\ Types /\ Types' /\ room[x] \in Held /\ room'[x] \in Held
      /\ Retention \in Nat /\ MaxChains \in Nat
  BY PersonTypes, TypedStep, ViewsAssumption, ViewsBounds DEF Typed, Chained, Types, RoomType
<1>1. \A c \in Chains : /\ room[x].views[c] \in Nat /\ room'[x].views[c] \in Nat
                        /\ room[x].passed[c] \in Nat /\ room'[x].passed[c] \in Nat
  BY <1>0, NumberTypes
<1>2. \A h \in said : h \in Message /\ h.chain \in Chains /\ h.index \in Nat
  BY <1>0, SaidOf
<1>3. ASSUME NEW c \in Chains, room'[x].passed[c] # 0 PROVE room'[x].views[c] <= room'[x].passed[c]
  <2>1. CASE Filed(x)
    BY <1>3, <2>1, <1>0, <1>1 DEF Filed, Seen
  <2>2. CASE Idle(x)
    <3>1. room'[x].views[c] <= room[x].views[c] /\ Opens(x, c)
      BY <2>2 DEF Idle
    <3>2. CASE room'[x].passed[c] = room[x].passed[c]
      BY <1>1, <1>3, <3>1, <3>2 DEF Seen
    <3>3. ASSUME NEW h \in said, h.chain = c, CanOpen(room[x], h), room'[x].passed[c] = h.index + 1
          PROVE  room'[x].views[c] <= room'[x].passed[c]
      BY <3>3, <1>1, <1>2, <3>1 DEF CanOpen
    <3>4. QED BY <3>1, <3>2, <3>3 DEF Opens
  <2>3. CASE SendRoomMessage(x)
    BY <1>0, <2>3, SendingOf, <1>1, <1>3 DEF Seen
  <2>4. CASE DistributeChain(x)
    BY <1>0, <2>4, DistributeChainTypes, <1>3 DEF Held, Seen
  <2>5. CASE SealRoomMessage(x)
    <3>1. room'[x].views = room[x].views
      BY <1>0, <2>5, SealOf
    <3>2. CASE c = Chain(x)
      BY <3>2, <1>1, <3>1 DEF Chain, Chains, Disk
    <3>3. CASE c # Chain(x)
      BY <1>0, <2>5, <3>3, SealRoomMessageTypes, <1>3, <3>1 DEF Chain, Seen
    <3>4. QED BY <3>2, <3>3
  <2>6. CASE Quit(x) \/ Crash(x)
    BY <1>0, <2>6, RestartedTo, <1>3 DEF Seen
  <2>7. QED BY <1>0, <2>1, <2>2, <2>3, <2>4, <2>5, <2>6, ChainStep
<1>4. ASSUME NEW s \in People, room'[s].out # 0 PROVE room'[x].passed[Chain(s)'] <= room'[s].next
  <2>0. /\ room[s] \in Held /\ room'[s] \in Held /\ room[s].next \in Nat /\ room'[s].next \in Nat
        /\ room'[s].out \in 0..MaxChains
    BY <1>0, NumberTypes DEF Types, RoomType
  <2>1. CASE Mints(s)
    <3> DEFINE n == minted[s] + 1
               r == NewChain(s, room[s], n)
    <3>1. n \in 1..MaxChains /\ room'[s] = r /\ SendRoomMessage(s)
      BY <2>1 DEF Mints
    <3>2. r.out = n /\ r.next = 0 /\ r.passed = room[s].passed
      BY <2>0, <3>1, NewChainOf
    <3> HIDE DEF r
    <3>3. n > minted[s]
      BY <1>0, OutTypes
    <3>4. room[x].passed[<<s, n>>] = 0
      BY <3>1, <3>3 DEF Chained, Unminted
    <3>5. room'[x].passed = room[x].passed
      BY <1>0, <3>1, SendRoomMessageTypes, <3>2
    <3> HIDE DEF n
    <3>6. Chain(s)' = <<s, n>> /\ room'[s].next = 0
      BY <3>1, <3>2 DEF Chain
    <3>7. QED BY <3>4, <3>5, <3>6
  <2>2. CASE room'[s].out = room[s].out /\ room'[s].next >= room[s].next
    <3>1. Chain(s)' = Chain(s) /\ Chain(s) \in Chains
      BY <1>0, <1>4, <2>0, <2>2 DEF Chain, Chains
    <3>2. room[x].passed[Chain(s)] <= room[s].next
      BY <1>4, <2>2 DEF Seen
    <3>3. \/ room'[x].passed[Chain(s)] = room[x].passed[Chain(s)]
          \/ \E h \in said : h.chain = Chain(s) /\ room'[x].passed[Chain(s)] = h.index + 1
          \/ room'[x].passed[Chain(s)] <= room'[s].next
      <4>1. CASE Filed(x)
        BY <4>1 DEF Filed
      <4>2. CASE Idle(x)
        BY <3>1, <4>2 DEF Idle, Opens
      <4>3. CASE SendRoomMessage(x)
        BY <1>0, <4>3, SendingOf
      <4>4. CASE DistributeChain(x)
        BY <1>0, <4>4, DistributeChainTypes DEF Held
      <4>5. CASE SealRoomMessage(x)
        <5>1. CASE s = x
          <6>1. \/ room'[x].passed = room[x].passed
                \/ /\ room'[x].next = room[x].next + 1
                   /\ room'[x].passed[Chain(x)] \in {room[x].passed[Chain(x)], room[x].next + 1}
            BY <1>0, <4>5, SealOf
          <6>2. QED BY <2>0, <5>1, <6>1
        <5>2. CASE s # x
          BY <5>2, <1>0, <3>1, <4>5, SealRoomMessageTypes DEF Chain
        <5>3. QED BY <5>1, <5>2
      <4>6. CASE Quit(x) \/ Crash(x)
        BY <1>0, <4>6, RestartedTo
      <4>7. QED BY <1>0, <4>1, <4>2, <4>3, <4>4, <4>5, <4>6, ChainStep
    <3>4. \A h \in said : h.chain = Chain(s) => h.index < room[s].next
      BY DEF Seen
    <3>5. QED BY <1>1, <1>2, <2>0, <2>2, <3>1, <3>2, <3>3, <3>4
  <2>3. QED BY <2>1, <2>2, OutStep
<1>5. ASSUME NEW h \in said', h.chain = Chain(x)' PROVE h.index < room'[x].next
  <2>0. /\ room[x].next \in Nat /\ room'[x].next \in Nat
    BY <1>0, NumberTypes
  <2>1. CASE h \in said /\ Mints(x)
    <3> DEFINE n == minted[x] + 1
               r == NewChain(x, room[x], n)
    <3>1. n \in 1..MaxChains /\ room'[x] = r /\ r.out = n
      BY <1>0, <2>1, NewChainOf DEF Mints
    <3> HIDE DEF r
    <3>2. h.chain = <<x, n>>
      BY <1>5, <3>1 DEF Chain
    <3>3. h.chain[2] <= minted[h.chain[1]]
      BY <2>1 DEF Chained, Numbered
    <3>4. minted[x] \in Nat
      BY <1>0, OutTypes
    <3>5. QED BY <3>2, <3>3, <3>4
  <2>2. CASE h \in said /\ room'[x].out = room[x].out /\ room'[x].next >= room[x].next
    BY <1>5, <2>2, <1>2, <2>0 DEF Chain, Seen
  <2>3. ASSUME NEW m \in People, SealRoomMessage(m), Usable(room[m]), h = SealRoomChain(m)
        PROVE  h.index < room'[x].next
    <3>1. h.chain = <<m, room[m].out>> /\ h.index = room[m].next
      BY <2>3 DEF SealRoomChain
    <3>2. m = x
      BY <1>5, <3>1 DEF Chain
    <3>3. room'[x].next = room[x].next + 1
      BY <1>0, <2>3, <3>2, SealOf
    <3>4. QED BY <2>0, <3>1, <3>2, <3>3
  <2>4. QED BY <1>0, <1>5, <2>1, <2>2, <2>3, OutStep, SaidStep
<1>6. QED BY <1>3, <1>4, <1>5 DEF Seen

-----------------------------------------------------------------------------
(* What is on its way. *)

\* What is new in the mail was put there now.
LEMMA MailStep ==
  ASSUME Typed, Next, NEW y \in People, NEW i \in DOMAIN mail'[y]
  PROVE  \/ \E j \in DOMAIN mail[y] : mail'[y][i] = mail[y][j]
         \/ mail'[y][i].kind = "roster"
         \/ \E m \in People : SendInvite(m) /\ invite[m].whom = y /\ mail'[y][i] = Bundle(m)
         \/ \E m \in People : RequestCatchup(m) /\ m \in asking /\ mail'[y][i] = Ask(m)
         \/ \E m \in People : /\ ServeCatchup(m) /\ 1 \in DOMAIN mail[m] /\ mail[m][1].kind = "ask"
                              /\ mail[m][1].by = y /\ mail'[y][i] = Answer(m)
<1> DEFINE Old == \E j \in DOMAIN mail[y] : mail'[y][i] = mail[y][j]
           Invited == \E m \in People : SendInvite(m) /\ invite[m].whom = y /\ mail'[y][i] = Bundle(m)
           Asked == \E m \in People : RequestCatchup(m) /\ m \in asking /\ mail'[y][i] = Ask(m)
           Answered == \E m \in People : /\ ServeCatchup(m) /\ 1 \in DOMAIN mail[m] /\ mail[m][1].kind = "ask"
                                         /\ mail[m][1].by = y /\ mail'[y][i] = Answer(m)
           Goal == Old \/ mail'[y][i].kind = "roster" \/ Invited \/ Asked \/ Answered
<1>0. Types /\ Others /\ mail[y] \in Seq(Mail)
  BY PersonTypes DEF Typed
<1>1. ASSUME UNCHANGED mail PROVE Goal
  BY <1>1
<1>2. ASSUME NEW m \in People, SendInvite(m) PROVE Goal
  BY <1>0, <1>2, SendInviteTypes DEF Bundle
<1>3. ASSUME NEW m \in People, TellMembers(m) PROVE Goal
  <2>1. \/ i \in DOMAIN mail[y] /\ mail'[y][i] = mail[y][i]
        \/ mail'[y][i] = Roster(m, room[m])
    BY <1>0, <1>3, TellMembersTypes
  <2>2. Roster(m, room[m]).kind = "roster"
    BY DEF Roster
  <2>3. QED BY <2>1, <2>2
<1>4. ASSUME NEW p \in People, RemoveMember(p) PROVE Goal
  <2>1. PICK item \in Mail :
          /\ item.kind = "roster" /\ item.by = Owner
          /\ item.members = (room[Owner].members \ {p}) \cup {Owner}
          /\ item.removed = room[Owner].removed \cup {p}
          /\ \A x \in People : \A k \in DOMAIN mail'[x] :
               k \in Nat /\ \/ k \in DOMAIN mail[x] /\ mail'[x][k] = mail[x][k]
                            \/ x \in room[Owner].members \ {p} /\ k = Len(mail[x]) + 1
                               /\ mail'[x][k] = item
    BY <1>0, <1>4, RemoveMemberTypes
  <2>2. (i \in DOMAIN mail[y] /\ mail'[y][i] = mail[y][i]) \/ mail'[y][i] = item
    BY <2>1
  <2>3. QED BY <2>1, <2>2
<1>5. ASSUME NEW m \in People, ApplyRoster(m) \/ HandleRoomInvite(m) \/ MergeCatchup(m) PROVE Goal
  <2>1. /\ \A k \in DOMAIN mail'[m] : k + 1 \in DOMAIN mail[m] /\ mail'[m][k] = mail[m][k + 1]
        /\ \A x \in People \ {m} : mail'[x] = mail[x]
    BY <1>5, <1>0, MailedOf DEF ApplyRoster, HandleRoomInvite, MergeCatchup
  <2>2. CASE y = m
    BY <2>1, <2>2
  <2>3. CASE y # m
    BY <2>1, <2>3
  <2>4. QED BY <2>2, <2>3
<1>6. ASSUME NEW m \in People, ServeCatchup(m) PROVE Goal
  <2> DEFINE it == mail[m][1]
             new == Append(mail[y], Answer(m))
  <2>1. 1 \in DOMAIN mail[m] /\ it.kind = "ask" /\ Head(mail[m]) = it
    <3>1. mail[m] # <<>> /\ Head(mail[m]).kind = "ask" /\ mail[m] \in Seq(Mail)
      BY <1>0, <1>6, PersonTypes DEF ServeCatchup, Mailed
    <3>2. QED BY <3>1
  <2>2. CASE y = m
    BY <1>0, <1>6, <2>2, ServeCatchupTypes
  <2>3. CASE y # m
    <3>1. mail'[y] = mail[y] \/ (y = it.by /\ mail'[y] = new)
      BY <1>6, <2>1, <2>3 DEF ServeCatchup, Answer
    <3>2. \A k \in DOMAIN new : (k \in DOMAIN mail[y] /\ new[k] = mail[y][k]) \/ new[k] = Answer(m)
      BY <1>0
    <3> HIDE DEF new
    <3>3. QED BY <1>6, <2>1, <3>1, <3>2
  <2>4. QED BY <2>2, <2>3
<1>7. ASSUME NEW m \in People, RequestCatchup(m) PROVE Goal
  <2>1. m \in asking
    BY <1>7 DEF RequestCatchup
  <2>2. CASE UNCHANGED mail
    BY <1>1, <2>2
  <2>3. ASSUME NEW peer \in room[m].members, Deliver({peer}, Ask(m)) PROVE Goal
    <3>1. Ask(m) \in Mail /\ Ask(m).kind # "answer"
      BY <1>0, PersonTypes, NumberTypes DEF Ask, Mail
    <3>2. (i \in DOMAIN mail[y] /\ mail'[y][i] = mail[y][i]) \/ mail'[y][i] = Ask(m)
      BY <1>0, <2>3, <3>1, DeliverOf
    <3>3. QED BY <1>7, <2>1, <3>2
  <2>4. QED BY <1>7, <2>2, <2>3 DEF RequestCatchup, Ask
<1>8. ASSUME NEW m \in People,
             \/ SendRoomMessage(m) \/ DistributeChain(m) \/ BroadcastFails(m) \/ SealRoomMessage(m)
             \/ HandleChainBroadcast(m) \/ HandleRoomMessage(m) \/ JoinRoom(m) \/ AcceptRoomInvite(m)
             \/ AdoptInviteState(m) \/ LeaveRoom(m) \/ Quit(m) \/ Crash(m)
             \/ \E p \in People \ {m} : InviteToRoom(m, p)
      PROVE Goal
  <2>1. UNCHANGED mail
    BY <1>8 DEF SendRoomMessage, DistributeChain, BroadcastFails, SealRoomMessage, HandleChainBroadcast,
                HandleRoomMessage, Arrives, JoinRoom, AcceptRoomInvite, AdoptInviteState, LeaveRoom, Quit,
                Crash, RestartFrom, InviteToRoom
  <2>2. QED BY <1>1, <2>1
<1>9. QED BY <1>2, <1>3, <1>4, <1>5, <1>6, <1>7, <1>8 DEF Next

\* What waits for somebody's answer stays, gives way to the next, is adopted or is forgotten.
LEMMA PendingStep ==
  ASSUME Typed, Next, NEW y \in People
  PROVE  \/ pending'[y] = pending[y]
         \/ AcceptRoomInvite(y) /\ pending[y].pc = "waiting" /\ pending'[y] = [pc |-> "adopt", what |-> pending[y].what]
         \/ /\ ~room[y].joined /\ 1 \in DOMAIN mail[y] /\ mail[y][1].kind = "invite"
            /\ pending'[y] = [pc |-> "waiting", what |-> mail[y][1]]
         \/ AdoptInviteState(y) /\ pending'[y].pc = "none"
         \/ (Quit(y) \/ Crash(y)) /\ pending'[y].pc = "none"
<1> DEFINE Goal == \/ pending'[y] = pending[y]
                   \/ /\ AcceptRoomInvite(y) /\ pending[y].pc = "waiting"
                      /\ pending'[y] = [pc |-> "adopt", what |-> pending[y].what]
                   \/ /\ ~room[y].joined /\ 1 \in DOMAIN mail[y] /\ mail[y][1].kind = "invite"
                      /\ pending'[y] = [pc |-> "waiting", what |-> mail[y][1]]
                   \/ AdoptInviteState(y) /\ pending'[y].pc = "none"
                   \/ (Quit(y) \/ Crash(y)) /\ pending'[y].pc = "none"
<1>0. Types /\ Others
  BY DEF Typed
<1>1. ASSUME NEW m \in People, HandleRoomInvite(m) PROVE Goal
  <2>1. CASE y = m
    BY <1>1, <1>0, MailedOf, <2>1 DEF HandleRoomInvite, Types, PendingType
  <2>2. CASE y # m
    BY <1>0, <1>1, <2>2, HandleRoomInviteTypes
  <2>3. QED BY <2>1, <2>2
<1>2. ASSUME NEW m \in People, AcceptRoomInvite(m) PROVE Goal
  <2>1. pending[m].pc = "waiting" /\ pending' = [pending EXCEPT ![m].pc = "adopt"]
    BY <1>2 DEF AcceptRoomInvite
  <2>2. CASE y = m
    BY <1>0, <2>1, <1>2, <2>2 DEF Types, PendingType
  <2>3. CASE y # m
    BY <2>1, <2>3
  <2>4. QED BY <2>2, <2>3
<1>3. ASSUME NEW m \in People, AdoptInviteState(m) PROVE Goal
  BY <1>0, <1>3, AdoptInviteStateTypes
<1>4. ASSUME NEW m \in People, Quit(m) \/ Crash(m) PROVE Goal
  BY <1>0, <1>4, RestartTypes
<1>5. ASSUME NEW m \in People,
             \/ SendRoomMessage(m) \/ DistributeChain(m) \/ BroadcastFails(m) \/ SealRoomMessage(m)
             \/ SendInvite(m) \/ TellMembers(m) \/ ApplyRoster(m) \/ ServeCatchup(m) \/ MergeCatchup(m)
             \/ HandleChainBroadcast(m) \/ HandleRoomMessage(m) \/ JoinRoom(m) \/ RequestCatchup(m)
             \/ LeaveRoom(m) \/ \E p \in People \ {m} : InviteToRoom(m, p)
      PROVE Goal
  <2>1. UNCHANGED pending
    BY <1>5 DEF SendRoomMessage, DistributeChain, BroadcastFails, SealRoomMessage, HandleChainBroadcast,
                HandleRoomMessage, Arrives, JoinRoom, LeaveRoom, InviteToRoom, SendInvite, TellMembers,
                ApplyRoster, ServeCatchup, MergeCatchup, RequestCatchup
  <2>2. QED BY <2>1
<1>6. ASSUME NEW p \in People, RemoveMember(p) PROVE Goal
  BY <1>6 DEF RemoveMember
<1>7. QED BY <1>1, <1>2, <1>3, <1>4, <1>5, <1>6 DEF Next

\* An invitation on its way was, or is sent now.
LEMMA InvitesStep ==
  ASSUME Typed, Next, NEW y \in People, NEW it \in Invites(y)'
  PROVE  /\ it \in Invites(y) \/ \E m \in People : SendInvite(m) /\ invite[m].whom = y /\ it = Bundle(m)
         /\ it.kind = "invite"
<1> DEFINE New == \E m \in People : SendInvite(m) /\ invite[m].whom = y /\ it = Bundle(m)
<1>0. Types /\ \A j \in DOMAIN mail[y] : mail[y][j].kind = "invite" => mail[y][j] \in Invites(y)
  BY DEF Typed, Invites
<1>1. ASSUME NEW i \in DOMAIN mail'[y], mail'[y][i].kind = "invite", it = mail'[y][i]
      PROVE  it \in Invites(y) \/ New
  <2>1. CASE \E j \in DOMAIN mail[y] : mail'[y][i] = mail[y][j]
    BY <1>0, <1>1, <2>1
  <2>2. ASSUME NEW m \in People, mail'[y][i] = Ask(m) \/ mail'[y][i] = Answer(m) PROVE FALSE
    BY <1>1, <2>2 DEF Ask, Answer
  <2>3. QED BY <1>1, <2>1, <2>2, MailStep
<1>2. ASSUME pending'[y].pc # "none", it = pending'[y].what PROVE it \in Invites(y)
  <2>1. CASE pending'[y] = pending[y]
    BY <1>2, <2>1 DEF Invites
  <2>2. CASE pending[y].pc = "waiting" /\ pending'[y] = [pc |-> "adopt", what |-> pending[y].what]
    BY <1>2, <2>2 DEF Invites
  <2>3. CASE 1 \in DOMAIN mail[y] /\ mail[y][1].kind = "invite" /\ pending'[y] = [pc |-> "waiting", what |-> mail[y][1]]
    BY <1>0, <1>2, <2>3
  <2>4. QED BY <1>2, <2>1, <2>2, <2>3, PendingStep
<1>3. it.kind = "invite"
  BY TypedStep DEF Typed, Types, PendingType, Invitation, Invites
<1>4. QED BY <1>1, <1>2, <1>3 DEF Invites

\* Whose room is open was in it, or comes back with the room's keys, or adopts an invitation.
LEMMA LifeStep ==
  ASSUME Typed, Gentle, Next, NEW y \in People
  PROVE  /\ room'[y].joined => \/ room[y].joined
                               \/ JoinRoom(y) /\ room[y].encrypted
                               \/ AcceptRoomInvite(y)
         /\ room[y].encrypted => room'[y].since >= room[y].since
         /\ AdoptInviteState(y) =>
              /\ room'[y].since = IF room[y].encrypted THEN room[y].since ELSE Cardinality(said)
              /\ \A c \in Chains : \/ room'[y].views[c] <= pending[y].what.chains[c]
                                   \/ room'[y].views[c] + Retention < room'[y].passed[c]
<1> DEFINE Goal == /\ room'[y].joined => \/ room[y].joined
                                         \/ JoinRoom(y) /\ room[y].encrypted
                                         \/ AcceptRoomInvite(y)
                   /\ room[y].encrypted => room'[y].since >= room[y].since
<1>0. /\ Types /\ Others /\ room[y] \in Held /\ room[y].since \in Nat /\ room[y].joined \in BOOLEAN
      /\ room[y].encrypted \in BOOLEAN
  BY PersonTypes, NumberTypes DEF Typed
<1>1. ASSUME room'[y].joined = room[y].joined, room'[y].since = room[y].since PROVE Goal
  BY <1>0, <1>1
<1>2. ASSUME Filed(y) PROVE Goal
  BY <1>0, <1>2 DEF Filed
<1>3. ASSUME NEW m \in People, SendRoomMessage(m) PROVE Goal
  <2>1. CASE y = m
    BY <1>0, <1>1, <1>3, <2>1, SendingOf
  <2>2. CASE y # m
    BY <1>0, <1>1, <1>3, <2>2, SendRoomMessageTypes
  <2>3. QED BY <2>1, <2>2
<1>4. ASSUME NEW m \in People, DistributeChain(m) PROVE Goal
  <2>1. room'[m] = [room[m] EXCEPT !.shared = TRUE] /\ \A x \in People \ {m} : room'[x] = room[x]
    BY <1>0, <1>4, DistributeChainTypes
  <2>2. y = m => room'[y].joined = room[y].joined /\ room'[y].since = room[y].since
    BY <1>0, <2>1 DEF Held
  <2>3. QED BY <1>1, <2>1, <2>2
<1>5. ASSUME NEW m \in People, SealRoomMessage(m) PROVE Goal
  <2>1. CASE y = m
    <3>1. room'[m].joined = room[m].joined /\ (room'[m].since = room[m].since \/ room'[m].since >= room[m].since)
      BY <1>0, <1>5, SealOf
    <3>2. QED BY <1>0, <2>1, <3>1
  <2>2. CASE y # m
    BY <1>0, <1>1, <1>5, <2>2, SealRoomMessageTypes
  <2>3. QED BY <2>1, <2>2
<1>6. ASSUME NEW m \in People,
             \/ BroadcastFails(m) \/ SendInvite(m) \/ TellMembers(m) \/ ServeCatchup(m) \/ RequestCatchup(m)
      PROVE Goal
  BY <1>1, <1>6 DEF BroadcastFails, SendInvite, TellMembers, ServeCatchup, RequestCatchup, Mailed
<1>7. ASSUME NEW m \in People, HandleChainBroadcast(m) PROVE Goal
  <2> DEFINE given == Head(inbox[m])
             r == LearnChainViews(room[m], DecodeChainBroadcast(m, given))
  <2>1. UNCHANGED room \/ Keep(m, r)
    BY <1>7 DEF HandleChainBroadcast
  <2>2. DecodeChainBroadcast(m, given) \in Offers
    BY NeverType DEF DecodeChainBroadcast, Offers
  <2>3. y = m => r.joined = room[m].joined /\ r.since = room[m].since
    BY <1>0, <2>2, LearnOf
  <2> HIDE DEF r
  <2>4. QED BY <1>0, <1>1, <2>1, <2>3 DEF Keep, Types, RoomType
<1>8. ASSUME NEW m \in People, NEW texts, texts \subseteq said, Decode(m, texts),
             UNCHANGED <<said, invited, before>>
      PROVE Goal
  <2>1. \A x \in People \ {m} : room'[x] = room[x]
    BY <1>0, <1>8, DecodeOf
  <2>2. room'[m].joined = room[m].joined /\ room'[m].since >= room[m].since
    BY <1>0, <1>8, DecodeOf, DecodeUp
  <2>3. QED BY <1>1, <2>1, <2>2
<1>9. ASSUME NEW m \in People, HandleRoomMessage(m) PROVE Goal
  <2> DEFINE h == Head(inbox[m]).text
  <2>1. UNCHANGED <<said, invited, before>> /\ Arrives(m, "text") /\ Decode(m, {h})
    BY <1>9 DEF HandleRoomMessage, Arrives
  <2>2. h \in said
    BY <1>0, <2>1, ArrivesOf DEF Types, InboxType
  <2> HIDE DEF h
  <2>3. {h} \subseteq said
    BY <2>2
  <2>4. QED BY <1>8, <2>1, <2>3
<1>10. ASSUME NEW m \in People, MergeCatchup(m) PROVE Goal
  <2> DEFINE texts == Head(mail[m]).messages
  <2>1. /\ UNCHANGED <<said, invited, before>> /\ Mailed(m, "answer") /\ Taken(m)
        /\ Decode(m, texts) \/ UNCHANGED room
    BY <1>10 DEF MergeCatchup, Mailed
  <2>2. texts \subseteq said
    BY <1>0, <2>1, MailedOf DEF Types, MailType
  <2> HIDE DEF texts
  <2>3. QED BY <1>1, <1>8, <2>1, <2>2
<1>11. ASSUME NEW m \in People, JoinRoom(m) PROVE Goal
  <2>0. room[m].encrypted
    BY GentleMeans, <1>11 DEF JoinRoom, UpsetIf
  <2>1. \A x \in People \ {m} : room'[x] = room[x]
    BY <1>0, <1>11, JoinRoomTypes
  <2>2. y = m => room'[y] = [room[y] EXCEPT !.joined = TRUE, !.since = room[y].since]
    BY <1>0, <1>11, <2>0 DEF JoinRoom, Keep, Types, RoomType
  <2>3. y = m => room'[y].since = room[y].since
    BY <1>0, <2>2 DEF Held
  <2>4. QED BY <1>0, <1>1, <1>11, <2>0, <2>1, <2>3
<1>12. ASSUME NEW m \in People, AcceptRoomInvite(m) \/ LeaveRoom(m) PROVE Goal
  <2>1. \A x \in People \ {m} : room'[x] = room[x]
    BY <1>0, <1>12, AcceptRoomInviteTypes, LeaveRoomTypes
  <2>2. y = m => \/ AcceptRoomInvite(y) /\ room'[y] = [room[y] EXCEPT !.joined = TRUE]
                 \/ room'[y] = [room[y] EXCEPT !.joined = FALSE]
    BY <1>0, <1>12 DEF AcceptRoomInvite, LeaveRoom, Keep, Types, RoomType
  <2>3. y = m => room'[y].since = room[y].since /\ (AcceptRoomInvite(y) \/ room'[y].joined = FALSE)
    BY <1>0, <2>2 DEF Held
  <2>4. QED BY <1>0, <1>1, <2>1, <2>3
<1>13. ASSUME NEW m \in People, Quit(m) \/ Crash(m) PROVE Goal
  <2>1. CASE y = m
    <3>1. room'[y].joined = FALSE /\ room'[y].since = room[y].since
      BY <1>0, <1>13, <2>1, RestartedTo
    <3>2. QED BY <1>0, <3>1
  <2>2. CASE y # m
    BY <1>0, <1>1, <1>13, <2>2, RestartTypes
  <2>3. QED BY <2>1, <2>2
<1>14. ASSUME NEW m \in People, \A x \in People \ {m} : room'[x] = room[x], UNCHANGED room \/ Saves(m) PROVE Goal
  BY <1>0, <1>1, <1>2, <1>14, SavesFiled
<1>15. ASSUME NEW m \in People, ApplyRoster(m) PROVE Goal
  BY <1>0, <1>15, ApplyRosterTypes, <1>14, RosterSaves
<1>16. ASSUME NEW m \in People, HandleRoomInvite(m) PROVE Goal
  BY <1>0, <1>16, HandleRoomInviteTypes, <1>14, InviteSaves
<1>17. ASSUME NEW m \in People, AdoptInviteState(m) PROVE Goal
  <2>1. \A x \in People \ {m} : room'[x] = room[x]
    BY <1>0, <1>17, AdoptInviteStateTypes
  <2>2. Saves(m)
    BY <1>0, <1>17, AdoptingSaves DEF Saves
  <2>3. QED BY <1>14, <2>1, <2>2
<1>18. ASSUME NEW m \in People, NEW p \in People \ {m}, InviteToRoom(m, p) PROVE Goal
  BY <1>0, <1>18, InviteToRoomTypes, <1>14, InvitingSaves
<1>19. ASSUME NEW p \in People, RemoveMember(p) PROVE Goal
  BY <1>0, <1>19, RemoveMemberTypes, <1>14, RemovingSaves, OwnerType
<1>20. Goal
  BY <1>3, <1>4, <1>5, <1>6, <1>7, <1>9, <1>10, <1>11, <1>12, <1>13, <1>15, <1>16, <1>17, <1>18, <1>19 DEF Next
<1>21. ASSUME AdoptInviteState(y)
       PROVE  /\ room'[y].since = IF room[y].encrypted THEN room[y].since ELSE Cardinality(said)
              /\ \A c \in Chains : \/ room'[y].views[c] <= pending[y].what.chains[c]
                                   \/ room'[y].views[c] + Retention < room'[y].passed[c]
  <2>1. PICK r \in Held :
          /\ KeepAndSave(y, r) /\ Slight(r, room[y])
          /\ \A c \in Chains : r.views[c] <= pending[y].what.chains[c]
          /\ r.since = IF room[y].encrypted THEN room[y].since ELSE Cardinality(said)
    BY <1>0, <1>21, AdoptingSaves
  <2>2. /\ room'[y].since = r.since /\ room'[y].passed = room[y].passed
        /\ \A c \in Chains : room'[y].views[c] <= r.views[c] \/ room'[y].views[c] + Retention < room[y].passed[c]
    BY <1>0, <2>1, SaveOf
  <2>3. \A c \in Chains : room'[y].views[c] \in Nat /\ r.views[c] \in Nat /\ pending[y].what.chains[c] \in Nat
    BY <1>0, <1>21, AdoptInviteStateTypes, <2>1, NumberTypes, InvitationTypes DEF Types, RoomType
  <2>4. ASSUME NEW c \in Chains PROVE \/ room'[y].views[c] <= pending[y].what.chains[c]
                                      \/ room'[y].views[c] + Retention < room'[y].passed[c]
    BY <2>1, <2>2, <2>3
  <2>5. QED BY <2>1, <2>2, <2>4
<1>22. QED BY <1>20, <1>21

LEMMA AppendedOf ==
  ASSUME NEW s \in Seq(Said), NEW item \in Said
  PROVE  /\ \A i \in DOMAIN Append(s, item) :
              i \in Nat /\ \/ i \in DOMAIN s /\ Append(s, item)[i] = s[i]
                           \/ i = Len(s) + 1 /\ Append(s, item)[i] = item
         /\ \A i \in DOMAIN s : i \in DOMAIN Append(s, item) /\ Append(s, item)[i] = s[i] /\ i < Len(s) + 1
         /\ Len(s) + 1 \in DOMAIN Append(s, item)
  OBVIOUS

LEMMA TailedOf ==
  ASSUME NEW s \in Seq(Said), s # <<>>
  PROVE  /\ \A i \in DOMAIN Tail(s) : i \in Nat /\ i + 1 \in DOMAIN s /\ Tail(s)[i] = s[i + 1]
         /\ \A i \in DOMAIN s : i = 1 \/ (i - 1 \in DOMAIN Tail(s) /\ Tail(s)[i - 1] = s[i])
         /\ Head(s) = s[1] /\ 1 \in DOMAIN s
  OBVIOUS

\* What the room has for somebody grows behind and is read from the front, or goes unread
\* broadcasts excepted.
LEMMA InboxStep ==
  ASSUME Typed, Gentle, Next, NEW x \in People
  PROVE  \/ inbox'[x] = inbox[x]
         \/ inbox'[x] = <<>> /\ ~Unread(x)
         \/ /\ HandleChainBroadcast(x) \/ HandleRoomMessage(x)
            /\ inbox[x] # <<>> /\ inbox'[x] = Tail(inbox[x]) /\ pending[x].pc # "adopt"
         \/ \E m \in People \ {x} : /\ DistributeChain(m) /\ room[x].joined /\ room[m].members \subseteq InRoom
                                    /\ room[m].members # {} /\ inbox'[x] = Append(inbox[x], ChainBroadcast(m))
         \/ \E m \in People \ {x} : /\ SealRoomMessage(m) /\ Usable(room[m]) /\ room[x].joined
                                    /\ inbox'[x] = Append(inbox[x], [kind |-> "text", text |-> SealRoomChain(m)])
<1> DEFINE Goal ==
         \/ inbox'[x] = inbox[x]
         \/ inbox'[x] = <<>> /\ ~Unread(x)
         \/ /\ HandleChainBroadcast(x) \/ HandleRoomMessage(x)
            /\ inbox[x] # <<>> /\ inbox'[x] = Tail(inbox[x]) /\ pending[x].pc # "adopt"
         \/ \E m \in People \ {x} : /\ DistributeChain(m) /\ room[x].joined /\ room[m].members \subseteq InRoom
                                    /\ room[m].members # {} /\ inbox'[x] = Append(inbox[x], ChainBroadcast(m))
         \/ \E m \in People \ {x} : /\ SealRoomMessage(m) /\ Usable(room[m]) /\ room[x].joined
                                    /\ inbox'[x] = Append(inbox[x], [kind |-> "text", text |-> SealRoomChain(m)])
<1>0. Types /\ Others /\ inbox \in [People -> Seq(Said)]
  BY DEF Typed, Types, InboxType
<1>1. ASSUME UNCHANGED inbox PROVE Goal
  BY <1>1
<1>2. ASSUME NEW m \in People, NEW kind, Arrives(m, kind), HandleChainBroadcast(m) \/ HandleRoomMessage(m)
      PROVE Goal
  BY <1>2, GentleMeans, <1>0 DEF Arrives, UpsetIf
<1>3. ASSUME NEW m \in People, HandleChainBroadcast(m) PROVE Goal
  BY <1>2, <1>3 DEF HandleChainBroadcast
<1>4. ASSUME NEW m \in People, HandleRoomMessage(m) PROVE Goal
  BY <1>2, <1>4 DEF HandleRoomMessage
<1>5. ASSUME NEW m \in People, LeaveRoom(m) PROVE Goal
  BY <1>5, GentleMeans, <1>0 DEF LeaveRoom, UpsetIf
<1>6. ASSUME NEW m \in People, Quit(m) \/ Crash(m) PROVE Goal
  BY <1>6, <1>0, RestartedTo DEF Quit, Crash, RestartFrom
<1>7. ASSUME NEW m \in People, NEW item, Post(m, item)
      PROVE  inbox'[x] = inbox[x] \/ (x # m /\ room[x].joined /\ inbox'[x] = Append(inbox[x], item))
  BY <1>7 DEF Post, InRoom
<1>8. ASSUME NEW m \in People, DistributeChain(m) PROVE Goal
  BY <1>8, GentleMeans, <1>7 DEF DistributeChain
<1>9. ASSUME NEW m \in People, SealRoomMessage(m) PROVE Goal
  <2>1. \/ UNCHANGED inbox
        \/ Usable(room[m]) /\ Post(m, [kind |-> "text", text |-> SealRoomChain(m)])
    BY <1>0, <1>9, SealOf
  <2>2. QED BY <1>7, <1>9, <2>1
<1>10. ASSUME NEW m \in People,
             \/ SendRoomMessage(m) \/ BroadcastFails(m)
             \/ SendInvite(m) \/ TellMembers(m) \/ ApplyRoster(m) \/ ServeCatchup(m) \/ MergeCatchup(m)
             \/ HandleRoomInvite(m) \/ JoinRoom(m) \/ RequestCatchup(m) \/ AcceptRoomInvite(m)
             \/ AdoptInviteState(m) \/ \E p \in People \ {m} : InviteToRoom(m, p)
      PROVE Goal
  <2>1. SendRoomMessage(m) \/ BroadcastFails(m) \/ SendInvite(m) \/ TellMembers(m) => UNCHANGED inbox
    BY DEF SendRoomMessage, BroadcastFails, SendInvite, TellMembers
  <2>2. ApplyRoster(m) \/ ServeCatchup(m) \/ MergeCatchup(m) \/ HandleRoomInvite(m) => UNCHANGED inbox
    BY DEF Mailed, ApplyRoster, ServeCatchup, MergeCatchup, HandleRoomInvite
  <2>3. JoinRoom(m) \/ RequestCatchup(m) \/ AcceptRoomInvite(m) => UNCHANGED inbox
    BY DEF JoinRoom, RequestCatchup, AcceptRoomInvite
  <2>4. AdoptInviteState(m) => UNCHANGED inbox
    BY DEF AdoptInviteState
  <2>5. \A p \in People \ {m} : InviteToRoom(m, p) => UNCHANGED inbox
    BY DEF InviteToRoom
  <2>6. QED BY <1>1, <1>10, <2>1, <2>2, <2>3, <2>4, <2>5
<1>11. ASSUME NEW p \in People, RemoveMember(p) PROVE Goal
  BY <1>11 DEF RemoveMember
<1>12. QED BY <1>3, <1>4, <1>5, <1>6, <1>8, <1>9, <1>10, <1>11 DEF Next

\* A broadcast from a member opens its chain to whoever it has a slot for.
LEMMA HeardOf ==
  ASSUME Types, NEW x \in People, HandleChainBroadcast(x),
         inbox[x][1].chain[1] \in room[x].members, x \in inbox[x][1].to
  PROVE  room'[x].views[inbox[x][1].chain] = 0
<1> DEFINE given == inbox[x][1]
           offered == DecodeChainBroadcast(x, given)
           r == LearnChainViews(room[x], offered)
<1>1. Head(inbox[x]) = given /\ given \in Said /\ given.kind = "chain" /\ given.chain \in Chains
  BY ArrivesOf, SaidTypes DEF HandleChainBroadcast
<1>2. Keep(x, r)
  BY <1>1 DEF HandleChainBroadcast
<1>3. offered[given.chain] = 0 /\ offered \in Offers
  BY <1>1, NeverType DEF DecodeChainBroadcast, Offers
<1> HIDE DEF offered
<1>4. room[x] \in Held
  BY PersonTypes
<1>5. r \in Held /\ r.views[given.chain] <= 0
  BY <1>1, <1>3, <1>4, LearntSlight
<1>6. r.views[given.chain] \in Nat
  BY <1>1, <1>5, NumberTypes
<1> HIDE DEF r
<1>7. room'[x] = r
  BY <1>2 DEF Keep, Types, RoomType
<1>8. QED BY <1>5, <1>6, <1>7

\* What the room is given has its type.
LEMMA SaidItems ==
  ASSUME Types, NEW m \in People
  PROVE  /\ Usable(room[m]) => [kind |-> "text", text |-> SealRoomChain(m)] \in Said
         /\ DistributeChain(m) => ChainBroadcast(m) \in Said
<1>1. ASSUME Usable(room[m]) PROVE [kind |-> "text", text |-> SealRoomChain(m)] \in Said
  <2>1. SealRoomChain(m) \in Message
    <3>1. room[m] \in Held /\ Cardinality(said) \in Nat /\ MaxChains \in Nat
      BY PersonTypes, SaidOf, ViewsBounds
    <3>2. room[m].out \in 1..MaxChains /\ room[m].next \in Nat /\ room[m].members \subseteq People
          /\ room[m].removed \subseteq People
      BY <1>1, <3>1, NumberTypes DEF Usable
    <3>3. QED BY <3>1, <3>2 DEF SealRoomChain, Message, Chains
  <2>2. QED BY <2>1 DEF Said
<1>2. ASSUME DistributeChain(m) PROVE ChainBroadcast(m) \in Said
  <2>1. room[m] \in Held /\ Position(m) /\ send[m] = "give" /\ MaxChains \in Nat
    BY <1>2, PersonTypes, ViewsBounds DEF DistributeChain
  <2>2. room[m].out \in 1..MaxChains /\ room[m].members \subseteq People
    BY <2>1, NumberTypes DEF Position
  <2>3. QED BY <2>2 DEF ChainBroadcast, Said, Chains
<1>3. QED BY <1>1, <1>2

\* Broadcasts stay under way until they are read.
LEMMA UnderwayStep ==
  ASSUME Typed, Gentle, Next, NEW x \in People, NEW c \in Chains, Underway(x, c)
  PROVE  \/ Underway(x, c)'
         \/ HandleChainBroadcast(x) /\ inbox[x][1].chain = c /\ x \in inbox[x][1].to
<1>0. Types /\ inbox[x] \in Seq(Said)
  BY PersonTypes DEF Typed
<1>1. PICK i \in DOMAIN inbox[x] : inbox[x][i].kind = "chain" /\ inbox[x][i].chain = c /\ x \in inbox[x][i].to
  BY DEF Underway
<1>2. Unread(x)
  BY <1>1 DEF Unread
<1>3. ASSUME NEW j \in DOMAIN inbox'[x], inbox'[x][j] = inbox[x][i] PROVE Underway(x, c)'
  BY <1>1, <1>3 DEF Underway
<1>4. CASE inbox'[x] = inbox[x]
  BY <1>3, <1>4
<1>5. ASSUME HandleChainBroadcast(x) \/ HandleRoomMessage(x), inbox[x] # <<>>, inbox'[x] = Tail(inbox[x])
      PROVE  \/ Underway(x, c)'
             \/ HandleChainBroadcast(x) /\ inbox[x][1].chain = c /\ x \in inbox[x][1].to
  <2>1. CASE i = 1
    BY <1>0, <1>5, TailedOf, <1>1, <2>1 DEF HandleRoomMessage, Arrives
  <2>2. CASE i # 1
    <3>1. i - 1 \in DOMAIN inbox'[x] /\ inbox'[x][i - 1] = inbox[x][i]
      BY <1>0, <1>5, <2>2, TailedOf
    <3>2. QED BY <1>3, <3>1
  <2>3. QED BY <2>1, <2>2
<1>6. ASSUME NEW item \in Said, inbox'[x] = Append(inbox[x], item) PROVE Underway(x, c)'
  BY <1>0, <1>3, <1>6, AppendedOf
<1>7. QED BY <1>0, <1>2, <1>4, <1>5, <1>6, SaidItems, InboxStep

\* Who reads, or will, still does.
LEMMA ReachStep ==
  ASSUME Typed, Gentle, Next, NEW x \in People, NEW c \in Chains, NEW k \in Nat, Reach(x, c, k),
         c[1] \in Present, Heard(x)
  PROVE  Reach(x, c, k)'
<1>1. Reads(x, c, k) => Reads(x, c, k)'
  BY ReadsStay, GentleMeans
<1>2. ASSUME Underway(x, c) PROVE Reach(x, c, k)'
  <2>1. CASE Underway(x, c)'
    BY <2>1 DEF Reach
  <2>2. CASE HandleChainBroadcast(x) /\ inbox[x][1].chain = c /\ x \in inbox[x][1].to
    BY <2>2, HandleChainBroadcastTypes, HeardOf DEF Typed, Heard, Reach, Reads
  <2>3. QED BY <1>2, <2>1, <2>2, UnderwayStep
<1>3. QED BY <1>1, <1>2 DEF Reach

-----------------------------------------------------------------------------
(* Members know of each other. *)

LEMMA CourseStep ==
  ASSUME Typed, Next, NEW y \in People
  PROVE  /\ y \in asking' => y \in asking \/ (JoinRoom(y) /\ room[y].encrypted)
         /\ invite'[y].pc # "none" => \/ invite[y].pc # "none" /\ invite'[y].whom = invite[y].whom
                                      \/ \E p \in People \ {y} : InviteToRoom(y, p) /\ invite'[y].whom = p
<1> DEFINE Goal == /\ y \in asking' => y \in asking \/ (JoinRoom(y) /\ room[y].encrypted)
                   /\ invite'[y].pc # "none" =>
                        \/ invite[y].pc # "none" /\ invite'[y].whom = invite[y].whom
                        \/ \E p \in People \ {y} : InviteToRoom(y, p) /\ invite'[y].whom = p
<1>0. Types /\ InviteType
  BY DEF Typed, Types
<1>1. ASSUME UNCHANGED <<asking, invite>> PROVE Goal
  BY <1>1
<1>2. ASSUME NEW m \in People, JoinRoom(m) PROVE Goal
  BY <1>2 DEF JoinRoom
<1>3. ASSUME NEW m \in People, RequestCatchup(m) \/ LeaveRoom(m) PROVE Goal
  BY <1>3 DEF RequestCatchup, LeaveRoom
<1>4. ASSUME NEW m \in People, Quit(m) \/ Crash(m) PROVE Goal
  BY <1>4, <1>0 DEF Quit, Crash, RestartFrom, InviteType, NotInviting
<1>5. ASSUME NEW m \in People, SendInvite(m) PROVE Goal
  BY <1>5, <1>0 DEF SendInvite, InviteType
<1>6. ASSUME NEW m \in People, TellMembers(m) PROVE Goal
  BY <1>6, <1>0 DEF TellMembers, InviteType, NotInviting
<1>7. ASSUME NEW m \in People, NEW p \in People \ {m}, InviteToRoom(m, p) PROVE Goal
  BY <1>7, <1>0 DEF InviteToRoom, InviteType
<1>8. ASSUME NEW m \in People,
             \/ SendRoomMessage(m) \/ DistributeChain(m) \/ BroadcastFails(m) \/ SealRoomMessage(m)
             \/ HandleChainBroadcast(m) \/ HandleRoomMessage(m)
             \/ ApplyRoster(m) \/ ServeCatchup(m) \/ MergeCatchup(m)
             \/ HandleRoomInvite(m) \/ AcceptRoomInvite(m) \/ AdoptInviteState(m)
      PROVE Goal
  <2>1. SendRoomMessage(m) \/ DistributeChain(m) \/ BroadcastFails(m) \/ SealRoomMessage(m) => UNCHANGED <<asking, invite>>
    BY DEF SendRoomMessage, DistributeChain, BroadcastFails, SealRoomMessage
  <2>2. HandleChainBroadcast(m) \/ HandleRoomMessage(m) => UNCHANGED <<asking, invite>>
    BY DEF HandleChainBroadcast, HandleRoomMessage, Arrives
  <2>3. ApplyRoster(m) \/ ServeCatchup(m) \/ MergeCatchup(m) \/ HandleRoomInvite(m) => UNCHANGED <<asking, invite>>
    BY DEF ApplyRoster, ServeCatchup, MergeCatchup, HandleRoomInvite, Mailed
  <2>4. AcceptRoomInvite(m) => UNCHANGED <<asking, invite>>
    BY DEF AcceptRoomInvite
  <2>5. AdoptInviteState(m) => UNCHANGED <<asking, invite>>
    BY DEF AdoptInviteState
  <2>6. QED BY <1>1, <1>8, <2>1, <2>2, <2>3, <2>4, <2>5
<1>9. ASSUME NEW p \in People, RemoveMember(p) PROVE Goal
  BY <1>9 DEF RemoveMember
<1>10. QED BY <1>2, <1>3, <1>4, <1>5, <1>6, <1>7, <1>8, <1>9 DEF Next

\* What every step keeps.
LEMMA ToldMeans ==
  ASSUME Told, Gentle, Settled, Next
  PROVE  /\ Secluded /\ Secluded' /\ Chained /\ Chained' /\ Typed /\ Typed' /\ Types /\ Types' /\ Others
         /\ Informed /\ Informed' /\ Owner \in People /\ Owner \in Present /\ Owner \in Present'
         /\ Gone \subseteq Gone' /\ Present' \subseteq Present /\ Present \subseteq People
         /\ \A y \in People : Newcomer(y) /\ Seen(y) /\ Disk(y)
         /\ \A y \in People : room[y] \in Held /\ room'[y] \in Held
<1>1. Secluded /\ Secluded' /\ Chained /\ Informed
  BY SecludedStep, GentleMeans DEF Told, Secluded
<1>2. Chained' /\ Informed' /\ Typed /\ Typed' /\ Types /\ Types' /\ Others
  BY <1>1, TypedStep DEF Secluded, Chained, Typed
<1>3. Owner \notin Gone /\ Owner \notin Gone' /\ Gone \subseteq Gone' /\ Owner \in People
  BY <1>1, <1>2, OwnerType, GoneStays DEF Informed, Knows, Gone
<1>4. \A y \in People : room[y] \in Held /\ room'[y] \in Held
  BY <1>2 DEF Types, RoomType
<1>5. QED BY <1>1, <1>2, <1>3, <1>4 DEF Told, Present

LEMMA NewcomerStep ==
  ASSUME Told, Gentle, Settled, Steady, Next, NEW x \in People
  PROVE  Newcomer(x)'
<1> SUFFICES ASSUME ~room'[x].encrypted
             PROVE  /\ room'[x].joined => pending'[x].pc = "adopt"
                    /\ x \notin asking'
                    /\ \A y \in People : \A i \in DOMAIN mail'[y] : mail'[y][i].kind = "ask" => mail'[y][i].by # x
                    /\ \A i \in DOMAIN mail'[x] : mail'[x][i].kind # "answer"
  BY DEF Newcomer
<1>0. /\ Typed /\ Types /\ Others /\ Informed /\ Disk(x) /\ Newcomer(x)
  BY ToldMeans
<1>1. ~room[x].encrypted /\ ~AdoptInviteState(x)
  BY ToldMeans, NumberTypes, <1>0, AdoptInviteStateTypes, StandingStep
<1>2. /\ room[x].joined => pending[x].pc = "adopt"
      /\ x \notin asking
      /\ \A y \in People : \A i \in DOMAIN mail[y] : mail[y][i].kind = "ask" => mail[y][i].by # x
      /\ \A i \in DOMAIN mail[x] : mail[x][i].kind # "answer"
  BY <1>0, <1>1 DEF Newcomer
<1>3. ASSUME room'[x].joined PROVE pending'[x].pc = "adopt"
  <2>1. room[x].joined \/ AcceptRoomInvite(x)
    BY <1>0, <1>1, <1>3, LifeStep
  <2>2. ~Quit(x) /\ ~Crash(x)
    BY <1>0, <1>3, RestartedTo
  <2>3. CASE AcceptRoomInvite(x)
    BY <2>3, <1>0 DEF AcceptRoomInvite, Types, PendingType
  <2>4. CASE room[x].joined
    BY <1>0, <1>1, <1>2, <2>2, <2>4, PendingStep
  <2>5. QED BY <2>1, <2>3, <2>4
<1>4. x \notin asking'
  BY <1>0, <1>1, <1>2, CourseStep
<1>5. ASSUME NEW y \in People, NEW i \in DOMAIN mail'[y], mail'[y][i].kind = "ask" PROVE mail'[y][i].by # x
  <2>1. ASSUME NEW m \in asking, mail'[y][i] = Ask(m) PROVE mail'[y][i].by # x
    BY <1>2, <2>1 DEF Ask
  <2>2. ASSUME NEW m \in People, mail'[y][i] = Bundle(m) \/ mail'[y][i] = Answer(m) PROVE FALSE
    BY <1>5, <2>2 DEF Bundle, Answer
  <2>3. QED BY <1>0, <1>2, <1>5, <2>1, <2>2, MailStep
<1>6. ASSUME NEW i \in DOMAIN mail'[x], mail'[x][i].kind = "answer" PROVE FALSE
  <2>1. ASSUME NEW m \in People, mail'[x][i] = Bundle(m) \/ mail'[x][i] = Ask(m) PROVE FALSE
    BY <1>6, <2>1 DEF Bundle, Ask
  <2>2. QED BY <1>0, <1>2, <1>6, <2>1, MailStep
<1>7. QED BY <1>3, <1>4, <1>5, <1>6

\* A listing stands while neither is removed.
LEMMA ListedStep ==
  ASSUME Told, Gentle, Settled, Steady, Next, NEW i \in People, NEW x \in Present', x \in room[i].members
  PROVE  x \in room'[i].members
<1>1. Typed /\ Informed /\ Disk(i)
  BY ToldMeans
<1>2. x \notin Gone'
  BY DEF Present
<1>3. QED BY <1>1, <1>2, StandingStep

LEMMA AcquaintedStep ==
  ASSUME Told, Gentle, Settled, Steady, Next, NEW x \in Present'
  PROVE  Acquainted(x)'
<1>0. /\ Typed /\ Types /\ Types' /\ Others /\ Informed /\ Informed' /\ Owner \in People /\ Owner \in Present'
      /\ x \in People /\ x \in Present /\ Acquainted(x) /\ Disk(x)
  BY ToldMeans DEF Told
<1>1. ASSUME NEW it \in Invites(x) PROVE it.by \in People /\ x \in room'[it.by].members /\ (x # Owner => Owner \in it.members)
  <2>1. it.by \in People
    <3>1. \A i \in DOMAIN mail[x] : mail[x][i] \in Mail
      <4>1. mail[x] \in Seq(Mail)
        BY <1>0, PersonTypes
      <4>2. QED BY <4>1
    <3>2. it \in Invitation
      BY <1>0, <3>1, MailTypes, PersonTypes DEF Invites
    <3>3. QED BY <3>2, InvitationTypes
  <2>2. x \in room[it.by].members /\ (x # Owner => Owner \in it.members)
    BY <1>0 DEF Acquainted
  <2>3. QED BY <2>1, <2>2, ListedStep
<1>2. ASSUME room'[x].encrypted, x # Owner PROVE Owner \in room'[x].members /\ \E i \in People : x \in room'[i].members
  <2>1. CASE room[x].encrypted
    <3>1. PICK i \in People : x \in room[i].members
      BY <1>0, <1>2, <2>1 DEF Acquainted
    <3>2. Owner \in room[x].members
      BY <1>0, <1>2, <2>1 DEF Acquainted
    <3>3. QED BY <1>0, <3>1, <3>2, ListedStep
  <2>2. CASE ~room[x].encrypted
    <3> DEFINE it == pending[x].what
               gone == IF it.by = Owner THEN (room[x].removed \cup it.removed) \ it.members ELSE room[x].removed
    <3>1. AdoptInviteState(x)
      BY <1>0, <1>2, <2>2, StandingStep
    <3>2. /\ pending[x].pc = "adopt" /\ room'[x].removed = gone
          /\ room'[x].members = room[x].members \cup {it.by} \cup (it.members \ ({x} \cup gone))
      BY <1>0, <3>1, AdoptInviteStateTypes
    <3>3. it \in Invites(x)
      BY <3>2 DEF Invites
    <3> HIDE DEF gone
    <3>4. Owner \notin gone
      <4>1. Knows(x)'
        BY <1>0 DEF Informed
      <4>2. QED BY <1>0, <3>2, <4>1 DEF Knows, Present
    <3>5. it.by \in People /\ x \in room'[it.by].members /\ Owner \in it.members
      BY <1>1, <1>2, <3>3
    <3>6. QED BY <1>2, <3>2, <3>4, <3>5
  <2>3. QED BY <2>1, <2>2
<1>3. ASSUME NEW it \in Invites(x)' PROVE x \in room'[it.by].members /\ (x # Owner => Owner \in it.members)
  <2>1. CASE it \in Invites(x)
    BY <1>1, <2>1
  <2>2. ASSUME NEW m \in People, SendInvite(m), invite[m].whom = x, it = Bundle(m)
        PROVE  x \in room'[it.by].members /\ (x # Owner => Owner \in it.members)
    <3>1. invite[m].pc = "bundle" /\ m \in Present
      BY <2>2 DEF SendInvite, Steady, Present
    <3>2. x \in room[m].members
      BY <1>0, <2>2, <3>1 DEF Acquainted
    <3>3. room[m].encrypted
      <4>1. Knows(m)
        BY <1>0 DEF Informed
      <4>2. QED BY <3>2, <4>1 DEF Knows
    <3>4. m # Owner => Owner \in room[m].members
      BY <3>1, <3>3 DEF Told, Acquainted
    <3>5. it.by = m /\ it.members = room[m].members \cup {m}
      BY <2>2 DEF Bundle, Roster
    <3>6. QED BY <3>2, <3>4, <3>5, ListedStep
  <2>3. QED BY <1>0, <2>1, <2>2, InvitesStep
<1>4. ASSUME NEW i \in People, invite'[i].pc # "none", invite'[i].whom = x PROVE x \in room'[i].members
  <2>1. CASE invite[i].pc # "none" /\ invite'[i].whom = invite[i].whom
    <3>1. x \in room[i].members
      BY <1>0, <1>4, <2>1 DEF Acquainted
    <3>2. QED BY <3>1, ListedStep
  <2>2. ASSUME NEW p \in People \ {i}, InviteToRoom(i, p), invite'[i].whom = p PROVE x \in room'[i].members
    BY <1>0, <2>2, InviteToRoomTypes, <1>4
  <2>3. QED BY <1>0, <1>4, <2>1, <2>2, CourseStep
<1>5. QED BY <1>2, <1>3, <1>4 DEF Acquainted

-----------------------------------------------------------------------------
(* A chain in use is everybody's who is in, or on the way in. *)

\* What a bundle has of a chain its maker has read under.
LEMMA BundleReads ==
  ASSUME Types, NEW m \in People, NEW c \in Chains, invite[m].whom \in room[m].members,
         room[m].passed[c] # 0, room[m].views[c] <= room[m].passed[c]
  PROVE  Bundle(m).chains[c] = room[m].passed[c]
<1>1. room[m].views[c] \in Nat /\ room[m].passed[c] \in Nat
  BY PersonTypes, NumberTypes
<1>2. higher(room[m].views[c], room[m].passed[c]) = room[m].passed[c]
  BY <1>1 DEF higher
<1>3. QED BY <1>2 DEF Bundle, ChainBundleFor

\* Whoever takes a chain into use is heard of by all, and has heard of all.
LEMMA TakenUp ==
  ASSUME Told, Gentle, Settled, Steady, Next, NEW s \in Present, NEW x \in Present, s # x, DistributeChain(s)
  PROVE  /\ \A i \in People : x \in room[i].members => x \in room[s].members
         /\ x \in room[s].members => s \in room[x].members
         /\ room[x].encrypted => x \in room[s].members /\ s \in room[x].members
<1>0. Types /\ Informed /\ Present \subseteq People /\ Owner \in People
  BY ToldMeans
<1>1. ~Unheard(s)
  BY GentleMeans DEF DistributeChain
<1>2. ASSUME NEW i \in People, x \in room[i].members PROVE x \in room[s].members
  BY <1>0, <1>1, <1>2 DEF Unheard, Present, Gone
<1>3. x \in room[s].members => s \in room[x].members
  BY <1>0, <1>1 DEF Unheard
<1>4. ASSUME s \in room[x].members PROVE x \in room[s].members
  <2>1. x # Owner \/ s # Owner
    OBVIOUS
  <2>2. room[s].out # 0
    BY <1>0, PersonTypes DEF DistributeChain, Position
  <2>3. room[s].encrypted /\ room[x].encrypted
    <3>1. Knows(s) /\ Knows(x)
      BY <1>0 DEF Informed
    <3>2. QED BY <1>4, <2>2, <3>1 DEF Knows
  <2>4. CASE x # Owner
    BY <1>2, <2>3, <2>4 DEF Told, Acquainted
  <2>5. CASE x = Owner
    BY <2>3, <2>5 DEF Told, Acquainted
  <2>6. QED BY <2>4, <2>5
<1>5. ASSUME room[x].encrypted PROVE x \in room[s].members
  <2>1. CASE x # Owner
    BY <1>2, <1>5, <2>1 DEF Told, Acquainted
  <2>2. CASE x = Owner
    BY <1>0, PersonTypes, <2>2 DEF DistributeChain, Position, Informed, Knows, Told, Acquainted
  <2>3. QED BY <2>1, <2>2
<1>6. QED BY <1>2, <1>3, <1>5

LEMMA GivenStep ==
  ASSUME Told, Gentle, Settled, Steady, Next, NEW s \in Present', NEW x \in Present', s # x
  PROVE  Given(s, x)'
<1> SUFFICES ASSUME Current(s)'
             PROVE  IF room'[x].encrypted
                    THEN s \in room'[x].members /\ Reach(x, Chain(s), room[s].next)'
                    ELSE \A it \in Invites(x)' : s \in it.members /\ it.chains[Chain(s)'] <= room'[s].next
  BY DEF Given
<1>0. /\ Typed /\ Types /\ Types' /\ Others /\ Informed /\ Informed' /\ Chained /\ Owner \in People
      /\ x \in People /\ x \in Present /\ s \in People /\ s \in Present /\ Disk(x) /\ Disk(s) /\ Disk(x)
      /\ Present \subseteq People
  BY ToldMeans
<1>t. Acquainted(x) /\ Acquainted(s) /\ Heard(x) /\ Given(s, x) /\ Seen(x)
  BY <1>0 DEF Told
<1>1. /\ Chain(s)' = Chain(s) /\ room'[s].next >= room[s].next
      /\ DistributeChain(s) \/ Current(s)
  BY <1>0, CurrentStep
<1>2. Chain(s) \in Chains /\ Chain(s)[1] = s /\ room[s].next \in Nat /\ room'[s].next \in Nat
  BY <1>0, ToldMeans, NumberTypes, MaxChainsType, <1>1 DEF Current, Chain, Chains
<1>3. Retention \in Nat /\ room'[x].views[Chain(s)] \in Nat /\ room'[x].passed[Chain(s)] \in Nat
  <2>1. room'[x] \in Held
    BY <1>0, ToldMeans
  <2>2. QED BY <1>2, <2>1, NumberTypes, ViewsAssumption
<1>4. ASSUME Reads(x, Chain(s), room[s].next)' \/ Underway(x, Chain(s))' PROVE Reach(x, Chain(s), room[s].next)'
  BY <1>4 DEF Reach
<1>5. ASSUME \/ room'[x].views[Chain(s)] <= room[s].next
             \/ room'[x].views[Chain(s)] + Retention + 1 <= room'[x].passed[Chain(s)]
      PROVE Reads(x, Chain(s), room[s].next)'
  BY <1>1, <1>2, <1>3, <1>5 DEF Reads
<1>6. ASSUME NEW k \in Nat, k <= room[s].next, Reach(x, Chain(s), k)' PROVE Reach(x, Chain(s), room[s].next)'
  <2>1. CASE Underway(x, Chain(s))'
    BY <1>4, <2>1
  <2>2. CASE ~Underway(x, Chain(s))'
    BY <1>6, <2>2, <1>1, <1>2, <1>3, <1>4, <1>5 DEF Reach, Reads
  <2>3. QED BY <2>1, <2>2
<1>7. ASSUME DistributeChain(s), room'[x].encrypted
      PROVE  s \in room'[x].members /\ Reach(x, Chain(s), room[s].next)'
  <2>1. room'[x] = room[x]
    BY <1>0, <1>7, DistributeChainTypes
  <2>2. x \in room[s].members /\ s \in room[x].members
    BY <1>0, <1>7, <2>1, TakenUp
  <2>3. inbox'[x] = Append(inbox[x], ChainBroadcast(s)) /\ inbox[x] \in Seq(Said)
    BY <1>7, <2>2, GentleMeans, <1>0, PersonTypes DEF DistributeChain, Post
  <2>4. ChainBroadcast(s).kind = "chain" /\ ChainBroadcast(s).chain = Chain(s) /\ x \in ChainBroadcast(s).to
        /\ ChainBroadcast(s) \in Said
    BY <1>0, PersonTypes, NumberTypes, <1>2, <2>2 DEF ChainBroadcast, Chain, Said
  <2>5. Len(inbox[x]) + 1 \in DOMAIN inbox'[x] /\ inbox'[x][Len(inbox[x]) + 1] = ChainBroadcast(s)
    BY <2>3, <2>4, AppendedOf
  <2>6. Underway(x, Chain(s))'
    BY <1>1, <2>4, <2>5 DEF Underway
  <2>7. QED BY <1>4, <2>1, <2>2, <2>6
<1>8. ASSUME Current(s), room[x].encrypted PROVE s \in room'[x].members /\ Reach(x, Chain(s), room[s].next)'
  <2>1. s \in room[x].members /\ Reach(x, Chain(s), room[s].next)
    BY <1>t, <1>8 DEF Given
  <2>2. s \in room'[x].members
    BY <1>0, <2>1, ListedStep
  <2> DEFINE c == Chain(s)
             k == room[s].next
  <2>3. c \in Chains /\ c[1] \in Present /\ k \in Nat /\ Reach(x, c, k)
    BY <1>0, <1>2, <2>1
  <2>4. \/ room'[x].views[c] <= k \/ room'[x].views[c] + Retention + 1 <= room'[x].passed[c]
        \/ \E i \in DOMAIN inbox'[x] : inbox'[x][i].kind = "chain" /\ inbox'[x][i].chain = c /\ x \in inbox'[x][i].to
    <3> HIDE DEF c, k
    <3>1. \A d \in Chains, n \in Nat : Reach(x, d, n) /\ d[1] \in Present =>
            \/ room'[x].views[d] <= n \/ room'[x].views[d] + Retention + 1 <= room'[x].passed[d]
            \/ \E i \in DOMAIN inbox'[x] : inbox'[x][i].kind = "chain" /\ inbox'[x][i].chain = d /\ x \in inbox'[x][i].to
      BY <1>0, <1>t, ReachStep DEF Reach, Reads, Underway
    <3>2. QED BY <2>3, <3>1
  <2>5. CASE \E i \in DOMAIN inbox'[x] : inbox'[x][i].kind = "chain" /\ inbox'[x][i].chain = c /\ x \in inbox'[x][i].to
    <3>1. Underway(x, Chain(s))'
      BY <1>1, <2>5 DEF Underway
    <3>2. QED BY <1>4, <2>2, <3>1
  <2>6. QED BY <1>4, <1>5, <2>2, <2>4, <2>5
<1>9. ASSUME Current(s), ~room[x].encrypted, room'[x].encrypted
      PROVE  s \in room'[x].members /\ Reach(x, Chain(s), room[s].next)'
  <2> DEFINE it == pending[x].what
             gone == IF it.by = Owner THEN (room[x].removed \cup it.removed) \ it.members ELSE room[x].removed
  <2>1. AdoptInviteState(x)
    BY <1>0, <1>9, StandingStep
  <2>2. /\ pending[x].pc = "adopt" /\ room'[x].removed = gone /\ it \in Invitation
        /\ room'[x].members = room[x].members \cup {it.by} \cup (it.members \ ({x} \cup gone))
    BY <1>0, <2>1, AdoptInviteStateTypes
  <2>3. it \in Invites(x)
    BY <2>2 DEF Invites
  <2> HIDE DEF gone
  <2>4. s \in it.members /\ it.chains[Chain(s)] <= room[s].next
    BY <1>t, <1>9, <2>3 DEF Given
  <2>5. s \notin gone
    <3>1. Knows(x)'
      BY <1>0 DEF Informed
    <3>2. QED BY <2>2, <3>1 DEF Knows, Present
  <2>6. s \in room'[x].members
    BY <2>2, <2>4, <2>5
  <2>7. \/ room'[x].views[Chain(s)] <= it.chains[Chain(s)]
        \/ room'[x].views[Chain(s)] + Retention < room'[x].passed[Chain(s)]
    BY <1>0, <1>2, <2>1, LifeStep
  <2>8. it.chains[Chain(s)] \in Nat
    BY <1>2, <2>2, InvitationTypes
  <2>9. \/ room'[x].views[Chain(s)] <= room[s].next
        \/ room'[x].views[Chain(s)] + Retention + 1 <= room'[x].passed[Chain(s)]
    BY <1>2, <1>3, <2>4, <2>7, <2>8
  <2>10. QED BY <1>4, <1>5, <2>6, <2>9
<1>10. ASSUME ~room[x].encrypted, NEW it \in Invites(x)' PROVE s \in it.members /\ it.chains[Chain(s)'] <= room'[s].next
  <2>0. Knows(x)
    BY <1>0 DEF Informed
  <2>1. CASE it \in Invites(x) /\ Current(s)
    <3>1. s \in it.members /\ it.chains[Chain(s)] <= room[s].next
      BY <1>t, <1>10, <2>1 DEF Given
    <3>2. it.chains[Chain(s)] \in Nat
      <4>1. mail[x] \in Seq(Mail) /\ (pending[x].pc # "none" => pending[x].what \in Invitation)
        BY <1>0, PersonTypes
      <4>2. \A i \in DOMAIN mail[x] : mail[x][i] \in Mail
        BY <4>1
      <4>3. it \in Invitation
        BY <2>1, <4>1, <4>2, MailTypes DEF Invites
      <4>4. QED BY <1>2, <4>3, InvitationTypes
    <3>3. QED BY <1>1, <1>2, <3>1, <3>2
  <2>2. CASE it \in Invites(x) /\ DistributeChain(s)
    <3>1. it.by \in People /\ x \in room[it.by].members
      <4>1. x \in room[it.by].members
        BY <1>t, <2>2 DEF Acquainted
      <4>2. mail[x] \in Seq(Mail) /\ (pending[x].pc # "none" => pending[x].what \in Invitation)
        BY <1>0, PersonTypes
      <4>3. \A i \in DOMAIN mail[x] : mail[x][i] \in Mail
        BY <4>2
      <4>4. it \in Invitation
        BY <2>2, <4>2, <4>3, MailTypes DEF Invites
      <4>5. QED BY <4>1, <4>4, InvitationTypes
    <3>2. s \in room[x].members
      BY <1>0, <2>2, <3>1, TakenUp
    <3>3. QED BY <1>10, <2>0, <3>2 DEF Knows
  <2>3. ASSUME NEW m \in People, SendInvite(m), invite[m].whom = x, it = Bundle(m)
        PROVE  s \in it.members /\ it.chains[Chain(s)'] <= room'[s].next
    <3>1. invite[m].pc = "bundle" /\ m \in Present /\ ~Unspoken(m)
      BY <2>3, GentleMeans DEF SendInvite, Steady, Present, UpsetIf
    <3>2. Current(s)
      <4>1. ~DistributeChain(s)
        BY <1>0, <2>3, <3>1 DEF DistributeChain, SendInvite, Types, InviteType
      <4>2. QED BY <1>1, <4>1
    <3>3. x \in room[m].members /\ room[m].encrypted
      BY <1>t, <2>3, <3>1, <1>0 DEF Acquainted, Informed, Knows
    <3>4. s \in {m} \cup room[m].members
      <4>1. CASE m = s
        BY <4>1
      <4>2. CASE m # s
        BY <1>0, <3>1, <3>2, <3>3, <4>2 DEF Told, Given
      <4>3. QED BY <4>1, <4>2
    <3>5. room[m].passed[Chain(s)] # 0
      BY <3>1, <3>2, <3>4 DEF Unspoken, Current, Chain
    <3>6. /\ room[m].views[Chain(s)] <= room[m].passed[Chain(s)]
          /\ room[m].passed[Chain(s)] <= room[s].next
      BY <3>2, <1>0, <1>2, <3>5 DEF Told, Current, Seen
    <3>7. it.chains[Chain(s)] = room[m].passed[Chain(s)]
      BY <1>0, <1>2, <2>3, <3>3, <3>5, <3>6, BundleReads
    <3>8. room[m].passed[Chain(s)] \in Nat
      <4>1. room[m] \in Held
        BY ToldMeans
      <4>2. QED BY <1>2, <4>1, NumberTypes
    <3>9. s \in it.members
      BY <2>3, <3>4 DEF Bundle, Roster
    <3>10. QED BY <1>1, <1>2, <3>6, <3>7, <3>8, <3>9
  <2>4. QED BY <1>0, <1>1, <2>1, <2>2, <2>3, InvitesStep
<1>11. /\ room[x].encrypted \in BOOLEAN /\ room'[x].encrypted \in BOOLEAN
       /\ ~room'[x].encrypted => ~room[x].encrypted
  BY <1>0, ToldMeans, NumberTypes, StandingStep
<1>12. QED BY <1>1, <1>7, <1>8, <1>9, <1>10, <1>11

-----------------------------------------------------------------------------
(* Broadcasts come first, and from members. *)

LEMMA HeardStep ==
  ASSUME Told, Gentle, Settled, Steady, Next, NEW x \in Present'
  PROVE  Heard(x)'
<1> DEFINE From(it) == x \in it.to /\ it.chain[1] \in Present' => it.chain[1] \in room'[x].members
           Box == inbox'[x]
<1>0. /\ Typed /\ Types /\ Types' /\ Chained /\ x \in People /\ x \in Present
      /\ Present' \subseteq Present /\ Present \subseteq People
  BY ToldMeans
<1>1. Heard(x) /\ inbox[x] \in Seq(Said)
  BY <1>0, PersonTypes DEF Told
<1>2. \A i \in DOMAIN inbox[x] : inbox[x][i].kind = "text" => inbox[x][i].text \in said
  BY <1>0 DEF Types, InboxType
<1>3. ASSUME NEW i \in DOMAIN inbox[x], inbox[x][i].kind = "chain" PROVE From(inbox[x][i])
  BY <1>0, <1>1, <1>3, ListedStep DEF Heard
<1>4. SUFFICES ASSUME NEW i \in DOMAIN Box, Box[i].kind = "chain"
               PROVE  /\ From(Box[i])
                      /\ \A j \in DOMAIN Box : Box[j].kind = "text" /\ Box[j].text.chain = Box[i].chain => i < j
  BY DEF Heard
<1>5. CASE Box = inbox[x]
  BY <1>1, <1>3, <1>4, <1>5 DEF Heard
<1>6. CASE Box = <<>>
  BY <1>4, <1>6
<1>7. CASE inbox[x] # <<>> /\ Box = Tail(inbox[x])
  <2>1. \A k \in DOMAIN Box : k \in Nat /\ k + 1 \in DOMAIN inbox[x] /\ Box[k] = inbox[x][k + 1]
    BY <1>1, <1>7, TailedOf
  <2>2. From(Box[i])
    BY <1>3, <1>4, <2>1
  <2>3. ASSUME NEW j \in DOMAIN Box, Box[j].kind = "text", Box[j].text.chain = Box[i].chain PROVE i < j
    <3>1. i + 1 < j + 1
      BY <1>1, <1>4, <2>1, <2>3 DEF Heard
    <3>2. QED BY <2>1, <3>1
  <2>4. QED BY <2>2, <2>3
<1>8. ASSUME NEW m \in People \ {x}, DistributeChain(m), Box = Append(inbox[x], ChainBroadcast(m)) PROVE
        /\ From(Box[i])
        /\ \A j \in DOMAIN Box : Box[j].kind = "text" /\ Box[j].text.chain = Box[i].chain => i < j
  <2>1. ChainBroadcast(m) \in Said
    BY <1>0, <1>8, SaidItems
  <2>2. /\ \A k \in DOMAIN Box : k \in Nat /\ \/ k \in DOMAIN inbox[x] /\ Box[k] = inbox[x][k]
                                              \/ k = Len(inbox[x]) + 1 /\ Box[k] = ChainBroadcast(m)
        /\ \A k \in DOMAIN inbox[x] : k < Len(inbox[x]) + 1
    BY <1>1, <1>8, <2>1, AppendedOf
  <2>3. /\ ChainBroadcast(m).kind = "chain" /\ ChainBroadcast(m).to = room[m].members
        /\ ChainBroadcast(m).chain = Chain(m) /\ Chain(m)[1] = m
    BY DEF ChainBroadcast, Chain
  <2>4. From(ChainBroadcast(m))
    BY <2>3, <1>0, <1>8, TakenUp, ListedStep
  <2>5. \A h \in said : h.chain # Chain(m)
    BY <1>0, <1>8 DEF Chained, Numbered, DistributeChain, Chain
  <2>6. ASSUME NEW j \in DOMAIN Box, Box[j].kind = "text", Box[j].text.chain = Box[i].chain PROVE i < j
    BY <2>2, <2>3, <2>6, <1>2, <1>4, <2>5, <1>1 DEF Heard
  <2>7. From(Box[i])
    <3>1. CASE i \in DOMAIN inbox[x] /\ Box[i] = inbox[x][i]
      BY <1>3, <1>4, <3>1
    <3>2. CASE Box[i] = ChainBroadcast(m)
      BY <2>4, <3>2
    <3>3. QED BY <1>4, <2>2, <3>1, <3>2
  <2>8. QED BY <2>6, <2>7
<1>9. ASSUME NEW m \in People, SealRoomMessage(m), Usable(room[m]),
             Box = Append(inbox[x], [kind |-> "text", text |-> SealRoomChain(m)]) PROVE
        /\ From(Box[i])
        /\ \A j \in DOMAIN Box : Box[j].kind = "text" /\ Box[j].text.chain = Box[i].chain => i < j
  <2> DEFINE item == [kind |-> "text", text |-> SealRoomChain(m)]
  <2>1. item \in Said /\ item.kind = "text"
    BY <1>0, <1>9, SaidItems
  <2> HIDE DEF item
  <2>2. /\ \A k \in DOMAIN Box : k \in Nat /\ \/ k \in DOMAIN inbox[x] /\ Box[k] = inbox[x][k]
                                              \/ k = Len(inbox[x]) + 1 /\ Box[k] = item
        /\ \A k \in DOMAIN inbox[x] : k < Len(inbox[x]) + 1
    BY <1>9, <1>1, <2>1, AppendedOf DEF item
  <2>3. i \in DOMAIN inbox[x] /\ Box[i] = inbox[x][i]
    BY <1>4, <2>1, <2>2
  <2>4. From(Box[i])
    BY <1>3, <1>4, <2>3
  <2>5. ASSUME NEW j \in DOMAIN Box, Box[j].kind = "text", Box[j].text.chain = Box[i].chain PROVE i < j
    <3>1. CASE j \in DOMAIN inbox[x] /\ Box[j] = inbox[x][j]
      BY <1>1, <1>4, <2>3, <2>5, <3>1 DEF Heard
    <3>2. CASE j = Len(inbox[x]) + 1
      BY <2>2, <2>3, <3>2
    <3>3. QED BY <2>2, <2>5, <3>1, <3>2
  <2>6. QED BY <2>4, <2>5
<1>10. QED
  BY <1>0, InboxStep, <1>5, <1>6, <1>7, <1>8, <1>9

-----------------------------------------------------------------------------
(* Whatever is awaited can be opened. *)

\* What is awaited and was said before was awaited already.
LEMMA AwaitsStep ==
  ASSUME Told, Gentle, Settled, Steady, Next, NEW x \in Present', NEW h \in said, Awaits(x, h)'
  PROVE  Awaits(x, h)
<1>0. /\ Typed /\ Types /\ Types' /\ x \in People /\ Newcomer(x) /\ Informed /\ Disk(x)
      /\ Present \subseteq People
  BY ToldMeans
<1>1. /\ inbox[x] \in Seq(Said) /\ h.at \in Nat /\ Cardinality(said) \in Nat /\ h.at <= Cardinality(said)
      /\ room[x].since \in Nat /\ room'[x].since \in Nat
  BY <1>0, ToldMeans, SaidOf, PersonTypes, NumberTypes DEF Message
<1>2. ASSUME NEW i \in DOMAIN inbox'[x], inbox'[x][i].kind = "text", inbox'[x][i].text = h
      PROVE  Awaits(x, h)
  <2>1. ASSUME NEW j \in DOMAIN inbox[x], inbox'[x][i] = inbox[x][j] PROVE Awaits(x, h)
    BY <1>2, <2>1 DEF Awaits
  <2>2. CASE inbox'[x] = inbox[x]
    BY <2>1, <2>2
  <2>3. CASE inbox[x] # <<>> /\ inbox'[x] = Tail(inbox[x])
    BY <1>1, <2>1, <2>3, TailedOf
  <2>4. ASSUME NEW m \in People, DistributeChain(m), inbox'[x] = Append(inbox[x], ChainBroadcast(m))
        PROVE  Awaits(x, h)
    BY <1>0, <2>4, SaidItems, <1>1, <1>2, AppendedOf, <2>1 DEF ChainBroadcast
  <2>5. ASSUME NEW m \in People, Usable(room[m]),
               inbox'[x] = Append(inbox[x], [kind |-> "text", text |-> SealRoomChain(m)])
        PROVE  Awaits(x, h)
    <3> DEFINE item == [kind |-> "text", text |-> SealRoomChain(m)]
    <3>1. item \in Said /\ item.text.at = Cardinality(said) + 1
      BY <1>0, <2>5, SaidItems DEF SealRoomChain
    <3> HIDE DEF item
    <3>2. inbox'[x][i] # item
      BY <1>1, <1>2, <3>1
    <3>3. inbox'[x] = Append(inbox[x], item)
      BY <2>5 DEF item
    <3>4. i \in DOMAIN inbox[x] /\ inbox'[x][i] = inbox[x][i]
      BY <1>1, <3>1, <3>2, <3>3, AppendedOf
    <3>5. QED BY <2>1, <3>4
  <2>6. inbox'[x] # <<>>
    BY <1>2
  <2>7. \/ inbox'[x] = inbox[x]
        \/ inbox[x] # <<>> /\ inbox'[x] = Tail(inbox[x])
        \/ \E m \in People : DistributeChain(m) /\ inbox'[x] = Append(inbox[x], ChainBroadcast(m))
        \/ \E m \in People : /\ Usable(room[m])
                             /\ inbox'[x] = Append(inbox[x], [kind |-> "text", text |-> SealRoomChain(m)])
    BY <1>0, <2>6, InboxStep
  <2>8. QED BY <2>2, <2>3, <2>4, <2>5, <2>7
<1>3. ASSUME room'[x].encrypted, h.at > room'[x].since PROVE Awaits(x, h)
  <2>1. CASE room[x].encrypted
    BY <1>0, <2>1, LifeStep, <1>1, <1>3 DEF Awaits
  <2>2. CASE ~room[x].encrypted
    BY <1>0, <1>3, <2>2, StandingStep, LifeStep, <1>1
  <2>3. QED BY <2>1, <2>2
<1>4. ASSUME NEW y \in People, NEW i \in DOMAIN mail'[y], mail'[y][i].kind = "ask", mail'[y][i].by = x,
             h.at > mail'[y][i].since
      PROVE  Awaits(x, h)
  <2>1. ASSUME NEW j \in DOMAIN mail[y], mail'[y][i] = mail[y][j] PROVE Awaits(x, h)
    BY <1>4, <2>1 DEF Awaits
  <2>2. ASSUME NEW m \in People, m \in asking, mail'[y][i] = Ask(m) PROVE Awaits(x, h)
    BY <1>4, <2>2, <1>0 DEF Ask, Newcomer, Awaits
  <2>3. \A m \in People : mail'[y][i] # Bundle(m) /\ mail'[y][i] # Answer(m)
    BY <1>4 DEF Bundle, Answer
  <2>4. QED BY <1>0, <1>4, <2>1, <2>2, <2>3, MailStep
<1>5. ASSUME NEW i \in DOMAIN mail'[x], mail'[x][i].kind = "answer", h \in mail'[x][i].messages
      PROVE  Awaits(x, h)
  <2>1. ASSUME NEW j \in DOMAIN mail[x], mail'[x][i] = mail[x][j] PROVE Awaits(x, h)
    BY <1>5, <2>1 DEF Awaits
  <2>2. ASSUME NEW m \in People, 1 \in DOMAIN mail[m], mail[m][1].kind = "ask", mail[m][1].by = x,
               mail'[x][i] = Answer(m)
        PROVE  Awaits(x, h)
    BY <1>5, <2>2 DEF Answer, RoomHistorySince, Awaits
  <2>3. \A m \in People : mail'[x][i] # Bundle(m) /\ mail'[x][i] # Ask(m)
    BY <1>5 DEF Bundle, Ask
  <2>4. QED BY <1>0, <1>5, <2>1, <2>2, <2>3, MailStep
<1>6. \/ \E i \in DOMAIN inbox'[x] : inbox'[x][i].kind = "text" /\ inbox'[x][i].text = h
      \/ room'[x].encrypted /\ h.at > room'[x].since
      \/ \E y \in People : \E i \in DOMAIN mail'[y] : /\ mail'[y][i].kind = "ask" /\ mail'[y][i].by = x
                                                      /\ h.at > mail'[y][i].since
      \/ \E i \in DOMAIN mail'[x] : mail'[x][i].kind = "answer" /\ h \in mail'[x][i].messages
  BY DEF Awaits
<1>7. QED BY <1>2, <1>3, <1>4, <1>5, <1>6

LEMMA AwaitsOutsideNext ==
  ASSUME Types', NEW x \in People, Newcomer(x)', ~room'[x].encrypted, NEW h, Awaits(x, h)'
  PROVE  pending'[x].pc = "adopt"
<1>1. \E i \in DOMAIN inbox'[x] : inbox'[x][i].kind = "text" /\ inbox'[x][i].text = h
  BY DEF Newcomer, Awaits
<1>2. inbox'[x] # <<>>
  BY <1>1
<1>3. room'[x].joined
  BY <1>2 DEF Types, InboxType
<1>4. QED BY <1>3 DEF Newcomer

LEMMA ReadableStep ==
  ASSUME Told, Gentle, Settled, Steady, Next, NEW x \in Present'
  PROVE  Readable(x)'
<1>0. /\ Typed /\ Types /\ Types' /\ x \in People /\ x \in Present /\ Informed /\ Disk(x)
      /\ Present' \subseteq Present /\ Present \subseteq People /\ room'[x] \in Held /\ Newcomer(x)'
  BY ToldMeans, NewcomerStep
<1>1. Readable(x) /\ Heard(x)
  BY <1>0 DEF Told
<1>2. SUFFICES ASSUME NEW h \in said', Awaits(x, h)', x \in h.for, h.chain[1] \in Present'
               PROVE  IF room'[x].encrypted THEN Reach(x, h.chain, h.index)'
                      ELSE pending'[x].what.chains[h.chain] <= h.index
  BY DEF Readable
<1>3. room[x].encrypted => room'[x].encrypted
  BY <1>0, StandingStep
<1>4. ~room[x].encrypted /\ room'[x].encrypted => AdoptInviteState(x)
  BY <1>0, StandingStep
<1>5. ~room'[x].encrypted => pending'[x].pc = "adopt"
  BY <1>0, <1>2, AwaitsOutsideNext
<1>6. CASE h \in said
  <2>1. /\ h.chain[1] \in Present /\ h.chain \in Chains /\ h.index \in Nat
    BY <1>0, <1>2, <1>6, SaidOf
  <2>2. Awaits(x, h)
    BY <1>2, <1>6, AwaitsStep
  <2>3. IF room[x].encrypted THEN Reach(x, h.chain, h.index)
        ELSE pending[x].what.chains[h.chain] <= h.index
    BY <1>1, <1>2, <1>6, <2>1, <2>2 DEF Readable
  <2>4. CASE room[x].encrypted
    BY <1>0, <1>1, <2>1, <2>3, <2>4, ReachStep, <1>3
  <2>5. CASE ~room[x].encrypted /\ room'[x].encrypted
    <3>1. AdoptInviteState(x)
      BY <1>4, <2>5
    <3>2. \/ room'[x].views[h.chain] <= pending[x].what.chains[h.chain]
          \/ room'[x].views[h.chain] + Retention < room'[x].passed[h.chain]
      BY <1>0, <2>1, <3>1, LifeStep
    <3>3. /\ pending[x].what \in Invitation /\ pending[x].what.chains[h.chain] \in Nat
          /\ room'[x].views[h.chain] \in Nat /\ room'[x].passed[h.chain] \in Nat /\ Retention \in Nat
      BY <1>0, <3>1, PersonTypes, <2>1, NumberTypes, InvitationTypes, ViewsAssumption DEF
         AdoptInviteState
    <3>4. \/ room'[x].views[h.chain] <= h.index
          \/ room'[x].views[h.chain] + Retention + 1 <= room'[x].passed[h.chain]
      BY <2>1, <2>3, <2>5, <3>2, <3>3
    <3>5. Reach(x, h.chain, h.index)'
      BY <3>4 DEF Reach, Reads
    <3>6. QED BY <2>5, <3>5
  <2>6. CASE ~room[x].encrypted /\ ~room'[x].encrypted
    <3>1. \/ pending'[x] = pending[x] \/ pending'[x] = [pc |-> "adopt", what |-> pending[x].what]
          \/ pending'[x] = [pc |-> "waiting", what |-> mail[x][1]] \/ pending'[x].pc = "none"
      BY <1>0, PendingStep
    <3>2. pending'[x].what = pending[x].what
      BY <1>5, <2>6, <3>1
    <3>3. QED BY <2>3, <2>6, <3>2
  <2>7. QED BY <2>4, <2>5, <2>6
<1>7. CASE h \notin said
  <2>1. PICK m \in People : SealRoomMessage(m) /\ Usable(room[m]) /\ said' = said \cup {SealRoomChain(m)}
    BY <1>0, <1>7, SaidStep
  <2>2. /\ h = SealRoomChain(m) /\ h.chain = Chain(m) /\ h.index = room[m].next /\ h.for = room[m].members
        /\ Chain(m)[1] = m
    BY <1>2, <1>7, <2>1 DEF SealRoomChain, Chain
  <2>3. m # x /\ m \in Present /\ Current(m)
    BY <1>0, PersonTypes, <1>2, <2>2, <2>1 DEF Usable, Current
  <2>4. Given(m, x)
    BY <1>0, <2>3 DEF Told
  <2>5. room'[x] = room[x] /\ UNCHANGED pending
    BY <1>0, <2>1, <2>3, SealRoomMessageTypes DEF SealRoomMessage
  <2>6. CASE room[x].encrypted
    <3>1. Chain(m) \in Chains /\ room[m].next \in Nat
      <4>1. room[m] \in Held /\ MaxChains \in Nat
        BY <1>0, PersonTypes, MaxChainsType
      <4>2. QED BY <2>3, <4>1, NumberTypes DEF Chain, Chains, Current
    <3>2. Reach(x, h.chain, h.index)
      BY <2>2, <2>3, <2>4, <2>6 DEF Given
    <3>3. h.chain \in Chains /\ h.index \in Nat /\ h.chain[1] \in Present
      BY <2>2, <2>3, <3>1
    <3>4. Reach(x, h.chain, h.index)'
      BY <1>0, <1>1, <3>2, <3>3, ReachStep
    <3>5. QED BY <1>3, <2>6, <3>4
  <2>7. CASE ~room[x].encrypted
    BY <1>5, <2>5, <2>7, <2>2, <2>3, <2>4 DEF Invites, Given
  <2>8. QED BY <2>6, <2>7
<1>8. QED BY <1>6, <1>7

-----------------------------------------------------------------------------
(* Nothing is missed. *)

\* What is meant for somebody who awaits it opens, once no broadcast of its chain is under way.
LEMMA Opened ==
  ASSUME Told, Types, NEW x \in People, room[x].encrypted, NEW t \in said, MeantFor(x, t), Awaits(x, t),
         x \in Present => ~Underway(x, t.chain)
  PROVE  CanOpen(room[x], t)
<1>1. t.chain \in Chains /\ t.chain[1] \in People /\ t.index \in Nat
  BY SaidOf DEF Chains
<1>2. x \in t.for /\ x \in Present /\ t.chain[1] \in Present
  BY <1>1 DEF MeantFor, Present, Gone
<1>3. Reach(x, t.chain, t.index)
  BY <1>2 DEF Told, Readable
<1>4. \/ room[x].views[t.chain] <= t.index
      \/ room[x].views[t.chain] + Retention + 1 <= room[x].passed[t.chain]
  BY <1>2, <1>3 DEF Reach, Reads
<1>5. t.index + Retention + 1 >= room[x].passed[t.chain]
  BY DEF MeantFor
<1>6. room[x].views[t.chain] \in Nat /\ room[x].passed[t.chain] \in Nat /\ Retention \in Nat
  BY <1>1, PersonTypes, NumberTypes, ViewsAssumption
<1>7. room[x].views[t.chain] <= t.index
  BY <1>1, <1>4, <1>5, <1>6
<1>8. QED BY <1>7 DEF CanOpen

LEMMA MissedStep ==
  ASSUME Told, Gentle, Settled, Next
  PROVE  missed' = missed
<1>0. Typed /\ Types /\ \A y \in People : Newcomer(y)
  BY ToldMeans
<1>1. ASSUME NEW x \in People, NEW texts, Decode(x, texts),
             \A t \in texts : MeantFor(x, t) => CanOpen(room[x], t)
      PROVE  missed' = missed
  BY <1>1 DEF Decode
<1>2. ASSUME NEW x \in People, HandleRoomMessage(x) PROVE missed' = missed
  <2>1. Arrives(x, "text") /\ Decode(x, {Head(inbox[x]).text})
    BY <1>2 DEF HandleRoomMessage
  <2>2. /\ Head(inbox[x]) = inbox[x][1] /\ 1 \in DOMAIN inbox[x] /\ inbox[x][1].kind = "text" /\ room[x].joined
        /\ inbox[x] \in Seq(Said)
    BY <1>0, PersonTypes, <2>1, ArrivesOf
  <2> DEFINE t == inbox[x][1].text
  <2>3. t \in said /\ Awaits(x, t)
    <3>1. t \in said
      BY <1>0, <2>2 DEF Types, InboxType
    <3>2. QED BY <2>2, <3>1 DEF Awaits
  <2>4. room[x].encrypted
    BY <2>1, GentleMeans, <1>0, <2>2 DEF Arrives, Newcomer
  <2>5. x \in Present => ~Underway(x, t.chain)
    BY <2>2 DEF Underway, Told, Heard
  <2>6. MeantFor(x, t) => CanOpen(room[x], t)
    BY <1>0, <2>3, <2>4, <2>5, Opened
  <2>7. QED BY <1>1, <2>1, <2>2, <2>6
<1>3. ASSUME NEW x \in People, MergeCatchup(x) PROVE missed' = missed
  <2>1. /\ Mailed(x, "answer") /\ Taken(x) /\ UpsetIf(Unread(x), "overtaken")
        /\ IF room[x].joined THEN Decode(x, Head(mail[x]).messages) ELSE UNCHANGED missed
    BY <1>3 DEF MergeCatchup
  <2>2. Head(mail[x]) = mail[x][1] /\ 1 \in DOMAIN mail[x] /\ mail[x][1].kind = "answer"
    BY <1>0, <2>1, MailedOf
  <2>3. CASE room[x].joined
    <3>1. room[x].encrypted
      BY <1>0, <2>2 DEF Newcomer
    <3>2. ~Unread(x)
      BY <2>1, GentleMeans
    <3>3. mail[x][1].messages \subseteq said
      BY <1>0, <2>2 DEF Types, MailType
    <3>4. ASSUME NEW t \in mail[x][1].messages, MeantFor(x, t) PROVE CanOpen(room[x], t)
      <4>1. Awaits(x, t)
        BY <2>2 DEF Awaits
      <4>2. ~Underway(x, t.chain)
        BY <3>2 DEF Underway, Unread
      <4>3. QED BY <1>0, <3>1, <3>3, <3>4, <4>1, <4>2, Opened
    <3>5. QED BY <1>1, <2>1, <2>2, <2>3, <3>4
  <2>4. QED BY <2>1, <2>3
<1>4. ASSUME NEW m \in People,
             \/ SendRoomMessage(m) \/ DistributeChain(m) \/ BroadcastFails(m) \/ SealRoomMessage(m)
             \/ SendInvite(m) \/ TellMembers(m) \/ HandleChainBroadcast(m)
      PROVE  missed' = missed
  BY <1>4 DEF SendRoomMessage, DistributeChain, BroadcastFails, SealRoomMessage, SendInvite, TellMembers,
              HandleChainBroadcast, past
<1>5. ASSUME NEW m \in People, ApplyRoster(m) \/ HandleRoomInvite(m) \/ ServeCatchup(m) PROVE missed' = missed
  BY <1>5 DEF ApplyRoster, HandleRoomInvite, ServeCatchup
<1>6. ASSUME NEW m \in People,
             \/ JoinRoom(m) \/ RequestCatchup(m) \/ AcceptRoomInvite(m) \/ AdoptInviteState(m)
             \/ LeaveRoom(m) \/ Quit(m) \/ Crash(m) \/ \E p \in People \ {m} : InviteToRoom(m, p)
      PROVE  missed' = missed
  BY <1>6 DEF JoinRoom, RequestCatchup, AcceptRoomInvite, AdoptInviteState, LeaveRoom, Quit, Crash,
              RestartFrom, InviteToRoom, past
<1>7. ASSUME NEW p \in People, RemoveMember(p) PROVE missed' = missed
  BY <1>7 DEF RemoveMember, past
<1>8. QED BY <1>2, <1>3, <1>4, <1>5, <1>6, <1>7 DEF Next

LEMMA ToldInit == Init => Told /\ missed = {}
<1> SUFFICES ASSUME Init PROVE Told /\ missed = {}
  OBVIOUS
<1>1. Secluded /\ Types
  BY SecludedInit DEF Secluded, Chained, Typed
<1>2. /\ said = {} /\ asking = {} /\ missed = {}
      /\ \A y \in People : /\ DOMAIN mail[y] = {} /\ DOMAIN inbox[y] = {} /\ pending[y].pc = "none"
                           /\ invite[y].pc = "none"
  <2>1. \A y \in People : mail[y] = <<>> /\ inbox[y] = <<>>
    BY DEF Init
  <2>2. \A y \in People : pending[y].pc = "none" /\ invite[y].pc = "none"
    BY DEF Init, NoInvite, NotInviting
  <2>3. said = {} /\ asking = {} /\ missed = {}
    BY DEF Init
  <2>4. QED BY <2>1, <2>2, <2>3
<1>3. ASSUME NEW y \in People
      PROVE  /\ room[y].out = 0 /\ room[y].next = 0 /\ room[y].reserved = 0 /\ room[y].stale = FALSE
             /\ room[y].shared = FALSE /\ \A c \in Chains : room[y].passed[c] = 0
             /\ y \in Founders => room[y].encrypted /\ room[y].members = Founders \ {y}
             /\ y \notin Founders => ~room[y].encrypted /\ ~room[y].joined
  <2> DEFINE first == [Empty EXCEPT !.joined = TRUE, !.encrypted = TRUE, !.members = Founders \ {y}]
  <2>1. room[y] = IF y \in Founders THEN first ELSE Empty
    BY DEF Init
  <2>2. /\ Empty.out = 0 /\ Empty.next = 0 /\ Empty.reserved = 0 /\ Empty.stale = FALSE /\ Empty.shared = FALSE
        /\ ~Empty.encrypted /\ ~Empty.joined /\ \A c \in Chains : Empty.passed[c] = 0
    BY DEF Empty
  <2>3. Empty \in Held
    BY NeverType, MaxChainsType DEF Empty, Held, Offers
  <2>4. /\ first.out = Empty.out /\ first.next = Empty.next /\ first.reserved = Empty.reserved
        /\ first.stale = Empty.stale /\ first.shared = Empty.shared /\ first.passed = Empty.passed
        /\ first.encrypted /\ first.members = Founders \ {y}
    BY <2>3 DEF Held
  <2> HIDE DEF first
  <2>5. QED BY <2>1, <2>2, <2>4
<1>4. ASSUME NEW y \in People
      PROVE  /\ file[y].out = 0 /\ file[y].shared = FALSE /\ file[y].stale = FALSE /\ file[y].next = 0
             /\ file[y].members = room[y].members
  <2>1. room[y] \in Held /\ file[y] = [room[y] EXCEPT !.joined = FALSE]
    <3>1. room[y] \in Held
      BY <1>1, PersonTypes
    <3>2. QED BY <3>1 DEF Init
  <2>2. /\ file[y].out = room[y].out /\ file[y].shared = room[y].shared /\ file[y].stale = room[y].stale
        /\ file[y].next = room[y].next /\ file[y].members = room[y].members
    BY <2>1 DEF Held
  <2>3. QED BY <1>3, <2>2
<1>5. \A y \in People : Newcomer(y) /\ Seen(y) /\ Disk(y)
  <2> SUFFICES ASSUME NEW y \in People PROVE Newcomer(y) /\ Seen(y) /\ Disk(y)
    OBVIOUS
  <2>1. Newcomer(y)
    BY <1>2, <1>3 DEF Newcomer
  <2>2. Seen(y)
    BY <1>2, <1>3 DEF Seen
  <2>3. Disk(y)
    <3>1. /\ room[y].out = 0 /\ room[y].next = 0 /\ room[y].reserved = 0 /\ ~room[y].stale
          /\ file[y].out = 0 /\ ~file[y].shared /\ file[y].next = 0 /\ file[y].members = room[y].members
      BY <1>3, <1>4
    <3>2. QED BY <3>1 DEF Disk
  <2>4. QED BY <2>1, <2>2, <2>3
<1>6. \A y \in People : Acquainted(y) /\ Heard(y) /\ Readable(y)
  BY <1>2, ViewsAssumption, <1>3 DEF Invites, Acquainted, Heard, Readable
<1>7. \A s \in People : ~Current(s)
  BY <1>3 DEF Current
<1>8. QED BY <1>1, <1>2, <1>5, <1>6, <1>7 DEF Told, Present, Given

LEMMA ToldStep ==
  ASSUME Told, Gentle, [Next]_vars, [Settled]_vars, [Steady]_vars
  PROVE  Told'
<1>1. CASE UNCHANGED vars
  <2>1. Secluded'
    BY SecludedStep, GentleMeans DEF Told
  <2>2. UNCHANGED <<room, file, send, invite, pending, inbox, mail, said, asking>>
    BY <1>1 DEF vars, past
  <2>3. Present' = Present
    BY <2>2 DEF Present, Gone
  <2>4. \A y \in People : Newcomer(y) /\ Seen(y) /\ Disk(y) => Newcomer(y)' /\ Seen(y)' /\ Disk(y)'
    BY <2>2 DEF Newcomer, Seen, Disk, Chain, Gone
  <2>5. \A y \in People : Acquainted(y) /\ Heard(y) => Acquainted(y)' /\ Heard(y)'
    BY <2>2, <2>3 DEF Acquainted, Heard, Invites
  <2>6. \A y \in People : Readable(y) => Readable(y)'
    BY <2>2, <2>3 DEF Readable, Awaits, Reach, Reads, Underway
  <2>7. \A s, y \in People : Given(s, y) => Given(s, y)'
    BY <2>2 DEF Given, Current, Chain, Invites, Reach, Reads, Underway
  <2>8. QED BY <2>1, <2>3, <2>4, <2>5, <2>6, <2>7 DEF Told, Present
<1>2. CASE Next /\ ~UNCHANGED vars
  <2>1. Next /\ Settled /\ Steady
    BY <1>2
  <2>2. /\ Secluded' /\ Chained /\ Informed /\ Present' \subseteq People
        /\ \A y \in People : Disk(y) /\ Seen(y)
    BY <2>1, ToldMeans
  <2>3. \A y \in People : Newcomer(y)'
    BY <2>1, NewcomerStep
  <2>4. \A y \in People : Seen(y)'
    BY <2>1, <2>2, SeenStep
  <2>5. \A y \in People : Disk(y)'
    BY <2>1, <2>2, DiskStep
  <2>6. \A y \in Present' : Acquainted(y)' /\ Heard(y)' /\ Readable(y)'
    BY <2>1, AcquaintedStep, HeardStep, ReadableStep
  <2>7. \A s, y \in Present' : s # y => Given(s, y)'
    BY <2>1, GivenStep
  <2>8. QED BY <2>2, <2>3, <2>4, <2>5, <2>6, <2>7 DEF Told
<1>3. QED BY <1>1, <1>2

\* Every message reaches its sender's members readable, or is readable when a catch-up brings
\* it, whoever comes and goes, as long as of what may go wrong only broadcasts fail, invitations
\* are made again, and invitations are adopted from somebody removed since; nobody invites after
\* they have been removed; and nobody who has the room adopts an invitation that contradicts
\* what they know of removals.
THEOREM MembersRead ==
  ASSUME Gentle
  PROVE  Spec /\ [][Settled]_vars /\ [][Steady]_vars => []MembersCanRead
<1> DEFINE I == Told /\ missed = {}
<1>1. Init => I
  BY ToldInit
<1>2. I /\ [Next]_vars /\ [Settled]_vars /\ [Steady]_vars => I'
  <2> SUFFICES ASSUME Told, missed = {}, [Next]_vars, [Settled]_vars, [Steady]_vars
               PROVE  Told' /\ missed' = {}
    OBVIOUS
  <2>1. Told'
    BY ToldStep
  <2>2. CASE UNCHANGED vars
    BY <2>1, <2>2 DEF vars, past
  <2>3. CASE Next /\ ~UNCHANGED vars
    BY <2>1, <2>3, MissedStep
  <2>4. QED BY <2>2, <2>3
<1>3. I => MembersCanRead
  BY DEF MembersCanRead
<1> HIDE DEF I
<1>4. QED BY <1>1, <1>2, <1>3, PTL DEF Spec

=============================================================================
