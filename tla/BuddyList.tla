------------------------------ MODULE BuddyList ------------------------------
(***************************************************************************)
(* The server-stored buddy list: the mirror each device of an account      *)
(* edits, the SNACs an edit turns into, the server that stores items as it *)
(* is told and relays them to the account's other devices, and the list    *)
(* the interface shows.                                                    *)
(*                                                                         *)
(* The tree is the clients' own convention: the root orders the groups, a  *)
(* group orders its buddies, and the server checks none of it.  What it    *)
(* does is cut the connection to a buddy whose last row is deleted.        *)
(***************************************************************************)
EXTENDS Naturals, Sequences, FiniteSets

CONSTANTS
  Devices, Names,
  Groups, Default,  \* the groups' names, DefaultGroupName among them
  None,
  Upsets,       \* what may go wrong: a subset of UpsetKinds
  MaxEdits,     \* bound: edits begun
  MaxSignOns,   \* bound: sessions
  MaxUpsets     \* bound: upsets, all told

\* `drop`: a session that ends in the middle of an edit.  `refused`: a send the rate
\* limiter or the connection fails, and `mode`: that of the privacy mode.  `crossed`: an edit begun while one made on the
\* other device has not reached this one.  `overlap`: two edits at once on one device.
UpsetKinds == {"drop", "refused", "mode", "crossed", "overlap"}

ASSUME BuddyListAssumption ==
  /\ Upsets \subseteq UpsetKinds /\ Default \in Groups /\ None \notin Groups \cup Names
ASSUME BuddyListBounds == MaxEdits \in Nat /\ MaxSignOns \in Nat /\ MaxUpsets \in Nat

VARIABLES
  on,      \* devices with a session
  live,    \* those whose read loop runs
  failed,  \* those of whose sends one failed in this session
  mirror,  \* Feedbag.items of each
  cached,  \* Session.buddyList of each
  shown,   \* the list in the store of each
  edit,    \* the edits in progress on each, in two goroutines
  inbox,   \* SNACs relayed to each and not yet handled
  server,  \* the items stored
  linked,  \* the buddies the server has a connection for
  wanted,  \* those the user has added and not removed
  edits, signOns, upsets

vars == <<on, live, failed, mirror, cached, shown, edit, inbox, server, linked, wanted, edits, signOns, upsets>>

-----------------------------------------------------------------------------
(* Items. *)

Item(class, gid, id, name, order, tag) ==
  [class |-> class, gid |-> gid, id |-> id, name |-> name, order |-> order, tag |-> tag]

Root(order) == Item("group", 0, 0, None, order, "none")
Group(gid, name, order) == Item("group", gid, 0, name, order, "none")

\* The index of the first item of a set of them; 0 when there is none.
First(S) == IF S = {} THEN 0 ELSE CHOOSE i \in S : \A j \in S : i <= j

Largest(S) == CHOOSE n \in S : \A m \in S : m <= n

IsGroup(item) == item.class = "group" /\ item.gid # 0

RootIndex(f) == First({i \in DOMAIN f : f[i].class = "group" /\ f[i].gid = 0})
GroupNamed(f, g) == First({i \in DOMAIN f : IsGroup(f[i]) /\ f[i].name = g})
GroupById(f, gid) == First({i \in DOMAIN f : IsGroup(f[i]) /\ f[i].gid = gid})
FindBuddy(f, n) == First({i \in DOMAIN f : f[i].class = "buddy" /\ f[i].name = n})
FindDeny(f, n) == First({i \in DOMAIN f : f[i].class = "deny" /\ f[i].name = n})
FindPdinfo(f) == First({i \in DOMAIN f : f[i].class = "pd"})
IndexById(f, item) == First({i \in DOMAIN f : f[i].gid = item.gid /\ f[i].id = item.id})

NextItemID(f) == Largest({0} \cup {f[i].id : i \in DOMAIN f}) + 1
NextGroupID(f) == Largest({0} \cup {f[i].gid : i \in DOMAIN f}) + 1

Without(f, i) == SubSeq(f, 1, i - 1) \o SubSeq(f, i + 1, Len(f))
Except(ids, id) == SelectSeq(ids, LAMBDA x : x # id)
Extend(item, id) == [item EXCEPT !.order = Append(@, id)]

\* ApplyServerUpsert and ApplyServerDelete, of one item; the server does the same.
Upsert(f, item) ==
  LET i == IndexById(f, item) IN IF i # 0 THEN [f EXCEPT ![i] = item] ELSE Append(f, item)
Delete(f, item) ==
  LET i == IndexById(f, item) IN IF i # 0 THEN Without(f, i) ELSE f

-----------------------------------------------------------------------------
(* Edits of a mirror: the items that come of them and the operations to send. *)

Op(kind, item) == [kind |-> kind, items |-> <<item>>]
Insert(items) == [kind |-> "insert", items |-> items]
Edit(f, ops) == [f |-> f, ops |-> ops]
Refuse == Edit(<<>>, <<Insert(<<>>)>>)

EnsureBaseStructure(f) ==
  IF RootIndex(f) # 0 THEN Edit(f, <<>>)
  ELSE LET base == <<Root(<<NextGroupID(f)>>), Group(NextGroupID(f), Default, <<>>)>>
       IN  Edit(f \o base, <<Insert(base)>>)

\* A buddy row enters group g, which is made if there is none, and the root with it.
File(f, buddy, g) ==
  LET gi  == GroupNamed(f, g)
      gid == IF gi # 0 THEN f[gi].gid ELSE NextGroupID(f)
      row == [buddy EXCEPT !.gid = gid]
      grp == IF gi # 0 THEN Extend(f[gi], row.id) ELSE Group(gid, g, <<row.id>>)
      ri  == RootIndex(f)
  IN IF gi # 0 THEN Edit(Append([f EXCEPT ![gi] = grp], row), <<Insert(<<row>>), Op("update", grp)>>)
     ELSE IF ri # 0
          THEN LET root == Extend(f[ri], gid)
               IN  Edit([f EXCEPT ![ri] = root] \o <<grp, row>>,
                        <<Insert(<<grp, row>>), Op("update", root)>>)
          ELSE LET new == <<Root(<<gid>>), grp, row>> IN Edit(f \o new, <<Insert(new)>>)

AddBuddy(f, n, g) ==
  IF FindBuddy(f, n) # 0 THEN Refuse
  ELSE File(f, Item("buddy", 0, NextItemID(f), n, <<>>, "none"), g)

\* A group left empty goes, unless it is the default one.
PruneGroupMembership(f, gid, id) ==
  LET gi == GroupById(f, gid)
      ri == RootIndex(f)
      grp == [f[gi] EXCEPT !.order = Except(@, id)]
      root == [f[ri] EXCEPT !.order = Except(@, gid)]
  IN IF gi = 0 THEN Edit(f, <<>>)
     ELSE IF grp.order # <<>> \/ grp.name = Default
     THEN Edit([f EXCEPT ![gi] = grp], <<Op("update", grp)>>)
     ELSE IF ri # 0 THEN Edit(Without([f EXCEPT ![ri] = root], gi),
                              <<Op("update", root), Op("delete", grp)>>)
     ELSE Edit(Without(f, gi), <<Op("delete", grp)>>)

\* A row leaves: its deletion, and its group's new order.
Unfile(f, row) ==
  LET left == PruneGroupMembership(Delete(f, row), row.gid, row.id)
  IN  Edit(left.f, <<Op("delete", row)>> \o left.ops)

RemoveBuddy(f, n) == IF FindBuddy(f, n) = 0 THEN Refuse ELSE Unfile(f, f[FindBuddy(f, n)])

\* Mutant: the old row is deleted before the new one is inserted.
MoveDeletesFirst(f, n, g) ==
  LET old == f[FindBuddy(f, n)]
      away == Unfile(f, old)
      back == File(away.f, [old EXCEPT !.id = NextItemID(f)], g)
  IN IF FindBuddy(f, n) = 0 THEN Refuse ELSE Edit(back.f, away.ops \o back.ops)

\* Insert, then delete; nothing when the buddy is in the group already.
MoveBuddy(f, n, g) ==
  LET old  == f[FindBuddy(f, n)]
      home == GroupById(f, old.gid)
      new  == File(f, [old EXCEPT !.id = NextItemID(f)], g)
      gone == Unfile(new.f, old)
  IN IF FindBuddy(f, n) = 0 THEN Refuse
     ELSE IF home # 0 /\ f[home].name = g THEN Edit(f, <<>>)
     ELSE Edit(gone.f, new.ops \o gone.ops)

\* Mutant: the deny row goes out before the mode that enforces it.
BlockDeniesFirst(f, n) ==
  LET pi == FindPdinfo(f)
      pd == IF pi = 0 THEN Item("pd", 0, NextItemID(f), None, <<>>, "deny") ELSE [f[pi] EXCEPT !.tag = "deny"]
      f1 == IF pi = 0 THEN Append(f, pd) ELSE [f EXCEPT ![pi] = pd]
      deny == Item("deny", 0, NextItemID(f1), n, <<>>, "none")
  IN IF FindDeny(f, n) # 0 THEN Refuse
     ELSE Edit(Append(f1, deny), <<Insert(<<deny>>), Op(IF pi = 0 THEN "insert" ELSE "update", pd)>>)

BlockBuddy(f, n) ==
  LET pi   == FindPdinfo(f)
      pd   == IF pi = 0 THEN Item("pd", 0, NextItemID(f), None, <<>>, "deny")
              ELSE [f[pi] EXCEPT !.tag = "deny"]
      f1   == IF pi = 0 THEN Append(f, pd) ELSE [f EXCEPT ![pi] = pd]
      mode == IF pi = 0 THEN <<Op("insert", pd)>>
              ELSE IF f[pi].tag = "permit" THEN <<Op("update", pd)>> ELSE <<>>
      deny == Item("deny", 0, NextItemID(f1), n, <<>>, "none")
  IN IF FindDeny(f, n) # 0 THEN Refuse ELSE Edit(Append(f1, deny), mode \o <<Op("insert", deny)>>)

UnblockBuddy(f, n) ==
  LET i == FindDeny(f, n)
  IN  IF i = 0 THEN Refuse ELSE Edit(Without(f, i), <<Op("delete", f[i])>>)

\* An alias set, or cleared.
RenameBuddy(f, n) ==
  LET i == FindBuddy(f, n)
      b == [f[i] EXCEPT !.tag = IF @ = "alias" THEN "none" ELSE "alias"]
  IN  IF i = 0 THEN Refuse ELSE Edit([f EXCEPT ![i] = b], <<Op("update", b)>>)

RenameGroup(f, g, to) ==
  LET i == GroupNamed(f, g)
      grp == [f[i] EXCEPT !.name = to]
  IN  IF i = 0 \/ GroupNamed(f, to) \notin {0, i} THEN Refuse
      ELSE Edit([f EXCEPT ![i] = grp], <<Op("update", grp)>>)

DeleteGroup(f, g) ==
  LET i == GroupNamed(f, g)
  IN  IF i = 0 \/ g = Default THEN Refuse
      ELSE IF f[i].order # <<>> THEN Refuse
      ELSE PruneGroupMembership(f, f[i].gid, 0)

-----------------------------------------------------------------------------
(* The list a mirror amounts to. *)

GroupName(f, gid) == IF GroupById(f, gid) = 0 THEN Default ELSE f[GroupById(f, gid)].name

\* Group names in the root's order; the groups it does not list come after.
GroupOrder(f) ==
  LET listed == IF RootIndex(f) = 0 THEN <<>> ELSE f[RootIndex(f)].order
      known  == SelectSeq(listed, LAMBDA gid : GroupById(f, gid) # 0)
      others == SelectSeq(f, LAMBDA item : IsGroup(item)
                                           /\ \A k \in DOMAIN known : known[k] # item.gid)
  IN  [k \in DOMAIN known |-> GroupName(f, known[k])] \o [k \in DOMAIN others |-> others[k].name]

ParseFeedbag(f) ==
  [buddies |-> {[name |-> f[i].name, group |-> GroupName(f, f[i].gid), alias |-> f[i].tag,
                 blocked |-> FindDeny(f, f[i].name) # 0] : i \in {j \in DOMAIN f : f[j].class = "buddy"}},
   groups  |-> GroupOrder(f)]

NoList == [buddies |-> {}, groups |-> <<>>]

-----------------------------------------------------------------------------
(* Edits in progress. *)

Slots == {1, 2}
Idle == [pc |-> "idle", ops |-> <<>>, list |-> NoList, members |-> {}]
Begun(ops, members) == [pc |-> "send", ops |-> ops, list |-> NoList, members |-> members]

Busy(d) == \E k \in Slots : edit[d][k] # Idle
Quiet == \A d \in Devices : ~Busy(d) /\ inbox[d] = <<>>

\* A list with a group of the user's own and a buddy in it, or none at all.
Stored ==
  <<Root(<<1, 2>>), Group(1, Default, <<>>), Group(2, CHOOSE g \in Groups : g # Default, <<1>>),
    Item("buddy", 2, 1, CHOOSE n \in Names : TRUE, <<>>, "none"), Item("pd", 0, 2, None, <<>>, "permit")>>

NamesOf(f) == {f[i].name : i \in {j \in DOMAIN f : f[j].class = "buddy"}}

Init ==
  /\ server \in {<<>>, Stored} /\ linked = NamesOf(server) /\ wanted = linked
  /\ on = {} /\ live = {} /\ failed = {} /\ mirror = [d \in Devices |-> <<>>] /\ inbox = mirror
  /\ cached = [d \in Devices |-> NoList] /\ shown = cached
  /\ edit = [d \in Devices |-> [k \in Slots |-> Idle]]
  /\ edits = 0 /\ signOns = 0 /\ upsets = 0

Upset(kind) == kind \in Upsets /\ upsets < MaxUpsets /\ upsets' = upsets + 1

\* The kinds of upset an edit begun now on device d is.
Crossed(d) == inbox[d] # <<>> \/ \E e \in Devices \ {d} : Busy(e)

Orderly(d) ==
  CASE Crossed(d) /\ Busy(d)  -> FALSE
    [] Crossed(d) /\ ~Busy(d) -> Upset("crossed")
    [] ~Crossed(d) /\ Busy(d) -> Upset("overlap")
    [] OTHER                  -> UNCHANGED upsets

\* editList: the mirror is changed at once, the sends come after.
Begin(d, k, result, members) ==
  /\ edits < MaxEdits /\ edits' = edits + 1
  /\ d \in live /\ edit[d][k] = Idle /\ (k = 2 => edit[d][1] # Idle)
  /\ Orderly(d) /\ result # Refuse
  /\ mirror' = [mirror EXCEPT ![d] = result.f]
  /\ edit' = [edit EXCEPT ![d][k] = Begun(result.ops, members)]
  /\ UNCHANGED <<on, live, failed, cached, shown, inbox, server, linked, signOns>>

Add(d, k, n, g) == Begin(d, k, AddBuddy(mirror[d], n, g), {}) /\ wanted' = wanted \cup {n}

Remove(d, k, n) == Begin(d, k, RemoveBuddy(mirror[d], n), {}) /\ wanted' = wanted \ {n}

\* A buddy who is gone already is no failure: the store is put right.
RemoveGone(d, n) ==
  /\ d \in live /\ FindBuddy(mirror[d], n) = 0 /\ shown[d] # cached[d]
  /\ shown' = [shown EXCEPT ![d] = cached[d]] /\ wanted' = wanted \ {n}
  /\ UNCHANGED <<on, live, failed, mirror, cached, edit, inbox, server, linked, edits, signOns, upsets>>

Move(d, k, n, g) ==
  mirror[d] # <<>> /\ Begin(d, k, MoveBuddy(mirror[d], n, g), {}) /\ UNCHANGED wanted

Other(d, k) ==
  /\ \E n \in Names, g, to \in Groups :
       \/ Begin(d, k, BlockBuddy(mirror[d], n), {})
       \/ Begin(d, k, UnblockBuddy(mirror[d], n), {})
       \/ Begin(d, k, RenameBuddy(mirror[d], n), {})
       \/ g # to /\ Begin(d, k, RenameGroup(mirror[d], g, to), {})
  /\ UNCHANGED wanted

\* Client.DeleteGroup: an empty group goes, the members of another are moved one by one.
Dissolve(d, k, g) ==
  LET members == {b.name : b \in {c \in cached[d].buddies : c.group = g}}
  IN  /\ g # Default
      /\ IF members = {} THEN Begin(d, k, DeleteGroup(mirror[d], g), {})
         ELSE \E n \in members :
                Begin(d, k, MoveBuddy(mirror[d], n, Default), members \ {n})
      /\ UNCHANGED wanted

\* An operation, item by item.
Applied(f, op) ==
  LET after[i \in 0..Len(op.items)] ==
        IF i = 0 THEN f
        ELSE IF op.kind = "delete" THEN Delete(after[i - 1], op.items[i]) ELSE Upsert(after[i - 1], op.items[i])
  IN  after[Len(op.items)]

\* The server stores it, tells the other devices, and cuts off whoever has no row left.
Send(d, k) ==
  LET op == Head(edit[d][k].ops)
  IN  /\ edit[d][k].pc = "send" /\ edit[d][k].ops # <<>>
      /\ edit' = [edit EXCEPT ![d][k].ops = Tail(@)]
      /\ server' = Applied(server, op)
      /\ linked' = NamesOf(server')
      /\ inbox' = [e \in Devices |-> IF e \in on \ {d} THEN Append(inbox[e], op) ELSE inbox[e]]
      /\ UNCHANGED <<on, live, failed, mirror, cached, shown, wanted, edits, signOns, upsets>>

\* The mirror keeps what the server was never told, and the store what it showed.
SendRefused(d, k) ==
  /\ edit[d][k].pc = "send" /\ edit[d][k].ops # <<>> /\ d \in live
  /\ Upset(IF Head(edit[d][k].ops).items[1].class = "pd" THEN "mode" ELSE "refused")
  /\ edit' = [edit EXCEPT ![d][k] = Idle] /\ failed' = failed \cup {d}
  /\ UNCHANGED <<on, live, mirror, cached, shown, inbox, server, linked, wanted, edits, signOns>>

\* The list as the mirror is when the last operation has gone.
Listed(d, k) ==
  /\ edit[d][k].pc = "send" /\ edit[d][k].ops = <<>>
  /\ edit' = [edit EXCEPT ![d][k].pc = "publish", ![d][k].list = ParseFeedbag(mirror[d])]
  /\ cached' = [cached EXCEPT ![d] = ParseFeedbag(mirror[d])]
  /\ UNCHANGED <<on, live, failed, mirror, shown, inbox, server, linked, wanted, edits, signOns, upsets>>

\* publishBuddyList, and the next member of a group being dissolved, which ends at the
\* first who is gone; when signing on, the read loop starts after it.
Publish(d, k) ==
  /\ edit[d][k].pc = "publish"
  /\ shown' = [shown EXCEPT ![d] = edit[d][k].list]
  /\ LET left == edit[d][k].members
         next == [n \in left |-> MoveBuddy(mirror[d], n, Default)]
         ends == edit' = [edit EXCEPT ![d][k] = Idle] /\ UNCHANGED mirror
     IN  IF left = {} THEN ends
         ELSE \E n \in left :
                \/ next[n] = Refuse /\ ends
                \/ /\ next[n] # Refuse
                   /\ mirror' = [mirror EXCEPT ![d] = next[n].f]
                   /\ edit' = [edit EXCEPT ![d][k] = Begun(next[n].ops, left \ {n})]
  /\ live' = live \cup {d}
  /\ UNCHANGED <<on, failed, cached, inbox, server, linked, wanted, edits, signOns, upsets>>

\* Mutant: what another device changes in an item is not taken over.
RelayedInserts(f, op) ==
  IF op.kind = "update" THEN f ELSE Applied(f, op)

Relayed(f, op) == Applied(f, op)

HandleRelayedFeedbag(d) ==
  /\ inbox[d] # <<>> /\ d \in live
  /\ LET f == Relayed(mirror[d], Head(inbox[d]))
     IN  /\ mirror' = [mirror EXCEPT ![d] = f]
         /\ cached' = [cached EXCEPT ![d] = ParseFeedbag(f)]
         /\ shown' = [shown EXCEPT ![d] = ParseFeedbag(f)]
  /\ inbox' = [inbox EXCEPT ![d] = Tail(@)]
  /\ UNCHANGED <<on, live, failed, edit, server, linked, wanted, edits, signOns, upsets>>

\* LoadBuddyList, and the base structure of a list that has none.
SignOn(d) ==
  LET base == EnsureBaseStructure(server)
  IN  /\ d \notin on /\ signOns < MaxSignOns /\ signOns' = signOns + 1
      /\ on' = on \cup {d}
      /\ mirror' = [mirror EXCEPT ![d] = base.f]
      /\ edit' = [edit EXCEPT ![d][1] = Begun(base.ops, {})]
      /\ UNCHANGED <<live, failed, cached, shown, inbox, server, linked, wanted, edits, upsets>>

\* Sign-off, or a connection lost: what is not sent is never sent.
SignOff(d) ==
  /\ d \in on /\ on' = on \ {d} /\ live' = live \ {d} /\ failed' = failed \ {d}
  /\ IF \E k \in Slots : edit[d][k].ops # <<>> THEN Upset("drop") ELSE UNCHANGED upsets
  /\ mirror' = [mirror EXCEPT ![d] = <<>>] /\ inbox' = [inbox EXCEPT ![d] = <<>>]
  /\ cached' = [cached EXCEPT ![d] = NoList] /\ shown' = [shown EXCEPT ![d] = NoList]
  /\ edit' = [edit EXCEPT ![d] = [k \in Slots |-> Idle]]
  /\ UNCHANGED <<server, linked, wanted, edits, signOns>>

Next ==
  \E d \in Devices :
    \/ SignOn(d) \/ SignOff(d) \/ HandleRelayedFeedbag(d)
    \/ \E n \in Names : RemoveGone(d, n)
    \/ \E k \in Slots :
         \/ Send(d, k) \/ SendRefused(d, k) \/ Listed(d, k) \/ Publish(d, k) \/ Other(d, k)
         \/ \E n \in Names : Remove(d, k, n)
         \/ \E g \in Groups : Dissolve(d, k, g)
         \/ \E n \in Names, g \in Groups : Add(d, k, n, g) \/ Move(d, k, n, g)

Spec == Init /\ [][Next]_vars

-----------------------------------------------------------------------------
(* Properties. *)

Items == [class : {"group", "buddy", "deny", "pd"}, gid : Nat, id : Nat,
          name : Names \cup Groups \cup {None}, order : Seq(Nat),
          tag : {"none", "alias", "permit", "deny"}]
Ops == [kind : {"insert", "update", "delete"}, items : Seq(Items)]
Lists == [buddies : SUBSET [name : Names, group : Groups, alias : {"none", "alias"}, blocked : BOOLEAN],
          groups : Seq(Groups)]
Edits == [pc : {"idle", "send", "publish"}, ops : Seq(Ops), list : Lists, members : SUBSET Names]

\* What the variables hold; a read loop runs, and a send has failed, only in a session, and
\* whoever signed off has left nothing behind.
TypeOK ==
  /\ live \subseteq on /\ failed \subseteq on /\ on \subseteq Devices
  /\ mirror \in [Devices -> Seq(Items)] /\ server \in Seq(Items)
  /\ cached \in [Devices -> Lists] /\ shown \in [Devices -> Lists]
  /\ inbox \in [Devices -> Seq(Ops)] /\ edit \in [Devices -> [Slots -> Edits]]
  /\ linked \subseteq Names /\ wanted \subseteq Names
  /\ edits \in 0..MaxEdits /\ signOns \in 0..MaxSignOns /\ upsets \in 0..MaxUpsets
  /\ \A d \in Devices \ on : mirror[d] = <<>> /\ inbox[d] = <<>> /\ ~Busy(d)

ItemSet(f) == {f[i] : i \in DOMAIN f}

\* The tree the server does not check: the root lists each group once, a group lists each
\* of its buddies once and nobody else, no person has two rows and no two rows an identity.
NoRepeats(ids) == \A i, j \in DOMAIN ids : ids[i] = ids[j] => i = j

Tree(f) ==
  LET groups == {i \in DOMAIN f : IsGroup(f[i])}
      buddies == {i \in DOMAIN f : f[i].class = "buddy"}
  IN  /\ RootIndex(f) # 0 => /\ ItemSet(f[RootIndex(f)].order) = {f[i].gid : i \in groups}
                             /\ NoRepeats(f[RootIndex(f)].order)
      /\ \A g \in groups : /\ NoRepeats(f[g].order)
                           /\ ItemSet(f[g].order) = {f[b].id : b \in {c \in buddies : f[c].gid = f[g].gid}}
      /\ \A b \in buddies : GroupById(f, f[b].gid) # 0
      /\ \A b, c \in buddies : f[b].name = f[c].name => b = c
      /\ \A i, j \in DOMAIN f : f[i].gid = f[j].gid /\ f[i].id = f[j].id => i = j

\* With every edit sent and every relay handled, both devices and the server hold the
\* same items, no row twice, and each store shows what its mirror amounts to: the edits
\* arrive one operation at a time, and a device takes them over item by item.  Only a
\* device that could not send an edit differs, until it signs on anew.  And the list is a
\* tree, but for the mark that a session lost in the middle of an edit may leave.
ListsAgree ==
  Quiet =>
    /\ \A d \in on \ failed :
         /\ ItemSet(mirror[d]) = ItemSet(server)
         /\ Len(mirror[d]) = Cardinality(ItemSet(server))
         /\ shown[d] = ParseFeedbag(mirror[d])
    /\ upsets = 0 => Tree(server)

\* The server cuts off nobody the user has not removed, wherever an edit stops: a buddy
\* who is moved has a row at every moment ("insert the new row FIRST", MoveBuddy).
MovesDontSever == [][\A n \in linked : n \in wanted' => n \in linked']_vars

\* A deny row on the server is enforced from the moment it is there, also when the
\* session ends between the two operations of a block.
BlocksAreEnforced ==
  \A i \in DOMAIN server : server[i].class = "deny" =>
    \E j \in DOMAIN server : server[j].class = "pd" /\ server[j].tag = "deny"
=============================================================================
