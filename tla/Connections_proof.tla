-------------------------- MODULE Connections_proof --------------------------
(***************************************************************************)
(* What Connections guarantees for any accounts, people and bounds.  The   *)
(* types hold whatever goes wrong.  As long as every send goes through and *)
(* nothing else goes wrong but somebody's haste - a refusal before the     *)
(* mark, a removal before the acceptance is dealt with - the three copies  *)
(* of the list, the server's rows and the requests on offer agree once     *)
(* nothing is under way.  As long as nothing goes wrong at all, a refusal  *)
(* is told to who still waits and a removal to nobody.                     *)
(*                                                                         *)
(* The invariant says, of each person, what the rows, the marks and the    *)
(* mirror may be while which of their messages, goroutines and calls are   *)
(* under way (Standings), which requests wait (Asking), who will put the   *)
(* published copies right (Listed), and what may be on its way while who   *)
(* still waits (Told).                                                     *)
(***************************************************************************)
EXTENDS Connections, SequenceTheorems, TLAPS

\* The account that signs on when nobody changes accounts.
Home == CHOOSE a \in Accounts : TRUE

Pcs == {"new", "insert", "record", "list", "publish", "remove", "delete", "add", "check", "mark",
        "resend", "decide", "forget", "listSevered"}
Kinds == {"refused", "stored", "accepted", "preauthorized", "declined", "removed", "asks"}
Severances == {"declined", "removed"}

\* What there is about p: a message on its way, a goroutine, a call.
Sent(p, kind) == \E i \in DOMAIN inbox : inbox[i] = Message(kind, p)
At(p, pc) == \E g \in bg : g.who = p /\ g.pc = pc
UiOn(p, pc) == ui # None /\ ui.who = p /\ ui.pc = pc

\* The connection with p is being severed: their answer is on its way, or the row is not deleted yet.
Severing(p) ==
  \/ Sent(p, "declined") \/ Sent(p, "removed")
  \/ At(p, "forget") \/ At(p, "remove") \/ At(p, "delete")
SeveranceSent(p) == Sent(p, "declined") \/ Sent(p, "removed")
AcceptanceSent(p) == Sent(p, "accepted") \/ Sent(p, "preauthorized")
\* An add of p was refused, and the pending row is not stored yet; Marking goes on to its publishing.
Refused(p) == Sent(p, "refused") \/ At(p, "check") \/ At(p, "mark") \/ At(p, "resend")
Marking(p) == Refused(p) \/ At(p, "list") \/ At(p, "decide")

\* Types of what TypeOK leaves out, and that nothing is under way without a session.
Shape ==
  /\ inbox \in Seq([kind : Kinds, who : People])
  /\ agrees \in [Accounts -> SUBSET People]
  /\ asked \in [Accounts -> SUBSET People]
  /\ wants \in [Accounts -> SUBSET People]
  /\ upsets \in Nat
  /\ account = None => ui = None /\ bg = {} /\ loop = None /\ inbox = <<>>

\* No message is on its way twice, who severs sends nothing more but requests, one goroutine severs.
Once == \A i, j \in DOMAIN inbox : inbox[i] = inbox[j] => i = j
SeveredLast ==
  \A i, j \in DOMAIN inbox :
    i < j /\ inbox[i].who = inbox[j].who /\ inbox[i].kind \in Severances => inbox[j].kind = "asks"
OneSevers ==
  \A g, h \in bg : /\ g.who = h.who
                   /\ g.pc \in {"forget", "remove", "delete"} /\ h.pc \in {"forget", "remove", "delete"}
                   => g = h

\* The server: a plain row is an agreement; who is asked has a pending row, or a refused add that
\* will make one; a pending row is somebody asked, or on its way out.
Standing(p) ==
  /\ row[Home][p] = "plain" => p \in agrees[Home]
  /\ ~(p \in agrees[Home] /\ p \in asked[Home])
  /\ p \in asked[Home] => row[Home][p] = "pending" \/ Refused(p)
  /\ p \in agrees[Home] => \/ row[Home][p] = "plain"
                           \/ UiOn(p, "add") /\ mirror[p] = "none"
                           \/ UiOn(p, "insert")
  /\ row[Home][p] = "pending" => p \in asked[Home] \/ Severing(p) \/ UiOn(p, "delete")
  /\ Refused(p) => p \in asked[Home] \cup agrees[Home] \/ Severing(p) \/ mirror[p] = "none"

\* Who passes for accepted, or whose acceptance is on its way or half dealt with, has agreed and
\* not severed since.
Known(p) ==
  /\ p \in accepted => row[Home][p] = "plain" \/ SeveranceSent(p) \/ At(p, "forget")
  /\ AcceptanceSent(p) => row[Home][p] = "plain" \/ SeveranceSent(p)
  /\ loop = p => mirror[p] # "pending" \/ row[Home][p] = "plain" \/ SeveranceSent(p)
  /\ loop = p /\ (At(p, "check") \/ At(p, "mark")) => row[Home][p] = "plain" \/ SeveranceSent(p)
  /\ loop = p => p \in accepted \/ \A x \in {"check", "mark", "resend", "list", "decide"} : ~At(p, x)
  /\ row[Home][p] = "plain" /\ Marking(p) => AcceptanceSent(p) \/ p \in accepted \/ Severing(p)
  /\ account # None /\ (p \in accepted \/ AcceptanceSent(p)) => mirror[p] # "none"

\* Who severs is neither asked nor agreed, and not being added; the goroutine that deletes the row
\* finds no other message of theirs.
Severed(p) ==
  /\ Severing(p) => /\ p \notin asked[Home] \cup agrees[Home]
                    /\ ~UiOn(p, "new") /\ ~UiOn(p, "insert")
                    /\ UiOn(p, "add") => mirror[p] # "none" \/ At(p, "delete")
  /\ At(p, "forget") \/ At(p, "remove") \/ At(p, "delete") =>
       loop # p /\ \A kind \in Kinds \ {"asks"} : ~Sent(p, kind)
  /\ At(p, "remove") \/ At(p, "delete") => p \notin accepted
  /\ At(p, "delete") => mirror[p] = "none"
  /\ At(p, "resend") => mirror[p] # "none"

\* A call about p begins when nothing of an earlier add is under way.
Called(p) ==
  /\ UiOn(p, "new") => mirror[p] = "none"
  /\ UiOn(p, "insert") => mirror[p] = "plain" /\ row[Home][p] = "none" /\ p \notin asked[Home]
  /\ UiOn(p, "new") \/ UiOn(p, "add") \/ UiOn(p, "insert") \/ UiOn(p, "remove") \/ UiOn(p, "delete") =>
       ~Marking(p) /\ ~Sent(p, "stored")
  /\ UiOn(p, "remove") \/ UiOn(p, "delete") => p \notin accepted /\ ~AcceptanceSent(p)
  /\ UiOn(p, "delete") => mirror[p] = "none"

\* The mirror is the server's rows but for what is under way to make it so.
Mirrored(p) ==
  account # None =>
    /\ p \in asked[Home] => mirror[p] # "none" \/ UiOn(p, "delete")
    /\ mirror[p] = "none" => row[Home][p] = "none" \/ At(p, "delete") \/ UiOn(p, "delete")
    /\ mirror[p] = "plain" => row[Home][p] = "plain" \/ Severing(p) \/ UiOn(p, "insert")
                              \/ Sent(p, "refused") \/ At(p, "check") \/ At(p, "mark")
    /\ mirror[p] = "pending" =>
         \/ row[Home][p] = "pending" \/ Severing(p) \/ At(p, "resend")
         \/ row[Home][p] = "plain" /\ \/ AcceptanceSent(p) \/ loop = p
                                      \/ p \in accepted /\ (At(p, "resend") \/ At(p, "list") \/ At(p, "decide"))

\* The call that answers p's request, and takes it off when it has succeeded.
Approving(p) == ui # None /\ ui.who = p /\ ui.approves
ApprovingPcs == {"add", "insert", "record", "list", "publish"}

\* A request on offer waits for an answer, or has it from the call that is about to take it off.
Requested(p) ==
  /\ p \in reqs => p \in wants[Home] \/ Approving(p)
  /\ Sent(p, "asks") => p \in wants[Home]
  /\ Sent(p, "asks") /\ p \in reqs => Approving(p)

Asking ==
  /\ \A p \in People : Requested(p)
  /\ ui # None /\ ui.approves => ui.pc \in ApprovingPcs

Standings(p) == Standing(p) /\ Known(p) /\ Severed(p) /\ Called(p) /\ Mirrored(p)

\* Who is at pc; who will take the list from the mirror anew.
Running(pc) == \E g \in Threads : g.pc = pc
WillList == \/ Running("insert") \/ Running("record") \/ Running("delete") \/ Running("list")
            \/ Running("resend") \/ Running("listSevered")
\* The session's list and the store's are the mirror, or somebody will make them so; a list about
\* to be published is the mirror, unless its publisher will see the acceptance or the removal.
Listed ==
  account # None =>
    /\ cached = mirror \/ WillList
    /\ shown = mirror \/ WillList \/ Running("publish") \/ Running("decide") \/ Running("remove")
    /\ \A g \in Threads : g.pc = "publish" => g.list = mirror
    /\ \A g \in bg : g.pc = "decide" => \/ g.list = mirror \/ g.who \in accepted
                                        \/ At(g.who, "remove") /\ mirror[g.who] # "none"

\* The invariant of the account, for everybody.
Orderly ==
  /\ account \in {Home, None} /\ Once /\ SeveredLast /\ OneSevers
  /\ \A p \in People : Standings(p)

\* What may be on its way while p still waits in the list the answer is told from: a refusal finds
\* p pending there or gone, a removal finds p not pending.
Lapsed(p) ==
  /\ cached[p] = "pending" /\ mirror[p] # "pending" =>
       mirror[p] = "none" /\ (UiOn(p, "delete") \/ UiOn(p, "list") \/ At(p, "delete") \/ At(p, "listSevered"))
  /\ UiOn(p, "new") \/ UiOn(p, "add") \/ UiOn(p, "insert") => \A pc \in Pcs : ~At(p, pc)
  /\ UiOn(p, "new") \/ UiOn(p, "add") \/ UiOn(p, "insert") => ~Severing(p)
  /\ Sent(p, "refused") => /\ mirror[p] # "pending"
                           /\ ~(At(p, "check") \/ At(p, "mark") \/ At(p, "resend") \/ At(p, "list") \/ At(p, "decide"))
  /\ Sent(p, "declined") => \/ mirror[p] = "none"
                            \/ mirror[p] = "pending" /\ cached[p] = "pending" /\ loop # p /\ ~Marking(p)
                               /\ ~AcceptanceSent(p)
  /\ Sent(p, "removed") => mirror[p] # "pending" /\ cached[p] # "pending" /\ ~Marking(p)
  /\ UiOn(p, "add") => p \notin asked[Home]

\* Nothing goes wrong at all.
Calm == Upsets = {}

Told == account # None => \A p \in People : Lapsed(p)

\* PendingIsTrue with nobody excepted.
CopiesAgree ==
  account # None /\ Quiet =>
    /\ shown = row[account] /\ cached = row[account] /\ mirror = row[account]
    /\ reqs \subseteq wants[account]

Types == TypeOK /\ Shape

LEMMA EntryTypes ==
  ASSUME TypeOK, NEW p \in People
  PROVE  /\ mirror \in Entries /\ cached \in Entries /\ shown \in Entries
         /\ \A v \in {"none", "pending", "plain"} : [mirror EXCEPT ![p] = v] \in Entries
         /\ Cleared(p) \in Entries
         /\ Cleared(p)[p] = IF mirror[p] = "pending" THEN "plain" ELSE mirror[p]
         /\ \A q \in People \ {p} : Cleared(p)[q] = mirror[q]
  BY DEF TypeOK, Entries, Cleared

LEMMA RowTypes ==
  ASSUME TypeOK, NEW a \in Accounts, NEW p \in People, NEW v \in {"none", "pending", "plain"}
  PROVE  /\ [row EXCEPT ![a][p] = v] \in [Accounts -> Entries]
         /\ [row EXCEPT ![a][p] = v][a][p] = v
         /\ \A q \in People \ {p} : [row EXCEPT ![a][p] = v][a][q] = row[a][q]
         /\ \A b \in Accounts \ {a} : [row EXCEPT ![a][p] = v][b] = row[b]
         /\ row[a][p] \in {"none", "pending", "plain"}
  BY DEF TypeOK, Entries

LEMMA RowView ==
  ASSUME TypeOK, NEW a \in Accounts, NEW p \in People, NEW v \in {"none", "pending", "plain"},
         row' = [row EXCEPT ![a][p] = v]
  PROVE  /\ row'[a][p] = v /\ \A q \in People \ {p} : row'[a][q] = row[a][q]
         /\ \A b \in Accounts \ {a} : row'[b] = row[b]
<1>1. row'[a] = [row[a] EXCEPT ![p] = v] /\ \A b \in Accounts \ {a} : row'[b] = row[b]
  BY DEF TypeOK
<1>2. row[a] \in Entries
  BY DEF TypeOK
<1>3. QED BY <1>1, <1>2 DEF Entries

\* Adding somebody to an account's set of people, or taking somebody out of it.
LEMMA SetTypes ==
  ASSUME NEW s \in [Accounts -> SUBSET People], NEW a \in Accounts, NEW p \in People
  PROVE  /\ [s EXCEPT ![a] = @ \cup {p}] \in [Accounts -> SUBSET People]
         /\ [s EXCEPT ![a] = @ \ {p}] \in [Accounts -> SUBSET People]
         /\ [s EXCEPT ![a] = @ \cup {p}][a] = s[a] \cup {p}
         /\ [s EXCEPT ![a] = @ \ {p}][a] = s[a] \ {p}
         /\ \A b \in Accounts \ {a} : /\ [s EXCEPT ![a] = @ \cup {p}][b] = s[b]
                                      /\ [s EXCEPT ![a] = @ \ {p}][b] = s[b]
  OBVIOUS

LEMMA UpsetTypes ==
  ASSUME upsets \in Nat, NEW condition, NEW kind, UpsetIf(condition, kind)
  PROVE  upsets' \in Nat
  BY DEF UpsetIf, Upset

Mail == [kind : Kinds, who : People]

LEMMA AppendTypes ==
  ASSUME inbox \in Seq(Mail), NEW kind \in Kinds, NEW p \in People
  PROVE  Message(kind, p) \in Mail /\ Append(inbox, Message(kind, p)) \in Seq(Mail)
  BY DEF Message, Mail

LEMMA HeadTypes ==
  ASSUME inbox \in Seq(Mail), inbox # <<>>
  PROVE  /\ Head(inbox) \in Mail /\ Head(inbox).kind \in Kinds /\ Head(inbox).who \in People
         /\ Tail(inbox) \in Seq(Mail)
         /\ Head(inbox) = Message(Head(inbox).kind, Head(inbox).who)
<1>1. Head(inbox) \in Mail /\ Tail(inbox) \in Seq(Mail)
  BY HeadTailProperties
<1>2. QED BY <1>1 DEF Mail, Message

LEMMA CallFields ==
  ASSUME NEW g \in Calls
  PROVE  g.who \in People /\ g.pc \in Pcs /\ g.list \in Entries /\ g # None
  BY NoneIsNoCall DEF Calls, Pcs

\* A goroutine goes on as one.
LEMMA CallTypes ==
  ASSUME NEW g \in Calls, NEW pc \in Pcs
  PROVE  /\ [g EXCEPT !.pc = pc] \in Calls
         /\ [g EXCEPT !.pc = pc].pc = pc /\ [g EXCEPT !.pc = pc].who = g.who /\ [g EXCEPT !.pc = pc].list = g.list
         /\ [g EXCEPT !.pc = pc].approves = g.approves
         /\ \A entries \in Entries : /\ [g EXCEPT !.pc = pc, !.list = entries] \in Calls
                                     /\ [g EXCEPT !.pc = pc, !.list = entries].pc = pc
                                     /\ [g EXCEPT !.pc = pc, !.list = entries].who = g.who
                                     /\ [g EXCEPT !.pc = pc, !.list = entries].list = entries
                                     /\ [g EXCEPT !.pc = pc, !.list = entries].approves = g.approves
  BY DEF Calls, Pcs

LEMMA NewCallTypes ==
  ASSUME NEW pc \in Pcs, NEW p \in People, NEW entries \in Entries, NEW approves \in BOOLEAN
  PROVE  [pc |-> pc, who |-> p, list |-> entries, approves |-> approves] \in Calls
  BY DEF Calls, Pcs

LEMMA RequestTypes ==
  ASSUME TypeOK, NEW p, ForgetConnectionRequest(p)
  PROVE  reqs' \subseteq People
  BY DEF ForgetConnectionRequest, TypeOK

LEMMA CallStarts ==
  ASSUME Types, NEW pc \in Pcs, NEW p \in People, Call(pc, p)
  PROVE  /\ ui' \in Calls /\ ui' # None /\ account \in Accounts /\ account # None /\ upsets' \in Nat
         /\ ui'.pc = pc /\ ui'.who = p /\ ui'.approves = (pc = "add")
<1>1. mirror \in Entries /\ (pc = "add") \in BOOLEAN
  BY EntryTypes DEF Types, TypeOK
<1>2. ui' \in Calls /\ ui'.pc = pc /\ ui'.who = p /\ ui'.approves = (pc = "add")
  BY <1>1, NewCallTypes DEF Call
<1>3. upsets' \in Nat
  BY UpsetTypes DEF Call, Types, Shape
<1>4. QED BY <1>2, <1>3, NoneIsNoCall DEF Call, Types, TypeOK

LEMMA RecordTypes ==
  ASSUME Types, Record
  PROVE  Types'
<1>1. ui \in Calls /\ ui # None /\ account # None /\ account \in Accounts /\ ui.who \in People
  BY CallFields DEF Types, Record, UiAt, TypeOK, Shape
<1>2. \A pc \in Pcs : /\ [ui EXCEPT !.pc = pc] \in Calls
                      /\ \A entries \in Entries : [ui EXCEPT !.pc = pc, !.list = entries] \in Calls
  BY <1>1, CallTypes DEF Types
<1>9. QED BY <1>1, <1>2 DEF Record, UiAt, UiGoes, Publish, TypeOK, Shape, Types, Mail, list, marks, server, counts, Pcs

LEMMA PublishBuddyListTypes ==
  ASSUME Types, PublishBuddyList
  PROVE  Types'
<1>1. ui \in Calls /\ ui # None /\ account # None /\ account \in Accounts /\ ui.who \in People
  BY CallFields DEF Types, PublishBuddyList, UiAt, TypeOK, Shape
<1>2. \A pc \in Pcs : /\ [ui EXCEPT !.pc = pc] \in Calls
                      /\ \A entries \in Entries : [ui EXCEPT !.pc = pc, !.list = entries] \in Calls
  BY <1>1, CallTypes DEF Types
<1>3. ui.list \in Entries
  BY <1>1, CallFields
<1>4. reqs' \subseteq People
  BY RequestTypes DEF PublishBuddyList, Types, TypeOK
<1>9. QED BY <1>1, <1>2, <1>3, <1>4 DEF PublishBuddyList, UiAt, UiGoes, Publish, TypeOK, Shape, Types, Mail, list, marks, server, counts, Pcs

LEMMA ListOfTypes ==
  ASSUME Types, ListOf
  PROVE  Types'
<1>1. ui \in Calls /\ ui # None /\ account # None /\ account \in Accounts /\ ui.who \in People
  BY CallFields DEF Types, ListOf, UiAt, TypeOK, Shape
<1>2. \A pc \in Pcs : /\ [ui EXCEPT !.pc = pc] \in Calls
                      /\ \A entries \in Entries : [ui EXCEPT !.pc = pc, !.list = entries] \in Calls
  BY <1>1, CallTypes DEF Types
<1>3. mirror \in Entries
  BY EntryTypes DEF Types, TypeOK
<1>9. QED BY <1>1, <1>2, <1>3 DEF ListOf, UiAt, UiGoes, Publish, TypeOK, Shape, Types, Mail, list, marks, server, counts, Pcs

\* What the server makes of an edit.
LEMMA InsertedTypes ==
  ASSUME Types, NEW p \in People, account \in Accounts, NEW pending \in BOOLEAN, Inserted(p, pending)
  PROVE  /\ row' \in [Accounts -> Entries] /\ asked' \in [Accounts -> SUBSET People]
         /\ inbox' \in Seq(Mail) /\ agrees' = agrees /\ wants' = wants
<1> DEFINE v == IF p \in agrees[account] THEN "plain" ELSE IF pending THEN "pending" ELSE row[account][p]
<1>0. row' = [row EXCEPT ![account][p] = v] /\ v \in {"none", "pending", "plain"}
  BY RowTypes DEF Types, Inserted
<1> HIDE DEF v
<1>1. row' \in [Accounts -> Entries]
  BY <1>0, RowTypes DEF Types
<1>2. asked' \in [Accounts -> SUBSET People]
  BY SetTypes DEF Types, Shape, Inserted
<1>3. inbox' \in Seq(Mail)
  BY AppendTypes DEF Types, Shape, Inserted, Mail, Kinds
<1>4. QED BY <1>1, <1>2, <1>3 DEF Inserted

LEMMA DeletedTypes ==
  ASSUME Types, NEW p \in People, account \in Accounts, Deleted(p)
  PROVE  /\ row' \in [Accounts -> Entries] /\ asked' \in [Accounts -> SUBSET People]
         /\ agrees' \in [Accounts -> SUBSET People] /\ inbox' = inbox /\ wants' = wants
<1>1. row' \in [Accounts -> Entries]
  BY RowTypes DEF Types, Deleted
<1>2. asked' \in [Accounts -> SUBSET People] /\ agrees' \in [Accounts -> SUBSET People]
  BY SetTypes DEF Types, Shape, Deleted
<1>3. QED BY <1>1, <1>2 DEF Deleted

LEMMA SendInsertTypes ==
  ASSUME Types, SendInsert
  PROVE  Types'
<1>1. ui \in Calls /\ ui # None /\ account # None /\ account \in Accounts /\ ui.who \in People
  BY CallFields DEF Types, SendInsert, UiAt, TypeOK, Shape
<1>2. \A pc \in Pcs : /\ [ui EXCEPT !.pc = pc] \in Calls
                      /\ \A entries \in Entries : [ui EXCEPT !.pc = pc, !.list = entries] \in Calls
  BY <1>1, CallTypes DEF Types
<1>3. Inserted(ui.who, FALSE)
  BY DEF SendInsert
<1>9. QED BY <1>1, <1>2, <1>3, InsertedTypes DEF SendInsert, UiAt, UiGoes, Publish, TypeOK, Shape, Types, Mail, list, marks, server, counts, Pcs

LEMMA SendDeleteTypes ==
  ASSUME Types, SendDelete
  PROVE  Types'
<1>1. ui \in Calls /\ ui # None /\ account # None /\ account \in Accounts /\ ui.who \in People
  BY CallFields DEF Types, SendDelete, UiAt, TypeOK, Shape
<1>2. \A pc \in Pcs : /\ [ui EXCEPT !.pc = pc] \in Calls
                      /\ \A entries \in Entries : [ui EXCEPT !.pc = pc, !.list = entries] \in Calls
  BY <1>1, CallTypes DEF Types
<1>3. Deleted(ui.who)
  BY DEF SendDelete
<1>9. QED BY <1>1, <1>2, <1>3, DeletedTypes DEF SendDelete, UiAt, UiGoes, Publish, TypeOK, Shape, Types, Mail, list, marks, server, counts, Pcs

LEMMA RemoveRowTypes ==
  ASSUME Types, RemoveRow
  PROVE  Types'
<1>1. ui \in Calls /\ ui # None /\ account # None /\ account \in Accounts /\ ui.who \in People
  BY CallFields DEF Types, RemoveRow, UiAt, TypeOK, Shape
<1>2. \A pc \in Pcs : /\ [ui EXCEPT !.pc = pc] \in Calls
                      /\ \A entries \in Entries : [ui EXCEPT !.pc = pc, !.list = entries] \in Calls
  BY <1>1, CallTypes DEF Types
<1>3. mirror' \in Entries /\ shown' \in Entries
  BY <1>1, EntryTypes DEF Types, RemoveRow, Publish
<1>4. upsets' \in Nat
  BY UpsetTypes DEF Types, Shape, RemoveRow, Overtakes
<1>9. QED BY <1>1, <1>2, <1>3, <1>4 DEF RemoveRow, UiAt, UiGoes, Publish, TypeOK, Shape, Types, Mail, list, marks, server, counts, Pcs

LEMMA AddRowTypes ==
  ASSUME Types, AddRow
  PROVE  Types'
<1>1. ui \in Calls /\ ui # None /\ account # None /\ account \in Accounts /\ ui.who \in People
  BY CallFields DEF Types, AddRow, UiAt, TypeOK, Shape
<1>2. \A pc \in Pcs : /\ [ui EXCEPT !.pc = pc] \in Calls
                      /\ \A entries \in Entries : [ui EXCEPT !.pc = pc, !.list = entries] \in Calls
  BY <1>1, CallTypes DEF Types
<1>3. mirror' \in Entries /\ shown' \in Entries
  BY <1>1, EntryTypes DEF Types, AddRow, Publish
<1>4. upsets' \in Nat
  BY UpsetTypes DEF Types, Shape, AddRow, Overtakes
<1>5. reqs' \subseteq People
  BY RequestTypes DEF AddRow, Types, TypeOK
<1>9. QED BY <1>1, <1>2, <1>3, <1>4, <1>5 DEF AddRow, UiAt, UiGoes, Publish, TypeOK, Shape, Types, Mail, list, marks, server, counts, Pcs

LEMMA UiRefusedTypes ==
  ASSUME Types, UiRefused
  PROVE  Types'
<1>1. upsets' \in Nat
  BY DEF UiRefused, Refuses, Upset, Types, Shape
<1>2. unsent' \subseteq People
  BY CallFields DEF UiRefused, Refuses, Types, TypeOK
<1>9. QED BY <1>1, <1>2 DEF UiRefused, TypeOK, Shape, Types, Mail, list, marks, server, counts

LEMMA AddBuddyTypes ==
  ASSUME Types, NEW p \in People, AddBuddy(p)
  PROVE  Types'
<1>1. Call("new", p) /\ "new" \in Pcs
  BY DEF AddBuddy, Pcs
<1>9. QED BY <1>1, CallStarts DEF AddBuddy, TypeOK, Shape, Types, Mail, list, marks, server, counts

LEMMA RemoveBuddyTypes ==
  ASSUME Types, NEW p \in People, RemoveBuddy(p)
  PROVE  Types'
<1>1. Call("remove", p) /\ "remove" \in Pcs
  BY DEF RemoveBuddy, Pcs
<1>9. QED BY <1>1, CallStarts DEF RemoveBuddy, TypeOK, Shape, Types, Mail, list, marks, server, counts

LEMMA ApproveTypes ==
  ASSUME Types, NEW p \in People, Approve(p)
  PROVE  Types'
<1>1. Call("add", p) /\ "add" \in Pcs
  BY DEF Approve, Pcs
<1>2. account \in Accounts
  BY <1>1, CallStarts
<1>3. /\ wants' \in [Accounts -> SUBSET People] /\ agrees' \in [Accounts -> SUBSET People]
      /\ asked' \in [Accounts -> SUBSET People]
  BY <1>2, SetTypes DEF Approve, Types, Shape
<1> DEFINE v == IF p \in asked[account] THEN "plain" ELSE row[account][p]
<1>0. row' = [row EXCEPT ![account][p] = v] /\ v \in {"none", "pending", "plain"}
  BY <1>2, RowTypes DEF Approve, Types
<1> HIDE DEF v
<1>4. row' \in [Accounts -> Entries]
  BY <1>0, <1>2, RowTypes DEF Types
<1>5. inbox' \in Seq(Mail)
  BY AppendTypes DEF Approve, Types, Shape, Mail, Kinds
<1>9. QED BY <1>1, <1>2, <1>3, <1>4, <1>5, CallStarts DEF Approve, TypeOK, Shape, Types, Mail, list, marks, server, counts

LEMMA DeclineConnectionTypes ==
  ASSUME Types, NEW p \in People, DeclineConnection(p)
  PROVE  Types'
<1>1. account \in Accounts /\ account # None
  BY DEF DeclineConnection, Types, TypeOK
<1>2. wants' \in [Accounts -> SUBSET People]
  BY <1>1, SetTypes DEF DeclineConnection, Types, Shape
<1>9. QED BY <1>1, <1>2, RequestTypes DEF DeclineConnection, TypeOK, Shape, Types, Mail, list, marks, server, counts

LEMMA AgreesTypes ==
  ASSUME Types, NEW a \in Accounts, NEW p \in People, Agrees(a, p)
  PROVE  Types'
<1>1. row' \in [Accounts -> Entries]
  BY RowTypes DEF Agrees, Types
<1>2. asked' \in [Accounts -> SUBSET People] /\ agrees' \in [Accounts -> SUBSET People]
  BY SetTypes DEF Agrees, Types, Shape
<1>3. inbox' \in Seq(Mail)
  BY AppendTypes DEF Agrees, Tell, Types, Shape, Mail, Kinds
<1>4. account = None => inbox' = inbox
  BY ConnectionAssumption DEF Agrees, Tell
<1>5. upsets' \in Nat
  BY UpsetTypes DEF Agrees, Types, Shape
<1>9. QED BY <1>1, <1>2, <1>3, <1>4, <1>5 DEF Agrees, TypeOK, Shape, Types, Mail, list, marks, server, counts

LEMMA DeclinesTypes ==
  ASSUME Types, NEW a \in Accounts, NEW p \in People, Declines(a, p)
  PROVE  Types'
<1>1. row' \in [Accounts -> Entries]
  BY RowTypes DEF Declines, Types
<1>2. asked' \in [Accounts -> SUBSET People] /\ agrees' \in [Accounts -> SUBSET People]
  BY SetTypes DEF Declines, Types, Shape
<1>3. inbox' \in Seq(Mail)
  BY AppendTypes DEF Declines, Tell, Types, Shape, Mail, Kinds
<1>4. account = None => inbox' = inbox
  BY ConnectionAssumption DEF Declines, Tell
<1>5. upsets' \in Nat
  BY UpsetTypes DEF Declines, Types, Shape
<1>9. QED BY <1>1, <1>2, <1>3, <1>4, <1>5 DEF Declines, TypeOK, Shape, Types, Mail, list, marks, server, counts

LEMMA RemovesTypes ==
  ASSUME Types, NEW a \in Accounts, NEW p \in People, Removes(a, p)
  PROVE  Types'
<1>1. row' \in [Accounts -> Entries]
  BY RowTypes DEF Removes, Types
<1>2. asked' \in [Accounts -> SUBSET People] /\ agrees' \in [Accounts -> SUBSET People]
  BY SetTypes DEF Removes, Types, Shape
<1>3. inbox' \in Seq(Mail)
  BY AppendTypes DEF Removes, Tell, Types, Shape, Mail, Kinds
<1>4. account = None => inbox' = inbox
  BY ConnectionAssumption DEF Removes, Tell
<1>5. upsets' \in Nat
  BY UpsetTypes DEF Removes, Types, Shape
<1>9. QED BY <1>1, <1>2, <1>3, <1>4, <1>5 DEF Removes, TypeOK, Shape, Types, Mail, list, marks, server, counts

LEMMA AsksTypes ==
  ASSUME Types, NEW p \in People, Asks(p)
  PROVE  Types'
<1>1. account \in Accounts /\ account # None
  BY DEF Asks, Types, TypeOK
<1>2. wants' \in [Accounts -> SUBSET People]
  BY <1>1, SetTypes DEF Asks, Types, Shape
<1>3. inbox' \in Seq(Mail)
  BY AppendTypes DEF Asks, Types, Shape, Mail, Kinds
<1>9. QED BY <1>1, <1>2, <1>3 DEF Asks, TypeOK, Shape, Types, Mail, list, marks, server, counts

\* A message is read.
LEMMA ReadsTypes ==
  ASSUME Types, NEW kind, Reads(kind)
  PROVE  /\ account \in Accounts /\ account # None /\ loop = None /\ inbox # <<>>
         /\ Who \in People /\ Head(inbox) = Message(kind, Who) /\ kind \in Kinds
         /\ Rest => inbox' \in Seq(Mail)
  BY HeadTypes DEF Reads, Who, Rest, Types, TypeOK, Shape, Mail

LEMMA StartsTypes ==
  ASSUME Types, NEW pc \in Pcs, NEW p \in People, Starts(pc, p)
  PROVE  bg' \subseteq Calls
  BY EntryTypes, NewCallTypes DEF Starts, Types, TypeOK

LEMMA ClearTypes ==
  ASSUME Types, NEW p \in People, ClearPending(p)
  PROVE  /\ mirror' \in Entries /\ cached' \in Entries /\ shown' \in Entries /\ upsets' \in Nat
         /\ mirror' = Cleared(p) /\ cached' = Cleared(p) /\ shown' = Cleared(p)
<1>1. upsets' \in Nat
  BY DEF ClearPending, Overtakes, UpsetIf, Upset, Types, Shape
<1>2. QED BY <1>1, EntryTypes DEF ClearPending, Publish, Types

LEMMA HandleFeedbagStatusTypes ==
  ASSUME Types, HandleFeedbagStatus
  PROVE  Types'
<1>1. \E kind : Reads(kind)
  BY DEF HandleFeedbagStatus
<1>2. upsets' \in Nat
  BY UpsetTypes DEF HandleFeedbagStatus, Types, Shape
<1>3. Rest
  BY DEF HandleFeedbagStatus
<1>4. bg' \subseteq Calls
  BY <1>1, ReadsTypes, StartsTypes DEF HandleFeedbagStatus, Pcs, Types, TypeOK
<1>9. QED BY <1>1, <1>2, <1>3, <1>4, ReadsTypes DEF HandleFeedbagStatus, TypeOK, Shape, Types, Mail, list, marks, server, counts

LEMMA AcceptedTypes ==
  ASSUME Types, Accepted
  PROVE  Types'
<1>1. \E kind : Reads(kind)
  BY DEF Accepted
<1>3. Rest
  BY DEF Accepted
<1>9. QED BY <1>1, <1>3, ReadsTypes DEF Accepted, MarkAccepted, TypeOK, Shape, Types, Mail, list, marks, server, counts

LEMMA HandleAcceptedTypes ==
  ASSUME Types, HandleAccepted
  PROVE  Types'
<1>1. loop \in People /\ ClearPending(loop)
  BY DEF HandleAccepted, Types, TypeOK
<1>9. QED BY <1>1, ClearTypes DEF HandleAccepted, TypeOK, Shape, Types, Mail, list, marks, server, counts

LEMMA HandleConnectionResponseTypes ==
  ASSUME Types, HandleConnectionResponse
  PROVE  Types'
<1>1. \E kind : Reads(kind)
  BY DEF HandleConnectionResponse
<1>3. Rest
  BY DEF HandleConnectionResponse
<1>4. bg' \subseteq Calls
  BY <1>1, ReadsTypes, StartsTypes DEF HandleConnectionResponse, Pcs
<1>9. QED BY <1>1, <1>3, <1>4, ReadsTypes DEF HandleConnectionResponse, TypeOK, Shape, Types, Mail, list, marks, server, counts

LEMMA HandleConnectionRequestTypes ==
  ASSUME Types, HandleConnectionRequest
  PROVE  Types'
<1>1. \E kind : Reads(kind)
  BY DEF HandleConnectionRequest
<1>3. Rest
  BY DEF HandleConnectionRequest
<1>9. QED BY <1>1, <1>3, ReadsTypes DEF HandleConnectionRequest, TypeOK, Shape, Types, Mail, list, marks, server, counts

\* A goroutine of the read loop's, and what it goes on as.
LEMMA GoesTypes ==
  ASSUME Types, NEW g \in bg
  PROVE  /\ g \in Calls /\ g.who \in People /\ account \in Accounts /\ account # None
         /\ \A pc \in Pcs : Goes(g, pc) => bg' \subseteq Calls
         /\ (bg \ {g}) \cup {[g EXCEPT !.pc = "decide", !.list = mirror]} \subseteq Calls
         /\ (bg \ {g}) \cup {[g EXCEPT !.pc = "publish", !.list = mirror]} \subseteq Calls
         /\ Ends(g) => bg' \subseteq Calls
<1>1. g \in Calls /\ g.who \in People /\ account \in Accounts /\ account # None /\ bg \subseteq Calls
  BY CallFields DEF Types, TypeOK, Shape
<1>2. ASSUME NEW pc \in Pcs
      PROVE  /\ [g EXCEPT !.pc = pc] \in Calls
             /\ \A entries \in Entries : [g EXCEPT !.pc = pc, !.list = entries] \in Calls
  BY <1>1, CallTypes
<1>3. mirror \in Entries /\ "decide" \in Pcs /\ "publish" \in Pcs
  BY DEF Types, TypeOK, Pcs
<1>4. QED BY <1>1, <1>2, <1>3 DEF Goes, Ends

LEMMA CheckAcceptedTypes ==
  ASSUME Types, NEW g \in bg, CheckAccepted(g)
  PROVE  Types'
<1>0. mirror \in Entries
  BY DEF Types, TypeOK
<1>1. bg' \subseteq Calls
  BY <1>0, GoesTypes DEF CheckAccepted, Pcs
<1>2. account \in Accounts /\ account # None /\ g.who \in People
  BY GoesTypes
<1>3. ClearPending(g.who) \/ UNCHANGED <<list, upsets>>
  BY DEF CheckAccepted
<1>9. QED BY <1>1, <1>2, <1>3, ClearTypes DEF CheckAccepted, TypeOK, Shape, Types, Mail, list, marks, server, counts

LEMMA MarkBuddyPendingTypes ==
  ASSUME Types, NEW g \in bg, MarkBuddyPending(g)
  PROVE  Types'
<1>0. mirror \in Entries /\ g.who \in People
  BY GoesTypes DEF Types, TypeOK
<1>5. mirror[g.who] \in {"none", "pending", "plain"}
  BY <1>0 DEF Entries
<1>6. Ends(g) \/ Goes(g, "list") \/ Goes(g, "resend")
  BY <1>5 DEF MarkBuddyPending
<1>1. bg' \subseteq Calls
  BY <1>6, GoesTypes DEF Pcs
<1>2. account \in Accounts /\ account # None /\ g.who \in People
  BY GoesTypes
<1>3. mirror' \in Entries
  BY <1>2, <1>5, EntryTypes DEF MarkBuddyPending, Types
<1>4. upsets' \in Nat
  BY <1>5, UpsetTypes DEF MarkBuddyPending, Overtakes, Types, Shape
<1>9. QED BY <1>1, <1>2, <1>3, <1>4 DEF MarkBuddyPending, TypeOK, Shape, Types, Mail, list, marks, server, counts

LEMMA ReAddBuddyPendingTypes ==
  ASSUME Types, NEW g \in bg, ReAddBuddyPending(g)
  PROVE  Types'
<1>0. mirror \in Entries
  BY DEF Types, TypeOK
<1>1. bg' \subseteq Calls
  BY <1>0, GoesTypes DEF ReAddBuddyPending, Pcs
<1>2. account \in Accounts /\ account # None /\ g.who \in People
  BY GoesTypes
<1>3. Inserted(g.who, TRUE)
  BY DEF ReAddBuddyPending
<1>9. QED BY <1>1, <1>2, <1>3, InsertedTypes DEF ReAddBuddyPending, TypeOK, Shape, Types, Mail, list, marks, server, counts

LEMMA ListPendingTypes ==
  ASSUME Types, NEW g \in bg, ListPending(g)
  PROVE  Types'
<1>0. mirror \in Entries
  BY DEF Types, TypeOK
<1>1. bg' \subseteq Calls
  BY <1>0, GoesTypes DEF ListPending, Pcs
<1>2. account \in Accounts /\ account # None /\ g.who \in People
  BY GoesTypes
<1>9. QED BY <1>1, <1>2 DEF ListPending, TypeOK, Shape, Types, Mail, list, marks, server, counts

LEMMA DecideTypes ==
  ASSUME Types, NEW g \in bg, Decide(g)
  PROVE  Types'
<1>0. mirror \in Entries
  BY DEF Types, TypeOK
<1>1. bg' \subseteq Calls
  BY <1>0, GoesTypes DEF Decide, Pcs
<1>2. account \in Accounts /\ account # None /\ g.who \in People
  BY GoesTypes
<1>3. ClearPending(g.who) \/ (Publish(g.list) /\ UNCHANGED <<mirror, cached, upsets>>)
  BY DEF Decide
<1>4. g.list \in Entries
  BY GoesTypes, CallFields
<1>9. QED BY <1>1, <1>2, <1>3, <1>4, ClearTypes DEF Decide, Publish, TypeOK, Shape, Types, Mail, list, marks, server, counts

LEMMA ForgetTypes ==
  ASSUME Types, NEW g \in bg, Forget(g)
  PROVE  Types'
<1>0. mirror \in Entries
  BY DEF Types, TypeOK
<1>1. bg' \subseteq Calls
  BY <1>0, GoesTypes DEF Forget, Pcs
<1>2. account \in Accounts /\ account # None /\ g.who \in People
  BY GoesTypes
<1>9. QED BY <1>1, <1>2 DEF Forget, TypeOK, Shape, Types, Mail, list, marks, server, counts

LEMMA SeverRowTypes ==
  ASSUME Types, NEW g \in bg, SeverRow(g)
  PROVE  Types'
<1>0. mirror \in Entries
  BY DEF Types, TypeOK
<1>1. bg' \subseteq Calls
  BY <1>0, GoesTypes DEF SeverRow, Pcs
<1>2. account \in Accounts /\ account # None /\ g.who \in People
  BY GoesTypes
<1>3. mirror' \in Entries /\ shown' \in Entries
  BY <1>2, EntryTypes DEF SeverRow, Publish, Types
<1>4. upsets' \in Nat
  BY UpsetTypes DEF SeverRow, Overtakes, Types, Shape
<1>9. QED BY <1>1, <1>2, <1>3, <1>4 DEF SeverRow, TypeOK, Shape, Types, Mail, list, marks, server, counts

LEMMA SendSeveredTypes ==
  ASSUME Types, NEW g \in bg, SendSevered(g)
  PROVE  Types'
<1>0. mirror \in Entries
  BY DEF Types, TypeOK
<1>1. bg' \subseteq Calls
  BY <1>0, GoesTypes DEF SendSevered, Pcs
<1>2. account \in Accounts /\ account # None /\ g.who \in People
  BY GoesTypes
<1>3. Deleted(g.who)
  BY DEF SendSevered
<1>9. QED BY <1>1, <1>2, <1>3, DeletedTypes DEF SendSevered, TypeOK, Shape, Types, Mail, list, marks, server, counts

LEMMA ListSeveredTypes ==
  ASSUME Types, NEW g \in bg, ListSevered(g)
  PROVE  Types'
<1>0. mirror \in Entries
  BY DEF Types, TypeOK
<1>1. bg' \subseteq Calls
  BY <1>0, GoesTypes DEF ListSevered, Pcs
<1>2. account \in Accounts /\ account # None /\ g.who \in People
  BY GoesTypes
<1>9. QED BY <1>1, <1>2 DEF ListSevered, TypeOK, Shape, Types, Mail, list, marks, server, counts

LEMMA PublishSeveredTypes ==
  ASSUME Types, NEW g \in bg, PublishSevered(g)
  PROVE  Types'
<1>0. mirror \in Entries
  BY DEF Types, TypeOK
<1>1. bg' \subseteq Calls
  BY <1>0, GoesTypes DEF PublishSevered, Pcs
<1>2. account \in Accounts /\ account # None /\ g.who \in People
  BY GoesTypes
<1>3. g.list \in Entries
  BY GoesTypes, CallFields
<1>9. QED BY <1>1, <1>2, <1>3 DEF PublishSevered, Publish, TypeOK, Shape, Types, Mail, list, marks, server, counts

LEMMA BgRefusedTypes ==
  ASSUME Types, NEW g \in bg, BgRefused(g)
  PROVE  Types'
<1>1. bg' \subseteq Calls /\ account # None
  BY GoesTypes DEF BgRefused
<1>2. upsets' \in Nat
  BY DEF BgRefused, Refuses, Upset, Types, Shape
<1>3. unsent' \subseteq People
  BY CallFields DEF BgRefused, Refuses, Types, TypeOK
<1>9. QED BY <1>1, <1>2, <1>3 DEF BgRefused, TypeOK, Shape, Types, Mail, list, marks, server, counts

LEMMA SignOnTypes ==
  ASSUME Types, NEW a \in Accounts, SignOn(a)
  PROVE  Types'
<1>1. row[a] \in Entries
  BY DEF Types, TypeOK
<1>2. upsets' \in Nat
  BY UpsetTypes DEF SignOn, Types, Shape
<1>3. a # None
  BY ConnectionAssumption
<1>9. QED BY <1>1, <1>2, <1>3 DEF SignOn, Publish, TypeOK, Shape, Types, Mail, list, marks, server, counts

LEMMA SignOffTypes ==
  ASSUME Types, SignOff
  PROVE  Types'
<1>1. \A g \in Threads : g \in Calls /\ g.list \in Entries /\ g.who \in People
  BY CallFields DEF Threads, Types, TypeOK
<1>2. Empty \in Entries
  BY DEF Empty, Entries
<1>3. \A g \in Threads : Over(g) \in Entries
  BY <1>1, EntryTypes DEF Over, Types
<1>4. shown' \in Entries
  BY <1>2, <1>3 DEF SignOff, Publish
<1>5. upsets' \in Nat
  BY UpsetTypes DEF SignOff, Types, Shape
<1>6. reqs' \subseteq People
  BY DEF SignOff, Types, TypeOK
<1>9. QED BY <1>2, <1>4, <1>5, <1>6 DEF SignOff, TypeOK, Shape, Types, Mail, list, marks, server, counts

LEMMA InitTypes == Init => Types
<1> SUFFICES ASSUME Init PROVE Types
  OBVIOUS
<1>1. mirror \in Entries /\ row \in [Accounts -> Entries]
  BY DEF Init, Entries
<1>2. agrees \in [Accounts -> SUBSET People] /\ asked = agrees /\ wants = agrees
  BY DEF Init
<1>3. QED BY <1>1, <1>2 DEF Init, Types, TypeOK, Shape

LEMMA NextTypes ==
  ASSUME Types, [Next]_vars
  PROVE  Types'
<1>1. ASSUME SendInsert PROVE Types'
  BY <1>1, SendInsertTypes
<1>2. ASSUME Record PROVE Types'
  BY <1>2, RecordTypes
<1>3. ASSUME ListOf PROVE Types'
  BY <1>3, ListOfTypes
<1>4. ASSUME PublishBuddyList PROVE Types'
  BY <1>4, PublishBuddyListTypes
<1>5. ASSUME RemoveRow PROVE Types'
  BY <1>5, RemoveRowTypes
<1>6. ASSUME SendDelete PROVE Types'
  BY <1>6, SendDeleteTypes
<1>7. ASSUME AddRow PROVE Types'
  BY <1>7, AddRowTypes
<1>8. ASSUME HandleFeedbagStatus PROVE Types'
  BY <1>8, HandleFeedbagStatusTypes
<1>9. ASSUME Accepted PROVE Types'
  BY <1>9, AcceptedTypes
<1>10. ASSUME HandleAccepted PROVE Types'
  BY <1>10, HandleAcceptedTypes
<1>11. ASSUME HandleConnectionResponse PROVE Types'
  BY <1>11, HandleConnectionResponseTypes
<1>12. ASSUME HandleConnectionRequest PROVE Types'
  BY <1>12, HandleConnectionRequestTypes
<1>13. ASSUME SignOff PROVE Types'
  BY <1>13, SignOffTypes
<1>14. ASSUME NEW g \in bg, CheckAccepted(g) PROVE Types'
  BY <1>14, CheckAcceptedTypes
<1>15. ASSUME NEW g \in bg, MarkBuddyPending(g) PROVE Types'
  BY <1>15, MarkBuddyPendingTypes
<1>16. ASSUME NEW g \in bg, ReAddBuddyPending(g) PROVE Types'
  BY <1>16, ReAddBuddyPendingTypes
<1>17. ASSUME NEW g \in bg, ListPending(g) PROVE Types'
  BY <1>17, ListPendingTypes
<1>18. ASSUME NEW g \in bg, Decide(g) PROVE Types'
  BY <1>18, DecideTypes
<1>19. ASSUME NEW g \in bg, Forget(g) PROVE Types'
  BY <1>19, ForgetTypes
<1>20. ASSUME NEW g \in bg, SeverRow(g) PROVE Types'
  BY <1>20, SeverRowTypes
<1>21. ASSUME NEW g \in bg, SendSevered(g) PROVE Types'
  BY <1>21, SendSeveredTypes
<1>22. ASSUME NEW g \in bg, ListSevered(g) PROVE Types'
  BY <1>22, ListSeveredTypes
<1>23. ASSUME NEW g \in bg, PublishSevered(g) PROVE Types'
  BY <1>23, PublishSeveredTypes
<1>24. ASSUME NEW p \in People, Asks(p) PROVE Types'
  BY <1>24, AsksTypes
<1>25. ASSUME NEW p \in People, AddBuddy(p) PROVE Types'
  BY <1>25, AddBuddyTypes
<1>26. ASSUME NEW p \in People, RemoveBuddy(p) PROVE Types'
  BY <1>26, RemoveBuddyTypes
<1>27. ASSUME NEW p \in People, Approve(p) PROVE Types'
  BY <1>27, ApproveTypes
<1>28. ASSUME NEW p \in People, DeclineConnection(p) PROVE Types'
  BY <1>28, DeclineConnectionTypes
<1>29. ASSUME NEW a \in Accounts, NEW p \in People, Agrees(a, p) PROVE Types'
  BY <1>29, AgreesTypes
<1>30. ASSUME NEW a \in Accounts, NEW p \in People, Declines(a, p) PROVE Types'
  BY <1>30, DeclinesTypes
<1>31. ASSUME NEW a \in Accounts, NEW p \in People, Removes(a, p) PROVE Types'
  BY <1>31, RemovesTypes
<1>32. ASSUME NEW a \in Accounts, SignOn(a) PROVE Types'
  BY <1>32, SignOnTypes
<1>r. ASSUME UiRefused PROVE Types'
  BY <1>r, UiRefusedTypes
<1>b. ASSUME NEW g \in bg, BgRefused(g) PROVE Types'
  BY <1>b, BgRefusedTypes
<1>33. CASE UNCHANGED vars
  BY <1>33 DEF vars, Types, TypeOK, Shape, list, marks, server, counts
<1>34. CASE Runs
  BY <1>34, <1>r, <1>b, <1>1, <1>2, <1>3, <1>4, <1>5, <1>6, <1>7, <1>8, <1>9, <1>10, <1>11, <1>12, <1>14, <1>15, <1>16, <1>17, <1>18, <1>19, <1>20, <1>21, <1>22, <1>23 DEF Runs, UiRuns, LoopRuns, BgRuns
<1>35. CASE Peers
  BY <1>35, <1>24, <1>29, <1>30, <1>31 DEF Peers
<1>36. CASE User
  BY <1>36, <1>13, <1>25, <1>26, <1>27, <1>28, <1>32 DEF User
<1>37. QED BY <1>33, <1>34, <1>35, <1>36 DEF Next

\* Any schedule, any upsets: the client's state has its types.
THEOREM TypeCorrect == Spec => []TypeOK
<1>1. Types /\ [Next]_vars => Types'
  BY NextTypes
<1>2. Types => TypeOK
  BY DEF Types
<1>3. QED BY InitTypes, <1>1, <1>2, PTL DEF Spec

LEMMA SentSame ==
  ASSUME inbox' = inbox
  PROVE  /\ \A p, kind : Sent(p, kind)' <=> Sent(p, kind)
         /\ (Once => Once') /\ (SeveredLast => SeveredLast')
  BY DEF Sent, Once, SeveredLast

LEMMA SentAppend ==
  ASSUME inbox \in Seq(Mail), NEW kind \in Kinds, NEW q \in People, inbox' = Append(inbox, Message(kind, q))
  PROVE  /\ \A p, k : Sent(p, k)' <=> Sent(p, k) \/ (p = q /\ k = kind)
         /\ Once /\ ~Sent(q, kind) => Once'
         /\ SeveredLast /\ (kind = "asks" \/ ~SeveranceSent(q)) => SeveredLast'
<1> DEFINE m == Message(kind, q)
<1>1. m \in Mail /\ m.kind = kind /\ m.who = q /\ \A p, k : m = Message(k, p) <=> p = q /\ k = kind
  BY DEF Message, Mail
<1>2. /\ DOMAIN inbox = 1..Len(inbox) /\ Len(inbox) \in Nat /\ DOMAIN inbox' = 1..(Len(inbox) + 1)
      /\ \A i \in DOMAIN inbox : inbox'[i] = inbox[i] /\ inbox[i] \in Mail
      /\ inbox'[Len(inbox) + 1] = m
  BY <1>1
<1> HIDE DEF m
<1>3. \A i \in DOMAIN inbox' : i \in DOMAIN inbox \/ i = Len(inbox) + 1
  BY <1>2
<1>4. \A i \in DOMAIN inbox : i \in DOMAIN inbox' /\ i < Len(inbox) + 1
  BY <1>2
<1>5. Len(inbox) + 1 \in DOMAIN inbox'
  BY <1>2
<1>6. \A p, k : Sent(p, k)' <=> Sent(p, k) \/ (p = q /\ k = kind)
  <2>1. \A p, k : Sent(p, k)' <=> \E i \in DOMAIN inbox' : inbox'[i] = Message(k, p)
    BY DEF Sent, Message
  <2>2. \A p, k : Sent(p, k) <=> \E i \in DOMAIN inbox : inbox[i] = Message(k, p)
    BY DEF Sent
  <2>3. QED BY <1>1, <1>2, <1>3, <1>4, <1>5, <2>1, <2>2
<1>7. \A i \in DOMAIN inbox : inbox[i] = m => Sent(q, kind)
  BY DEF Sent, m
<1>8. Once /\ ~Sent(q, kind) => Once'
  BY <1>2, <1>3, <1>4, <1>7 DEF Once
<1>9. \A i \in DOMAIN inbox : inbox[i].who = q /\ inbox[i].kind \in Severances => SeveranceSent(q)
  BY <1>2 DEF SeveranceSent, Severances, Sent, Mail, Message
<1>10. SeveredLast /\ (kind = "asks" \/ ~SeveranceSent(q)) => SeveredLast'
  <2> SUFFICES ASSUME SeveredLast, kind = "asks" \/ ~SeveranceSent(q), NEW i \in DOMAIN inbox', NEW j \in DOMAIN inbox',
                      i < j, inbox'[i].who = inbox'[j].who, inbox'[i].kind \in Severances
               PROVE  inbox'[j].kind = "asks"
    BY DEF SeveredLast
  <2>1. i \in DOMAIN inbox
    BY <1>2, <1>3
  <2>2. CASE j \in DOMAIN inbox
    BY <1>2, <2>1, <2>2 DEF SeveredLast
  <2>3. CASE j = Len(inbox) + 1
    BY <1>1, <1>2, <1>9, <2>1, <2>3
  <2>4. QED BY <1>3, <2>2, <2>3
<1>11. QED BY <1>6, <1>8, <1>10

LEMMA SentTail ==
  ASSUME inbox \in Seq(Mail), inbox # <<>>, Rest, Once, SeveredLast,
         NEW w, w = Who, NEW h, h = Head(inbox).kind
  PROVE  /\ w \in People /\ h \in Kinds /\ Sent(w, h)
         /\ \A p, k : Sent(p, k)' <=> Sent(p, k) /\ ~(p = w /\ k = h)
         /\ h \in Severances => \A k \in Kinds \ {"asks"} : ~Sent(w, k)'
         /\ Once' /\ SeveredLast'
<1>1. /\ Len(inbox) \in Nat /\ Len(inbox) > 0 /\ DOMAIN inbox = 1..Len(inbox) /\ DOMAIN inbox' = 1..(Len(inbox) - 1)
      /\ \A i \in DOMAIN inbox' : inbox'[i] = inbox[i + 1]
      /\ Head(inbox) = inbox[1] /\ inbox[1].kind = h /\ inbox[1].who = w /\ \A i \in DOMAIN inbox : inbox[i] \in Mail
  BY HeadTailProperties DEF Rest, Who
<1>2. /\ 1 \in DOMAIN inbox
      /\ \A i \in DOMAIN inbox' : i + 1 \in DOMAIN inbox /\ i + 1 # 1 /\ 1 < i + 1
      /\ \A i \in DOMAIN inbox : i = 1 \/ \E j \in DOMAIN inbox' : i = j + 1
  <2>1. \A i \in DOMAIN inbox : i # 1 => i - 1 \in DOMAIN inbox' /\ i = (i - 1) + 1
    BY <1>1
  <2>2. 1 \in DOMAIN inbox
    BY <1>1
  <2>3. \A i \in DOMAIN inbox' : i + 1 \in DOMAIN inbox /\ i + 1 # 1 /\ 1 < i + 1
    BY <1>1
  <2>4. QED BY <2>1, <2>2, <2>3
<1>3. /\ inbox[1] = Message(h, w) /\ h \in Kinds /\ w \in People
      /\ \A p, k, l, q : Message(k, p) = Message(l, q) <=> k = l /\ p = q
  BY <1>1, <1>2 DEF Mail, Message
<1>4. \A p, k : Sent(p, k)' <=> \E i \in DOMAIN inbox' : inbox[i + 1] = Message(k, p)
  <2>1. \A p, k : Sent(p, k)' <=> \E i \in DOMAIN inbox' : inbox'[i] = Message(k, p)
    BY DEF Sent, Message
  <2>2. QED BY <1>1, <2>1
<1>5. Sent(w, h)
  BY <1>2, <1>3 DEF Sent
<1>6. \A p, k : Sent(p, k)' => Sent(p, k)
  BY <1>2, <1>4 DEF Sent
<1>7. \A p, k : Sent(p, k) /\ ~(p = w /\ k = h) => Sent(p, k)'
  BY <1>2, <1>3, <1>4 DEF Sent
<1>8. ~Sent(w, h)'
  BY <1>2, <1>3, <1>4 DEF Once
<1>9. Once'
  <2> SUFFICES ASSUME NEW i \in DOMAIN inbox', NEW j \in DOMAIN inbox', inbox'[i] = inbox'[j] PROVE i = j
    BY DEF Once
  <2>1. i + 1 = j + 1
    BY <1>1, <1>2 DEF Once
  <2>2. QED BY <1>1, <2>1
<1>10. SeveredLast'
  <2> SUFFICES ASSUME NEW i \in DOMAIN inbox', NEW j \in DOMAIN inbox', i < j, inbox'[i].who = inbox'[j].who,
                      inbox'[i].kind \in Severances
               PROVE  inbox'[j].kind = "asks"
    BY DEF SeveredLast
  <2>1. i + 1 < j + 1 /\ i + 1 \in DOMAIN inbox /\ j + 1 \in DOMAIN inbox
    BY <1>1, <1>2
  <2>2. QED BY <1>1, <2>1 DEF SeveredLast
<1>11. ASSUME h \in Severances, NEW k \in Kinds \ {"asks"} PROVE ~Sent(w, k)'
  <2> SUFFICES ASSUME NEW i \in DOMAIN inbox', inbox[i + 1] = Message(k, w) PROVE FALSE
    BY <1>4
  <2>1. inbox[i + 1].kind = k /\ inbox[i + 1].who = w
    BY DEF Message
  <2>2. inbox[1].kind = h /\ inbox[1].who = w
    BY <1>1
  <2>3. inbox[i + 1].kind = "asks"
    BY <1>2, <1>11, <2>1, <2>2 DEF SeveredLast
  <2>4. QED BY <2>1, <2>3
<1>12. QED BY <1>3, <1>5, <1>6, <1>7, <1>8, <1>9, <1>10, <1>11

\* What a goroutine is at when it severs.
SeverPcs == {"forget", "remove", "delete"}

LEMMA AtSame ==
  ASSUME bg' = bg
  PROVE  (\A p, pc : At(p, pc)' <=> At(p, pc)) /\ (OneSevers => OneSevers')
  BY DEF At, OneSevers

LEMMA AtStarts ==
  ASSUME NEW pc, NEW q, Starts(pc, q)
  PROVE  /\ \A p, x : At(p, x)' <=> At(p, x) \/ (p = q /\ x = pc)
         /\ OneSevers /\ (pc \notin SeverPcs \/ \A x \in SeverPcs : ~At(q, x)) => OneSevers'
<1> DEFINE h == [pc |-> pc, who |-> q, list |-> mirror, approves |-> FALSE]
<1>1. bg' = bg \cup {h} /\ h.pc = pc /\ h.who = q
  BY DEF Starts
<1> HIDE DEF h
<1>2. \A p, x : At(p, x)' <=> \E g \in bg' : g.who = p /\ g.pc = x
  BY DEF At
<1>3. \A p, x : At(p, x)' <=> At(p, x) \/ (p = q /\ x = pc)
  BY <1>1, <1>2 DEF At
<1>4. OneSevers /\ (pc \notin SeverPcs \/ \A x \in SeverPcs : ~At(q, x)) => OneSevers'
  BY <1>1 DEF OneSevers, SeverPcs, At
<1>5. QED BY <1>3, <1>4

LEMMA AtGoes ==
  ASSUME NEW g \in bg, NEW h, h.who = g.who, bg' = (bg \ {g}) \cup {h}, NEW q, q = g.who, NEW old, old = g.pc,
         NEW pc, pc = h.pc
  PROVE  /\ \A p, x : At(p, x)' => At(p, x) \/ (p = q /\ x = pc)
         /\ \A p, x : At(p, x) /\ ~(p = q /\ x = old) => At(p, x)'
         /\ At(q, pc)' /\ At(q, old)
         /\ OneSevers /\ old \in SeverPcs => /\ \A x \in SeverPcs : At(q, x) => x = old
                                             /\ \A x \in SeverPcs : At(q, x)' => x = pc
         /\ OneSevers /\ (pc \notin SeverPcs \/ old \in SeverPcs) => OneSevers'
<1>1. \A p, x : At(p, x)' <=> \E e \in bg' : e.who = p /\ e.pc = x
  BY DEF At
<1>2. /\ \A p, x : At(p, x)' => At(p, x) \/ (p = q /\ x = pc)
      /\ \A p, x : At(p, x) /\ ~(p = q /\ x = old) => At(p, x)'
      /\ At(q, pc)' /\ At(q, old)
  BY <1>1 DEF At
<1>3. ASSUME OneSevers, old \in SeverPcs
      PROVE  /\ \A x \in SeverPcs : At(q, x) => x = old
             /\ \A x \in SeverPcs : At(q, x)' => x = pc
  BY <1>1, <1>3 DEF At, OneSevers, SeverPcs
<1>4. OneSevers /\ (pc \notin SeverPcs \/ old \in SeverPcs) => OneSevers'
  BY DEF OneSevers, SeverPcs
<1>5. QED BY <1>2, <1>3, <1>4

LEMMA AtEnds ==
  ASSUME NEW g \in bg, Ends(g), NEW q, q = g.who, NEW old, old = g.pc
  PROVE  /\ \A p, x : At(p, x)' => At(p, x)
         /\ \A p, x : At(p, x) /\ ~(p = q /\ x = old) => At(p, x)'
         /\ At(q, old)
         /\ OneSevers /\ old \in SeverPcs => \A x \in SeverPcs : ~At(q, x)'
         /\ OneSevers => OneSevers'
<1>1. \A p, x : At(p, x)' <=> \E e \in bg \ {g} : e.who = p /\ e.pc = x
  BY DEF At, Ends
<1>2. /\ \A p, x : At(p, x)' => At(p, x)
      /\ \A p, x : At(p, x) /\ ~(p = q /\ x = old) => At(p, x)'
      /\ At(q, old)
  BY <1>1 DEF At
<1>3. OneSevers /\ old \in SeverPcs => \A x \in SeverPcs : ~At(q, x)'
  BY <1>1 DEF OneSevers, SeverPcs
<1>4. OneSevers => OneSevers'
  BY DEF OneSevers, Ends
<1>5. QED BY <1>2, <1>3, <1>4

LEMMA UiSame ==
  ASSUME ui' = ui
  PROVE  \A p, pc : UiOn(p, pc)' <=> UiOn(p, pc)
  BY DEF UiOn

LEMMA UiEnds ==
  ASSUME ui' = None
  PROVE  \A p, pc : ~UiOn(p, pc)'
  BY DEF UiOn

\* The interface's call, as it is and as it goes on.
LEMMA UiNow ==
  ASSUME NEW pc, UiAt(pc), NEW q, q = ui.who
  PROVE  /\ UiOn(q, pc) /\ \A p, x : UiOn(p, x) <=> p = q /\ x = pc
         /\ ui \in Threads
  BY DEF UiAt, UiOn, Threads

LEMMA UiGoesOn ==
  ASSUME Types, ui # None, NEW pc \in Pcs, NEW h, ui' = h, h \in Calls, h.pc = pc, h.who = ui.who, NEW q, q = ui.who
  PROVE  \A p, x : UiOn(p, x)' <=> p = q /\ x = pc
<1>1. h # None
  BY NoneIsNoCall
<1>2. QED BY <1>1 DEF UiOn

LEMMA UiGoesView ==
  ASSUME Types, ui \in Calls, ui # None, NEW pc \in Pcs, UiGoes(pc), NEW q, q = ui.who
  PROVE  \A p, x : UiOn(p, x)' <=> p = q /\ x = pc
<1>1. [ui EXCEPT !.pc = pc] \in Calls /\ [ui EXCEPT !.pc = pc].pc = pc /\ [ui EXCEPT !.pc = pc].who = ui.who
  BY CallTypes
<1>2. QED BY <1>1, UiGoesOn DEF UiGoes

\* Nothing but a person's or our own haste goes wrong: no send is refused either.
OnlyHasty == Upsets \subseteq {"hasty"}

LEMMA NoUpset ==
  ASSUME OnlyHasty, NEW kind \in UpsetKinds \ {"hasty"}
  PROVE  ~Upset(kind) /\ \A condition : UpsetIf(condition, kind) => ~condition
  BY DEF OnlyHasty, Upset, UpsetIf

\* No send is refused.
LEMMA NothingRefused ==
  ASSUME OnlyHasty
  PROVE  ~UiRefused /\ \A g : ~BgRefused(g)
  BY NoUpset DEF UpsetKinds, UiRefused, BgRefused, Refuses

LEMMA NobodyOvertaken ==
  ASSUME OnlyHasty, NEW stages, Overtakes(stages)
  PROVE  /\ \A g \in Threads : g.pc \notin stages
         /\ \A p : \A pc \in stages : ~At(p, pc) /\ ~UiOn(p, pc)
         /\ \A pc \in stages : ~Running(pc)
<1>1. \A g \in Threads : g.pc \notin stages
  BY NoUpset DEF Overtakes, UpsetKinds
<1>2. QED BY <1>1 DEF At, UiOn, Threads, Running

LEMMA CallsAlone ==
  ASSUME OnlyHasty, Types, NEW pc \in Pcs, NEW p \in People, Call(pc, p)
  PROVE  /\ \A x : ~At(p, x) /\ \A q : ~UiOn(q, x)
         /\ \A k \in Kinds \ {"asks"} : ~Sent(p, k)
         /\ \A q, x : UiOn(q, x)' <=> q = p /\ x = pc
         /\ ui = None /\ ui' # None /\ account # None /\ account \in Accounts /\ ui'.pc = pc /\ ui'.who = p
<1>1. ~(\/ \E g \in bg : g.who = p
        \/ \E i \in DOMAIN inbox : inbox[i].who = p /\ inbox[i].kind # "asks")
  BY NoUpset DEF Call, UpsetKinds
<1>2. ui = None /\ ui' # None /\ account # None /\ account \in Accounts /\ ui'.pc = pc /\ ui'.who = p
  BY CallStarts DEF Call
<1>3. QED BY <1>1, <1>2 DEF At, UiOn, Sent, Message

\* What the invariant says of p looks at nothing else.
CallPcs == {"new", "add", "insert", "remove", "delete"}
WorkPcs == {"check", "mark", "resend", "list", "decide", "forget", "remove", "delete"}

Same(p) ==
  /\ row'[Home][p] = row[Home][p] /\ mirror'[p] = mirror[p] /\ (account' = None <=> account = None)
  /\ (p \in agrees'[Home] <=> p \in agrees[Home]) /\ (p \in asked'[Home] <=> p \in asked[Home])
  /\ (p \in accepted' <=> p \in accepted) /\ (loop' = p <=> loop = p)
  /\ \A k \in Kinds \ {"asks"} : Sent(p, k)' <=> Sent(p, k)
  /\ \A x \in WorkPcs : At(p, x)' <=> At(p, x)
  /\ \A x \in CallPcs : UiOn(p, x)' <=> UiOn(p, x)

LEMMA SamePerson ==
  ASSUME NEW p, Same(p), Standings(p)
  PROVE  Standings(p)'
<1> USE DEF Same
<1>1. /\ \A k \in Kinds \ {"asks"} : Sent(p, k)' <=> Sent(p, k)
      /\ Severing(p)' <=> Severing(p)
      /\ SeveranceSent(p)' <=> SeveranceSent(p)
      /\ AcceptanceSent(p)' <=> AcceptanceSent(p)
      /\ Refused(p)' <=> Refused(p)
      /\ Marking(p)' <=> Marking(p)
      /\ Sent(p, "refused")' <=> Sent(p, "refused")
      /\ Sent(p, "stored")' <=> Sent(p, "stored")
  BY DEF Severing, SeveranceSent, AcceptanceSent, Refused, Marking, WorkPcs, Kinds
<1>2. \A x \in WorkPcs : At(p, x)' <=> At(p, x)
  OBVIOUS
<1>3. \A x \in CallPcs : UiOn(p, x)' <=> UiOn(p, x)
  OBVIOUS
<1>4. /\ row'[Home][p] = row[Home][p] /\ mirror'[p] = mirror[p] /\ (account' = None <=> account = None)
      /\ (p \in agrees'[Home] <=> p \in agrees[Home]) /\ (p \in asked'[Home] <=> p \in asked[Home])
      /\ (p \in accepted' <=> p \in accepted) /\ (loop' = p <=> loop = p)
  OBVIOUS
<1> USE DEF CallPcs, WorkPcs
<1> HIDE DEF Same
<1>5. Standing(p)'
  BY <1>1, <1>2, <1>3, <1>4 DEF Standings, Standing
<1>6. Known(p)'
  BY <1>1, <1>2, <1>3, <1>4 DEF Standings, Known
<1>7. Severed(p)'
  BY <1>1, <1>2, <1>3, <1>4 DEF Standings, Severed
<1>8. Called(p)'
  BY <1>1, <1>2, <1>3, <1>4 DEF Standings, Called
<1>9. Mirrored(p)'
  BY <1>1, <1>2, <1>3, <1>4 DEF Standings, Mirrored
<1>10. QED BY <1>5, <1>6, <1>7, <1>8, <1>9 DEF Standings

\* The same for what is told: the list may be taken anew.
Lasts(p) ==
  /\ mirror'[p] = mirror[p] /\ cached'[p] \in {cached[p], mirror[p]}
  /\ (loop' = p <=> loop = p) /\ (p \in asked'[Home] <=> p \in asked[Home])
  /\ \A k \in Kinds \ {"asks"} : Sent(p, k)' <=> Sent(p, k)
  /\ \A x \in Pcs : At(p, x)' <=> At(p, x)
  /\ \A x \in CallPcs \cup {"list"} : UiOn(p, x)' <=> UiOn(p, x)

LEMMA LapsedSame ==
  ASSUME NEW p, Lasts(p), Lapsed(p)
  PROVE  Lapsed(p)'
<1> USE DEF Lasts
<1>1. /\ \A k \in Kinds \ {"asks"} : Sent(p, k)' <=> Sent(p, k)
      /\ Severing(p)' <=> Severing(p)
      /\ AcceptanceSent(p)' <=> AcceptanceSent(p)
      /\ Marking(p)' <=> Marking(p)
      /\ Sent(p, "refused")' <=> Sent(p, "refused")
      /\ Sent(p, "declined")' <=> Sent(p, "declined")
      /\ Sent(p, "removed")' <=> Sent(p, "removed")
  BY DEF Severing, AcceptanceSent, Refused, Marking, Pcs, Kinds
<1>2. \A x \in Pcs : At(p, x)' <=> At(p, x)
  OBVIOUS
<1>3. \A x \in CallPcs \cup {"list"} : UiOn(p, x)' <=> UiOn(p, x)
  OBVIOUS
<1>4. /\ mirror'[p] = mirror[p] /\ cached'[p] \in {cached[p], mirror[p]}
      /\ (loop' = p <=> loop = p) /\ (p \in asked'[Home] <=> p \in asked[Home])
  OBVIOUS
<1> HIDE DEF Lasts
<1>5. QED BY <1>1, <1>2, <1>3, <1>4 DEF Lapsed, CallPcs, Pcs

LEMMA AtHome ==
  ASSUME Types, account \in {Home, None}, account # None
  PROVE  account = Home /\ Home \in Accounts
  BY DEF Types, TypeOK

LEMMA InsertedView ==
  ASSUME Types, Home \in Accounts, account = Home, NEW q \in People, NEW pending \in BOOLEAN, Inserted(q, pending)
  PROVE  /\ row'[Home][q] = IF q \in agrees[Home] THEN "plain" ELSE IF pending THEN "pending" ELSE row[Home][q]
         /\ \A p \in People \ {q} : row'[Home][p] = row[Home][p]
         /\ asked'[Home] = IF q \in agrees[Home] \/ pending THEN asked[Home] ELSE asked[Home] \cup {q}
         /\ agrees' = agrees
<1> DEFINE v == IF q \in agrees[Home] THEN "plain" ELSE IF pending THEN "pending" ELSE row[Home][q]
<1>1. row' = [row EXCEPT ![Home][q] = v] /\ v \in {"none", "pending", "plain"}
  BY RowTypes DEF Types, Inserted
<1>2. asked'[Home] = IF q \in agrees[Home] \/ pending THEN asked[Home] ELSE asked[Home] \cup {q}
  BY SetTypes DEF Types, Shape, Inserted
<1> HIDE DEF v
<1>3. row'[Home][q] = v /\ \A p \in People \ {q} : row'[Home][p] = row[Home][p]
  BY <1>1, RowView DEF Types
<1>4. QED BY <1>2, <1>3 DEF Inserted, v

LEMMA DeletedView ==
  ASSUME Types, Home \in Accounts, account = Home, NEW q \in People, Deleted(q)
  PROVE  /\ row'[Home][q] = "none" /\ \A p \in People \ {q} : row'[Home][p] = row[Home][p]
         /\ asked'[Home] = asked[Home] \ {q} /\ agrees'[Home] = agrees[Home] \ {q}
<1>1. row'[Home][q] = "none" /\ \A p \in People \ {q} : row'[Home][p] = row[Home][p]
  BY RowView DEF Types, Deleted
<1>2. asked'[Home] = asked[Home] \ {q} /\ agrees'[Home] = agrees[Home] \ {q}
  BY SetTypes DEF Types, Shape, Deleted
<1>3. QED BY <1>1, <1>2

LEMMA MirrorView ==
  ASSUME Types, NEW q \in People, NEW v \in {"none", "pending", "plain"}
  PROVE  /\ [mirror EXCEPT ![q] = v][q] = v /\ \A p \in People \ {q} : [mirror EXCEPT ![q] = v][p] = mirror[p]
         /\ \A p \in People : mirror[p] \in {"none", "pending", "plain"}
  BY DEF Types, TypeOK, Entries

LEMMA ClearView ==
  ASSUME Types, NEW q \in People, ClearPending(q)
  PROVE  /\ mirror'[q] = IF mirror[q] = "pending" THEN "plain" ELSE mirror[q]
         /\ \A p \in People \ {q} : mirror'[p] = mirror[p]
  BY ClearTypes, EntryTypes DEF Types

LEMMA SendInsertKeeps ==
  ASSUME Types, OnlyHasty, Orderly, SendInsert
  PROVE  Orderly' /\ (Calm /\ Told => Told')
<1> PICK q : q = ui.who
  OBVIOUS
<1>q. ui \in Calls /\ ui # None /\ account = Home /\ account # None /\ Home \in Accounts /\ q \in People
  BY CallFields, AtHome DEF SendInsert, UiAt, Types, TypeOK, Shape, Orderly
<1>u. \A p, x : UiOn(p, x) <=> p = q /\ x = "insert"
  BY UiNow DEF SendInsert
<1>g. \A p, x : UiOn(p, x)' <=> p = q /\ x = "record"
  BY <1>q, UiGoesView DEF SendInsert, Pcs
<1>a. (\A p, x : At(p, x)' <=> At(p, x)) /\ OneSevers'
  BY AtSame DEF SendInsert, Orderly
<1>v. /\ row'[Home][q] = IF q \in agrees[Home] THEN "plain" ELSE row[Home][q]
      /\ \A p \in People \ {q} : row'[Home][p] = row[Home][p]
      /\ asked'[Home] = IF q \in agrees[Home] THEN asked[Home] ELSE asked[Home] \cup {q}
      /\ agrees' = agrees
  BY <1>q, InsertedView DEF SendInsert
<1>k. PICK kind \in {"stored", "refused"} : kind = "stored" <=> q \in agrees[Home]
  <2>1. \A agreed \in BOOLEAN : \E kind \in {"stored", "refused"} : kind = "stored" <=> agreed
    OBVIOUS
  <2>2. (q \in agrees[Home]) \in BOOLEAN
    OBVIOUS
  <2>3. QED BY <2>1, <2>2
<1>b. inbox' = Append(inbox, Message(kind, q)) /\ inbox \in Seq(Mail) /\ kind \in Kinds
  BY <1>q, <1>k DEF SendInsert, Inserted, Types, Shape, Mail, Kinds
<1>i. /\ \A p, k : Sent(p, k)' <=> Sent(p, k) \/ (p = q /\ k = kind)
      /\ Once /\ ~Sent(q, kind) => Once'
      /\ SeveredLast /\ ~SeveranceSent(q) => SeveredLast'
  BY <1>b, <1>q, SentAppend
<1>f. mirror' = mirror /\ accepted' = accepted /\ loop' = loop /\ account' = account
  BY DEF SendInsert, list, marks
<1>n. ~Sent(q, kind) /\ ~SeveranceSent(q) /\ Once /\ SeveredLast
  <2>1. Called(q) /\ Severed(q)
    BY <1>q DEF Orderly, Standings
  <2>2. QED BY <2>1, <1>u, <1>k DEF Called, Severed, Marking, Refused, Severing, SeveranceSent, Orderly
<1>o. Standing(q) /\ Known(q) /\ Severed(q) /\ Called(q) /\ Mirrored(q)
  BY <1>q DEF Orderly, Standings
<1>l. Once' /\ SeveredLast' /\ OneSevers' /\ account' \in {Home, None}
  BY <1>o, <1>a, <1>i, <1>n, <1>f, <1>q DEF Orderly
<1>s. ASSUME NEW p \in People, p # q PROVE Standings(p)'
  <2>1. Same(p)
    BY <1>s, <1>u, <1>g, <1>a, <1>v, <1>i, <1>f DEF Same, CallPcs, WorkPcs
  <2>2. QED BY <2>1, SamePerson DEF Orderly
<1> USE DEF Standing, Known, Severed, Called, Mirrored, Severing, SeveranceSent, AcceptanceSent, Refused, Marking, Kinds, SeverPcs
<1>m. Standings(q)'
  <2>1. Standing(q)'
    BY <1>o, <1>q, <1>u, <1>g, <1>a, <1>v, <1>k, <1>i, <1>f
  <2>2. Known(q)'
    BY <1>o, <1>q, <1>u, <1>g, <1>a, <1>v, <1>k, <1>i, <1>f
  <2>3. Severed(q)'
    BY <1>o, <1>q, <1>u, <1>g, <1>a, <1>v, <1>k, <1>i, <1>f
  <2>4. Called(q)'
    BY <1>o, <1>q, <1>u, <1>g, <1>a, <1>v, <1>k, <1>i, <1>f
  <2>5. Mirrored(q)'
    BY <1>o, <1>q, <1>u, <1>g, <1>a, <1>v, <1>k, <1>i, <1>f
  <2>6. QED BY <2>1, <2>2, <2>3, <2>4, <2>5 DEF Standings
<1>cached. cached' = cached
  BY DEF SendInsert, list
<1>told. ASSUME Calm, Told PROVE Told'
  <2>0. SUFFICES ASSUME account' # None PROVE \A p \in People : Lapsed(p)'
    BY DEF Told
  <2>a. \A p \in People : Lapsed(p)
    BY <2>0, <1>told, <1>a, <1>i, <1>n, <1>f, <1>q DEF Told
  <2>b. ASSUME NEW p \in People, p # q PROVE Lapsed(p)'
    <3>1. Lasts(p)
      BY <2>b, <1>cached, <1>u, <1>g, <1>a, <1>v, <1>i, <1>f DEF Lasts, CallPcs, Pcs
    <3>2. QED BY <2>a, <3>1, LapsedSame
  <2>d. Lapsed(q)
    BY <2>a, <1>q
  <2>m. Lapsed(q)'
    BY <2>d, <1>o, <1>cached, <1>q, <1>u, <1>g, <1>a, <1>v, <1>k, <1>i, <1>f DEF Lapsed, Pcs
  <2>e. QED BY <2>b, <2>m
<1>e. QED BY <1>l, <1>s, <1>m, <1>told DEF Orderly

LEMMA RecordKeeps ==
  ASSUME Types, OnlyHasty, Orderly, Record
  PROVE  Orderly' /\ (Calm /\ Told => Told')
<1> PICK q : q = ui.who
  OBVIOUS
<1>q. ui \in Calls /\ ui # None /\ account = Home /\ account # None /\ Home \in Accounts /\ q \in People
  BY CallFields, AtHome DEF Record, UiAt, Types, TypeOK, Shape, Orderly
<1>u. \A p, x : UiOn(p, x) <=> p = q /\ x = "record"
  BY UiNow DEF Record
<1>g. \A p, x : UiOn(p, x)' <=> p = q /\ x = "list"
  BY <1>q, UiGoesView DEF Record, Pcs
<1>a. (\A p, x : At(p, x)' <=> At(p, x)) /\ OneSevers'
  BY AtSame DEF Record, Orderly
<1>h. inbox' = inbox
  BY DEF Record, Deleted
<1>i. (\A p, k : Sent(p, k)' <=> Sent(p, k)) /\ Once' /\ SeveredLast'
  BY <1>h, SentSame DEF Orderly
<1>f. UNCHANGED <<account, mirror, accepted, loop, row, agrees, asked>>
  BY DEF Record, list, marks, server
<1>l. Once' /\ SeveredLast' /\ OneSevers' /\ account' \in {Home, None}
  BY <1>a, <1>i, <1>f DEF Orderly
<1>s. ASSUME NEW p \in People PROVE Standings(p)'
  <2>1. Same(p)
    BY <1>s, <1>u, <1>g, <1>a, <1>i, <1>f DEF Same, CallPcs, WorkPcs
  <2>2. QED BY <2>1, SamePerson DEF Orderly
<1>cached. cached' = cached
  BY DEF Record, list
<1>told. ASSUME Calm, Told PROVE Told'
  <2>0. SUFFICES ASSUME account' # None PROVE \A p \in People : Lapsed(p)'
    BY DEF Told
  <2>a. \A p \in People : Lapsed(p)
    BY <2>0, <1>told, <1>a, <1>i, <1>f DEF Told
  <2>b. ASSUME NEW p \in People, p # q PROVE Lapsed(p)'
    <3>1. Lasts(p)
      BY <2>b, <1>cached, <1>u, <1>g, <1>a, <1>i, <1>f DEF Lasts, CallPcs, Pcs
    <3>2. QED BY <2>a, <3>1, LapsedSame
  <2>c. Standing(q) /\ Known(q) /\ Severed(q) /\ Called(q) /\ Mirrored(q) /\ q \in People
    BY <1>q DEF Orderly, Standings
  <2>d. Lapsed(q)
    BY <2>a, <1>q
  <2>m. Lapsed(q)'
    BY <2>d, <2>c, <1>cached, <1>u, <1>g, <1>a, <1>i, <1>f DEF Lapsed, Pcs, Standing, Known, Severed, Called, Mirrored, Severing, SeveranceSent, AcceptanceSent, Refused, Marking, Kinds
  <2>e. QED BY <2>b, <2>m
<1>e. QED BY <1>l, <1>s, <1>told DEF Orderly

LEMMA ListOfKeeps ==
  ASSUME Types, OnlyHasty, Orderly, ListOf
  PROVE  Orderly' /\ (Calm /\ Told => Told')
<1> PICK q : q = ui.who
  OBVIOUS
<1>q. ui \in Calls /\ ui # None /\ account = Home /\ account # None /\ Home \in Accounts /\ q \in People
  BY CallFields, AtHome DEF ListOf, UiAt, Types, TypeOK, Shape, Orderly
<1>u. \A p, x : UiOn(p, x) <=> p = q /\ x = "list"
  BY UiNow DEF ListOf
<1>m. mirror \in Entries
  BY DEF Types, TypeOK
<1>g. \A p, x : UiOn(p, x)' <=> p = q /\ x = "publish"
  <2>0. "publish" \in Pcs
    BY DEF Pcs
  <2>1. [ui EXCEPT !.pc = "publish", !.list = mirror] \in Calls /\ [ui EXCEPT !.pc = "publish", !.list = mirror].pc = "publish"
        /\ [ui EXCEPT !.pc = "publish", !.list = mirror].who = ui.who
    BY <1>q, <1>m, <2>0 DEF Calls, Pcs
  <2>2. ui' = [ui EXCEPT !.pc = "publish", !.list = mirror]
    BY DEF ListOf
  <2>3. QED BY <1>q, <2>0, <2>1, <2>2, UiGoesOn
<1>a. (\A p, x : At(p, x)' <=> At(p, x)) /\ OneSevers'
  BY AtSame DEF ListOf, Orderly
<1>h. inbox' = inbox
  BY DEF ListOf, Deleted
<1>i. (\A p, k : Sent(p, k)' <=> Sent(p, k)) /\ Once' /\ SeveredLast'
  BY <1>h, SentSame DEF Orderly
<1>f. UNCHANGED <<account, mirror, accepted, loop, row, agrees, asked>>
  BY DEF ListOf, list, marks, server
<1>l. Once' /\ SeveredLast' /\ OneSevers' /\ account' \in {Home, None}
  BY <1>a, <1>i, <1>f DEF Orderly
<1>s. ASSUME NEW p \in People PROVE Standings(p)'
  <2>1. Same(p)
    BY <1>s, <1>u, <1>g, <1>a, <1>i, <1>f DEF Same, CallPcs, WorkPcs
  <2>2. QED BY <2>1, SamePerson DEF Orderly
<1>cached. cached' = mirror
  BY DEF ListOf
<1>told. ASSUME Calm, Told PROVE Told'
  <2>0. SUFFICES ASSUME account' # None PROVE \A p \in People : Lapsed(p)'
    BY DEF Told
  <2>a. \A p \in People : Lapsed(p)
    BY <2>0, <1>told, <1>a, <1>i, <1>f DEF Told
  <2>b. ASSUME NEW p \in People, p # q PROVE Lapsed(p)'
    <3>1. Lasts(p)
      BY <2>b, <1>cached, <1>u, <1>g, <1>a, <1>i, <1>f DEF Lasts, CallPcs, Pcs
    <3>2. QED BY <2>a, <3>1, LapsedSame
  <2>c. Standing(q) /\ Known(q) /\ Severed(q) /\ Called(q) /\ Mirrored(q) /\ q \in People
    BY <1>q DEF Orderly, Standings
  <2>d. Lapsed(q)
    BY <2>a, <1>q
  <2>m. Lapsed(q)'
    BY <2>d, <2>c, <1>cached, <1>u, <1>g, <1>a, <1>i, <1>f DEF Lapsed, Pcs, Standing, Known, Severed, Called, Mirrored, Severing, SeveranceSent, AcceptanceSent, Refused, Marking, Kinds
  <2>e. QED BY <2>b, <2>m
<1>e. QED BY <1>l, <1>s, <1>told DEF Orderly

LEMMA PublishBuddyListKeeps ==
  ASSUME Types, OnlyHasty, Orderly, PublishBuddyList
  PROVE  Orderly' /\ (Calm /\ Told => Told')
<1> PICK q : q = ui.who
  OBVIOUS
<1>q. ui \in Calls /\ ui # None /\ account = Home /\ account # None /\ Home \in Accounts /\ q \in People
  BY CallFields, AtHome DEF PublishBuddyList, UiAt, Types, TypeOK, Shape, Orderly
<1>u. \A p, x : UiOn(p, x) <=> p = q /\ x = "publish"
  BY UiNow DEF PublishBuddyList
<1>g. \A p, x : ~UiOn(p, x)'
  BY UiEnds DEF PublishBuddyList
<1>a. (\A p, x : At(p, x)' <=> At(p, x)) /\ OneSevers'
  BY AtSame DEF PublishBuddyList, Orderly
<1>h. inbox' = inbox
  BY DEF PublishBuddyList, Deleted
<1>i. (\A p, k : Sent(p, k)' <=> Sent(p, k)) /\ Once' /\ SeveredLast'
  BY <1>h, SentSame DEF Orderly
<1>f. UNCHANGED <<account, mirror, accepted, loop, row, agrees, asked>>
  BY DEF PublishBuddyList, list, marks, server
<1>l. Once' /\ SeveredLast' /\ OneSevers' /\ account' \in {Home, None}
  BY <1>a, <1>i, <1>f DEF Orderly
<1>s. ASSUME NEW p \in People PROVE Standings(p)'
  <2>1. Same(p)
    BY <1>s, <1>u, <1>g, <1>a, <1>i, <1>f DEF Same, CallPcs, WorkPcs
  <2>2. QED BY <2>1, SamePerson DEF Orderly
<1>cached. cached' = cached
  BY DEF PublishBuddyList, list
<1>told. ASSUME Calm, Told PROVE Told'
  <2>0. SUFFICES ASSUME account' # None PROVE \A p \in People : Lapsed(p)'
    BY DEF Told
  <2>a. \A p \in People : Lapsed(p)
    BY <2>0, <1>told, <1>a, <1>i, <1>f DEF Told
  <2>b. ASSUME NEW p \in People, p # q PROVE Lapsed(p)'
    <3>1. Lasts(p)
      BY <2>b, <1>cached, <1>u, <1>g, <1>a, <1>i, <1>f DEF Lasts, CallPcs, Pcs
    <3>2. QED BY <2>a, <3>1, LapsedSame
  <2>c. Standing(q) /\ Known(q) /\ Severed(q) /\ Called(q) /\ Mirrored(q) /\ q \in People
    BY <1>q DEF Orderly, Standings
  <2>d. Lapsed(q)
    BY <2>a, <1>q
  <2>m. Lapsed(q)'
    BY <2>d, <2>c, <1>cached, <1>u, <1>g, <1>a, <1>i, <1>f DEF Lapsed, Pcs, Standing, Known, Severed, Called, Mirrored, Severing, SeveranceSent, AcceptanceSent, Refused, Marking, Kinds
  <2>e. QED BY <2>b, <2>m
<1>e. QED BY <1>l, <1>s, <1>told DEF Orderly

LEMMA RemoveRowKeeps ==
  ASSUME Types, OnlyHasty, Orderly, RemoveRow
  PROVE  Orderly' /\ (Calm /\ Told => Told')
<1> PICK q : q = ui.who
  OBVIOUS
<1>q. ui \in Calls /\ ui # None /\ account = Home /\ account # None /\ Home \in Accounts /\ q \in People
  BY CallFields, AtHome DEF RemoveRow, UiAt, Types, TypeOK, Shape, Orderly
<1>u. \A p, x : UiOn(p, x) <=> p = q /\ x = "remove"
  BY UiNow DEF RemoveRow
<1>a. (\A p, x : At(p, x)' <=> At(p, x)) /\ OneSevers'
  BY AtSame DEF RemoveRow, Orderly
<1>h. inbox' = inbox
  BY DEF RemoveRow, Deleted
<1>i. (\A p, k : Sent(p, k)' <=> Sent(p, k)) /\ Once' /\ SeveredLast'
  BY <1>h, SentSame DEF Orderly
<1>f. UNCHANGED <<account, accepted, loop, row, agrees, asked>>
  BY DEF RemoveRow, marks, server
<1>x. mirror[q] # "none" =>
        /\ mirror'[q] = "none" /\ \A p \in People \ {q} : mirror'[p] = mirror[p]
        /\ \A p, x : UiOn(p, x)' <=> p = q /\ x = "delete"
        /\ ~At(q, "resend")
  <2> HAVE mirror[q] # "none"
  <2>1. mirror' = [mirror EXCEPT ![q] = "none"] /\ UiGoes("delete")
    BY DEF RemoveRow
  <2>2. \A p, x : UiOn(p, x)' <=> p = q /\ x = "delete"
    BY <1>q, <2>1, UiGoesView DEF Pcs
  <2>3. ~At(q, "resend")
    BY NobodyOvertaken DEF RemoveRow
  <2>4. QED BY <1>q, <2>1, <2>2, <2>3, MirrorView
<1>n. mirror[q] = "none" => mirror' = mirror /\ \A p, x : ~UiOn(p, x)'
  BY UiEnds DEF RemoveRow
<1>o. Standing(q) /\ Known(q) /\ Severed(q) /\ Called(q) /\ Mirrored(q)
  BY <1>q DEF Orderly, Standings
<1>l. Once' /\ SeveredLast' /\ OneSevers' /\ account' \in {Home, None}
  BY <1>o, <1>a, <1>i, <1>f, <1>q DEF Orderly
<1>s. ASSUME NEW p \in People, p # q PROVE Standings(p)'
  <2>1. Same(p)
    BY <1>s, <1>u, <1>x, <1>n, <1>a, <1>i, <1>f DEF Same, CallPcs, WorkPcs
  <2>2. QED BY <2>1, SamePerson DEF Orderly
<1> USE DEF Standing, Known, Severed, Called, Mirrored, Severing, SeveranceSent, AcceptanceSent, Refused, Marking, Kinds, SeverPcs
<1>m. Standings(q)'
  <2>1. CASE mirror[q] = "none"
    <3>0. mirror' = mirror /\ \A p, x : ~UiOn(p, x)'
      BY <2>1, <1>n
    <3>1. Standing(q)'
      BY <1>o, <2>1, <3>0, <1>q, <1>u, <1>a, <1>i, <1>f
    <3>2. Known(q)'
      BY <1>o, <2>1, <3>0, <1>q, <1>u, <1>a, <1>i, <1>f
    <3>3. Severed(q)'
      BY <1>o, <2>1, <3>0, <1>q, <1>u, <1>a, <1>i, <1>f
    <3>4. Called(q)'
      BY <1>o, <2>1, <3>0, <1>q, <1>u, <1>a, <1>i, <1>f
    <3>5. Mirrored(q)'
      BY <1>o, <2>1, <3>0, <1>q, <1>u, <1>a, <1>i, <1>f
    <3>6. QED BY <3>1, <3>2, <3>3, <3>4, <3>5 DEF Standings
  <2>2. CASE mirror[q] # "none"
    <3>0. mirror'[q] = "none" /\ (\A p, x : UiOn(p, x)' <=> p = q /\ x = "delete") /\ ~At(q, "resend")
      BY <2>2, <1>x
    <3>1. Standing(q)'
      BY <1>o, <2>2, <3>0, <1>q, <1>u, <1>a, <1>i, <1>f
    <3>2. Known(q)'
      BY <1>o, <2>2, <3>0, <1>q, <1>u, <1>a, <1>i, <1>f
    <3>3. Severed(q)'
      BY <1>o, <2>2, <3>0, <1>q, <1>u, <1>a, <1>i, <1>f
    <3>4. Called(q)'
      BY <1>o, <2>2, <3>0, <1>q, <1>u, <1>a, <1>i, <1>f
    <3>5. Mirrored(q)'
      BY <1>o, <2>2, <3>0, <1>q, <1>u, <1>a, <1>i, <1>f
    <3>6. QED BY <3>1, <3>2, <3>3, <3>4, <3>5 DEF Standings
  <2>3. QED BY <1>q, <2>1, <2>2
<1>cached. cached' = cached
  BY DEF RemoveRow, list
<1>told. ASSUME Calm, Told PROVE Told'
  <2>0. SUFFICES ASSUME account' # None PROVE \A p \in People : Lapsed(p)'
    BY DEF Told
  <2>a. \A p \in People : Lapsed(p)
    BY <2>0, <1>told, <1>a, <1>i, <1>f, <1>q DEF Told
  <2>b. ASSUME NEW p \in People, p # q PROVE Lapsed(p)'
    <3>1. Lasts(p)
      BY <2>b, <1>cached, <1>u, <1>x, <1>n, <1>a, <1>i, <1>f DEF Lasts, CallPcs, Pcs
    <3>2. QED BY <2>a, <3>1, LapsedSame
  <2>d. Lapsed(q)
    BY <2>a, <1>q
  <2>m. Lapsed(q)'
    <3>1. CASE mirror[q] = "none"
      <4>0. mirror' = mirror /\ \A p, x : ~UiOn(p, x)'
        BY <3>1, <1>n
      <4>1. QED BY <2>d, <1>o, <3>1, <4>0, <1>cached, <1>q, <1>u, <1>a, <1>i, <1>f DEF Lapsed, Pcs
    <3>2. CASE mirror[q] # "none"
      <4>0. mirror'[q] = "none" /\ (\A p, x : UiOn(p, x)' <=> p = q /\ x = "delete") /\ ~At(q, "resend")
        BY <3>2, <1>x
      <4>1. QED BY <2>d, <1>o, <3>2, <4>0, <1>cached, <1>q, <1>u, <1>a, <1>i, <1>f DEF Lapsed, Pcs
    <3>3. QED BY <1>q, <3>1, <3>2
  <2>e. QED BY <2>b, <2>m
<1>e. QED BY <1>l, <1>s, <1>m, <1>told DEF Orderly

LEMMA SendDeleteKeeps ==
  ASSUME Types, OnlyHasty, Orderly, SendDelete
  PROVE  Orderly' /\ (Calm /\ Told => Told')
<1> PICK q : q = ui.who
  OBVIOUS
<1>q. ui \in Calls /\ ui # None /\ account = Home /\ account # None /\ Home \in Accounts /\ q \in People
  BY CallFields, AtHome DEF SendDelete, UiAt, Types, TypeOK, Shape, Orderly
<1>u. \A p, x : UiOn(p, x) <=> p = q /\ x = "delete"
  BY UiNow DEF SendDelete
<1>g. \A p, x : UiOn(p, x)' <=> p = q /\ x = "list"
  BY <1>q, UiGoesView DEF SendDelete, Pcs
<1>a. (\A p, x : At(p, x)' <=> At(p, x)) /\ OneSevers'
  BY AtSame DEF SendDelete, Orderly
<1>h. inbox' = inbox
  BY DEF SendDelete, Deleted
<1>i. (\A p, k : Sent(p, k)' <=> Sent(p, k)) /\ Once' /\ SeveredLast'
  BY <1>h, SentSame DEF Orderly
<1>v. /\ row'[Home][q] = "none" /\ \A p \in People \ {q} : row'[Home][p] = row[Home][p]
      /\ asked'[Home] = asked[Home] \ {q} /\ agrees'[Home] = agrees[Home] \ {q}
  BY <1>q, DeletedView DEF SendDelete
<1>f. UNCHANGED <<account, mirror, accepted, loop>>
  BY DEF SendDelete, list, marks
<1>o. Standing(q) /\ Known(q) /\ Severed(q) /\ Called(q) /\ Mirrored(q)
  BY <1>q DEF Orderly, Standings
<1>l. Once' /\ SeveredLast' /\ OneSevers' /\ account' \in {Home, None}
  BY <1>o, <1>a, <1>i, <1>f, <1>q DEF Orderly
<1>s. ASSUME NEW p \in People, p # q PROVE Standings(p)'
  <2>1. Same(p)
    BY <1>s, <1>u, <1>g, <1>a, <1>i, <1>v, <1>f DEF Same, CallPcs, WorkPcs
  <2>2. QED BY <2>1, SamePerson DEF Orderly
<1> USE DEF Standing, Known, Severed, Called, Mirrored, Severing, SeveranceSent, AcceptanceSent, Refused, Marking, Kinds, SeverPcs
<1>m. Standings(q)'
  <2>1. Standing(q)'
    BY <1>o, <1>q, <1>u, <1>g, <1>a, <1>i, <1>v, <1>f
  <2>2. Known(q)'
    BY <1>o, <1>q, <1>u, <1>g, <1>a, <1>i, <1>v, <1>f
  <2>3. Severed(q)'
    BY <1>o, <1>q, <1>u, <1>g, <1>a, <1>i, <1>v, <1>f
  <2>4. Called(q)'
    BY <1>o, <1>q, <1>u, <1>g, <1>a, <1>i, <1>v, <1>f
  <2>5. Mirrored(q)'
    BY <1>o, <1>q, <1>u, <1>g, <1>a, <1>i, <1>v, <1>f
  <2>6. QED BY <2>1, <2>2, <2>3, <2>4, <2>5 DEF Standings
<1>cached. cached' = cached
  BY DEF SendDelete, list
<1>told. ASSUME Calm, Told PROVE Told'
  <2>0. SUFFICES ASSUME account' # None PROVE \A p \in People : Lapsed(p)'
    BY DEF Told
  <2>a. \A p \in People : Lapsed(p)
    BY <2>0, <1>told, <1>a, <1>i, <1>f, <1>q DEF Told
  <2>b. ASSUME NEW p \in People, p # q PROVE Lapsed(p)'
    <3>1. Lasts(p)
      BY <2>b, <1>cached, <1>u, <1>g, <1>a, <1>i, <1>v, <1>f DEF Lasts, CallPcs, Pcs
    <3>2. QED BY <2>a, <3>1, LapsedSame
  <2>d. Lapsed(q)
    BY <2>a, <1>q
  <2>m. Lapsed(q)'
    BY <2>d, <1>o, <1>cached, <1>q, <1>u, <1>g, <1>a, <1>i, <1>v, <1>f DEF Lapsed, Pcs
  <2>e. QED BY <2>b, <2>m
<1>e. QED BY <1>l, <1>s, <1>m, <1>told DEF Orderly

LEMMA AddRowKeeps ==
  ASSUME Types, OnlyHasty, Orderly, AddRow
  PROVE  Orderly' /\ (Calm /\ Told => Told')
<1> PICK q : q = ui.who
  OBVIOUS
<1> PICK pc : pc = ui.pc
  OBVIOUS
<1>q. ui \in Calls /\ ui # None /\ account = Home /\ account # None /\ Home \in Accounts /\ q \in People
  BY CallFields, AtHome DEF AddRow, UiAt, Types, TypeOK, Shape, Orderly
<1>u. (\A p, x : UiOn(p, x) <=> p = q /\ x = pc) /\ pc \in {"new", "add"}
  BY DEF AddRow, UiAt, UiOn
<1>a. (\A p, x : At(p, x)' <=> At(p, x)) /\ OneSevers'
  BY AtSame DEF AddRow, Orderly
<1>h. inbox' = inbox
  BY DEF AddRow, Deleted
<1>i. (\A p, k : Sent(p, k)' <=> Sent(p, k)) /\ Once' /\ SeveredLast'
  BY <1>h, SentSame DEF Orderly
<1>f. UNCHANGED <<account, accepted, loop, row, agrees, asked>>
  BY DEF AddRow, marks, server
<1>x. mirror[q] = "none" =>
        /\ mirror'[q] = "plain" /\ \A p \in People \ {q} : mirror'[p] = mirror[p]
        /\ \A p, x : UiOn(p, x)' <=> p = q /\ x = "insert"
        /\ ~At(q, "delete")
  <2> HAVE mirror[q] = "none"
  <2>1. mirror' = [mirror EXCEPT ![q] = "plain"] /\ UiGoes("insert")
    BY DEF AddRow
  <2>2. \A p, x : UiOn(p, x)' <=> p = q /\ x = "insert"
    BY <1>q, <2>1, UiGoesView DEF Pcs
  <2>3. ~At(q, "delete")
    BY NobodyOvertaken DEF AddRow
  <2>4. QED BY <1>q, <2>1, <2>2, <2>3, MirrorView
<1>n. mirror[q] # "none" => mirror' = mirror /\ \A p, x : ~UiOn(p, x)'
  BY UiEnds DEF AddRow
<1>o. Standing(q) /\ Known(q) /\ Severed(q) /\ Called(q) /\ Mirrored(q)
  BY <1>q DEF Orderly, Standings
<1>l. Once' /\ SeveredLast' /\ OneSevers' /\ account' \in {Home, None}
  BY <1>o, <1>a, <1>i, <1>f, <1>q DEF Orderly
<1>s. ASSUME NEW p \in People, p # q PROVE Standings(p)'
  <2>1. Same(p)
    BY <1>s, <1>u, <1>x, <1>n, <1>a, <1>i, <1>f DEF Same, CallPcs, WorkPcs
  <2>2. QED BY <2>1, SamePerson DEF Orderly
<1> USE DEF Standing, Known, Severed, Called, Mirrored, Severing, SeveranceSent, AcceptanceSent, Refused, Marking, Kinds, SeverPcs
<1>m. Standings(q)'
  <2>1. CASE mirror[q] = "none"
    <3>0. mirror'[q] = "plain" /\ (\A p, x : UiOn(p, x)' <=> p = q /\ x = "insert") /\ ~At(q, "delete")
      BY <2>1, <1>x
    <3>1. Standing(q)'
      BY <1>o, <2>1, <3>0, <1>q, <1>u, <1>a, <1>i, <1>f
    <3>2. Known(q)'
      BY <1>o, <2>1, <3>0, <1>q, <1>u, <1>a, <1>i, <1>f
    <3>3. Severed(q)'
      BY <1>o, <2>1, <3>0, <1>q, <1>u, <1>a, <1>i, <1>f
    <3>4. Called(q)'
      BY <1>o, <2>1, <3>0, <1>q, <1>u, <1>a, <1>i, <1>f
    <3>5. Mirrored(q)'
      BY <1>o, <2>1, <3>0, <1>q, <1>u, <1>a, <1>i, <1>f
    <3>6. QED BY <3>1, <3>2, <3>3, <3>4, <3>5 DEF Standings
  <2>2. CASE mirror[q] # "none"
    <3>0. mirror' = mirror /\ \A p, x : ~UiOn(p, x)'
      BY <2>2, <1>n
    <3>1. Standing(q)'
      BY <1>o, <2>2, <3>0, <1>q, <1>u, <1>a, <1>i, <1>f
    <3>2. Known(q)'
      BY <1>o, <2>2, <3>0, <1>q, <1>u, <1>a, <1>i, <1>f
    <3>3. Severed(q)'
      BY <1>o, <2>2, <3>0, <1>q, <1>u, <1>a, <1>i, <1>f
    <3>4. Called(q)'
      BY <1>o, <2>2, <3>0, <1>q, <1>u, <1>a, <1>i, <1>f
    <3>5. Mirrored(q)'
      BY <1>o, <2>2, <3>0, <1>q, <1>u, <1>a, <1>i, <1>f
    <3>6. QED BY <3>1, <3>2, <3>3, <3>4, <3>5 DEF Standings
  <2>3. QED BY <1>q, <2>1, <2>2
<1>cached. cached' = cached
  BY DEF AddRow, list
<1>told. ASSUME Calm, Told PROVE Told'
  <2>0. SUFFICES ASSUME account' # None PROVE \A p \in People : Lapsed(p)'
    BY DEF Told
  <2>a. \A p \in People : Lapsed(p)
    BY <2>0, <1>told, <1>a, <1>i, <1>f, <1>q DEF Told
  <2>b. ASSUME NEW p \in People, p # q PROVE Lapsed(p)'
    <3>1. Lasts(p)
      BY <2>b, <1>cached, <1>u, <1>x, <1>n, <1>a, <1>i, <1>f DEF Lasts, CallPcs, Pcs
    <3>2. QED BY <2>a, <3>1, LapsedSame
  <2>d. Lapsed(q)
    BY <2>a, <1>q
  <2>m. Lapsed(q)'
    <3>1. CASE mirror[q] = "none"
      <4>0. mirror'[q] = "plain" /\ (\A p, x : UiOn(p, x)' <=> p = q /\ x = "insert") /\ ~At(q, "delete")
        BY <3>1, <1>x
      <4>1. QED BY <2>d, <1>o, <3>1, <4>0, <1>cached, <1>q, <1>u, <1>a, <1>i, <1>f DEF Lapsed, Pcs
    <3>2. CASE mirror[q] # "none"
      <4>0. mirror' = mirror /\ \A p, x : ~UiOn(p, x)'
        BY <3>2, <1>n
      <4>1. QED BY <2>d, <1>o, <3>2, <4>0, <1>cached, <1>q, <1>u, <1>a, <1>i, <1>f DEF Lapsed, Pcs
    <3>3. QED BY <1>q, <3>1, <3>2
  <2>e. QED BY <2>b, <2>m
<1>e. QED BY <1>l, <1>s, <1>m, <1>told DEF Orderly

LEMMA HandleFeedbagStatusKeeps ==
  ASSUME Types, OnlyHasty, Orderly, HandleFeedbagStatus
  PROVE  Orderly' /\ (Calm /\ Told => Told')
<1> PICK q : q = Who
  OBVIOUS
<1> PICK h : h = Head(inbox).kind
  OBVIOUS
<1>r. /\ account = Home /\ account # None /\ Home \in Accounts /\ loop = None /\ inbox # <<>> /\ Rest
      /\ h = "refused" \/ h = "stored"
      /\ inbox \in Seq(Mail) /\ Once /\ SeveredLast
  BY AtHome, ConnectionAssumption DEF HandleFeedbagStatus, Reads, Types, Shape, Mail, Orderly
<1>i. /\ q \in People /\ h \in Kinds /\ Sent(q, h)
      /\ \A p, k : Sent(p, k)' <=> Sent(p, k) /\ ~(p = q /\ k = h)
      /\ h \in Severances => \A k \in Kinds \ {"asks"} : ~Sent(q, k)'
      /\ Once' /\ SeveredLast'
  BY <1>r, SentTail
<1>q. q \in People /\ q # None /\ \A p \in People : p # None
  BY <1>i, ConnectionAssumption
<1>u. \A p, x : UiOn(p, x)' <=> UiOn(p, x)
  BY UiSame DEF HandleFeedbagStatus
<1>t. q \in tracked
  BY NoUpset DEF HandleFeedbagStatus, UpsetKinds
<1>a. /\ h = "refused" => \A p, x : At(p, x)' <=> At(p, x) \/ (p = q /\ x = "check")
      /\ h # "refused" => \A p, x : At(p, x)' <=> At(p, x)
      /\ OneSevers'
  <2>1. CASE h = "refused"
    <3>1. Starts("check", q)
      BY <1>t, <2>1, <1>r DEF HandleFeedbagStatus, Reads
    <3>2. "check" \notin SeverPcs
      BY DEF SeverPcs
    <3>3. QED BY <2>1, <3>1, <3>2, AtStarts DEF Orderly
  <2>2. CASE h # "refused"
    <3>1. bg' = bg
      BY <2>2 DEF HandleFeedbagStatus, Reads
    <3>2. QED BY <2>2, <3>1, AtSame DEF Orderly
  <2>3. QED BY <2>1, <2>2
<1>f. UNCHANGED <<account, mirror, accepted, loop, row, agrees, asked>>
  BY DEF HandleFeedbagStatus, list, marks, server
<1>o. Standing(q) /\ Known(q) /\ Severed(q) /\ Called(q) /\ Mirrored(q)
  BY <1>q DEF Orderly, Standings
<1>l. Once' /\ SeveredLast' /\ OneSevers' /\ account' \in {Home, None}
  BY <1>o, <1>a, <1>i, <1>f, <1>r DEF Orderly
<1>s. ASSUME NEW p \in People, p # q PROVE Standings(p)'
  <2>1. Same(p)
    BY <1>s, <1>r, <1>u, <1>a, <1>i, <1>f DEF Same, CallPcs, WorkPcs
  <2>2. QED BY <2>1, SamePerson DEF Orderly
<1> USE DEF Standing, Known, Severed, Called, Mirrored, Severing, SeveranceSent, AcceptanceSent, Refused, Marking, Kinds, SeverPcs
<1>m. Standings(q)'
  <2>1. CASE h = "refused"
    <3>1. Standing(q)'
      BY <1>o, <2>1, <1>r, <1>q, <1>u, <1>a, <1>i, <1>f
    <3>2. Known(q)'
      BY <1>o, <2>1, <1>r, <1>q, <1>u, <1>a, <1>i, <1>f
    <3>3. Severed(q)'
      BY <1>o, <2>1, <1>r, <1>q, <1>u, <1>a, <1>i, <1>f
    <3>4. Called(q)'
      BY <1>o, <2>1, <1>r, <1>q, <1>u, <1>a, <1>i, <1>f
    <3>5. Mirrored(q)'
      BY <1>o, <2>1, <1>r, <1>q, <1>u, <1>a, <1>i, <1>f
    <3>6. QED BY <3>1, <3>2, <3>3, <3>4, <3>5 DEF Standings
  <2>2. CASE h = "stored"
    <3>1. Standing(q)'
      BY <1>o, <2>2, <1>r, <1>q, <1>u, <1>a, <1>i, <1>f
    <3>2. Known(q)'
      BY <1>o, <2>2, <1>r, <1>q, <1>u, <1>a, <1>i, <1>f
    <3>3. Severed(q)'
      BY <1>o, <2>2, <1>r, <1>q, <1>u, <1>a, <1>i, <1>f
    <3>4. Called(q)'
      BY <1>o, <2>2, <1>r, <1>q, <1>u, <1>a, <1>i, <1>f
    <3>5. Mirrored(q)'
      BY <1>o, <2>2, <1>r, <1>q, <1>u, <1>a, <1>i, <1>f
    <3>6. QED BY <3>1, <3>2, <3>3, <3>4, <3>5 DEF Standings
  <2>3. QED BY <1>r, <2>1, <2>2
<1>cached. cached' = cached
  BY DEF HandleFeedbagStatus, list
<1>told. ASSUME Calm, Told PROVE Told'
  <2>0. SUFFICES ASSUME account' # None PROVE \A p \in People : Lapsed(p)'
    BY DEF Told
  <2>a. \A p \in People : Lapsed(p)
    BY <2>0, <1>told, <1>a, <1>i, <1>f, <1>r DEF Told
  <2>b. ASSUME NEW p \in People, p # q PROVE Lapsed(p)'
    <3>1. Lasts(p)
      BY <2>b, <1>cached, <1>r, <1>u, <1>a, <1>i, <1>f DEF Lasts, CallPcs, Pcs
    <3>2. QED BY <2>a, <3>1, LapsedSame
  <2>d. Lapsed(q)
    BY <2>a, <1>q
  <2>m. Lapsed(q)'
    <3>1. CASE h = "refused"
      <4>1. QED BY <2>d, <1>o, <3>1, <1>cached, <1>r, <1>q, <1>u, <1>a, <1>i, <1>f DEF Lapsed, Pcs
    <3>2. CASE h = "stored"
      <4>1. QED BY <2>d, <1>o, <3>2, <1>cached, <1>r, <1>q, <1>u, <1>a, <1>i, <1>f DEF Lapsed, Pcs
    <3>3. QED BY <1>r, <3>1, <3>2
  <2>e. QED BY <2>b, <2>m
<1>e. QED BY <1>l, <1>s, <1>m, <1>told DEF Orderly

LEMMA AcceptedKeeps ==
  ASSUME Types, OnlyHasty, Orderly, Accepted
  PROVE  Orderly' /\ (Calm /\ Told => Told')
<1> PICK q : q = Who
  OBVIOUS
<1> PICK h : h = Head(inbox).kind
  OBVIOUS
<1>r. /\ account = Home /\ account # None /\ Home \in Accounts /\ loop = None /\ inbox # <<>> /\ Rest
      /\ h = "accepted" \/ h = "preauthorized"
      /\ inbox \in Seq(Mail) /\ Once /\ SeveredLast
  BY AtHome, ConnectionAssumption DEF Accepted, Reads, Types, Shape, Mail, Orderly
<1>i. /\ q \in People /\ h \in Kinds /\ Sent(q, h)
      /\ \A p, k : Sent(p, k)' <=> Sent(p, k) /\ ~(p = q /\ k = h)
      /\ h \in Severances => \A k \in Kinds \ {"asks"} : ~Sent(q, k)'
      /\ Once' /\ SeveredLast'
  BY <1>r, SentTail
<1>q. q \in People /\ q # None /\ \A p \in People : p # None
  BY <1>i, ConnectionAssumption
<1>u. \A p, x : UiOn(p, x)' <=> UiOn(p, x)
  BY UiSame DEF Accepted
<1>a. (\A p, x : At(p, x)' <=> At(p, x)) /\ OneSevers'
  BY AtSame DEF Accepted, Orderly
<1>f. UNCHANGED <<account, mirror, row, agrees, asked>> /\ loop' = q /\ accepted' = accepted \cup {q}
  BY DEF Accepted, list, MarkAccepted, server
<1>o. Standing(q) /\ Known(q) /\ Severed(q) /\ Called(q) /\ Mirrored(q)
  BY <1>q DEF Orderly, Standings
<1>l. Once' /\ SeveredLast' /\ OneSevers' /\ account' \in {Home, None}
  BY <1>o, <1>a, <1>i, <1>f, <1>r DEF Orderly
<1>s. ASSUME NEW p \in People, p # q PROVE Standings(p)'
  <2>1. Same(p)
    BY <1>s, <1>q, <1>r, <1>u, <1>a, <1>i, <1>f DEF Same, CallPcs, WorkPcs
  <2>2. QED BY <2>1, SamePerson DEF Orderly
<1> USE DEF Standing, Known, Severed, Called, Mirrored, Severing, SeveranceSent, AcceptanceSent, Refused, Marking, Kinds, SeverPcs
<1>m. Standings(q)'
  <2>1. Standing(q)'
    BY <1>o, <1>r, <1>q, <1>u, <1>a, <1>i, <1>f
  <2>2. Known(q)'
    BY <1>o, <1>r, <1>q, <1>u, <1>a, <1>i, <1>f
  <2>3. Severed(q)'
    BY <1>o, <1>r, <1>q, <1>u, <1>a, <1>i, <1>f
  <2>4. Called(q)'
    BY <1>o, <1>r, <1>q, <1>u, <1>a, <1>i, <1>f
  <2>5. Mirrored(q)'
    BY <1>o, <1>r, <1>q, <1>u, <1>a, <1>i, <1>f
  <2>6. QED BY <2>1, <2>2, <2>3, <2>4, <2>5 DEF Standings
<1>cached. cached' = cached
  BY DEF Accepted, list
<1>told. ASSUME Calm, Told PROVE Told'
  <2>0. SUFFICES ASSUME account' # None PROVE \A p \in People : Lapsed(p)'
    BY DEF Told
  <2>a. \A p \in People : Lapsed(p)
    BY <2>0, <1>told, <1>a, <1>i, <1>f, <1>r DEF Told
  <2>b. ASSUME NEW p \in People, p # q PROVE Lapsed(p)'
    <3>1. Lasts(p)
      BY <2>b, <1>cached, <1>q, <1>r, <1>u, <1>a, <1>i, <1>f DEF Lasts, CallPcs, Pcs
    <3>2. QED BY <2>a, <3>1, LapsedSame
  <2>d. Lapsed(q)
    BY <2>a, <1>q
  <2>m. Lapsed(q)'
    BY <2>d, <1>o, <1>cached, <1>r, <1>q, <1>u, <1>a, <1>i, <1>f DEF Lapsed, Pcs
  <2>e. QED BY <2>b, <2>m
<1>e. QED BY <1>l, <1>s, <1>m, <1>told DEF Orderly

LEMMA HandleAcceptedKeeps ==
  ASSUME Types, OnlyHasty, Orderly, HandleAccepted
  PROVE  Orderly' /\ (Calm /\ Told => Told')
<1> PICK q : q = loop
  OBVIOUS
<1>q. /\ q \in People /\ q # None /\ (\A p \in People : p # None)
      /\ account = Home /\ account # None /\ Home \in Accounts
  BY AtHome, ConnectionAssumption DEF HandleAccepted, Types, TypeOK, Shape, Orderly
<1>c. /\ mirror'[q] = IF mirror[q] = "pending" THEN "plain" ELSE mirror[q]
      /\ \A p \in People \ {q} : mirror'[p] = mirror[p]
  BY <1>q, ClearView DEF HandleAccepted
<1>u. \A p, x : UiOn(p, x)' <=> UiOn(p, x)
  BY UiSame DEF HandleAccepted
<1>a. (\A p, x : At(p, x)' <=> At(p, x)) /\ OneSevers'
  BY AtSame DEF HandleAccepted, Orderly
<1>i. (\A p, k : Sent(p, k)' <=> Sent(p, k)) /\ Once' /\ SeveredLast'
  BY SentSame DEF HandleAccepted, Orderly
<1>f. UNCHANGED <<account, accepted, row, agrees, asked>> /\ loop = q /\ loop' = None
  BY DEF HandleAccepted, marks, server
<1>o. Standing(q) /\ Known(q) /\ Severed(q) /\ Called(q) /\ Mirrored(q)
  BY <1>q DEF Orderly, Standings
<1>l. Once' /\ SeveredLast' /\ OneSevers' /\ account' \in {Home, None}
  BY <1>o, <1>a, <1>i, <1>f, <1>q DEF Orderly
<1>s. ASSUME NEW p \in People, p # q PROVE Standings(p)'
  <2>1. Same(p)
    BY <1>s, <1>q, <1>c, <1>u, <1>a, <1>i, <1>f DEF Same, CallPcs, WorkPcs
  <2>2. QED BY <2>1, SamePerson DEF Orderly
<1> USE DEF Standing, Known, Severed, Called, Mirrored, Severing, SeveranceSent, AcceptanceSent, Refused, Marking, Kinds, SeverPcs
<1>m. Standings(q)'
  <2>1. Standing(q)'
    BY <1>o, <1>q, <1>c, <1>u, <1>a, <1>i, <1>f
  <2>2. Known(q)'
    BY <1>o, <1>q, <1>c, <1>u, <1>a, <1>i, <1>f
  <2>3. Severed(q)'
    BY <1>o, <1>q, <1>c, <1>u, <1>a, <1>i, <1>f
  <2>4. Called(q)'
    BY <1>o, <1>q, <1>c, <1>u, <1>a, <1>i, <1>f
  <2>5. Mirrored(q)'
    BY <1>o, <1>q, <1>c, <1>u, <1>a, <1>i, <1>f
  <2>6. QED BY <2>1, <2>2, <2>3, <2>4, <2>5 DEF Standings
<1>cached. cached' = mirror'
  BY <1>q, ClearTypes DEF HandleAccepted
<1>told. ASSUME Calm, Told PROVE Told'
  <2>0. SUFFICES ASSUME account' # None PROVE \A p \in People : Lapsed(p)'
    BY DEF Told
  <2>a. \A p \in People : Lapsed(p)
    BY <2>0, <1>told, <1>a, <1>i, <1>f, <1>q DEF Told
  <2>b. ASSUME NEW p \in People, p # q PROVE Lapsed(p)'
    <3>1. Lasts(p)
      BY <2>b, <1>cached, <1>q, <1>c, <1>u, <1>a, <1>i, <1>f DEF Lasts, CallPcs, Pcs
    <3>2. QED BY <2>a, <3>1, LapsedSame
  <2>d. Lapsed(q)
    BY <2>a, <1>q
  <2>m. Lapsed(q)'
    BY <2>d, <1>o, <1>cached, <1>q, <1>c, <1>u, <1>a, <1>i, <1>f DEF Lapsed, Pcs
  <2>e. QED BY <2>b, <2>m
<1>e. QED BY <1>l, <1>s, <1>m, <1>told DEF Orderly

LEMMA HandleConnectionResponseKeeps ==
  ASSUME Types, OnlyHasty, Orderly, HandleConnectionResponse
  PROVE  Orderly' /\ (Calm /\ Told => Told')
<1> PICK q : q = Who
  OBVIOUS
<1> PICK h : h = Head(inbox).kind
  OBVIOUS
<1>r. /\ account = Home /\ account # None /\ Home \in Accounts /\ loop = None /\ inbox # <<>> /\ Rest
      /\ h = "declined" \/ h = "removed"
      /\ inbox \in Seq(Mail) /\ Once /\ SeveredLast
  BY AtHome, ConnectionAssumption DEF HandleConnectionResponse, Reads, Types, Shape, Mail, Orderly
<1>i. /\ q \in People /\ h \in Kinds /\ Sent(q, h)
      /\ \A p, k : Sent(p, k)' <=> Sent(p, k) /\ ~(p = q /\ k = h)
      /\ h \in Severances => \A k \in Kinds \ {"asks"} : ~Sent(q, k)'
      /\ Once' /\ SeveredLast'
  BY <1>r, SentTail
<1>q. q \in People /\ q # None /\ \A p \in People : p # None
  BY <1>i, ConnectionAssumption
<1>u. \A p, x : UiOn(p, x)' <=> UiOn(p, x)
  BY UiSame DEF HandleConnectionResponse
<1>n. \A x \in SeverPcs : ~At(q, x)
  <2>1. Severed(q)
    BY <1>q DEF Orderly, Standings
  <2>2. QED BY <2>1, <1>i, <1>r DEF Severed, SeverPcs, Kinds
<1>v. h \in Severances
  BY <1>r DEF Severances
<1>a. (\A p, x : At(p, x)' <=> At(p, x) \/ (p = q /\ x = "forget")) /\ OneSevers'
  <2>1. Starts("forget", q)
    BY DEF HandleConnectionResponse
  <2>2. QED BY <1>n, <2>1, AtStarts DEF Orderly
<1>f. UNCHANGED <<account, mirror, accepted, loop, row, agrees, asked>>
  BY DEF HandleConnectionResponse, list, marks, server
<1>o. Standing(q) /\ Known(q) /\ Severed(q) /\ Called(q) /\ Mirrored(q)
  BY <1>q DEF Orderly, Standings
<1>l. Once' /\ SeveredLast' /\ OneSevers' /\ account' \in {Home, None}
  BY <1>o, <1>a, <1>i, <1>f, <1>r DEF Orderly
<1>s. ASSUME NEW p \in People, p # q PROVE Standings(p)'
  <2>1. Same(p)
    BY <1>s, <1>r, <1>u, <1>a, <1>i, <1>f DEF Same, CallPcs, WorkPcs
  <2>2. QED BY <2>1, SamePerson DEF Orderly
<1> USE DEF Standing, Known, Severed, Called, Mirrored, Severing, SeveranceSent, AcceptanceSent, Refused, Marking, Kinds, SeverPcs
<1>m. Standings(q)'
  <2>1. Standing(q)'
    BY <1>o, <1>r, <1>q, <1>v, <1>n, <1>u, <1>a, <1>i, <1>f
  <2>2. Known(q)'
    BY <1>o, <1>r, <1>q, <1>v, <1>n, <1>u, <1>a, <1>i, <1>f
  <2>3. Severed(q)'
    BY <1>o, <1>r, <1>q, <1>v, <1>n, <1>u, <1>a, <1>i, <1>f
  <2>4. Called(q)'
    BY <1>o, <1>r, <1>q, <1>v, <1>n, <1>u, <1>a, <1>i, <1>f
  <2>5. Mirrored(q)'
    BY <1>o, <1>r, <1>q, <1>v, <1>n, <1>u, <1>a, <1>i, <1>f
  <2>6. QED BY <2>1, <2>2, <2>3, <2>4, <2>5 DEF Standings
<1>cached. cached' = cached
  BY DEF HandleConnectionResponse, list
<1>told. ASSUME Calm, Told PROVE Told'
  <2>0. SUFFICES ASSUME account' # None PROVE \A p \in People : Lapsed(p)'
    BY DEF Told
  <2>a. \A p \in People : Lapsed(p)
    BY <2>0, <1>told, <1>a, <1>i, <1>f, <1>r DEF Told
  <2>b. ASSUME NEW p \in People, p # q PROVE Lapsed(p)'
    <3>1. Lasts(p)
      BY <2>b, <1>cached, <1>r, <1>u, <1>a, <1>i, <1>f DEF Lasts, CallPcs, Pcs
    <3>2. QED BY <2>a, <3>1, LapsedSame
  <2>d. Lapsed(q)
    BY <2>a, <1>q
  <2>m. Lapsed(q)'
    BY <2>d, <1>o, <1>cached, <1>r, <1>q, <1>v, <1>n, <1>u, <1>a, <1>i, <1>f DEF Lapsed, Pcs
  <2>e. QED BY <2>b, <2>m
<1>e. QED BY <1>l, <1>s, <1>m, <1>told DEF Orderly

LEMMA HandleConnectionRequestKeeps ==
  ASSUME Types, OnlyHasty, Orderly, HandleConnectionRequest
  PROVE  Orderly' /\ (Calm /\ Told => Told')
<1> PICK q : q = Who
  OBVIOUS
<1> PICK h : h = Head(inbox).kind
  OBVIOUS
<1>r. /\ account = Home /\ account # None /\ Home \in Accounts /\ loop = None /\ inbox # <<>> /\ Rest
      /\ h = "asks"
      /\ inbox \in Seq(Mail) /\ Once /\ SeveredLast
  BY AtHome, ConnectionAssumption DEF HandleConnectionRequest, Reads, Types, Shape, Mail, Orderly
<1>i. /\ q \in People /\ h \in Kinds /\ Sent(q, h)
      /\ \A p, k : Sent(p, k)' <=> Sent(p, k) /\ ~(p = q /\ k = h)
      /\ h \in Severances => \A k \in Kinds \ {"asks"} : ~Sent(q, k)'
      /\ Once' /\ SeveredLast'
  BY <1>r, SentTail
<1>q. q \in People /\ q # None /\ \A p \in People : p # None
  BY <1>i, ConnectionAssumption
<1>u. \A p, x : UiOn(p, x)' <=> UiOn(p, x)
  BY UiSame DEF HandleConnectionRequest
<1>a. (\A p, x : At(p, x)' <=> At(p, x)) /\ OneSevers'
  BY AtSame DEF HandleConnectionRequest, Orderly
<1>f. UNCHANGED <<account, mirror, accepted, loop, row, agrees, asked>>
  BY DEF HandleConnectionRequest, list, marks, server
<1>l. Once' /\ SeveredLast' /\ OneSevers' /\ account' \in {Home, None}
  BY <1>a, <1>i, <1>f, <1>r DEF Orderly
<1>s. ASSUME NEW p \in People PROVE Standings(p)'
  <2>1. Same(p)
    BY <1>s, <1>r, <1>u, <1>a, <1>i, <1>f DEF Same, CallPcs, WorkPcs
  <2>2. QED BY <2>1, SamePerson DEF Orderly
<1>cached. cached' = cached
  BY DEF HandleConnectionRequest, list
<1>told. ASSUME Calm, Told PROVE Told'
  <2>0. SUFFICES ASSUME account' # None PROVE \A p \in People : Lapsed(p)'
    BY DEF Told
  <2>a. \A p \in People : Lapsed(p)
    BY <2>0, <1>told, <1>a, <1>i, <1>f, <1>r DEF Told
  <2>b. ASSUME NEW p \in People PROVE Lapsed(p)'
    <3>1. Lasts(p)
      BY <2>b, <1>cached, <1>r, <1>u, <1>a, <1>i, <1>f DEF Lasts, CallPcs, Pcs
    <3>2. QED BY <2>a, <3>1, LapsedSame
  <2>e. QED BY <2>b
<1>e. QED BY <1>l, <1>s, <1>told DEF Orderly

LEMMA GoesView ==
  ASSUME NEW g \in bg, g \in Calls, NEW pc, Goes(g, pc), NEW q, q = g.who, NEW old, old = g.pc
  PROVE  /\ \A p, x : At(p, x)' => At(p, x) \/ (p = q /\ x = pc)
         /\ \A p, x : At(p, x) /\ ~(p = q /\ x = old) => At(p, x)'
         /\ At(q, pc)' /\ At(q, old)
         /\ OneSevers /\ old \in SeverPcs => /\ \A x \in SeverPcs : At(q, x) => x = old
                                             /\ \A x \in SeverPcs : At(q, x)' => x = pc
         /\ OneSevers /\ (pc \notin SeverPcs \/ old \in SeverPcs) => OneSevers'
<1>1. PICK h : h = [g EXCEPT !.pc = pc]
  OBVIOUS
<1>2. h.pc = pc /\ h.who = g.who /\ bg' = (bg \ {g}) \cup {h}
  BY <1>1 DEF Goes, Calls
<1>3. QED BY <1>2, AtGoes

LEMMA CheckAcceptedKeeps ==
  ASSUME Types, OnlyHasty, Orderly, NEW g \in bg, CheckAccepted(g)
  PROVE  Orderly' /\ (Calm /\ Told => Told')
<1> PICK q : q = g.who
  OBVIOUS
<1>q. /\ g \in Calls /\ g.pc = "check" /\ q \in People /\ q # None /\ (\A p \in People : p # None)
      /\ account = Home /\ account # None /\ Home \in Accounts
  BY CallFields, AtHome, ConnectionAssumption DEF CheckAccepted, Types, TypeOK, Shape, Orderly
<1>u. \A p, x : UiOn(p, x)' <=> UiOn(p, x)
  BY UiSame DEF CheckAccepted
<1>i. (\A p, k : Sent(p, k)' <=> Sent(p, k)) /\ Once' /\ SeveredLast'
  BY SentSame DEF CheckAccepted, Orderly
<1>b. q \in accepted =>
        /\ \A p, x : At(p, x)' => At(p, x)
        /\ \A p, x : At(p, x) /\ ~(p = q /\ x = "check") => At(p, x)'
        /\ At(q, "check")
        /\ OneSevers'
  <2>1. ASSUME q \in accepted PROVE Ends(g)
    BY <2>1, <1>q DEF CheckAccepted
  <2>2. "check" \in {"forget", "remove", "delete"} => "check" \in SeverPcs
    BY DEF SeverPcs
  <2>3. QED BY <2>1, <2>2, <1>q, AtEnds DEF Orderly
<1>a. q \notin accepted =>
        /\ \A p, x : At(p, x)' => At(p, x) \/ (p = q /\ x = "mark")
        /\ \A p, x : At(p, x) /\ ~(p = q /\ x = "check") => At(p, x)'
        /\ At(q, "mark")' /\ At(q, "check")
        /\ OneSevers'
  <2>1. ASSUME q \notin accepted PROVE Goes(g, "mark")
    BY <2>1, <1>q DEF CheckAccepted
  <2>2. "mark" \notin SeverPcs
    BY DEF SeverPcs
  <2>3. QED BY <2>1, <2>2, <1>q, GoesView DEF Orderly
<1>c. q \in accepted =>
        /\ mirror'[q] = IF mirror[q] = "pending" THEN "plain" ELSE mirror[q]
        /\ \A p \in People \ {q} : mirror'[p] = mirror[p]
  BY <1>q, ClearView DEF CheckAccepted
<1>d. q \notin accepted => mirror' = mirror
  BY DEF CheckAccepted, list
<1>f. UNCHANGED <<account, accepted, loop, row, agrees, asked>>
  BY DEF CheckAccepted, list, marks, server
<1>o. Standing(q) /\ Known(q) /\ Severed(q) /\ Called(q) /\ Mirrored(q)
  BY <1>q DEF Orderly, Standings
<1>l. Once' /\ SeveredLast' /\ OneSevers' /\ account' \in {Home, None}
  BY <1>o, <1>a, <1>b, <1>i, <1>f, <1>q DEF Orderly
<1>s. ASSUME NEW p \in People, p # q PROVE Standings(p)'
  <2>1. Same(p)
    BY <1>s, <1>q, <1>c, <1>d, <1>u, <1>a, <1>b, <1>i, <1>f DEF Same, CallPcs, WorkPcs
  <2>2. QED BY <2>1, SamePerson DEF Orderly
<1> USE DEF Standing, Known, Severed, Called, Mirrored, Severing, SeveranceSent, AcceptanceSent, Refused, Marking, Kinds, SeverPcs
<1>m. Standings(q)'
  <2>1. CASE q \in accepted
    <3>1. Standing(q)'
      BY <1>o, <2>1, <1>q, <1>c, <1>d, <1>u, <1>a, <1>b, <1>i, <1>f
    <3>2. Known(q)'
      BY <1>o, <2>1, <1>q, <1>c, <1>d, <1>u, <1>a, <1>b, <1>i, <1>f
    <3>3. Severed(q)'
      BY <1>o, <2>1, <1>q, <1>c, <1>d, <1>u, <1>a, <1>b, <1>i, <1>f
    <3>4. Called(q)'
      BY <1>o, <2>1, <1>q, <1>c, <1>d, <1>u, <1>a, <1>b, <1>i, <1>f
    <3>5. Mirrored(q)'
      BY <1>o, <2>1, <1>q, <1>c, <1>d, <1>u, <1>a, <1>b, <1>i, <1>f
    <3>6. QED BY <3>1, <3>2, <3>3, <3>4, <3>5 DEF Standings
  <2>2. CASE q \notin accepted
    <3>1. Standing(q)'
      BY <1>o, <2>2, <1>q, <1>c, <1>d, <1>u, <1>a, <1>b, <1>i, <1>f
    <3>2. Known(q)'
      BY <1>o, <2>2, <1>q, <1>c, <1>d, <1>u, <1>a, <1>b, <1>i, <1>f
    <3>3. Severed(q)'
      BY <1>o, <2>2, <1>q, <1>c, <1>d, <1>u, <1>a, <1>b, <1>i, <1>f
    <3>4. Called(q)'
      BY <1>o, <2>2, <1>q, <1>c, <1>d, <1>u, <1>a, <1>b, <1>i, <1>f
    <3>5. Mirrored(q)'
      BY <1>o, <2>2, <1>q, <1>c, <1>d, <1>u, <1>a, <1>b, <1>i, <1>f
    <3>6. QED BY <3>1, <3>2, <3>3, <3>4, <3>5 DEF Standings
  <2>3. QED BY <1>q, <2>1, <2>2
<1>cached. (q \in accepted => cached' = mirror') /\ (q \notin accepted => cached' = cached)
  BY <1>q, ClearTypes DEF CheckAccepted, list
<1>told. ASSUME Calm, Told PROVE Told'
  <2>0. SUFFICES ASSUME account' # None PROVE \A p \in People : Lapsed(p)'
    BY DEF Told
  <2>a. \A p \in People : Lapsed(p)
    BY <2>0, <1>told, <1>a, <1>b, <1>i, <1>f, <1>q DEF Told
  <2>b. ASSUME NEW p \in People, p # q PROVE Lapsed(p)'
    <3>1. Lasts(p)
      BY <2>b, <1>cached, <1>q, <1>c, <1>d, <1>u, <1>a, <1>b, <1>i, <1>f DEF Lasts, CallPcs, Pcs
    <3>2. QED BY <2>a, <3>1, LapsedSame
  <2>d. Lapsed(q)
    BY <2>a, <1>q
  <2>m. Lapsed(q)'
    <3>1. CASE q \in accepted
      <4>1. QED BY <2>d, <1>o, <3>1, <1>cached, <1>q, <1>c, <1>d, <1>u, <1>a, <1>b, <1>i, <1>f DEF Lapsed, Pcs
    <3>2. CASE q \notin accepted
      <4>1. QED BY <2>d, <1>o, <3>2, <1>cached, <1>q, <1>c, <1>d, <1>u, <1>a, <1>b, <1>i, <1>f DEF Lapsed, Pcs
    <3>3. QED BY <1>q, <3>1, <3>2
  <2>e. QED BY <2>b, <2>m
<1>e. QED BY <1>l, <1>s, <1>m, <1>told DEF Orderly

LEMMA MarkBuddyPendingKeeps ==
  ASSUME Types, OnlyHasty, Orderly, NEW g \in bg, MarkBuddyPending(g)
  PROVE  Orderly' /\ (Calm /\ Told => Told')
<1> PICK q : q = g.who
  OBVIOUS
<1>q. /\ g \in Calls /\ g.pc = "mark" /\ q \in People /\ q # None /\ (\A p \in People : p # None)
      /\ account = Home /\ account # None /\ Home \in Accounts
  BY CallFields, AtHome, ConnectionAssumption DEF MarkBuddyPending, Types, TypeOK, Shape, Orderly
<1>u. \A p, x : UiOn(p, x)' <=> UiOn(p, x)
  BY UiSame DEF MarkBuddyPending
<1>i. (\A p, k : Sent(p, k)' <=> Sent(p, k)) /\ Once' /\ SeveredLast'
  BY SentSame DEF MarkBuddyPending, Orderly
<1>t. mirror[q] \in {"none", "pending", "plain"}
  BY <1>q, MirrorView
<1>b. mirror[q] = "none" =>
        /\ \A p, x : At(p, x)' => At(p, x)
        /\ \A p, x : At(p, x) /\ ~(p = q /\ x = "mark") => At(p, x)'
        /\ At(q, "mark")
        /\ OneSevers'
  <2>1. ASSUME mirror[q] = "none" PROVE Ends(g)
    BY <2>1, <1>q DEF MarkBuddyPending
  <2>2. "mark" \in {"forget", "remove", "delete"} => "mark" \in SeverPcs
    BY DEF SeverPcs
  <2>3. QED BY <2>1, <2>2, <1>q, AtEnds DEF Orderly
<1>a. mirror[q] = "pending" =>
        /\ \A p, x : At(p, x)' => At(p, x) \/ (p = q /\ x = "list")
        /\ \A p, x : At(p, x) /\ ~(p = q /\ x = "mark") => At(p, x)'
        /\ At(q, "list")' /\ At(q, "mark")
        /\ OneSevers'
  <2>1. ASSUME mirror[q] = "pending" PROVE Goes(g, "list")
    BY <2>1, <1>q DEF MarkBuddyPending
  <2>2. "list" \notin SeverPcs
    BY DEF SeverPcs
  <2>3. QED BY <2>1, <2>2, <1>q, GoesView DEF Orderly
<1>d. mirror[q] = "plain" =>
        /\ \A p, x : At(p, x)' => At(p, x) \/ (p = q /\ x = "resend")
        /\ \A p, x : At(p, x) /\ ~(p = q /\ x = "mark") => At(p, x)'
        /\ At(q, "resend")' /\ At(q, "mark")
        /\ OneSevers'
  <2>1. ASSUME mirror[q] = "plain" PROVE Goes(g, "resend")
    BY <2>1, <1>q DEF MarkBuddyPending
  <2>2. "resend" \notin SeverPcs
    BY DEF SeverPcs
  <2>3. QED BY <2>1, <2>2, <1>q, GoesView DEF Orderly
<1>c. mirror[q] # "plain" => mirror' = mirror
  BY <1>t DEF MarkBuddyPending
<1>g. mirror[q] = "plain" =>
        /\ mirror'[q] = "pending" /\ \A p \in People \ {q} : mirror'[p] = mirror[p]
        /\ \A x \in {"delete", "resend", "decide"} : ~At(q, x)
  <2> HAVE mirror[q] = "plain"
  <2>1. mirror' = [mirror EXCEPT ![q] = "pending"]
    BY <1>t DEF MarkBuddyPending
  <2>2. \A x \in {"delete", "resend", "decide"} : ~At(q, x)
    BY NobodyOvertaken DEF MarkBuddyPending
  <2>3. QED BY <1>q, <2>1, <2>2, MirrorView
<1>f. UNCHANGED <<account, accepted, loop, row, agrees, asked>>
  BY DEF MarkBuddyPending, marks, server
<1>o. Standing(q) /\ Known(q) /\ Severed(q) /\ Called(q) /\ Mirrored(q)
  BY <1>q DEF Orderly, Standings
<1>l. Once' /\ SeveredLast' /\ OneSevers' /\ account' \in {Home, None}
  BY <1>o, <1>t, <1>a, <1>b, <1>d, <1>i, <1>f, <1>q DEF Orderly
<1>s. ASSUME NEW p \in People, p # q PROVE Standings(p)'
  <2>1. Same(p)
    BY <1>s, <1>q, <1>t, <1>c, <1>d, <1>g, <1>u, <1>a, <1>b, <1>i, <1>f DEF Same, CallPcs, WorkPcs
  <2>2. QED BY <2>1, SamePerson DEF Orderly
<1> USE DEF Standing, Known, Severed, Called, Mirrored, Severing, SeveranceSent, AcceptanceSent, Refused, Marking, Kinds, SeverPcs
<1>m. Standings(q)'
  <2>1. CASE mirror[q] = "none"
    <3>1. Standing(q)'
      BY <1>o, <2>1, <1>q, <1>c, <1>d, <1>g, <1>u, <1>a, <1>b, <1>i, <1>f
    <3>2. Known(q)'
      BY <1>o, <2>1, <1>q, <1>c, <1>d, <1>g, <1>u, <1>a, <1>b, <1>i, <1>f
    <3>3. Severed(q)'
      BY <1>o, <2>1, <1>q, <1>c, <1>d, <1>g, <1>u, <1>a, <1>b, <1>i, <1>f
    <3>4. Called(q)'
      BY <1>o, <2>1, <1>q, <1>c, <1>d, <1>g, <1>u, <1>a, <1>b, <1>i, <1>f
    <3>5. Mirrored(q)'
      BY <1>o, <2>1, <1>q, <1>c, <1>d, <1>g, <1>u, <1>a, <1>b, <1>i, <1>f
    <3>6. QED BY <3>1, <3>2, <3>3, <3>4, <3>5 DEF Standings
  <2>2. CASE mirror[q] = "pending"
    <3>1. Standing(q)'
      BY <1>o, <2>2, <1>q, <1>c, <1>d, <1>g, <1>u, <1>a, <1>b, <1>i, <1>f
    <3>2. Known(q)'
      BY <1>o, <2>2, <1>q, <1>c, <1>d, <1>g, <1>u, <1>a, <1>b, <1>i, <1>f
    <3>3. Severed(q)'
      BY <1>o, <2>2, <1>q, <1>c, <1>d, <1>g, <1>u, <1>a, <1>b, <1>i, <1>f
    <3>4. Called(q)'
      BY <1>o, <2>2, <1>q, <1>c, <1>d, <1>g, <1>u, <1>a, <1>b, <1>i, <1>f
    <3>5. Mirrored(q)'
      BY <1>o, <2>2, <1>q, <1>c, <1>d, <1>g, <1>u, <1>a, <1>b, <1>i, <1>f
    <3>6. QED BY <3>1, <3>2, <3>3, <3>4, <3>5 DEF Standings
  <2>3. CASE mirror[q] = "plain"
    <3>1. Standing(q)'
      BY <1>o, <2>3, <1>q, <1>c, <1>d, <1>g, <1>u, <1>a, <1>b, <1>i, <1>f
    <3>2. Known(q)'
      BY <1>o, <2>3, <1>q, <1>c, <1>d, <1>g, <1>u, <1>a, <1>b, <1>i, <1>f
    <3>3. Severed(q)'
      BY <1>o, <2>3, <1>q, <1>c, <1>d, <1>g, <1>u, <1>a, <1>b, <1>i, <1>f
    <3>4. Called(q)'
      BY <1>o, <2>3, <1>q, <1>c, <1>d, <1>g, <1>u, <1>a, <1>b, <1>i, <1>f
    <3>5. Mirrored(q)'
      BY <1>o, <2>3, <1>q, <1>c, <1>d, <1>g, <1>u, <1>a, <1>b, <1>i, <1>f
    <3>6. QED BY <3>1, <3>2, <3>3, <3>4, <3>5 DEF Standings
  <2>4. QED BY <1>t, <2>1, <2>2, <2>3
<1>cached. cached' = cached
  BY DEF MarkBuddyPending, list
<1>told. ASSUME Calm, Told PROVE Told'
  <2>0. SUFFICES ASSUME account' # None PROVE \A p \in People : Lapsed(p)'
    BY DEF Told
  <2>a. \A p \in People : Lapsed(p)
    BY <2>0, <1>told, <1>t, <1>a, <1>b, <1>d, <1>i, <1>f, <1>q DEF Told
  <2>b. ASSUME NEW p \in People, p # q PROVE Lapsed(p)'
    <3>1. Lasts(p)
      BY <2>b, <1>cached, <1>q, <1>t, <1>c, <1>d, <1>g, <1>u, <1>a, <1>b, <1>i, <1>f DEF Lasts, CallPcs, Pcs
    <3>2. QED BY <2>a, <3>1, LapsedSame
  <2>d. Lapsed(q)
    BY <2>a, <1>q
  <2>m. Lapsed(q)'
    <3>1. CASE mirror[q] = "none"
      <4>1. QED BY <2>d, <1>o, <3>1, <1>cached, <1>q, <1>c, <1>d, <1>g, <1>u, <1>a, <1>b, <1>i, <1>f DEF Lapsed, Pcs
    <3>2. CASE mirror[q] = "pending"
      <4>1. QED BY <2>d, <1>o, <3>2, <1>cached, <1>q, <1>c, <1>d, <1>g, <1>u, <1>a, <1>b, <1>i, <1>f DEF Lapsed, Pcs
    <3>3. CASE mirror[q] = "plain"
      <4>1. QED BY <2>d, <1>o, <3>3, <1>cached, <1>q, <1>c, <1>d, <1>g, <1>u, <1>a, <1>b, <1>i, <1>f DEF Lapsed, Pcs
    <3>4. QED BY <1>t, <3>1, <3>2, <3>3
  <2>e. QED BY <2>b, <2>m
<1>e. QED BY <1>l, <1>s, <1>m, <1>told DEF Orderly

LEMMA ReAddBuddyPendingKeeps ==
  ASSUME Types, OnlyHasty, Orderly, NEW g \in bg, ReAddBuddyPending(g)
  PROVE  Orderly' /\ (Calm /\ Told => Told')
<1> PICK q : q = g.who
  OBVIOUS
<1>q. /\ g \in Calls /\ g.pc = "resend" /\ q \in People /\ q # None /\ (\A p \in People : p # None)
      /\ account = Home /\ account # None /\ Home \in Accounts
  BY CallFields, AtHome, ConnectionAssumption DEF ReAddBuddyPending, Types, TypeOK, Shape, Orderly
<1>u. \A p, x : UiOn(p, x)' <=> UiOn(p, x)
  BY UiSame DEF ReAddBuddyPending
<1>i. (\A p, k : Sent(p, k)' <=> Sent(p, k)) /\ Once' /\ SeveredLast'
  BY SentSame DEF ReAddBuddyPending, Inserted, Orderly
<1>a. /\ \A p, x : At(p, x)' => At(p, x) \/ (p = q /\ x = "list")
      /\ \A p, x : At(p, x) /\ ~(p = q /\ x = "resend") => At(p, x)'
      /\ At(q, "list")' /\ At(q, "resend")
      /\ OneSevers'
  <2>1. Goes(g, "list")
    BY <1>q DEF ReAddBuddyPending
  <2>2. "list" \notin SeverPcs
    BY DEF SeverPcs
  <2>3. QED BY <2>1, <2>2, <1>q, GoesView DEF Orderly
<1>v. /\ row'[Home][q] = IF q \in agrees[Home] THEN "plain" ELSE "pending"
      /\ \A p \in People \ {q} : row'[Home][p] = row[Home][p]
      /\ asked'[Home] = asked[Home] /\ agrees' = agrees
  BY <1>q, InsertedView DEF ReAddBuddyPending
<1>f. UNCHANGED <<account, accepted, loop, mirror>>
  BY DEF ReAddBuddyPending, list, marks
<1>o. Standing(q) /\ Known(q) /\ Severed(q) /\ Called(q) /\ Mirrored(q)
  BY <1>q DEF Orderly, Standings
<1>l. Once' /\ SeveredLast' /\ OneSevers' /\ account' \in {Home, None}
  BY <1>o, <1>a, <1>i, <1>f, <1>q DEF Orderly
<1>s. ASSUME NEW p \in People, p # q PROVE Standings(p)'
  <2>1. Same(p)
    BY <1>s, <1>q, <1>v, <1>u, <1>a, <1>i, <1>f DEF Same, CallPcs, WorkPcs
  <2>2. QED BY <2>1, SamePerson DEF Orderly
<1> USE DEF Standing, Known, Severed, Called, Mirrored, Severing, SeveranceSent, AcceptanceSent, Refused, Marking, Kinds, SeverPcs
<1>m. Standings(q)'
  <2>1. Standing(q)'
    BY <1>o, <1>q, <1>v, <1>u, <1>a, <1>i, <1>f
  <2>2. Known(q)'
    BY <1>o, <1>q, <1>v, <1>u, <1>a, <1>i, <1>f
  <2>3. Severed(q)'
    BY <1>o, <1>q, <1>v, <1>u, <1>a, <1>i, <1>f
  <2>4. Called(q)'
    BY <1>o, <1>q, <1>v, <1>u, <1>a, <1>i, <1>f
  <2>5. Mirrored(q)'
    BY <1>o, <1>q, <1>v, <1>u, <1>a, <1>i, <1>f
  <2>6. QED BY <2>1, <2>2, <2>3, <2>4, <2>5 DEF Standings
<1>cached. cached' = cached
  BY DEF ReAddBuddyPending, list
<1>told. ASSUME Calm, Told PROVE Told'
  <2>0. SUFFICES ASSUME account' # None PROVE \A p \in People : Lapsed(p)'
    BY DEF Told
  <2>a. \A p \in People : Lapsed(p)
    BY <2>0, <1>told, <1>a, <1>i, <1>f, <1>q DEF Told
  <2>b. ASSUME NEW p \in People, p # q PROVE Lapsed(p)'
    <3>1. Lasts(p)
      BY <2>b, <1>cached, <1>q, <1>v, <1>u, <1>a, <1>i, <1>f DEF Lasts, CallPcs, Pcs
    <3>2. QED BY <2>a, <3>1, LapsedSame
  <2>d. Lapsed(q)
    BY <2>a, <1>q
  <2>m. Lapsed(q)'
    BY <2>d, <1>o, <1>cached, <1>q, <1>v, <1>u, <1>a, <1>i, <1>f DEF Lapsed, Pcs
  <2>e. QED BY <2>b, <2>m
<1>e. QED BY <1>l, <1>s, <1>m, <1>told DEF Orderly

LEMMA ListPendingKeeps ==
  ASSUME Types, OnlyHasty, Orderly, NEW g \in bg, ListPending(g)
  PROVE  Orderly' /\ (Calm /\ Told => Told')
<1> PICK q : q = g.who
  OBVIOUS
<1>q. /\ g \in Calls /\ g.pc = "list" /\ q \in People /\ q # None /\ (\A p \in People : p # None)
      /\ account = Home /\ account # None /\ Home \in Accounts
  BY CallFields, AtHome, ConnectionAssumption DEF ListPending, Types, TypeOK, Shape, Orderly
<1>u. \A p, x : UiOn(p, x)' <=> UiOn(p, x)
  BY UiSame DEF ListPending
<1>i. (\A p, k : Sent(p, k)' <=> Sent(p, k)) /\ Once' /\ SeveredLast'
  BY SentSame DEF ListPending, Orderly
<1>a. /\ \A p, x : At(p, x)' => At(p, x) \/ (p = q /\ x = "decide")
      /\ \A p, x : At(p, x) /\ ~(p = q /\ x = "list") => At(p, x)'
      /\ At(q, "decide")' /\ At(q, "list")
      /\ OneSevers'
  <2>1. PICK h : h = [g EXCEPT !.pc = "decide", !.list = mirror]
    OBVIOUS
  <2>2. h.pc = "decide" /\ h.who = q /\ bg' = (bg \ {g}) \cup {h}
    BY <2>1, <1>q DEF ListPending, Calls
  <2>3. "decide" \notin SeverPcs
    BY DEF SeverPcs
  <2>4. QED BY <2>2, <2>3, <1>q, AtGoes DEF Orderly
<1>f. UNCHANGED <<account, accepted, loop, mirror, row, agrees, asked>>
  BY DEF ListPending, marks, server
<1>o. Standing(q) /\ Known(q) /\ Severed(q) /\ Called(q) /\ Mirrored(q)
  BY <1>q DEF Orderly, Standings
<1>l. Once' /\ SeveredLast' /\ OneSevers' /\ account' \in {Home, None}
  BY <1>o, <1>a, <1>i, <1>f, <1>q DEF Orderly
<1>s. ASSUME NEW p \in People, p # q PROVE Standings(p)'
  <2>1. Same(p)
    BY <1>s, <1>q, <1>u, <1>a, <1>i, <1>f DEF Same, CallPcs, WorkPcs
  <2>2. QED BY <2>1, SamePerson DEF Orderly
<1> USE DEF Standing, Known, Severed, Called, Mirrored, Severing, SeveranceSent, AcceptanceSent, Refused, Marking, Kinds, SeverPcs
<1>m. Standings(q)'
  <2>1. Standing(q)'
    BY <1>o, <1>q, <1>u, <1>a, <1>i, <1>f
  <2>2. Known(q)'
    BY <1>o, <1>q, <1>u, <1>a, <1>i, <1>f
  <2>3. Severed(q)'
    BY <1>o, <1>q, <1>u, <1>a, <1>i, <1>f
  <2>4. Called(q)'
    BY <1>o, <1>q, <1>u, <1>a, <1>i, <1>f
  <2>5. Mirrored(q)'
    BY <1>o, <1>q, <1>u, <1>a, <1>i, <1>f
  <2>6. QED BY <2>1, <2>2, <2>3, <2>4, <2>5 DEF Standings
<1>cached. cached' = mirror
  BY DEF ListPending
<1>told. ASSUME Calm, Told PROVE Told'
  <2>0. SUFFICES ASSUME account' # None PROVE \A p \in People : Lapsed(p)'
    BY DEF Told
  <2>a. \A p \in People : Lapsed(p)
    BY <2>0, <1>told, <1>a, <1>i, <1>f, <1>q DEF Told
  <2>b. ASSUME NEW p \in People, p # q PROVE Lapsed(p)'
    <3>1. Lasts(p)
      BY <2>b, <1>cached, <1>q, <1>u, <1>a, <1>i, <1>f DEF Lasts, CallPcs, Pcs
    <3>2. QED BY <2>a, <3>1, LapsedSame
  <2>d. Lapsed(q)
    BY <2>a, <1>q
  <2>m. Lapsed(q)'
    BY <2>d, <1>o, <1>cached, <1>q, <1>u, <1>a, <1>i, <1>f DEF Lapsed, Pcs
  <2>e. QED BY <2>b, <2>m
<1>e. QED BY <1>l, <1>s, <1>m, <1>told DEF Orderly

LEMMA DecideKeeps ==
  ASSUME Types, OnlyHasty, Orderly, NEW g \in bg, Decide(g)
  PROVE  Orderly' /\ (Calm /\ Told => Told')
<1> PICK q : q = g.who
  OBVIOUS
<1>q. /\ g \in Calls /\ g.pc = "decide" /\ q \in People /\ q # None /\ (\A p \in People : p # None)
      /\ account = Home /\ account # None /\ Home \in Accounts
  BY CallFields, AtHome, ConnectionAssumption DEF Decide, Types, TypeOK, Shape, Orderly
<1>u. \A p, x : UiOn(p, x)' <=> UiOn(p, x)
  BY UiSame DEF Decide
<1>i. (\A p, k : Sent(p, k)' <=> Sent(p, k)) /\ Once' /\ SeveredLast'
  BY SentSame DEF Decide, Orderly
<1>b. /\ \A p, x : At(p, x)' => At(p, x)
      /\ \A p, x : At(p, x) /\ ~(p = q /\ x = "decide") => At(p, x)'
      /\ At(q, "decide")
      /\ OneSevers'
  <2>1. Ends(g)
    BY <1>q DEF Decide
  <2>2. "decide" \in {"forget", "remove", "delete"} => "decide" \in SeverPcs
    BY DEF SeverPcs
  <2>3. QED BY <2>1, <2>2, <1>q, AtEnds DEF Orderly
<1>c. q \in accepted =>
        /\ mirror'[q] = IF mirror[q] = "pending" THEN "plain" ELSE mirror[q]
        /\ \A p \in People \ {q} : mirror'[p] = mirror[p]
  BY <1>q, ClearView DEF Decide
<1>d. q \notin accepted => mirror' = mirror
  BY DEF Decide
<1>f. UNCHANGED <<account, accepted, loop, row, agrees, asked>>
  BY DEF Decide, marks, server
<1>o. Standing(q) /\ Known(q) /\ Severed(q) /\ Called(q) /\ Mirrored(q)
  BY <1>q DEF Orderly, Standings
<1>l. Once' /\ SeveredLast' /\ OneSevers' /\ account' \in {Home, None}
  BY <1>o, <1>b, <1>i, <1>f, <1>q DEF Orderly
<1>s. ASSUME NEW p \in People, p # q PROVE Standings(p)'
  <2>1. Same(p)
    BY <1>s, <1>q, <1>c, <1>d, <1>u, <1>b, <1>i, <1>f DEF Same, CallPcs, WorkPcs
  <2>2. QED BY <2>1, SamePerson DEF Orderly
<1> USE DEF Standing, Known, Severed, Called, Mirrored, Severing, SeveranceSent, AcceptanceSent, Refused, Marking, Kinds, SeverPcs
<1>m. Standings(q)'
  <2>1. CASE q \in accepted
    <3>1. Standing(q)'
      BY <1>o, <2>1, <1>q, <1>c, <1>d, <1>u, <1>b, <1>i, <1>f
    <3>2. Known(q)'
      BY <1>o, <2>1, <1>q, <1>c, <1>d, <1>u, <1>b, <1>i, <1>f
    <3>3. Severed(q)'
      BY <1>o, <2>1, <1>q, <1>c, <1>d, <1>u, <1>b, <1>i, <1>f
    <3>4. Called(q)'
      BY <1>o, <2>1, <1>q, <1>c, <1>d, <1>u, <1>b, <1>i, <1>f
    <3>5. Mirrored(q)'
      BY <1>o, <2>1, <1>q, <1>c, <1>d, <1>u, <1>b, <1>i, <1>f
    <3>6. QED BY <3>1, <3>2, <3>3, <3>4, <3>5 DEF Standings
  <2>2. CASE q \notin accepted
    <3>1. Standing(q)'
      BY <1>o, <2>2, <1>q, <1>c, <1>d, <1>u, <1>b, <1>i, <1>f
    <3>2. Known(q)'
      BY <1>o, <2>2, <1>q, <1>c, <1>d, <1>u, <1>b, <1>i, <1>f
    <3>3. Severed(q)'
      BY <1>o, <2>2, <1>q, <1>c, <1>d, <1>u, <1>b, <1>i, <1>f
    <3>4. Called(q)'
      BY <1>o, <2>2, <1>q, <1>c, <1>d, <1>u, <1>b, <1>i, <1>f
    <3>5. Mirrored(q)'
      BY <1>o, <2>2, <1>q, <1>c, <1>d, <1>u, <1>b, <1>i, <1>f
    <3>6. QED BY <3>1, <3>2, <3>3, <3>4, <3>5 DEF Standings
  <2>3. QED BY <1>q, <2>1, <2>2
<1>cached. (q \in accepted => cached' = mirror') /\ (q \notin accepted => cached' = cached)
  BY <1>q, ClearTypes DEF Decide, list
<1>told. ASSUME Calm, Told PROVE Told'
  <2>0. SUFFICES ASSUME account' # None PROVE \A p \in People : Lapsed(p)'
    BY DEF Told
  <2>a. \A p \in People : Lapsed(p)
    BY <2>0, <1>told, <1>b, <1>i, <1>f, <1>q DEF Told
  <2>b. ASSUME NEW p \in People, p # q PROVE Lapsed(p)'
    <3>1. Lasts(p)
      BY <2>b, <1>cached, <1>q, <1>c, <1>d, <1>u, <1>b, <1>i, <1>f DEF Lasts, CallPcs, Pcs
    <3>2. QED BY <2>a, <3>1, LapsedSame
  <2>d. Lapsed(q)
    BY <2>a, <1>q
  <2>m. Lapsed(q)'
    <3>1. CASE q \in accepted
      <4>1. QED BY <2>d, <1>o, <3>1, <1>cached, <1>q, <1>c, <1>d, <1>u, <1>b, <1>i, <1>f DEF Lapsed, Pcs
    <3>2. CASE q \notin accepted
      <4>1. QED BY <2>d, <1>o, <3>2, <1>cached, <1>q, <1>c, <1>d, <1>u, <1>b, <1>i, <1>f DEF Lapsed, Pcs
    <3>3. QED BY <1>q, <3>1, <3>2
  <2>e. QED BY <2>b, <2>m
<1>e. QED BY <1>l, <1>s, <1>m, <1>told DEF Orderly

LEMMA ForgetKeeps ==
  ASSUME Types, OnlyHasty, Orderly, NEW g \in bg, Forget(g)
  PROVE  Orderly' /\ (Calm /\ Told => Told')
<1> PICK q : q = g.who
  OBVIOUS
<1>q. /\ g \in Calls /\ g.pc = "forget" /\ q \in People /\ q # None /\ (\A p \in People : p # None)
      /\ account = Home /\ account # None /\ Home \in Accounts
  BY CallFields, AtHome, ConnectionAssumption DEF Forget, Types, TypeOK, Shape, Orderly
<1>u. \A p, x : UiOn(p, x)' <=> UiOn(p, x)
  BY UiSame DEF Forget
<1>i. (\A p, k : Sent(p, k)' <=> Sent(p, k)) /\ Once' /\ SeveredLast'
  BY SentSame DEF Forget, Orderly
<1>a. /\ \A p, x : At(p, x)' => At(p, x) \/ (p = q /\ x = "remove")
      /\ \A p, x : At(p, x) /\ ~(p = q /\ x = "forget") => At(p, x)'
      /\ At(q, "remove")' /\ At(q, "forget")
      /\ \A x \in SeverPcs : At(q, x) => x = "forget"
      /\ \A x \in SeverPcs : At(q, x)' => x = "remove"
      /\ OneSevers'
  <2>1. Goes(g, "remove")
    BY <1>q DEF Forget
  <2>2. "forget" \in SeverPcs
    BY DEF SeverPcs
  <2>3. QED BY <2>1, <2>2, <1>q, GoesView DEF Orderly
<1>f. UNCHANGED <<account, loop, mirror, row, agrees, asked>> /\ accepted' = accepted \ {q}
  BY DEF Forget, list, server
<1>o. Standing(q) /\ Known(q) /\ Severed(q) /\ Called(q) /\ Mirrored(q)
  BY <1>q DEF Orderly, Standings
<1>l. Once' /\ SeveredLast' /\ OneSevers' /\ account' \in {Home, None}
  BY <1>o, <1>a, <1>i, <1>f, <1>q DEF Orderly
<1>s. ASSUME NEW p \in People, p # q PROVE Standings(p)'
  <2>1. Same(p)
    BY <1>s, <1>q, <1>u, <1>a, <1>i, <1>f DEF Same, CallPcs, WorkPcs
  <2>2. QED BY <2>1, SamePerson DEF Orderly
<1> USE DEF Standing, Known, Severed, Called, Mirrored, Severing, SeveranceSent, AcceptanceSent, Refused, Marking, Kinds, SeverPcs
<1>m. Standings(q)'
  <2>1. Standing(q)'
    BY <1>o, <1>q, <1>u, <1>a, <1>i, <1>f
  <2>2. Known(q)'
    BY <1>o, <1>q, <1>u, <1>a, <1>i, <1>f
  <2>3. Severed(q)'
    BY <1>o, <1>q, <1>u, <1>a, <1>i, <1>f
  <2>4. Called(q)'
    BY <1>o, <1>q, <1>u, <1>a, <1>i, <1>f
  <2>5. Mirrored(q)'
    BY <1>o, <1>q, <1>u, <1>a, <1>i, <1>f
  <2>6. QED BY <2>1, <2>2, <2>3, <2>4, <2>5 DEF Standings
<1>cached. cached' = cached
  BY DEF Forget, list
<1>told. ASSUME Calm, Told PROVE Told'
  <2>0. SUFFICES ASSUME account' # None PROVE \A p \in People : Lapsed(p)'
    BY DEF Told
  <2>a. \A p \in People : Lapsed(p)
    BY <2>0, <1>told, <1>a, <1>i, <1>f, <1>q DEF Told
  <2>b. ASSUME NEW p \in People, p # q PROVE Lapsed(p)'
    <3>1. Lasts(p)
      BY <2>b, <1>cached, <1>q, <1>u, <1>a, <1>i, <1>f DEF Lasts, CallPcs, Pcs
    <3>2. QED BY <2>a, <3>1, LapsedSame
  <2>d. Lapsed(q)
    BY <2>a, <1>q
  <2>m. Lapsed(q)'
    BY <2>d, <1>o, <1>cached, <1>q, <1>u, <1>a, <1>i, <1>f DEF Lapsed, Pcs
  <2>e. QED BY <2>b, <2>m
<1>e. QED BY <1>l, <1>s, <1>m, <1>told DEF Orderly

LEMMA SeverRowKeeps ==
  ASSUME Types, OnlyHasty, Orderly, NEW g \in bg, SeverRow(g)
  PROVE  Orderly' /\ (Calm /\ Told => Told')
<1> PICK q : q = g.who
  OBVIOUS
<1>q. /\ g \in Calls /\ g.pc = "remove" /\ q \in People /\ q # None /\ (\A p \in People : p # None)
      /\ account = Home /\ account # None /\ Home \in Accounts
  BY CallFields, AtHome, ConnectionAssumption DEF SeverRow, Types, TypeOK, Shape, Orderly
<1>u. \A p, x : UiOn(p, x)' <=> UiOn(p, x)
  BY UiSame DEF SeverRow
<1>i. (\A p, k : Sent(p, k)' <=> Sent(p, k)) /\ Once' /\ SeveredLast'
  BY SentSame DEF SeverRow, Orderly
<1>b. mirror[q] = "none" =>
        /\ \A p, x : At(p, x)' => At(p, x)
        /\ \A p, x : At(p, x) /\ ~(p = q /\ x = "remove") => At(p, x)'
        /\ At(q, "remove")
        /\ \A x \in SeverPcs : ~At(q, x)'
        /\ OneSevers'
  <2>1. ASSUME mirror[q] = "none" PROVE Ends(g)
    BY <2>1, <1>q DEF SeverRow
  <2>2. "remove" \in {"forget", "remove", "delete"} => "remove" \in SeverPcs
    BY DEF SeverPcs
  <2>3. QED BY <2>1, <2>2, <1>q, AtEnds DEF Orderly
<1>a. mirror[q] # "none" =>
        /\ \A p, x : At(p, x)' => At(p, x) \/ (p = q /\ x = "delete")
        /\ \A p, x : At(p, x) /\ ~(p = q /\ x = "remove") => At(p, x)'
        /\ At(q, "delete")' /\ At(q, "remove")
        /\ \A x \in SeverPcs : At(q, x) => x = "remove"
        /\ \A x \in SeverPcs : At(q, x)' => x = "delete"
        /\ OneSevers'
  <2>1. ASSUME mirror[q] # "none" PROVE Goes(g, "delete")
    BY <2>1, <1>q DEF SeverRow
  <2>2. "remove" \in SeverPcs
    BY DEF SeverPcs
  <2>3. QED BY <2>1, <2>2, <1>q, GoesView DEF Orderly
<1>c. mirror[q] = "none" => mirror' = mirror
  BY DEF SeverRow
<1>d. mirror[q] # "none" =>
        /\ mirror'[q] = "none" /\ \A p \in People \ {q} : mirror'[p] = mirror[p]
        /\ ~At(q, "resend")
  <2> HAVE mirror[q] # "none"
  <2>1. mirror' = [mirror EXCEPT ![q] = "none"]
    BY DEF SeverRow
  <2>2. ~At(q, "resend")
    BY NobodyOvertaken DEF SeverRow
  <2>3. QED BY <1>q, <2>1, <2>2, MirrorView
<1>f. UNCHANGED <<account, accepted, loop, row, agrees, asked>>
  BY DEF SeverRow, marks, server
<1>o. Standing(q) /\ Known(q) /\ Severed(q) /\ Called(q) /\ Mirrored(q)
  BY <1>q DEF Orderly, Standings
<1>l. Once' /\ SeveredLast' /\ OneSevers' /\ account' \in {Home, None}
  BY <1>o, <1>a, <1>b, <1>i, <1>f, <1>q DEF Orderly
<1>s. ASSUME NEW p \in People, p # q PROVE Standings(p)'
  <2>1. Same(p)
    BY <1>s, <1>q, <1>c, <1>d, <1>u, <1>a, <1>b, <1>i, <1>f DEF Same, CallPcs, WorkPcs
  <2>2. QED BY <2>1, SamePerson DEF Orderly
<1> USE DEF Standing, Known, Severed, Called, Mirrored, Severing, SeveranceSent, AcceptanceSent, Refused, Marking, Kinds, SeverPcs
<1>m. Standings(q)'
  <2>1. CASE mirror[q] = "none"
    <3>1. Standing(q)'
      BY <1>o, <2>1, <1>q, <1>c, <1>d, <1>u, <1>a, <1>b, <1>i, <1>f
    <3>2. Known(q)'
      BY <1>o, <2>1, <1>q, <1>c, <1>d, <1>u, <1>a, <1>b, <1>i, <1>f
    <3>3. Severed(q)'
      BY <1>o, <2>1, <1>q, <1>c, <1>d, <1>u, <1>a, <1>b, <1>i, <1>f
    <3>4. Called(q)'
      BY <1>o, <2>1, <1>q, <1>c, <1>d, <1>u, <1>a, <1>b, <1>i, <1>f
    <3>5. Mirrored(q)'
      BY <1>o, <2>1, <1>q, <1>c, <1>d, <1>u, <1>a, <1>b, <1>i, <1>f
    <3>6. QED BY <3>1, <3>2, <3>3, <3>4, <3>5 DEF Standings
  <2>2. CASE mirror[q] # "none"
    <3>1. Standing(q)'
      BY <1>o, <2>2, <1>q, <1>c, <1>d, <1>u, <1>a, <1>b, <1>i, <1>f
    <3>2. Known(q)'
      BY <1>o, <2>2, <1>q, <1>c, <1>d, <1>u, <1>a, <1>b, <1>i, <1>f
    <3>3. Severed(q)'
      BY <1>o, <2>2, <1>q, <1>c, <1>d, <1>u, <1>a, <1>b, <1>i, <1>f
    <3>4. Called(q)'
      BY <1>o, <2>2, <1>q, <1>c, <1>d, <1>u, <1>a, <1>b, <1>i, <1>f
    <3>5. Mirrored(q)'
      BY <1>o, <2>2, <1>q, <1>c, <1>d, <1>u, <1>a, <1>b, <1>i, <1>f
    <3>6. QED BY <3>1, <3>2, <3>3, <3>4, <3>5 DEF Standings
  <2>3. QED BY <1>q, <2>1, <2>2
<1>cached. cached' = cached
  BY DEF SeverRow, list
<1>told. ASSUME Calm, Told PROVE Told'
  <2>0. SUFFICES ASSUME account' # None PROVE \A p \in People : Lapsed(p)'
    BY DEF Told
  <2>a. \A p \in People : Lapsed(p)
    BY <2>0, <1>told, <1>a, <1>b, <1>i, <1>f, <1>q DEF Told
  <2>b. ASSUME NEW p \in People, p # q PROVE Lapsed(p)'
    <3>1. Lasts(p)
      BY <2>b, <1>cached, <1>q, <1>c, <1>d, <1>u, <1>a, <1>b, <1>i, <1>f DEF Lasts, CallPcs, Pcs
    <3>2. QED BY <2>a, <3>1, LapsedSame
  <2>d. Lapsed(q)
    BY <2>a, <1>q
  <2>m. Lapsed(q)'
    <3>1. CASE mirror[q] = "none"
      <4>1. QED BY <2>d, <1>o, <3>1, <1>cached, <1>q, <1>c, <1>d, <1>u, <1>a, <1>b, <1>i, <1>f DEF Lapsed, Pcs
    <3>2. CASE mirror[q] # "none"
      <4>1. QED BY <2>d, <1>o, <3>2, <1>cached, <1>q, <1>c, <1>d, <1>u, <1>a, <1>b, <1>i, <1>f DEF Lapsed, Pcs
    <3>3. QED BY <1>q, <3>1, <3>2
  <2>e. QED BY <2>b, <2>m
<1>e. QED BY <1>l, <1>s, <1>m, <1>told DEF Orderly

LEMMA SendSeveredKeeps ==
  ASSUME Types, OnlyHasty, Orderly, NEW g \in bg, SendSevered(g)
  PROVE  Orderly' /\ (Calm /\ Told => Told')
<1> PICK q : q = g.who
  OBVIOUS
<1>q. /\ g \in Calls /\ g.pc = "delete" /\ q \in People /\ q # None /\ (\A p \in People : p # None)
      /\ account = Home /\ account # None /\ Home \in Accounts
  BY CallFields, AtHome, ConnectionAssumption DEF SendSevered, Types, TypeOK, Shape, Orderly
<1>u. \A p, x : UiOn(p, x)' <=> UiOn(p, x)
  BY UiSame DEF SendSevered
<1>i. (\A p, k : Sent(p, k)' <=> Sent(p, k)) /\ Once' /\ SeveredLast'
  BY SentSame DEF SendSevered, Deleted, Orderly
<1>a. /\ \A p, x : At(p, x)' => At(p, x) \/ (p = q /\ x = "listSevered")
      /\ \A p, x : At(p, x) /\ ~(p = q /\ x = "delete") => At(p, x)'
      /\ At(q, "listSevered")' /\ At(q, "delete")
      /\ \A x \in SeverPcs : At(q, x) => x = "delete"
      /\ \A x \in SeverPcs : At(q, x)' => x = "listSevered"
      /\ OneSevers'
  <2>1. Goes(g, "listSevered")
    BY <1>q DEF SendSevered
  <2>2. "delete" \in SeverPcs
    BY DEF SeverPcs
  <2>3. QED BY <2>1, <2>2, <1>q, GoesView DEF Orderly
<1>v. /\ row'[Home][q] = "none" /\ \A p \in People \ {q} : row'[Home][p] = row[Home][p]
      /\ asked'[Home] = asked[Home] \ {q} /\ agrees'[Home] = agrees[Home] \ {q}
  BY <1>q, DeletedView DEF SendSevered
<1>f. UNCHANGED <<account, accepted, loop, mirror>>
  BY DEF SendSevered, list, marks
<1>o. Standing(q) /\ Known(q) /\ Severed(q) /\ Called(q) /\ Mirrored(q)
  BY <1>q DEF Orderly, Standings
<1>l. Once' /\ SeveredLast' /\ OneSevers' /\ account' \in {Home, None}
  BY <1>o, <1>a, <1>i, <1>f, <1>q DEF Orderly
<1>s. ASSUME NEW p \in People, p # q PROVE Standings(p)'
  <2>1. Same(p)
    BY <1>s, <1>q, <1>v, <1>u, <1>a, <1>i, <1>f DEF Same, CallPcs, WorkPcs
  <2>2. QED BY <2>1, SamePerson DEF Orderly
<1> USE DEF Standing, Known, Severed, Called, Mirrored, Severing, SeveranceSent, AcceptanceSent, Refused, Marking, Kinds, SeverPcs
<1>m. Standings(q)'
  <2>1. Standing(q)'
    BY <1>o, <1>q, <1>v, <1>u, <1>a, <1>i, <1>f
  <2>2. Known(q)'
    BY <1>o, <1>q, <1>v, <1>u, <1>a, <1>i, <1>f
  <2>3. Severed(q)'
    BY <1>o, <1>q, <1>v, <1>u, <1>a, <1>i, <1>f
  <2>4. Called(q)'
    BY <1>o, <1>q, <1>v, <1>u, <1>a, <1>i, <1>f
  <2>5. Mirrored(q)'
    BY <1>o, <1>q, <1>v, <1>u, <1>a, <1>i, <1>f
  <2>6. QED BY <2>1, <2>2, <2>3, <2>4, <2>5 DEF Standings
<1>cached. cached' = cached
  BY DEF SendSevered, list
<1>told. ASSUME Calm, Told PROVE Told'
  <2>0. SUFFICES ASSUME account' # None PROVE \A p \in People : Lapsed(p)'
    BY DEF Told
  <2>a. \A p \in People : Lapsed(p)
    BY <2>0, <1>told, <1>a, <1>i, <1>f, <1>q DEF Told
  <2>b. ASSUME NEW p \in People, p # q PROVE Lapsed(p)'
    <3>1. Lasts(p)
      BY <2>b, <1>cached, <1>q, <1>v, <1>u, <1>a, <1>i, <1>f DEF Lasts, CallPcs, Pcs
    <3>2. QED BY <2>a, <3>1, LapsedSame
  <2>d. Lapsed(q)
    BY <2>a, <1>q
  <2>m. Lapsed(q)'
    BY <2>d, <1>o, <1>cached, <1>q, <1>v, <1>u, <1>a, <1>i, <1>f DEF Lapsed, Pcs
  <2>e. QED BY <2>b, <2>m
<1>e. QED BY <1>l, <1>s, <1>m, <1>told DEF Orderly

LEMMA ListSeveredKeeps ==
  ASSUME Types, OnlyHasty, Orderly, NEW g \in bg, ListSevered(g)
  PROVE  Orderly' /\ (Calm /\ Told => Told')
<1> PICK q : q = g.who
  OBVIOUS
<1>q. /\ g \in Calls /\ g.pc = "listSevered" /\ q \in People /\ q # None /\ (\A p \in People : p # None)
      /\ account = Home /\ account # None /\ Home \in Accounts
  BY CallFields, AtHome, ConnectionAssumption DEF ListSevered, Types, TypeOK, Shape, Orderly
<1>u. \A p, x : UiOn(p, x)' <=> UiOn(p, x)
  BY UiSame DEF ListSevered
<1>i. (\A p, k : Sent(p, k)' <=> Sent(p, k)) /\ Once' /\ SeveredLast'
  BY SentSame DEF ListSevered, Orderly
<1>a. /\ \A p, x : At(p, x)' => At(p, x) \/ (p = q /\ x = "publish")
      /\ \A p, x : At(p, x) /\ ~(p = q /\ x = "listSevered") => At(p, x)'
      /\ At(q, "publish")' /\ At(q, "listSevered")
      /\ OneSevers'
  <2>1. PICK h : h = [g EXCEPT !.pc = "publish", !.list = mirror]
    OBVIOUS
  <2>2. h.pc = "publish" /\ h.who = q /\ bg' = (bg \ {g}) \cup {h}
    BY <2>1, <1>q DEF ListSevered, Calls
  <2>3. "publish" \notin SeverPcs
    BY DEF SeverPcs
  <2>4. QED BY <2>2, <2>3, <1>q, AtGoes DEF Orderly
<1>f. UNCHANGED <<account, accepted, loop, mirror, row, agrees, asked>>
  BY DEF ListSevered, marks, server
<1>l. Once' /\ SeveredLast' /\ OneSevers' /\ account' \in {Home, None}
  BY <1>a, <1>i, <1>f DEF Orderly
<1>s. ASSUME NEW p \in People PROVE Standings(p)'
  <2>1. Same(p)
    BY <1>s, <1>q, <1>u, <1>a, <1>i, <1>f DEF Same, CallPcs, WorkPcs
  <2>2. QED BY <2>1, SamePerson DEF Orderly
<1>cached. cached' = mirror
  BY DEF ListSevered
<1>told. ASSUME Calm, Told PROVE Told'
  <2>0. SUFFICES ASSUME account' # None PROVE \A p \in People : Lapsed(p)'
    BY DEF Told
  <2>a. \A p \in People : Lapsed(p)
    BY <2>0, <1>told, <1>a, <1>i, <1>f DEF Told
  <2>b. ASSUME NEW p \in People, p # q PROVE Lapsed(p)'
    <3>1. Lasts(p)
      BY <2>b, <1>cached, <1>q, <1>u, <1>a, <1>i, <1>f DEF Lasts, CallPcs, Pcs
    <3>2. QED BY <2>a, <3>1, LapsedSame
  <2>c. Standing(q) /\ Known(q) /\ Severed(q) /\ Called(q) /\ Mirrored(q) /\ q \in People
    BY <1>q DEF Orderly, Standings
  <2>d. Lapsed(q)
    BY <2>a, <1>q
  <2>m. Lapsed(q)'
    BY <2>d, <2>c, <1>cached, <1>q, <1>u, <1>a, <1>i, <1>f DEF Lapsed, Pcs, Standing, Known, Severed, Called, Mirrored, Severing, SeveranceSent, AcceptanceSent, Refused, Marking, Kinds
  <2>e. QED BY <2>b, <2>m
<1>e. QED BY <1>l, <1>s, <1>told DEF Orderly

LEMMA PublishSeveredKeeps ==
  ASSUME Types, OnlyHasty, Orderly, NEW g \in bg, PublishSevered(g)
  PROVE  Orderly' /\ (Calm /\ Told => Told')
<1> PICK q : q = g.who
  OBVIOUS
<1>q. /\ g \in Calls /\ g.pc = "publish" /\ q \in People /\ q # None /\ (\A p \in People : p # None)
      /\ account = Home /\ account # None /\ Home \in Accounts
  BY CallFields, AtHome, ConnectionAssumption DEF PublishSevered, Types, TypeOK, Shape, Orderly
<1>u. \A p, x : UiOn(p, x)' <=> UiOn(p, x)
  BY UiSame DEF PublishSevered
<1>i. (\A p, k : Sent(p, k)' <=> Sent(p, k)) /\ Once' /\ SeveredLast'
  BY SentSame DEF PublishSevered, Orderly
<1>b. /\ \A p, x : At(p, x)' => At(p, x)
      /\ \A p, x : At(p, x) /\ ~(p = q /\ x = "publish") => At(p, x)'
      /\ At(q, "publish")
      /\ OneSevers'
  <2>1. Ends(g)
    BY <1>q DEF PublishSevered
  <2>2. "publish" \in {"forget", "remove", "delete"} => "publish" \in SeverPcs
    BY DEF SeverPcs
  <2>3. QED BY <2>1, <2>2, <1>q, AtEnds DEF Orderly
<1>f. UNCHANGED <<account, accepted, loop, mirror, row, agrees, asked>>
  BY DEF PublishSevered, marks, server
<1>l. Once' /\ SeveredLast' /\ OneSevers' /\ account' \in {Home, None}
  BY <1>b, <1>i, <1>f DEF Orderly
<1>s. ASSUME NEW p \in People PROVE Standings(p)'
  <2>1. Same(p)
    BY <1>s, <1>q, <1>u, <1>b, <1>i, <1>f DEF Same, CallPcs, WorkPcs
  <2>2. QED BY <2>1, SamePerson DEF Orderly
<1>cached. cached' = cached
  BY DEF PublishSevered, list
<1>told. ASSUME Calm, Told PROVE Told'
  <2>0. SUFFICES ASSUME account' # None PROVE \A p \in People : Lapsed(p)'
    BY DEF Told
  <2>a. \A p \in People : Lapsed(p)
    BY <2>0, <1>told, <1>b, <1>i, <1>f DEF Told
  <2>b. ASSUME NEW p \in People, p # q PROVE Lapsed(p)'
    <3>1. Lasts(p)
      BY <2>b, <1>cached, <1>q, <1>u, <1>b, <1>i, <1>f DEF Lasts, CallPcs, Pcs
    <3>2. QED BY <2>a, <3>1, LapsedSame
  <2>c. Standing(q) /\ Known(q) /\ Severed(q) /\ Called(q) /\ Mirrored(q) /\ q \in People
    BY <1>q DEF Orderly, Standings
  <2>d. Lapsed(q)
    BY <2>a, <1>q
  <2>m. Lapsed(q)'
    BY <2>d, <2>c, <1>cached, <1>q, <1>u, <1>b, <1>i, <1>f DEF Lapsed, Pcs, Standing, Known, Severed, Called, Mirrored, Severing, SeveranceSent, AcceptanceSent, Refused, Marking, Kinds
  <2>e. QED BY <2>b, <2>m
<1>e. QED BY <1>l, <1>s, <1>told DEF Orderly

LEMMA HomeIs ==
  ASSUME NEW a \in Accounts
  PROVE  Home \in Accounts
  BY DEF Home

LEMMA AgreesElsewhereKeeps ==
  ASSUME Types, OnlyHasty, Orderly, NEW a \in Accounts \ {Home}, NEW r \in People, Agrees(a, r)
  PROVE  Orderly' /\ (Calm /\ Told => Told')
<1>z. (\A p \in People : p # None) /\ account \in {Home, None} /\ Home \in Accounts /\ a # account
  BY HomeIs, ConnectionAssumption DEF Orderly
<1>u. \A p, x : UiOn(p, x)' <=> UiOn(p, x)
  BY UiSame DEF Agrees
<1>a. (\A p, x : At(p, x)' <=> At(p, x)) /\ OneSevers'
  BY AtSame DEF Agrees, Orderly
<1>i. (\A p, k : Sent(p, k)' <=> Sent(p, k)) /\ Once' /\ SeveredLast'
  BY <1>z, SentSame DEF Agrees, Tell, Orderly
<1>f. UNCHANGED <<account, mirror, accepted, loop>>
  BY DEF Agrees, list, marks
<1>v. row'[Home] = row[Home] /\ agrees'[Home] = agrees[Home] /\ asked'[Home] = asked[Home]
  <2>1. Home \in Accounts /\ Home # a
    BY <1>z
  <2>2. row'[Home] = row[Home]
    BY <2>1, RowTypes DEF Agrees, Types
  <2>3. agrees'[Home] = agrees[Home]
    BY <2>1, SetTypes DEF Agrees, Types, Shape
  <2>4. asked'[Home] = asked[Home]
    BY <2>1, SetTypes DEF Agrees, Types, Shape
  <2>5. QED BY <2>2, <2>3, <2>4 DEF Agrees
<1>l. Once' /\ SeveredLast' /\ OneSevers' /\ account' \in {Home, None}
  BY <1>a, <1>i, <1>f, <1>z DEF Orderly
<1>s. ASSUME NEW p \in People PROVE Standings(p)'
  <2>1. Same(p)
    BY <1>s, <1>z, <1>u, <1>a, <1>i, <1>f, <1>v DEF Same, CallPcs, WorkPcs
  <2>2. QED BY <2>1, SamePerson DEF Orderly
<1>cached. cached' = cached
  BY DEF Agrees, list
<1>told. ASSUME Calm, Told PROVE Told'
  <2>0. SUFFICES ASSUME account' # None PROVE \A p \in People : Lapsed(p)'
    BY DEF Told
  <2>a. \A p \in People : Lapsed(p)
    BY <2>0, <1>told, <1>a, <1>i, <1>f, <1>z DEF Told
  <2>b. ASSUME NEW p \in People PROVE Lapsed(p)'
    <3>1. Lasts(p)
      BY <2>b, <1>cached, <1>z, <1>u, <1>a, <1>i, <1>f, <1>v DEF Lasts, CallPcs, Pcs
    <3>2. QED BY <2>a, <3>1, LapsedSame
  <2>e. QED BY <2>b
<1>e. QED BY <1>l, <1>s, <1>told DEF Orderly

LEMMA DeclinesElsewhereKeeps ==
  ASSUME Types, OnlyHasty, Orderly, NEW a \in Accounts \ {Home}, NEW r \in People, Declines(a, r)
  PROVE  Orderly' /\ (Calm /\ Told => Told')
<1>z. (\A p \in People : p # None) /\ account \in {Home, None} /\ Home \in Accounts /\ a # account
  BY HomeIs, ConnectionAssumption DEF Orderly
<1>u. \A p, x : UiOn(p, x)' <=> UiOn(p, x)
  BY UiSame DEF Declines
<1>a. (\A p, x : At(p, x)' <=> At(p, x)) /\ OneSevers'
  BY AtSame DEF Declines, Orderly
<1>i. (\A p, k : Sent(p, k)' <=> Sent(p, k)) /\ Once' /\ SeveredLast'
  BY <1>z, SentSame DEF Declines, Tell, Orderly
<1>f. UNCHANGED <<account, mirror, accepted, loop>>
  BY DEF Declines, list, marks
<1>v. row'[Home] = row[Home] /\ agrees'[Home] = agrees[Home] /\ asked'[Home] = asked[Home]
  <2>1. Home \in Accounts /\ Home # a
    BY <1>z
  <2>2. row'[Home] = row[Home]
    BY <2>1, RowTypes DEF Declines, Types
  <2>3. asked'[Home] = asked[Home]
    BY <2>1, SetTypes DEF Declines, Types, Shape
  <2>4. QED BY <2>2, <2>3 DEF Declines
<1>l. Once' /\ SeveredLast' /\ OneSevers' /\ account' \in {Home, None}
  BY <1>a, <1>i, <1>f, <1>z DEF Orderly
<1>s. ASSUME NEW p \in People PROVE Standings(p)'
  <2>1. Same(p)
    BY <1>s, <1>z, <1>u, <1>a, <1>i, <1>f, <1>v DEF Same, CallPcs, WorkPcs
  <2>2. QED BY <2>1, SamePerson DEF Orderly
<1>cached. cached' = cached
  BY DEF Declines, list
<1>told. ASSUME Calm, Told PROVE Told'
  <2>0. SUFFICES ASSUME account' # None PROVE \A p \in People : Lapsed(p)'
    BY DEF Told
  <2>a. \A p \in People : Lapsed(p)
    BY <2>0, <1>told, <1>a, <1>i, <1>f, <1>z DEF Told
  <2>b. ASSUME NEW p \in People PROVE Lapsed(p)'
    <3>1. Lasts(p)
      BY <2>b, <1>cached, <1>z, <1>u, <1>a, <1>i, <1>f, <1>v DEF Lasts, CallPcs, Pcs
    <3>2. QED BY <2>a, <3>1, LapsedSame
  <2>e. QED BY <2>b
<1>e. QED BY <1>l, <1>s, <1>told DEF Orderly

LEMMA RemovesElsewhereKeeps ==
  ASSUME Types, OnlyHasty, Orderly, NEW a \in Accounts \ {Home}, NEW r \in People, Removes(a, r)
  PROVE  Orderly' /\ (Calm /\ Told => Told')
<1>z. (\A p \in People : p # None) /\ account \in {Home, None} /\ Home \in Accounts /\ a # account
  BY HomeIs, ConnectionAssumption DEF Orderly
<1>u. \A p, x : UiOn(p, x)' <=> UiOn(p, x)
  BY UiSame DEF Removes
<1>a. (\A p, x : At(p, x)' <=> At(p, x)) /\ OneSevers'
  BY AtSame DEF Removes, Orderly
<1>i. (\A p, k : Sent(p, k)' <=> Sent(p, k)) /\ Once' /\ SeveredLast'
  BY <1>z, SentSame DEF Removes, Tell, Orderly
<1>f. UNCHANGED <<account, mirror, accepted, loop>>
  BY DEF Removes, list, marks
<1>v. row'[Home] = row[Home] /\ agrees'[Home] = agrees[Home] /\ asked'[Home] = asked[Home]
  <2>1. Home \in Accounts /\ Home # a
    BY <1>z
  <2>2. row'[Home] = row[Home]
    BY <2>1, RowTypes DEF Removes, Types
  <2>3. agrees'[Home] = agrees[Home]
    BY <2>1, SetTypes DEF Removes, Types, Shape
  <2>4. QED BY <2>2, <2>3 DEF Removes
<1>l. Once' /\ SeveredLast' /\ OneSevers' /\ account' \in {Home, None}
  BY <1>a, <1>i, <1>f, <1>z DEF Orderly
<1>s. ASSUME NEW p \in People PROVE Standings(p)'
  <2>1. Same(p)
    BY <1>s, <1>z, <1>u, <1>a, <1>i, <1>f, <1>v DEF Same, CallPcs, WorkPcs
  <2>2. QED BY <2>1, SamePerson DEF Orderly
<1>cached. cached' = cached
  BY DEF Removes, list
<1>told. ASSUME Calm, Told PROVE Told'
  <2>0. SUFFICES ASSUME account' # None PROVE \A p \in People : Lapsed(p)'
    BY DEF Told
  <2>a. \A p \in People : Lapsed(p)
    BY <2>0, <1>told, <1>a, <1>i, <1>f, <1>z DEF Told
  <2>b. ASSUME NEW p \in People PROVE Lapsed(p)'
    <3>1. Lasts(p)
      BY <2>b, <1>cached, <1>z, <1>u, <1>a, <1>i, <1>f, <1>v DEF Lasts, CallPcs, Pcs
    <3>2. QED BY <2>a, <3>1, LapsedSame
  <2>e. QED BY <2>b
<1>e. QED BY <1>l, <1>s, <1>told DEF Orderly

LEMMA AgreesHereKeeps ==
  ASSUME Types, OnlyHasty, Orderly, NEW q \in People, Agrees(Home, q), Home \in Accounts
  PROVE  Orderly' /\ (Calm /\ Told => Told')
<1>z. /\ (\A p \in People : p # None) /\ account \in {Home, None} /\ Once /\ SeveredLast /\ OneSevers
      /\ inbox \in Seq(Mail)
      /\ account # None => account = Home /\ Home \in Accounts
  BY AtHome, ConnectionAssumption DEF Orderly, Types, Shape, Mail
<1>y. account = None => /\ loop = None /\ inbox = <<>> /\ bg = {} /\ ui = None
                        /\ (\A p, k : ~Sent(p, k)) /\ (\A p, x : ~At(p, x)) /\ (\A p, x : ~UiOn(p, x))
  BY DEF Types, Shape, Sent, At, UiOn
<1>u. \A p, x : UiOn(p, x)' <=> UiOn(p, x)
  BY UiSame DEF Agrees
<1>a. (\A p, x : At(p, x)' <=> At(p, x)) /\ OneSevers'
  BY AtSame DEF Agrees, Orderly
<1>f. UNCHANGED <<account, mirror, accepted, loop>>
  BY DEF Agrees, list, marks
<1>v. /\ row'[Home][q] = "plain" /\ \A p \in People \ {q} : row'[Home][p] = row[Home][p]
      /\ asked'[Home] = asked[Home] \ {q} /\ agrees'[Home] = agrees[Home] \cup {q}
  <2>1. row'[Home][q] = "plain" /\ \A p \in People \ {q} : row'[Home][p] = row[Home][p]
    BY <1>z, RowView DEF Agrees, Types
  <2>2. asked'[Home] = asked[Home] \ {q} /\ agrees'[Home] = agrees[Home] \cup {q}
    BY <1>z, SetTypes DEF Agrees, Types, Shape
  <2>3. QED BY <2>1, <2>2
<1>k. PICK kind \in {"accepted", "preauthorized"} : kind = "accepted" <=> row[Home][q] = "pending"
  <2>1. \A pends \in BOOLEAN : \E kind \in {"accepted", "preauthorized"} : kind = "accepted" <=> pends
    OBVIOUS
  <2>2. (row[Home][q] = "pending") \in BOOLEAN
    OBVIOUS
  <2>3. QED BY <2>1, <2>2
<1>q. q \in People /\ q # None
  BY <1>z
<1>h. Standings(q)
  BY DEF Orderly
<1>g. /\ q \in asked[Home] /\ kind \in Kinds
      /\ account # None => ~UiOn(q, "remove") /\ ~UiOn(q, "delete")
  <2>1. q \in asked[Home] /\ kind \in Kinds
    BY <1>k DEF Agrees, Kinds
  <2>2. account # None => ~UiOn(q, "remove") /\ ~UiOn(q, "delete")
    BY <1>z, NoUpset DEF Agrees, UpsetKinds, UiOn
  <2>3. QED BY <2>1, <2>2
<1>n. ~Sent(q, kind) /\ ~SeveranceSent(q)
  BY <1>h, <1>g, <1>k DEF Standings, Standing, Known, Severed, SeveranceSent, Severing, AcceptanceSent
<1>i. /\ account = None => \A p, k : ~Sent(p, k)'
      /\ account # None => \A p, k : Sent(p, k)' <=> Sent(p, k) \/ (p = q /\ k = kind)
      /\ Once' /\ SeveredLast'
  <2>1. CASE account = None
    <3>1. inbox' = inbox
      BY <2>1, <1>z, HomeIs, ConnectionAssumption DEF Agrees, Tell
    <3>2. QED BY <2>1, <3>1, <1>z, <1>y, SentSame
  <2>2. CASE account # None
    <3>1. inbox' = Append(inbox, Message(kind, q))
      BY <2>2, <1>z, <1>k DEF Agrees, Tell
    <3>2. QED BY <2>2, <3>1, <1>z, <1>k, <1>g, <1>n, SentAppend
  <2>3. QED BY <2>1, <2>2
<1>o. Standing(q) /\ Known(q) /\ Severed(q) /\ Called(q) /\ Mirrored(q)
  BY <1>q DEF Orderly, Standings
<1>l. Once' /\ SeveredLast' /\ OneSevers' /\ account' \in {Home, None}
  BY <1>o, <1>a, <1>i, <1>f, <1>z DEF Orderly
<1>s. ASSUME NEW p \in People, p # q PROVE Standings(p)'
  <2>1. Same(p)
    BY <1>s, <1>z, <1>y, <1>u, <1>a, <1>i, <1>f, <1>v DEF Same, CallPcs, WorkPcs
  <2>2. QED BY <2>1, SamePerson DEF Orderly
<1> USE DEF Standing, Known, Severed, Called, Mirrored, Severing, SeveranceSent, AcceptanceSent, Refused, Marking, Kinds, SeverPcs
<1>m. Standings(q)'
  <2>1. CASE account = None
    <3>1. Standing(q)'
      BY <1>o, <2>1, <1>z, <1>y, <1>q, <1>k, <1>n, <1>g, <1>u, <1>a, <1>i, <1>f, <1>v
    <3>2. Known(q)'
      BY <1>o, <2>1, <1>z, <1>y, <1>q, <1>k, <1>n, <1>g, <1>u, <1>a, <1>i, <1>f, <1>v
    <3>3. Severed(q)'
      BY <1>o, <2>1, <1>z, <1>y, <1>q, <1>k, <1>n, <1>g, <1>u, <1>a, <1>i, <1>f, <1>v
    <3>4. Called(q)'
      BY <1>o, <2>1, <1>z, <1>y, <1>q, <1>k, <1>n, <1>g, <1>u, <1>a, <1>i, <1>f, <1>v
    <3>5. Mirrored(q)'
      BY <1>o, <2>1, <1>z, <1>y, <1>q, <1>k, <1>n, <1>g, <1>u, <1>a, <1>i, <1>f, <1>v
    <3>6. QED BY <3>1, <3>2, <3>3, <3>4, <3>5 DEF Standings
  <2>2. CASE account # None
    <3>1. Standing(q)'
      BY <1>o, <2>2, <1>z, <1>y, <1>q, <1>k, <1>n, <1>g, <1>u, <1>a, <1>i, <1>f, <1>v
    <3>2. Known(q)'
      BY <1>o, <2>2, <1>z, <1>y, <1>q, <1>k, <1>n, <1>g, <1>u, <1>a, <1>i, <1>f, <1>v
    <3>3. Severed(q)'
      BY <1>o, <2>2, <1>z, <1>y, <1>q, <1>k, <1>n, <1>g, <1>u, <1>a, <1>i, <1>f, <1>v
    <3>4. Called(q)'
      BY <1>o, <2>2, <1>z, <1>y, <1>q, <1>k, <1>n, <1>g, <1>u, <1>a, <1>i, <1>f, <1>v
    <3>5. Mirrored(q)'
      BY <1>o, <2>2, <1>z, <1>y, <1>q, <1>k, <1>n, <1>g, <1>u, <1>a, <1>i, <1>f, <1>v
    <3>6. QED BY <3>1, <3>2, <3>3, <3>4, <3>5 DEF Standings
  <2>3. QED BY <1>z, <2>1, <2>2
<1>cached. cached' = cached
  BY DEF Agrees, list
<1>told. ASSUME Calm, Told PROVE Told'
  <2>0. SUFFICES ASSUME account' # None PROVE \A p \in People : Lapsed(p)'
    BY DEF Told
  <2>a. \A p \in People : Lapsed(p)
    BY <2>0, <1>told, <1>a, <1>i, <1>f, <1>z DEF Told
  <2>b. ASSUME NEW p \in People, p # q PROVE Lapsed(p)'
    <3>1. Lasts(p)
      BY <2>b, <1>cached, <1>z, <1>y, <1>u, <1>a, <1>i, <1>f, <1>v DEF Lasts, CallPcs, Pcs
    <3>2. QED BY <2>a, <3>1, LapsedSame
  <2>d. Lapsed(q)
    BY <2>a, <1>q
  <2>m. Lapsed(q)'
    <3>1. CASE account = None
      <4>1. QED BY <2>d, <1>o, <3>1, <1>cached, <1>z, <1>y, <1>q, <1>k, <1>n, <1>g, <1>u, <1>a, <1>i, <1>f, <1>v, <2>0 DEF Lapsed, Pcs
    <3>2. CASE account # None
      <4>1. QED BY <2>d, <1>o, <3>2, <1>cached, <1>z, <1>y, <1>q, <1>k, <1>n, <1>g, <1>u, <1>a, <1>i, <1>f, <1>v, <2>0 DEF Lapsed, Pcs
    <3>3. QED BY <1>z, <3>1, <3>2
  <2>e. QED BY <2>b, <2>m
<1>e. QED BY <1>l, <1>s, <1>m, <1>told DEF Orderly

LEMMA DeclinesHereKeeps ==
  ASSUME Types, OnlyHasty, Orderly, unsent = {}, NEW q \in People, Declines(Home, q), Home \in Accounts
  PROVE  Orderly' /\ (Calm /\ Told => Told')
<1>z. /\ (\A p \in People : p # None) /\ account \in {Home, None} /\ Once /\ SeveredLast /\ OneSevers
      /\ inbox \in Seq(Mail)
      /\ account # None => account = Home /\ Home \in Accounts
  BY AtHome, ConnectionAssumption DEF Orderly, Types, Shape, Mail
<1>y. account = None => /\ loop = None /\ inbox = <<>> /\ bg = {} /\ ui = None
                        /\ (\A p, k : ~Sent(p, k)) /\ (\A p, x : ~At(p, x)) /\ (\A p, x : ~UiOn(p, x))
  BY DEF Types, Shape, Sent, At, UiOn
<1>u. \A p, x : UiOn(p, x)' <=> UiOn(p, x)
  BY UiSame DEF Declines
<1>a. (\A p, x : At(p, x)' <=> At(p, x)) /\ OneSevers'
  BY AtSame DEF Declines, Orderly
<1>f. UNCHANGED <<account, mirror, accepted, loop>>
  BY DEF Declines, list, marks
<1>v. /\ row'[Home][q] = "none" /\ \A p \in People \ {q} : row'[Home][p] = row[Home][p]
      /\ asked'[Home] = asked[Home] \ {q} /\ agrees'[Home] = agrees[Home]
  <2>1. row'[Home][q] = "none" /\ \A p \in People \ {q} : row'[Home][p] = row[Home][p]
    BY <1>z, RowView DEF Declines, Types
  <2>2. asked'[Home] = asked[Home] \ {q} /\ agrees'[Home] = agrees[Home]
    BY <1>z, SetTypes DEF Declines, Types, Shape
  <2>3. QED BY <2>1, <2>2
<1>k. PICK kind : kind = "declined"
  OBVIOUS
<1>q. q \in People /\ q # None
  BY <1>z
<1>h. Standings(q)
  BY DEF Orderly
<1>g. q \in asked[Home] /\ kind \in Kinds
  BY <1>k DEF Declines, Kinds
<1>n. ~Sent(q, kind) /\ ~SeveranceSent(q)
  BY <1>h, <1>g, <1>k DEF Standings, Standing, Known, Severed, SeveranceSent, Severing, AcceptanceSent
<1>w. /\ \A x \in {"forget", "remove", "delete"} : ~At(q, x)
      /\ account # None => ~UiOn(q, "new") /\ ~UiOn(q, "insert") /\ (UiOn(q, "add") => mirror[q] # "none")
  <2>1. ~Severing(q)
    BY <1>h, <1>g DEF Standings, Standing, Severed
  <2>2. account # None => (mirror[q] # "none" \/ UiOn(q, "delete")) /\ ~UiOn(q, "insert")
    BY <1>h, <1>g, <2>1 DEF Standings, Mirrored, Called, Severing
  <2>3. UiOn(q, "delete") => ~UiOn(q, "new") /\ ~UiOn(q, "add")
    BY DEF UiOn
  <2>4. QED BY <1>h, <2>1, <2>2, <2>3 DEF Standings, Called, Severing
<1>i. /\ account = None => \A p, k : ~Sent(p, k)'
      /\ account # None => \A p, k : Sent(p, k)' <=> Sent(p, k) \/ (p = q /\ k = kind)
      /\ Once' /\ SeveredLast'
  <2>1. CASE account = None
    <3>1. inbox' = inbox
      BY <2>1, <1>z, HomeIs, ConnectionAssumption DEF Declines, Tell
    <3>2. QED BY <2>1, <3>1, <1>z, <1>y, SentSame
  <2>2. CASE account # None
    <3>1. inbox' = Append(inbox, Message(kind, q))
      BY <2>2, <1>z, <1>k DEF Declines, Tell
    <3>2. QED BY <2>2, <3>1, <1>z, <1>k, <1>g, <1>n, SentAppend
  <2>3. QED BY <2>1, <2>2
<1>o. Standing(q) /\ Known(q) /\ Severed(q) /\ Called(q) /\ Mirrored(q)
  BY <1>q DEF Orderly, Standings
<1>l. Once' /\ SeveredLast' /\ OneSevers' /\ account' \in {Home, None}
  BY <1>o, <1>a, <1>i, <1>f, <1>z DEF Orderly
<1>s. ASSUME NEW p \in People, p # q PROVE Standings(p)'
  <2>1. Same(p)
    BY <1>s, <1>z, <1>y, <1>u, <1>a, <1>i, <1>f, <1>v DEF Same, CallPcs, WorkPcs
  <2>2. QED BY <2>1, SamePerson DEF Orderly
<1> USE DEF Standing, Known, Severed, Called, Mirrored, Severing, SeveranceSent, AcceptanceSent, Refused, Marking, Kinds, SeverPcs
<1>m. Standings(q)'
  <2>1. CASE account = None
    <3>1. Standing(q)'
      BY <1>o, <2>1, <1>z, <1>y, <1>q, <1>k, <1>n, <1>g, <1>w, <1>u, <1>a, <1>i, <1>f, <1>v
    <3>2. Known(q)'
      BY <1>o, <2>1, <1>z, <1>y, <1>q, <1>k, <1>n, <1>g, <1>w, <1>u, <1>a, <1>i, <1>f, <1>v
    <3>3. Severed(q)'
      BY <1>o, <2>1, <1>z, <1>y, <1>q, <1>k, <1>n, <1>g, <1>w, <1>u, <1>a, <1>i, <1>f, <1>v
    <3>4. Called(q)'
      BY <1>o, <2>1, <1>z, <1>y, <1>q, <1>k, <1>n, <1>g, <1>w, <1>u, <1>a, <1>i, <1>f, <1>v
    <3>5. Mirrored(q)'
      BY <1>o, <2>1, <1>z, <1>y, <1>q, <1>k, <1>n, <1>g, <1>w, <1>u, <1>a, <1>i, <1>f, <1>v
    <3>6. QED BY <3>1, <3>2, <3>3, <3>4, <3>5 DEF Standings
  <2>2. CASE account # None
    <3>1. Standing(q)'
      BY <1>o, <2>2, <1>z, <1>y, <1>q, <1>k, <1>n, <1>g, <1>w, <1>u, <1>a, <1>i, <1>f, <1>v
    <3>2. Known(q)'
      BY <1>o, <2>2, <1>z, <1>y, <1>q, <1>k, <1>n, <1>g, <1>w, <1>u, <1>a, <1>i, <1>f, <1>v
    <3>3. Severed(q)'
      BY <1>o, <2>2, <1>z, <1>y, <1>q, <1>k, <1>n, <1>g, <1>w, <1>u, <1>a, <1>i, <1>f, <1>v
    <3>4. Called(q)'
      BY <1>o, <2>2, <1>z, <1>y, <1>q, <1>k, <1>n, <1>g, <1>w, <1>u, <1>a, <1>i, <1>f, <1>v
    <3>5. Mirrored(q)'
      BY <1>o, <2>2, <1>z, <1>y, <1>q, <1>k, <1>n, <1>g, <1>w, <1>u, <1>a, <1>i, <1>f, <1>v
    <3>6. QED BY <3>1, <3>2, <3>3, <3>4, <3>5 DEF Standings
  <2>3. QED BY <1>z, <2>1, <2>2
<1>cached. cached' = cached
  BY DEF Declines, list
<1>told. ASSUME Calm, Told PROVE Told'
  <2>0. SUFFICES ASSUME account' # None PROVE \A p \in People : Lapsed(p)'
    BY DEF Told
  <2>a. \A p \in People : Lapsed(p)
    BY <2>0, <1>told, <1>a, <1>i, <1>f, <1>z DEF Told
  <2>h. account # None => cached[q] = "pending" /\ \A x : ~At(q, x)
    BY <1>told, <1>z DEF Declines, UpsetIf, Upset, Calm, At
  <2>b. ASSUME NEW p \in People, p # q PROVE Lapsed(p)'
    <3>1. Lasts(p)
      BY <2>b, <1>cached, <1>z, <1>y, <1>u, <1>a, <1>i, <1>f, <1>v DEF Lasts, CallPcs, Pcs
    <3>2. QED BY <2>a, <3>1, LapsedSame
  <2>d. Lapsed(q)
    BY <2>a, <1>q
  <2>m. Lapsed(q)'
    <3>1. CASE account = None
      <4>1. QED BY <2>d, <1>o, <3>1, <1>cached, <1>z, <1>y, <1>q, <1>k, <1>n, <1>g, <1>w, <1>u, <1>a, <1>i, <1>f, <1>v, <2>0, <2>h DEF Lapsed, Pcs
    <3>2. CASE account # None
      <4>1. QED BY <2>d, <1>o, <3>2, <1>cached, <1>z, <1>y, <1>q, <1>k, <1>n, <1>g, <1>w, <1>u, <1>a, <1>i, <1>f, <1>v, <2>0, <2>h DEF Lapsed, Pcs
    <3>3. QED BY <1>z, <3>1, <3>2
  <2>e. QED BY <2>b, <2>m
<1>e. QED BY <1>l, <1>s, <1>m, <1>told DEF Orderly

LEMMA RemovesHereKeeps ==
  ASSUME Types, OnlyHasty, Orderly, NEW q \in People, Removes(Home, q), Home \in Accounts
  PROVE  Orderly' /\ (Calm /\ Told /\ CopiesAgree => Told')
<1>z. /\ (\A p \in People : p # None) /\ account \in {Home, None} /\ Once /\ SeveredLast /\ OneSevers
      /\ inbox \in Seq(Mail)
      /\ account # None => account = Home /\ Home \in Accounts
  BY AtHome, ConnectionAssumption DEF Orderly, Types, Shape, Mail
<1>y. account = None => /\ loop = None /\ inbox = <<>> /\ bg = {} /\ ui = None
                        /\ (\A p, k : ~Sent(p, k)) /\ (\A p, x : ~At(p, x)) /\ (\A p, x : ~UiOn(p, x))
  BY DEF Types, Shape, Sent, At, UiOn
<1>u. \A p, x : UiOn(p, x)' <=> UiOn(p, x)
  BY UiSame DEF Removes
<1>a. (\A p, x : At(p, x)' <=> At(p, x)) /\ OneSevers'
  BY AtSame DEF Removes, Orderly
<1>f. UNCHANGED <<account, mirror, accepted, loop>>
  BY DEF Removes, list, marks
<1>v. /\ row'[Home][q] = "none" /\ \A p \in People \ {q} : row'[Home][p] = row[Home][p]
      /\ asked'[Home] = asked[Home] /\ agrees'[Home] = agrees[Home] \ {q}
  <2>1. row'[Home][q] = "none" /\ \A p \in People \ {q} : row'[Home][p] = row[Home][p]
    BY <1>z, RowView DEF Removes, Types
  <2>2. asked'[Home] = asked[Home] /\ agrees'[Home] = agrees[Home] \ {q}
    BY <1>z, SetTypes DEF Removes, Types, Shape
  <2>3. QED BY <2>1, <2>2
<1>k. PICK kind : kind = "removed"
  OBVIOUS
<1>q. q \in People /\ q # None
  BY <1>z
<1>h. Standings(q)
  BY DEF Orderly
<1>g. /\ q \in agrees[Home] /\ row[Home][q] = "plain" /\ kind \in Kinds
      /\ account = None => q \notin accepted
  <2>1. q \in agrees[Home] /\ row[Home][q] = "plain" /\ kind \in Kinds
    BY <1>k DEF Removes, Kinds
  <2>2. account = None => q \notin accepted
    BY <1>z, ConnectionAssumption DEF Removes, OnlyHasty
  <2>3. QED BY <2>1, <2>2
<1>n. ~Sent(q, kind) /\ ~SeveranceSent(q)
  BY <1>h, <1>g, <1>k DEF Standings, Standing, Known, Severed, SeveranceSent, Severing, AcceptanceSent
<1>w. /\ \A x \in {"forget", "remove", "delete"} : ~At(q, x)
      /\ account # None => ~UiOn(q, "new") /\ ~UiOn(q, "insert") /\ (UiOn(q, "add") => mirror[q] # "none")
  <2>1. ~Severing(q)
    BY <1>h, <1>g DEF Standings, Standing, Severed
  <2>2. account # None => (mirror[q] # "none" \/ UiOn(q, "delete")) /\ ~UiOn(q, "insert")
    BY <1>h, <1>g, <2>1 DEF Standings, Mirrored, Called, Severing
  <2>3. UiOn(q, "delete") => ~UiOn(q, "new") /\ ~UiOn(q, "add")
    BY DEF UiOn
  <2>4. QED BY <1>h, <2>1, <2>2, <2>3 DEF Standings, Called, Severing
<1>i. /\ account = None => \A p, k : ~Sent(p, k)'
      /\ account # None => \A p, k : Sent(p, k)' <=> Sent(p, k) \/ (p = q /\ k = kind)
      /\ Once' /\ SeveredLast'
  <2>1. CASE account = None
    <3>1. inbox' = inbox
      BY <2>1, <1>z, HomeIs, ConnectionAssumption DEF Removes, Tell
    <3>2. QED BY <2>1, <3>1, <1>z, <1>y, SentSame
  <2>2. CASE account # None
    <3>1. inbox' = Append(inbox, Message(kind, q))
      BY <2>2, <1>z, <1>k DEF Removes, Tell
    <3>2. QED BY <2>2, <3>1, <1>z, <1>k, <1>g, <1>n, SentAppend
  <2>3. QED BY <2>1, <2>2
<1>o. Standing(q) /\ Known(q) /\ Severed(q) /\ Called(q) /\ Mirrored(q)
  BY <1>q DEF Orderly, Standings
<1>l. Once' /\ SeveredLast' /\ OneSevers' /\ account' \in {Home, None}
  BY <1>o, <1>a, <1>i, <1>f, <1>z DEF Orderly
<1>s. ASSUME NEW p \in People, p # q PROVE Standings(p)'
  <2>1. Same(p)
    BY <1>s, <1>z, <1>y, <1>u, <1>a, <1>i, <1>f, <1>v DEF Same, CallPcs, WorkPcs
  <2>2. QED BY <2>1, SamePerson DEF Orderly
<1> USE DEF Standing, Known, Severed, Called, Mirrored, Severing, SeveranceSent, AcceptanceSent, Refused, Marking, Kinds, SeverPcs
<1>m. Standings(q)'
  <2>1. CASE account = None
    <3>1. Standing(q)'
      BY <1>o, <2>1, <1>z, <1>y, <1>q, <1>k, <1>n, <1>g, <1>w, <1>u, <1>a, <1>i, <1>f, <1>v
    <3>2. Known(q)'
      BY <1>o, <2>1, <1>z, <1>y, <1>q, <1>k, <1>n, <1>g, <1>w, <1>u, <1>a, <1>i, <1>f, <1>v
    <3>3. Severed(q)'
      BY <1>o, <2>1, <1>z, <1>y, <1>q, <1>k, <1>n, <1>g, <1>w, <1>u, <1>a, <1>i, <1>f, <1>v
    <3>4. Called(q)'
      BY <1>o, <2>1, <1>z, <1>y, <1>q, <1>k, <1>n, <1>g, <1>w, <1>u, <1>a, <1>i, <1>f, <1>v
    <3>5. Mirrored(q)'
      BY <1>o, <2>1, <1>z, <1>y, <1>q, <1>k, <1>n, <1>g, <1>w, <1>u, <1>a, <1>i, <1>f, <1>v
    <3>6. QED BY <3>1, <3>2, <3>3, <3>4, <3>5 DEF Standings
  <2>2. CASE account # None
    <3>1. Standing(q)'
      BY <1>o, <2>2, <1>z, <1>y, <1>q, <1>k, <1>n, <1>g, <1>w, <1>u, <1>a, <1>i, <1>f, <1>v
    <3>2. Known(q)'
      BY <1>o, <2>2, <1>z, <1>y, <1>q, <1>k, <1>n, <1>g, <1>w, <1>u, <1>a, <1>i, <1>f, <1>v
    <3>3. Severed(q)'
      BY <1>o, <2>2, <1>z, <1>y, <1>q, <1>k, <1>n, <1>g, <1>w, <1>u, <1>a, <1>i, <1>f, <1>v
    <3>4. Called(q)'
      BY <1>o, <2>2, <1>z, <1>y, <1>q, <1>k, <1>n, <1>g, <1>w, <1>u, <1>a, <1>i, <1>f, <1>v
    <3>5. Mirrored(q)'
      BY <1>o, <2>2, <1>z, <1>y, <1>q, <1>k, <1>n, <1>g, <1>w, <1>u, <1>a, <1>i, <1>f, <1>v
    <3>6. QED BY <3>1, <3>2, <3>3, <3>4, <3>5 DEF Standings
  <2>3. QED BY <1>z, <2>1, <2>2
<1>cached. cached' = cached
  BY DEF Removes, list
<1>told. ASSUME Calm, Told, CopiesAgree PROVE Told'
  <2>0. SUFFICES ASSUME account' # None PROVE \A p \in People : Lapsed(p)'
    BY DEF Told
  <2>a. \A p \in People : Lapsed(p)
    BY <2>0, <1>told, <1>a, <1>i, <1>f, <1>z DEF Told
  <2>g. account # None => Quiet
    BY <1>told, <1>z DEF Removes, UpsetIf, Upset, Calm
  <2>h. account # None =>
          /\ mirror[q] = "plain" /\ cached[q] = "plain"
          /\ (\A p, k : ~Sent(p, k)) /\ (\A p, x : ~At(p, x)) /\ (\A p, x : ~UiOn(p, x))
    BY <1>told, <1>z, <1>g, <2>g DEF CopiesAgree, Quiet, Sent, At, UiOn
  <2>b. ASSUME NEW p \in People, p # q PROVE Lapsed(p)'
    <3>1. Lasts(p)
      BY <2>b, <1>cached, <1>z, <1>y, <1>u, <1>a, <1>i, <1>f, <1>v DEF Lasts, CallPcs, Pcs
    <3>2. QED BY <2>a, <3>1, LapsedSame
  <2>d. Lapsed(q)
    BY <2>a, <1>q
  <2>m. Lapsed(q)'
    <3>1. CASE account = None
      <4>1. QED BY <2>d, <1>o, <3>1, <1>cached, <1>z, <1>y, <1>q, <1>k, <1>n, <1>g, <1>w, <1>u, <1>a, <1>i, <1>f, <1>v, <2>0, <2>h DEF Lapsed, Pcs
    <3>2. CASE account # None
      <4>1. QED BY <2>d, <1>o, <3>2, <1>cached, <1>z, <1>y, <1>q, <1>k, <1>n, <1>g, <1>w, <1>u, <1>a, <1>i, <1>f, <1>v, <2>0, <2>h DEF Lapsed, Pcs
    <3>3. QED BY <1>z, <3>1, <3>2
  <2>e. QED BY <2>b, <2>m
<1>e. QED BY <1>l, <1>s, <1>m, <1>told DEF Orderly

LEMMA AddBuddyKeeps ==
  ASSUME Types, OnlyHasty, Orderly, NEW q \in People, AddBuddy(q)
  PROVE  Orderly' /\ (Calm /\ Told => Told')
<1>z. /\ (\A p \in People : p # None) /\ account \in {Home, None} /\ Once /\ SeveredLast /\ OneSevers
      /\ inbox \in Seq(Mail)
      /\ account # None => account = Home /\ Home \in Accounts
  BY AtHome, ConnectionAssumption DEF Orderly, Types, Shape, Mail
<1>y. account = None => /\ loop = None /\ inbox = <<>> /\ bg = {} /\ ui = None
                        /\ (\A p, k : ~Sent(p, k)) /\ (\A p, x : ~At(p, x)) /\ (\A p, x : ~UiOn(p, x))
  BY DEF Types, Shape, Sent, At, UiOn
<1>q. q \in People /\ q # None
  BY <1>z
<1>u. /\ \A x : ~At(q, x) /\ \A p : ~UiOn(p, x)
      /\ \A k \in Kinds \ {"asks"} : ~Sent(q, k)
      /\ \A p, x : UiOn(p, x)' <=> p = q /\ x = "new"
      /\ account = Home /\ account # None /\ Home \in Accounts
  <2>1. "new" \in Pcs /\ Call("new", q)
    BY DEF AddBuddy, Pcs
  <2>2. QED BY <2>1, <1>z, CallsAlone
<1>a. (\A p, x : At(p, x)' <=> At(p, x)) /\ OneSevers'
  BY AtSame DEF AddBuddy, Orderly
<1>i. (\A p, k : Sent(p, k)' <=> Sent(p, k)) /\ Once' /\ SeveredLast'
  BY SentSame DEF AddBuddy, Orderly
<1>w. mirror[q] = "none"
  BY DEF AddBuddy
<1>f. UNCHANGED <<account, mirror, accepted, loop, row, agrees, asked>>
  BY DEF AddBuddy, list, marks, server
<1>o. Standing(q) /\ Known(q) /\ Severed(q) /\ Called(q) /\ Mirrored(q)
  BY <1>q DEF Orderly, Standings
<1>l. Once' /\ SeveredLast' /\ OneSevers' /\ account' \in {Home, None}
  BY <1>o, <1>a, <1>i, <1>f, <1>z DEF Orderly
<1>s. ASSUME NEW p \in People, p # q PROVE Standings(p)'
  <2>1. Same(p)
    BY <1>s, <1>z, <1>u, <1>a, <1>i, <1>f DEF Same, CallPcs, WorkPcs
  <2>2. QED BY <2>1, SamePerson DEF Orderly
<1> USE DEF Standing, Known, Severed, Called, Mirrored, Severing, SeveranceSent, AcceptanceSent, Refused, Marking, Kinds, SeverPcs
<1>m. Standings(q)'
  <2>1. Standing(q)'
    BY <1>o, <1>q, <1>w, <1>u, <1>a, <1>i, <1>f
  <2>2. Known(q)'
    BY <1>o, <1>q, <1>w, <1>u, <1>a, <1>i, <1>f
  <2>3. Severed(q)'
    BY <1>o, <1>q, <1>w, <1>u, <1>a, <1>i, <1>f
  <2>4. Called(q)'
    BY <1>o, <1>q, <1>w, <1>u, <1>a, <1>i, <1>f
  <2>5. Mirrored(q)'
    BY <1>o, <1>q, <1>w, <1>u, <1>a, <1>i, <1>f
  <2>6. QED BY <2>1, <2>2, <2>3, <2>4, <2>5 DEF Standings
<1>cached. cached' = cached
  BY DEF AddBuddy, list
<1>told. ASSUME Calm, Told PROVE Told'
  <2>0. SUFFICES ASSUME account' # None PROVE \A p \in People : Lapsed(p)'
    BY DEF Told
  <2>a. \A p \in People : Lapsed(p)
    BY <2>0, <1>told, <1>a, <1>i, <1>f, <1>z DEF Told
  <2>b. ASSUME NEW p \in People, p # q PROVE Lapsed(p)'
    <3>1. Lasts(p)
      BY <2>b, <1>cached, <1>z, <1>u, <1>a, <1>i, <1>f DEF Lasts, CallPcs, Pcs
    <3>2. QED BY <2>a, <3>1, LapsedSame
  <2>d. Lapsed(q)
    BY <2>a, <1>q
  <2>m. Lapsed(q)'
    BY <2>d, <1>o, <1>cached, <1>q, <1>w, <1>u, <1>a, <1>i, <1>f DEF Lapsed, Pcs
  <2>e. QED BY <2>b, <2>m
<1>e. QED BY <1>l, <1>s, <1>m, <1>told DEF Orderly

LEMMA RemoveBuddyKeeps ==
  ASSUME Types, OnlyHasty, Orderly, NEW q \in People, RemoveBuddy(q)
  PROVE  Orderly' /\ (Calm /\ Told => Told')
<1>z. /\ (\A p \in People : p # None) /\ account \in {Home, None} /\ Once /\ SeveredLast /\ OneSevers
      /\ inbox \in Seq(Mail)
      /\ account # None => account = Home /\ Home \in Accounts
  BY AtHome, ConnectionAssumption DEF Orderly, Types, Shape, Mail
<1>y. account = None => /\ loop = None /\ inbox = <<>> /\ bg = {} /\ ui = None
                        /\ (\A p, k : ~Sent(p, k)) /\ (\A p, x : ~At(p, x)) /\ (\A p, x : ~UiOn(p, x))
  BY DEF Types, Shape, Sent, At, UiOn
<1>q. q \in People /\ q # None
  BY <1>z
<1>u. /\ \A x : ~At(q, x) /\ \A p : ~UiOn(p, x)
      /\ \A k \in Kinds \ {"asks"} : ~Sent(q, k)
      /\ \A p, x : UiOn(p, x)' <=> p = q /\ x = "remove"
      /\ account = Home /\ account # None /\ Home \in Accounts
  <2>1. "remove" \in Pcs /\ Call("remove", q)
    BY DEF RemoveBuddy, Pcs
  <2>2. QED BY <2>1, <1>z, CallsAlone
<1>a. (\A p, x : At(p, x)' <=> At(p, x)) /\ OneSevers'
  BY AtSame DEF RemoveBuddy, Orderly
<1>i. (\A p, k : Sent(p, k)' <=> Sent(p, k)) /\ Once' /\ SeveredLast'
  BY SentSame DEF RemoveBuddy, Orderly
<1>f. UNCHANGED <<account, mirror, loop, row, agrees, asked>> /\ accepted' = accepted \ {q}
  BY DEF RemoveBuddy, list, server
<1>o. Standing(q) /\ Known(q) /\ Severed(q) /\ Called(q) /\ Mirrored(q)
  BY <1>q DEF Orderly, Standings
<1>l. Once' /\ SeveredLast' /\ OneSevers' /\ account' \in {Home, None}
  BY <1>o, <1>a, <1>i, <1>f, <1>z DEF Orderly
<1>s. ASSUME NEW p \in People, p # q PROVE Standings(p)'
  <2>1. Same(p)
    BY <1>s, <1>z, <1>u, <1>a, <1>i, <1>f DEF Same, CallPcs, WorkPcs
  <2>2. QED BY <2>1, SamePerson DEF Orderly
<1> USE DEF Standing, Known, Severed, Called, Mirrored, Severing, SeveranceSent, AcceptanceSent, Refused, Marking, Kinds, SeverPcs
<1>m. Standings(q)'
  <2>1. Standing(q)'
    BY <1>o, <1>q, <1>u, <1>a, <1>i, <1>f
  <2>2. Known(q)'
    BY <1>o, <1>q, <1>u, <1>a, <1>i, <1>f
  <2>3. Severed(q)'
    BY <1>o, <1>q, <1>u, <1>a, <1>i, <1>f
  <2>4. Called(q)'
    BY <1>o, <1>q, <1>u, <1>a, <1>i, <1>f
  <2>5. Mirrored(q)'
    BY <1>o, <1>q, <1>u, <1>a, <1>i, <1>f
  <2>6. QED BY <2>1, <2>2, <2>3, <2>4, <2>5 DEF Standings
<1>cached. cached' = cached
  BY DEF RemoveBuddy, list
<1>told. ASSUME Calm, Told PROVE Told'
  <2>0. SUFFICES ASSUME account' # None PROVE \A p \in People : Lapsed(p)'
    BY DEF Told
  <2>a. \A p \in People : Lapsed(p)
    BY <2>0, <1>told, <1>a, <1>i, <1>f, <1>z DEF Told
  <2>b. ASSUME NEW p \in People, p # q PROVE Lapsed(p)'
    <3>1. Lasts(p)
      BY <2>b, <1>cached, <1>z, <1>u, <1>a, <1>i, <1>f DEF Lasts, CallPcs, Pcs
    <3>2. QED BY <2>a, <3>1, LapsedSame
  <2>d. Lapsed(q)
    BY <2>a, <1>q
  <2>m. Lapsed(q)'
    BY <2>d, <1>o, <1>cached, <1>q, <1>u, <1>a, <1>i, <1>f DEF Lapsed, Pcs
  <2>e. QED BY <2>b, <2>m
<1>e. QED BY <1>l, <1>s, <1>m, <1>told DEF Orderly

LEMMA DeclineConnectionKeeps ==
  ASSUME Types, OnlyHasty, Orderly, NEW r \in People, DeclineConnection(r)
  PROVE  Orderly' /\ (Calm /\ Told => Told')
<1>z. /\ (\A p \in People : p # None) /\ account \in {Home, None} /\ Once /\ SeveredLast /\ OneSevers
      /\ inbox \in Seq(Mail)
      /\ account # None => account = Home /\ Home \in Accounts
  BY AtHome, ConnectionAssumption DEF Orderly, Types, Shape, Mail
<1>y. account = None => /\ loop = None /\ inbox = <<>> /\ bg = {} /\ ui = None
                        /\ (\A p, k : ~Sent(p, k)) /\ (\A p, x : ~At(p, x)) /\ (\A p, x : ~UiOn(p, x))
  BY DEF Types, Shape, Sent, At, UiOn
<1>u. \A p, x : UiOn(p, x)' <=> UiOn(p, x)
  BY UiSame DEF DeclineConnection
<1>a. (\A p, x : At(p, x)' <=> At(p, x)) /\ OneSevers'
  BY AtSame DEF DeclineConnection, Orderly
<1>i. (\A p, k : Sent(p, k)' <=> Sent(p, k)) /\ Once' /\ SeveredLast'
  BY SentSame DEF DeclineConnection, Orderly
<1>f. UNCHANGED <<account, mirror, accepted, loop, row, agrees, asked>>
  BY DEF DeclineConnection, list, marks
<1>l. Once' /\ SeveredLast' /\ OneSevers' /\ account' \in {Home, None}
  BY <1>a, <1>i, <1>f, <1>z DEF Orderly
<1>s. ASSUME NEW p \in People PROVE Standings(p)'
  <2>1. Same(p)
    BY <1>s, <1>u, <1>a, <1>i, <1>f DEF Same, CallPcs, WorkPcs
  <2>2. QED BY <2>1, SamePerson DEF Orderly
<1>cached. cached' = cached
  BY DEF DeclineConnection, list
<1>told. ASSUME Calm, Told PROVE Told'
  <2>0. SUFFICES ASSUME account' # None PROVE \A p \in People : Lapsed(p)'
    BY DEF Told
  <2>a. \A p \in People : Lapsed(p)
    BY <2>0, <1>told, <1>a, <1>i, <1>f, <1>z DEF Told
  <2>b. ASSUME NEW p \in People PROVE Lapsed(p)'
    <3>1. Lasts(p)
      BY <2>b, <1>cached, <1>u, <1>a, <1>i, <1>f DEF Lasts, CallPcs, Pcs
    <3>2. QED BY <2>a, <3>1, LapsedSame
  <2>e. QED BY <2>b
<1>e. QED BY <1>l, <1>s, <1>told DEF Orderly

LEMMA ApproveKeeps ==
  ASSUME Types, OnlyHasty, Orderly, NEW q \in People, Approve(q)
  PROVE  Orderly' /\ (Calm /\ Told => Told')
<1>z. /\ (\A p \in People : p # None) /\ account \in {Home, None} /\ Once /\ SeveredLast /\ OneSevers
      /\ inbox \in Seq(Mail)
      /\ account # None => account = Home /\ Home \in Accounts
  BY AtHome, ConnectionAssumption DEF Orderly, Types, Shape, Mail
<1>y. account = None => /\ loop = None /\ inbox = <<>> /\ bg = {} /\ ui = None
                        /\ (\A p, k : ~Sent(p, k)) /\ (\A p, x : ~At(p, x)) /\ (\A p, x : ~UiOn(p, x))
  BY DEF Types, Shape, Sent, At, UiOn
<1>q. q \in People /\ q # None
  BY <1>z
<1>u. /\ \A x : ~At(q, x) /\ \A p : ~UiOn(p, x)
      /\ \A k \in Kinds \ {"asks"} : ~Sent(q, k)
      /\ \A p, x : UiOn(p, x)' <=> p = q /\ x = "add"
      /\ account = Home /\ account # None /\ Home \in Accounts
  <2>1. "add" \in Pcs /\ Call("add", q)
    BY DEF Approve, Pcs
  <2>2. QED BY <2>1, <1>z, CallsAlone
<1>a. (\A p, x : At(p, x)' <=> At(p, x)) /\ OneSevers'
  BY AtSame DEF Approve, Orderly
<1>h. Standings(q)
  BY DEF Orderly
<1>v. /\ row'[Home][q] = IF q \in asked[Home] THEN "plain" ELSE row[Home][q]
      /\ \A p \in People \ {q} : row'[Home][p] = row[Home][p]
      /\ asked'[Home] = asked[Home] \ {q} /\ agrees'[Home] = agrees[Home] \cup {q}
  <2>1. PICK v : v = IF q \in asked[Home] THEN "plain" ELSE row[Home][q]
    OBVIOUS
  <2>2. v \in {"none", "pending", "plain"} /\ row' = [row EXCEPT ![Home][q] = v]
    BY <1>u, <2>1, RowTypes DEF Approve, Types
  <2>3. row'[Home][q] = v /\ \A p \in People \ {q} : row'[Home][p] = row[Home][p]
    BY <1>u, <2>2, RowView DEF Types
  <2>4. asked'[Home] = asked[Home] \ {q} /\ agrees'[Home] = agrees[Home] \cup {q}
    BY <1>u, SetTypes DEF Approve, Types, Shape
  <2>5. QED BY <2>1, <2>3, <2>4
<1>w. (q \in asked[Home] <=> row[Home][q] = "pending") /\ (q \in asked[Home] => mirror[q] # "none")
  BY <1>h, <1>u DEF Standings, Standing, Mirrored, Refused, Severing, Kinds
<1>x. q \notin asked[Home] => row[Home][q] = "plain" \/ mirror[q] = "none"
  <2>1. mirror[q] \in {"none", "pending", "plain"} /\ row[Home][q] \in {"none", "pending", "plain"}
    BY <1>u, MirrorView, RowTypes DEF Types
  <2>2. QED BY <1>h, <1>u, <1>w, <2>1 DEF Standings, Mirrored, Refused, Severing, Kinds
<1>i. /\ q \in asked[Home] => \A p, k : Sent(p, k)' <=> Sent(p, k) \/ (p = q /\ k = "accepted")
      /\ q \notin asked[Home] => \A p, k : Sent(p, k)' <=> Sent(p, k)
      /\ Once' /\ SeveredLast'
  <2>1. CASE q \in asked[Home]
    <3>1. inbox' = Append(inbox, Message("accepted", q)) /\ "accepted" \in Kinds
      BY <1>w, <1>u, <2>1 DEF Approve, Kinds
    <3>2. ~Sent(q, "accepted") /\ ~SeveranceSent(q)
      BY <1>u DEF SeveranceSent, Kinds
    <3>3. QED BY <2>1, <3>1, <3>2, <1>z, SentAppend
  <2>2. CASE q \notin asked[Home]
    <3>1. inbox' = inbox
      BY <1>w, <1>u, <2>2 DEF Approve
    <3>2. QED BY <2>2, <3>1, <1>z, SentSame
  <2>3. QED BY <2>1, <2>2
<1>f. UNCHANGED <<account, mirror, accepted, loop>>
  BY DEF Approve, list, marks
<1>o. Standing(q) /\ Known(q) /\ Severed(q) /\ Called(q) /\ Mirrored(q)
  BY <1>q DEF Orderly, Standings
<1>l. Once' /\ SeveredLast' /\ OneSevers' /\ account' \in {Home, None}
  BY <1>o, <1>a, <1>i, <1>f, <1>z DEF Orderly
<1>s. ASSUME NEW p \in People, p # q PROVE Standings(p)'
  <2>1. Same(p)
    BY <1>s, <1>z, <1>u, <1>v, <1>a, <1>i, <1>f DEF Same, CallPcs, WorkPcs
  <2>2. QED BY <2>1, SamePerson DEF Orderly
<1> USE DEF Standing, Known, Severed, Called, Mirrored, Severing, SeveranceSent, AcceptanceSent, Refused, Marking, Kinds, SeverPcs
<1>m. Standings(q)'
  <2>1. CASE q \in asked[Home]
    <3>1. Standing(q)'
      BY <1>o, <2>1, <1>q, <1>u, <1>v, <1>w, <1>x, <1>a, <1>i, <1>f
    <3>2. Known(q)'
      BY <1>o, <2>1, <1>q, <1>u, <1>v, <1>w, <1>x, <1>a, <1>i, <1>f
    <3>3. Severed(q)'
      BY <1>o, <2>1, <1>q, <1>u, <1>v, <1>w, <1>x, <1>a, <1>i, <1>f
    <3>4. Called(q)'
      BY <1>o, <2>1, <1>q, <1>u, <1>v, <1>w, <1>x, <1>a, <1>i, <1>f
    <3>5. Mirrored(q)'
      BY <1>o, <2>1, <1>q, <1>u, <1>v, <1>w, <1>x, <1>a, <1>i, <1>f
    <3>6. QED BY <3>1, <3>2, <3>3, <3>4, <3>5 DEF Standings
  <2>2. CASE q \notin asked[Home]
    <3>1. Standing(q)'
      BY <1>o, <2>2, <1>q, <1>u, <1>v, <1>w, <1>x, <1>a, <1>i, <1>f
    <3>2. Known(q)'
      BY <1>o, <2>2, <1>q, <1>u, <1>v, <1>w, <1>x, <1>a, <1>i, <1>f
    <3>3. Severed(q)'
      BY <1>o, <2>2, <1>q, <1>u, <1>v, <1>w, <1>x, <1>a, <1>i, <1>f
    <3>4. Called(q)'
      BY <1>o, <2>2, <1>q, <1>u, <1>v, <1>w, <1>x, <1>a, <1>i, <1>f
    <3>5. Mirrored(q)'
      BY <1>o, <2>2, <1>q, <1>u, <1>v, <1>w, <1>x, <1>a, <1>i, <1>f
    <3>6. QED BY <3>1, <3>2, <3>3, <3>4, <3>5 DEF Standings
  <2>3. QED BY <1>q, <2>1, <2>2
<1>cached. cached' = cached
  BY DEF Approve, list
<1>told. ASSUME Calm, Told PROVE Told'
  <2>0. SUFFICES ASSUME account' # None PROVE \A p \in People : Lapsed(p)'
    BY DEF Told
  <2>a. \A p \in People : Lapsed(p)
    BY <2>0, <1>told, <1>a, <1>i, <1>f, <1>z DEF Told
  <2>b. ASSUME NEW p \in People, p # q PROVE Lapsed(p)'
    <3>1. Lasts(p)
      BY <2>b, <1>cached, <1>z, <1>u, <1>v, <1>a, <1>i, <1>f DEF Lasts, CallPcs, Pcs
    <3>2. QED BY <2>a, <3>1, LapsedSame
  <2>d. Lapsed(q)
    BY <2>a, <1>q
  <2>m. Lapsed(q)'
    <3>1. CASE q \in asked[Home]
      <4>1. QED BY <2>d, <1>o, <3>1, <1>cached, <1>q, <1>u, <1>v, <1>w, <1>x, <1>a, <1>i, <1>f DEF Lapsed, Pcs
    <3>2. CASE q \notin asked[Home]
      <4>1. QED BY <2>d, <1>o, <3>2, <1>cached, <1>q, <1>u, <1>v, <1>w, <1>x, <1>a, <1>i, <1>f DEF Lapsed, Pcs
    <3>3. QED BY <1>q, <3>1, <3>2
  <2>e. QED BY <2>b, <2>m
<1>e. QED BY <1>l, <1>s, <1>m, <1>told DEF Orderly

LEMMA AsksKeeps ==
  ASSUME Types, OnlyHasty, Orderly, NEW r \in People, Asks(r), ~Sent(r, "asks")
  PROVE  Orderly' /\ (Calm /\ Told => Told')
<1>z. /\ (\A p \in People : p # None) /\ account \in {Home, None} /\ Once /\ SeveredLast /\ OneSevers
      /\ inbox \in Seq(Mail)
      /\ account # None => account = Home /\ Home \in Accounts
  BY AtHome, ConnectionAssumption DEF Orderly, Types, Shape, Mail
<1>y. account = None => /\ loop = None /\ inbox = <<>> /\ bg = {} /\ ui = None
                        /\ (\A p, k : ~Sent(p, k)) /\ (\A p, x : ~At(p, x)) /\ (\A p, x : ~UiOn(p, x))
  BY DEF Types, Shape, Sent, At, UiOn
<1>u. \A p, x : UiOn(p, x)' <=> UiOn(p, x)
  BY UiSame DEF Asks
<1>a. (\A p, x : At(p, x)' <=> At(p, x)) /\ OneSevers'
  BY AtSame DEF Asks, Orderly
<1>i. (\A p, k : Sent(p, k)' <=> Sent(p, k) \/ (p = r /\ k = "asks")) /\ Once' /\ SeveredLast'
  <2>1. inbox' = Append(inbox, Message("asks", r)) /\ "asks" \in Kinds
    BY DEF Asks, Kinds
  <2>2. QED BY <1>z, <2>1, SentAppend
<1>f. UNCHANGED <<account, mirror, accepted, loop, row, agrees, asked>>
  BY DEF Asks, list, marks, server
<1>l. Once' /\ SeveredLast' /\ OneSevers' /\ account' \in {Home, None}
  BY <1>a, <1>i, <1>f, <1>z DEF Orderly
<1>s. ASSUME NEW p \in People PROVE Standings(p)'
  <2>1. Same(p)
    BY <1>s, <1>u, <1>a, <1>i, <1>f DEF Same, CallPcs, WorkPcs
  <2>2. QED BY <2>1, SamePerson DEF Orderly
<1>cached. cached' = cached
  BY DEF Asks, list
<1>told. ASSUME Calm, Told PROVE Told'
  <2>0. SUFFICES ASSUME account' # None PROVE \A p \in People : Lapsed(p)'
    BY DEF Told
  <2>a. \A p \in People : Lapsed(p)
    BY <2>0, <1>told, <1>a, <1>i, <1>f, <1>z DEF Told
  <2>b. ASSUME NEW p \in People PROVE Lapsed(p)'
    <3>1. Lasts(p)
      BY <2>b, <1>cached, <1>u, <1>a, <1>i, <1>f DEF Lasts, CallPcs, Pcs
    <3>2. QED BY <2>a, <3>1, LapsedSame
  <2>e. QED BY <2>b
<1>e. QED BY <1>l, <1>s, <1>told DEF Orderly

LEMMA SignOnKeeps ==
  ASSUME Types, OnlyHasty, Orderly, NEW a \in Accounts, SignOn(a)
  PROVE  Orderly' /\ (Calm /\ Told => Told')
<1>z. /\ (\A p \in People : p # None) /\ account \in {Home, None} /\ Once /\ SeveredLast /\ OneSevers
      /\ inbox \in Seq(Mail)
      /\ account # None => account = Home /\ Home \in Accounts
  BY AtHome, ConnectionAssumption DEF Orderly, Types, Shape, Mail
<1>y. account = None => /\ loop = None /\ inbox = <<>> /\ bg = {} /\ ui = None
                        /\ (\A p, k : ~Sent(p, k)) /\ (\A p, x : ~At(p, x)) /\ (\A p, x : ~UiOn(p, x))
  BY DEF Types, Shape, Sent, At, UiOn
<1>q. /\ account = None /\ account' = Home /\ Home # None /\ loop = None /\ loop' = None /\ bg = {} /\ ui = None
      /\ (\A p, k : ~Sent(p, k)) /\ (\A p, x : ~At(p, x)) /\ (\A p, x : ~UiOn(p, x))
      /\ mirror' = row[Home] /\ (\A p \in People : p # None)
  <2>1. account = None /\ UpsetIf(a # Home, "account") /\ account' = a /\ mirror' = row[a] /\ loop' = loop
    BY DEF SignOn, Home
  <2>2. a = Home /\ Home \in Accounts
    BY <2>1, HomeIs, NoUpset DEF UpsetKinds
  <2>3. QED BY <1>z, <1>y, <2>1, <2>2, ConnectionAssumption
<1>f. UNCHANGED <<accepted, row, agrees, asked>>
  BY DEF SignOn, server
<1>t. inbox' = <<>> /\ bg' = {} /\ ui' = None
  BY <1>q DEF SignOn
<1>s. (\A p, k : ~Sent(p, k)') /\ (\A p, x : ~At(p, x)') /\ (\A p, x : ~UiOn(p, x)')
  BY <1>t DEF Sent, At, UiOn
<1>l. Once' /\ SeveredLast' /\ OneSevers' /\ account' \in {Home, None}
  BY <1>t, <1>q DEF Once, SeveredLast, OneSevers
<1>r. \A p \in People : row[Home][p] \in {"none", "pending", "plain"}
  BY HomeIs, RowTypes DEF Types
<1>m. ASSUME NEW q \in People PROVE Standings(q)'
  <2>0. Standing(q) /\ Known(q) /\ Severed(q) /\ Called(q) /\ Mirrored(q)
    BY DEF Orderly, Standings
  <2> USE DEF Standing, Known, Severed, Called, Mirrored, Severing, SeveranceSent, AcceptanceSent, Refused, Marking, Kinds, SeverPcs
  <2>1. Standing(q)'
    BY <2>0, <1>q, <1>f, <1>s, <1>r
  <2>2. Known(q)'
    BY <2>0, <1>q, <1>f, <1>s, <1>r
  <2>3. Severed(q)'
    BY <2>0, <1>q, <1>f, <1>s, <1>r
  <2>4. Called(q)'
    BY <2>0, <1>q, <1>f, <1>s, <1>r
  <2>5. Mirrored(q)'
    BY <2>0, <1>q, <1>f, <1>s, <1>r
  <2>6. QED BY <2>1, <2>2, <2>3, <2>4, <2>5 DEF Standings
<1>told. Told'
  BY <1>q, <1>s DEF SignOn, Told, Lapsed, Severing
<1>e. QED BY <1>m, <1>l, <1>told DEF Orderly

LEMMA SignOffKeeps ==
  ASSUME Types, OnlyHasty, Orderly, SignOff
  PROVE  Orderly' /\ (Calm /\ Told => Told')
<1>z. /\ (\A p \in People : p # None) /\ account \in {Home, None} /\ Once /\ SeveredLast /\ OneSevers
      /\ inbox \in Seq(Mail)
      /\ account # None => account = Home /\ Home \in Accounts
  BY AtHome, ConnectionAssumption DEF Orderly, Types, Shape, Mail
<1>y. account = None => /\ loop = None /\ inbox = <<>> /\ bg = {} /\ ui = None
                        /\ (\A p, k : ~Sent(p, k)) /\ (\A p, x : ~At(p, x)) /\ (\A p, x : ~UiOn(p, x))
  BY DEF Types, Shape, Sent, At, UiOn
<1>q. /\ account' = None /\ loop = None /\ loop' = None
      /\ (\A p, k : ~Sent(p, k)) /\ (\A p, x : ~At(p, x)) /\ (\A p, x : ~UiOn(p, x)) /\ (\A p \in People : p # None)
  <2>1. Quiet
    BY NoUpset DEF SignOff, UpsetKinds
  <2>2. QED BY <2>1, <1>z DEF Quiet, Sent, At, UiOn, SignOff
<1>f. UNCHANGED <<accepted, row, agrees, asked>>
  BY DEF SignOff, marks, server
<1>t. inbox' = <<>> /\ bg' = {} /\ ui' = None
  BY <1>q DEF SignOff
<1>s. (\A p, k : ~Sent(p, k)') /\ (\A p, x : ~At(p, x)') /\ (\A p, x : ~UiOn(p, x)')
  BY <1>t DEF Sent, At, UiOn
<1>l. Once' /\ SeveredLast' /\ OneSevers' /\ account' \in {Home, None}
  BY <1>t, <1>q DEF Once, SeveredLast, OneSevers
<1>m. ASSUME NEW q \in People PROVE Standings(q)'
  <2>0. Standing(q) /\ Known(q) /\ Severed(q) /\ Called(q) /\ Mirrored(q)
    BY DEF Orderly, Standings
  <2> USE DEF Standing, Known, Severed, Called, Mirrored, Severing, SeveranceSent, AcceptanceSent, Refused, Marking, Kinds, SeverPcs
  <2>1. Standing(q)'
    BY <2>0, <1>q, <1>f, <1>s
  <2>2. Known(q)'
    BY <2>0, <1>q, <1>f, <1>s
  <2>3. Severed(q)'
    BY <2>0, <1>q, <1>f, <1>s
  <2>4. Called(q)'
    BY <2>0, <1>q, <1>f, <1>s
  <2>5. Mirrored(q)'
    BY <2>0, <1>q, <1>f, <1>s
  <2>6. QED BY <2>1, <2>2, <2>3, <2>4, <2>5 DEF Standings
<1>told. Told'
  BY <1>q DEF Told
<1>e. QED BY <1>m, <1>l, <1>told DEF Orderly

LEMMA StillKeeps ==
  ASSUME Types, OnlyHasty, Orderly, UNCHANGED vars
  PROVE  Orderly' /\ (Calm /\ Told => Told')
<1>a. (\A p, x : At(p, x)' <=> At(p, x)) /\ OneSevers'
  BY AtSame DEF vars, Orderly
<1>u. \A p, x : UiOn(p, x)' <=> UiOn(p, x)
  BY UiSame DEF vars
<1>i. (\A p, k : Sent(p, k)' <=> Sent(p, k)) /\ Once' /\ SeveredLast'
  BY SentSame DEF vars, Orderly
<1>f. UNCHANGED <<account, mirror, accepted, loop, row, agrees, asked>>
  BY DEF vars, list, marks, server
<1>l. Once' /\ SeveredLast' /\ OneSevers' /\ account' \in {Home, None}
  BY <1>a, <1>i, <1>f DEF Orderly
<1>s. ASSUME NEW p \in People PROVE Standings(p)'
  <2>1. Same(p)
    BY <1>s, <1>u, <1>a, <1>i, <1>f DEF Same, CallPcs, WorkPcs
  <2>2. QED BY <2>1, SamePerson DEF Orderly
<1>cached. cached' = cached
  BY DEF vars, list
<1>told. ASSUME Calm, Told PROVE Told'
  <2>0. SUFFICES ASSUME account' # None PROVE \A p \in People : Lapsed(p)'
    BY DEF Told
  <2>a. \A p \in People : Lapsed(p)
    BY <2>0, <1>told, <1>a, <1>i, <1>f DEF Told
  <2>b. ASSUME NEW p \in People PROVE Lapsed(p)'
    <3>1. Lasts(p)
      BY <2>b, <1>cached, <1>u, <1>a, <1>i, <1>f DEF Lasts, CallPcs, Pcs
    <3>2. QED BY <2>a, <3>1, LapsedSame
  <2>e. QED BY <2>b
<1>e. QED BY <1>l, <1>s, <1>told DEF Orderly

LEMMA InitOrderly ==
  ASSUME Init, Accounts # {}
  PROVE  Orderly
<1>1. Home \in Accounts /\ \A p \in People : p # None
  BY ConnectionAssumption DEF Home
<1>2. (\A p, k : ~Sent(p, k)) /\ (\A p, x : ~At(p, x)) /\ (\A p, x : ~UiOn(p, x))
  BY DEF Init, Sent, At, UiOn
<1>3. \A p \in People : row[Home][p] = "none" /\ p \notin agrees[Home] /\ p \notin asked[Home]
  BY <1>1 DEF Init
<1>4. account = None /\ accepted = {} /\ loop = None
  BY DEF Init
<1>5. Once /\ SeveredLast /\ OneSevers
  BY DEF Init, Once, SeveredLast, OneSevers
<1>6. ASSUME NEW p \in People PROVE Standings(p)
  BY <1>1, <1>2, <1>3, <1>4 DEF Standings, Standing, Known, Severed, Called, Mirrored, Severing, SeveranceSent,
     AcceptanceSent, Refused, Marking
<1>7. QED BY <1>4, <1>5, <1>6 DEF Orderly

LEMMA AskingSame ==
  ASSUME Asking, reqs' \subseteq reqs, wants' = wants,
         \A p \in People : Sent(p, "asks")' => Sent(p, "asks"),
         \A p \in People : Approving(p) => Approving(p)' \/ p \notin reqs',
         ui' # None /\ ui'.approves => ui'.pc \in ApprovingPcs
  PROVE  Asking'
<1>1. ASSUME NEW p \in People PROVE Requested(p)'
  <2>1. Requested(p)
    BY DEF Asking
  <2>2. QED BY <2>1 DEF Requested
<1>2. QED BY <1>1 DEF Asking

\* The call untouched.
LEMMA ApprovingSame ==
  ASSUME Asking, ui' = ui
  PROVE  /\ \A p : Approving(p)' <=> Approving(p)
         /\ ui' # None /\ ui'.approves => ui'.pc \in ApprovingPcs
  BY DEF Approving, Asking

\* Taking a message, or adding one that asks nothing, asks nothing.
LEMMA AsksNothing ==
  ASSUME Types, Once, SeveredLast, inbox # <<>>, Rest
  PROVE  \A p \in People : Sent(p, "asks")' => Sent(p, "asks")
<1>1. PICK w : w = Who
  OBVIOUS
<1>2. PICK h : h = Head(inbox).kind
  OBVIOUS
<1>3. inbox \in Seq(Mail)
  BY DEF Types, Shape, Mail
<1>4. QED BY <1>1, <1>2, <1>3, SentTail

LEMMA TellsNothing ==
  ASSUME Types, NEW kind \in Kinds \ {"asks"}, NEW q \in People,
         inbox' = inbox \/ inbox' = Append(inbox, Message(kind, q))
  PROVE  \A p \in People : Sent(p, "asks")' => Sent(p, "asks")
<1>1. CASE inbox' = inbox
  BY <1>1, SentSame
<1>2. CASE inbox' = Append(inbox, Message(kind, q))
  <2>1. inbox \in Seq(Mail)
    BY DEF Types, Shape, Mail
  <2>2. QED BY <1>2, <2>1, SentAppend
<1>3. QED BY <1>1, <1>2

\* The call goes on as who it is; a call that approves goes on as one.
LEMMA ApprovingGoes ==
  ASSUME Types, Asking, NEW pc \in Pcs, ui # None, ui.approves => pc \in ApprovingPcs,
         UiGoes(pc) \/ \E entries \in Entries : ui' = [ui EXCEPT !.pc = pc, !.list = entries]
  PROVE  /\ \A p : Approving(p) => Approving(p)'
         /\ ui' # None /\ ui'.approves => ui'.pc \in ApprovingPcs
<1>1. ui \in Calls
  BY DEF Types, TypeOK
<1>2. ui' \in Calls /\ ui'.pc = pc /\ ui'.who = ui.who /\ ui'.approves = ui.approves
  <2> PICK u : u = ui
    OBVIOUS
  <2>1. u \in Calls
    BY <1>1
  <2>2. CASE ui' = [u EXCEPT !.pc = pc]
    <3>1. PICK h : h = [u EXCEPT !.pc = pc]
      OBVIOUS
    <3>2. h \in Calls /\ h.pc = pc /\ h.who = u.who /\ h.approves = u.approves
      BY <2>1, <3>1, CallTypes
    <3>3. QED BY <2>2, <3>1, <3>2
  <2>3. ASSUME NEW entries \in Entries, ui' = [u EXCEPT !.pc = pc, !.list = entries]
        PROVE  ui' \in Calls /\ ui'.pc = pc /\ ui'.who = u.who /\ ui'.approves = u.approves
    <3>1. PICK h : h = [u EXCEPT !.pc = pc, !.list = entries]
      OBVIOUS
    <3>2. h \in Calls /\ h.pc = pc /\ h.who = u.who /\ h.approves = u.approves
      BY <2>1, <3>1 DEF Calls, Pcs
    <3>3. QED BY <2>3, <3>1, <3>2
  <2>4. QED BY <2>2, <2>3 DEF UiGoes
<1>3. ui' # None
  BY <1>2, NoneIsNoCall
<1>4. QED BY <1>2, <1>3 DEF Approving

LEMMA UiAsking ==
  ASSUME Types, OnlyHasty, Asking, UiRuns
  PROVE  Asking'
<1>1. CASE SendInsert
  <2>1. ui.who \in People /\ ui # None
    BY <1>1, CallFields DEF SendInsert, UiAt, Types, TypeOK
  <2>2. inbox' = Append(inbox, Message("stored", ui.who)) \/ inbox' = Append(inbox, Message("refused", ui.who))
    BY <1>1 DEF SendInsert, Inserted
  <2>3. "stored" \in Kinds \ {"asks"} /\ "refused" \in Kinds \ {"asks"}
    BY DEF Kinds
  <2>4. \A p \in People : Sent(p, "asks")' => Sent(p, "asks")
    <3>1. PICK q : q = ui.who
      OBVIOUS
    <3>2. CASE inbox' = Append(inbox, Message("stored", q))
      BY <3>1, <3>2, <2>1, <2>3, TellsNothing
    <3>3. CASE inbox' = Append(inbox, Message("refused", q))
      BY <3>1, <3>3, <2>1, <2>3, TellsNothing
    <3>4. QED BY <3>1, <3>2, <3>3, <2>2
  <2>5. /\ \A p : Approving(p) => Approving(p)'
        /\ ui' # None /\ ui'.approves => ui'.pc \in ApprovingPcs
    <3>1. UiGoes("record") /\ "record" \in Pcs /\ "record" \in ApprovingPcs
      BY <1>1 DEF SendInsert, Pcs, ApprovingPcs
    <3>2. QED BY <2>1, <3>1, ApprovingGoes
  <2>6. reqs' = reqs /\ wants' = wants
    BY <1>1 DEF SendInsert, Inserted
  <2>7. QED BY <2>4, <2>5, <2>6, AskingSame
<1>2. CASE Record \/ ListOf \/ SendDelete
  <2>1. reqs' = reqs /\ wants' = wants /\ inbox' = inbox /\ ui # None
    BY <1>2 DEF Record, ListOf, SendDelete, Deleted, server, UiAt
  <2>2. \E pc \in {"list", "publish"} :
          UiGoes(pc) \/ \E entries \in Entries : ui' = [ui EXCEPT !.pc = pc, !.list = entries]
    BY <1>2 DEF Record, ListOf, SendDelete, Types, TypeOK
  <2>3. PICK pc \in {"list", "publish"} :
          UiGoes(pc) \/ \E entries \in Entries : ui' = [ui EXCEPT !.pc = pc, !.list = entries]
    BY <2>2
  <2>4. pc \in Pcs /\ pc \in ApprovingPcs
    BY DEF Pcs, ApprovingPcs
  <2>5. /\ \A p : Approving(p) => Approving(p)'
        /\ ui' # None /\ ui'.approves => ui'.pc \in ApprovingPcs
    BY <2>1, <2>3, <2>4, ApprovingGoes
  <2>6. QED BY <2>1, <2>5, SentSame, AskingSame
<1>3. CASE PublishBuddyList
  <2>1. wants' = wants /\ inbox' = inbox /\ reqs' \subseteq reqs /\ ui' = None
    BY <1>3 DEF PublishBuddyList, server, ForgetConnectionRequest
  <2>2. \A p \in People : Approving(p) => p \notin reqs'
    BY <1>3 DEF PublishBuddyList, Approving, ForgetConnectionRequest
  <2>3. QED BY <2>1, <2>2, SentSame, AskingSame
<1>4. CASE RemoveRow
  <2>1. reqs' = reqs /\ wants' = wants /\ inbox' = inbox /\ ~ui.approves /\ ui # None
    BY <1>4 DEF RemoveRow, server, UiAt, Asking, ApprovingPcs
  <2>2. ui' = None \/ UiGoes("delete")
    BY <1>4 DEF RemoveRow
  <2>3. /\ \A p : ~Approving(p)
        /\ ui' # None /\ ui'.approves => ui'.pc \in ApprovingPcs
    <3>1. \A p : ~Approving(p)
      BY <2>1 DEF Approving
    <3>2. CASE UiGoes("delete")
      <4>1. "delete" \in Pcs
        BY DEF Pcs
      <4>2. QED BY <2>1, <3>1, <3>2, <4>1, ApprovingGoes
    <3>3. QED BY <2>2, <3>1, <3>2
  <2>4. QED BY <2>1, <2>3, SentSame, AskingSame
<1>5. CASE AddRow
  <2>1. wants' = wants /\ inbox' = inbox /\ reqs' \subseteq reqs /\ ui # None
    BY <1>5 DEF AddRow, server, ForgetConnectionRequest, UiAt
  <2>2. CASE mirror[ui.who] # "none"
    <3>1. ui' = None /\ \A p \in People : Approving(p) => p \notin reqs'
      BY <1>5, <2>2 DEF AddRow, Approving, ForgetConnectionRequest
    <3>2. QED BY <2>1, <3>1, SentSame, AskingSame
  <2>3. CASE mirror[ui.who] = "none"
    <3>1. UiGoes("insert") /\ "insert" \in Pcs /\ "insert" \in ApprovingPcs
      BY <1>5, <2>3 DEF AddRow, Pcs, ApprovingPcs
    <3>2. /\ \A p : Approving(p) => Approving(p)'
          /\ ui' # None /\ ui'.approves => ui'.pc \in ApprovingPcs
      BY <2>1, <3>1, ApprovingGoes
    <3>3. QED BY <2>1, <3>2, SentSame, AskingSame
  <2>4. QED BY <2>2, <2>3
<1>6. QED BY <1>1, <1>2, <1>3, <1>4, <1>5, NothingRefused DEF UiRuns

LEMMA LoopAsking ==
  ASSUME Types, Orderly, Asking, LoopRuns
  PROVE  Asking'
<1>0. Once /\ SeveredLast
  BY DEF Orderly
<1>1. CASE HandleFeedbagStatus \/ Accepted \/ HandleConnectionResponse
  <2>1. Rest /\ inbox # <<>> /\ reqs' = reqs /\ wants' = wants /\ ui' = ui
    BY <1>1 DEF HandleFeedbagStatus, Accepted, HandleConnectionResponse, Reads, server
  <2>2. QED BY <1>0, <2>1, AsksNothing, ApprovingSame, AskingSame
<1>2. CASE HandleAccepted
  <2>1. inbox' = inbox /\ reqs' = reqs /\ wants' = wants /\ ui' = ui
    BY <1>2 DEF HandleAccepted, server
  <2>2. QED BY <2>1, SentSame, ApprovingSame, AskingSame
<1>3. CASE HandleConnectionRequest
  <2>1. PICK q : q = Who
    OBVIOUS
  <2>2. PICK h : h = Head(inbox).kind
    OBVIOUS
  <2>3. /\ Rest /\ inbox # <<>> /\ inbox \in Seq(Mail) /\ h = "asks"
        /\ reqs' = reqs \cup {q} /\ wants' = wants /\ ui' = ui
    BY <1>3, <2>1, <2>2 DEF HandleConnectionRequest, Reads, server, Types, Shape, Mail
  <2>4. /\ q \in People /\ Sent(q, "asks")
        /\ \A p, k : Sent(p, k)' <=> Sent(p, k) /\ ~(p = q /\ k = h)
    BY <1>0, <2>1, <2>2, <2>3, SentTail
  <2>5. ASSUME NEW p \in People PROVE Requested(p)'
    <3>1. Requested(p)
      BY DEF Asking
    <3>2. Approving(p)' <=> Approving(p)
      BY <2>3, ApprovingSame
    <3>3. QED BY <3>1, <3>2, <2>3, <2>4 DEF Requested
  <2>6. QED BY <2>3, <2>5, ApprovingSame DEF Asking
<1>4. QED BY <1>1, <1>2, <1>3 DEF LoopRuns

LEMMA BgAsking ==
  ASSUME OnlyHasty, Asking, BgRuns
  PROVE  Asking'
<1>1. inbox' = inbox /\ reqs' = reqs /\ wants' = wants /\ ui' = ui
  BY NothingRefused DEF BgRuns, CheckAccepted, MarkBuddyPending, ReAddBuddyPending, ListPending, Decide, Forget, SeverRow, SendSevered,
     ListSevered, PublishSevered, server, Inserted, Deleted
<1>2. QED BY <1>1, SentSame, ApprovingSame, AskingSame

LEMMA PeersAsking ==
  ASSUME Types, Orderly, Asking, Peers
  PROVE  Asking'
<1>1. ASSUME NEW a \in Accounts, NEW p \in People, Agrees(a, p) \/ Declines(a, p) \/ Removes(a, p)
      PROVE  Asking'
  <2>1. reqs' = reqs /\ wants' = wants /\ ui' = ui
    BY <1>1 DEF Agrees, Declines, Removes
  <2>2. \E kind \in Kinds \ {"asks"} : inbox' = inbox \/ inbox' = Append(inbox, Message(kind, p))
    <3>1. "accepted" \in Kinds \ {"asks"} /\ "preauthorized" \in Kinds \ {"asks"} /\ "declined" \in Kinds \ {"asks"}
          /\ "removed" \in Kinds \ {"asks"}
      BY DEF Kinds
    <3>2. QED BY <1>1, <3>1 DEF Agrees, Declines, Removes, Tell
  <2>3. QED BY <2>1, <2>2, TellsNothing, ApprovingSame, AskingSame
<1>2. ASSUME NEW r \in People, Asks(r)
      PROVE  Asking'
  <2>1. account = Home /\ Home \in Accounts
    BY <1>2, AtHome DEF Asks, Orderly
  <2>2. r \notin wants[Home] /\ wants'[Home] = wants[Home] \cup {r}
    BY <1>2, <2>1, SetTypes DEF Asks, Types, Shape
  <2>3. inbox' = Append(inbox, Message("asks", r)) /\ reqs' = reqs /\ ui' = ui /\ inbox \in Seq(Mail) /\ "asks" \in Kinds
    BY <1>2 DEF Asks, Types, Shape, Mail, Kinds
  <2>4. \A p, k : Sent(p, k)' <=> Sent(p, k) \/ (p = r /\ k = "asks")
    BY <2>3, SentAppend
  <2>5. ASSUME NEW p \in People PROVE Requested(p)'
    <3>1. Requested(p)
      BY DEF Asking
    <3>2. Approving(p)' <=> Approving(p)
      BY <2>3, ApprovingSame
    <3>3. QED BY <3>1, <3>2, <2>2, <2>3, <2>4 DEF Requested
  <2>6. QED BY <2>3, <2>5, ApprovingSame DEF Asking
<1>3. QED BY <1>1, <1>2 DEF Peers

LEMMA UserAsking ==
  ASSUME Types, OnlyHasty, Orderly, Asking, User
  PROVE  Asking'
<1>1. ASSUME NEW p \in People, AddBuddy(p) \/ RemoveBuddy(p)
      PROVE  Asking'
  <2>1. reqs' = reqs /\ wants' = wants /\ inbox' = inbox /\ ui = None
    BY <1>1 DEF AddBuddy, RemoveBuddy, Call, server
  <2>2. ui' # None /\ ui'.approves => ui'.pc \in ApprovingPcs
    <3>1. ~ui'.approves
      BY <1>1, CallStarts DEF AddBuddy, RemoveBuddy, Pcs
    <3>2. QED BY <3>1
  <2>3. QED BY <2>1, <2>2, SentSame, AskingSame DEF Approving
<1>2. ASSUME NEW q \in People, Approve(q)
      PROVE  Asking'
  <2>1. /\ account = Home /\ Home \in Accounts /\ ui = None /\ q \in reqs /\ reqs' = reqs
        /\ \A p : Approving(p)' <=> p = q
        /\ ui'.pc \in ApprovingPcs
    <3>1. "add" \in Pcs /\ Call("add", q) /\ q \in reqs /\ reqs' = reqs
      BY <1>2 DEF Approve, Pcs
    <3>2. ui = None /\ ui' # None /\ account # None /\ ui'.pc = "add" /\ ui'.who = q /\ ui'.approves
      BY <3>1, CallStarts DEF Call
    <3>3. QED BY <3>1, <3>2, AtHome DEF Orderly, Approving, ApprovingPcs
  <2>2. wants'[Home] = wants[Home] \ {q}
    BY <1>2, <2>1, SetTypes DEF Approve, Types, Shape
  <2>3. \A p \in People : Sent(p, "asks")' => Sent(p, "asks")
    <3>1. \E kind \in Kinds \ {"asks"} : inbox' = inbox \/ inbox' = Append(inbox, Message(kind, q))
      <4>1. "accepted" \in Kinds \ {"asks"} /\ "preauthorized" \in Kinds \ {"asks"}
        BY DEF Kinds
      <4>2. QED BY <1>2, <4>1 DEF Approve
    <3>2. QED BY <3>1, TellsNothing
  <2>4. \A p : ~Approving(p)
    BY <2>1 DEF Approving
  <2>5. ASSUME NEW p \in People PROVE Requested(p)'
    <3>1. Requested(p)
      BY DEF Asking
    <3>2. QED BY <3>1, <2>1, <2>2, <2>3, <2>4 DEF Requested
  <2>6. QED BY <2>1, <2>5 DEF Asking
<1>3. ASSUME NEW q \in People, DeclineConnection(q)
      PROVE  Asking'
  <2>1. account = Home /\ Home \in Accounts /\ ui = None /\ ui' = ui /\ q \in reqs /\ reqs' = reqs \ {q} /\ inbox' = inbox
    BY <1>3, AtHome DEF DeclineConnection, ForgetConnectionRequest, Orderly
  <2>2. wants'[Home] = wants[Home] \ {q}
    BY <1>3, <2>1, SetTypes DEF DeclineConnection, Types, Shape
  <2>3. \A p : ~Approving(p)
    BY <2>1 DEF Approving
  <2>4. ASSUME NEW p \in People PROVE Requested(p)'
    <3>1. Requested(p)
      BY DEF Asking
    <3>2. Sent(p, "asks")' <=> Sent(p, "asks")
      BY <2>1, SentSame
    <3>3. QED BY <3>1, <3>2, <2>1, <2>2, <2>3 DEF Requested
  <2>5. QED BY <2>1, <2>4 DEF Asking
<1>4. ASSUME NEW a \in Accounts, SignOn(a) PROVE Asking'
  <2>1. reqs' = reqs /\ wants' = wants /\ inbox' = <<>> /\ ui' = ui
    BY <1>4 DEF SignOn, server
  <2>2. \A p, k : ~Sent(p, k)'
    BY <2>1 DEF Sent
  <2>3. QED BY <2>1, <2>2, ApprovingSame, AskingSame
<1>5. CASE SignOff
  <2>1. Quiet
    BY <1>5, NoUpset DEF SignOff, UpsetKinds
  <2>2. reqs' = reqs /\ wants' = wants /\ inbox' = <<>> /\ ui = None /\ ui' = None
    BY <1>5, <2>1 DEF SignOff, server, Quiet, Threads
  <2>3. \A p, k : ~Sent(p, k)'
    BY <2>2 DEF Sent
  <2>4. QED BY <2>2, <2>3, AskingSame DEF Approving
<1>6. QED BY <1>1, <1>2, <1>3, <1>4, <1>5 DEF User

LEMMA InitAsking ==
  ASSUME Init
  PROVE  Asking
  BY DEF Init, Asking, Requested, Sent, Approving

LEMMA NextAsking ==
  ASSUME Types, OnlyHasty, Orderly, Asking, [Next]_vars
  PROVE  Asking'
<1>1. CASE UNCHANGED vars
  BY <1>1, SentSame, ApprovingSame, AskingSame DEF vars, server
<1>2. CASE Runs
  BY <1>2, UiAsking, LoopAsking, BgAsking DEF Runs
<1>3. CASE Peers
  BY <1>3, PeersAsking
<1>4. CASE User
  BY <1>4, UserAsking
<1>5. QED BY <1>1, <1>2, <1>3, <1>4 DEF Next

\* What the list's three copies being equal waits for.
Publishing == Running("publish") \/ Running("decide") \/ Running("remove")

LEMMA ListsStay ==
  ASSUME Listed, account # None, mirror' = mirror, cached' = cached, shown' = shown,
         WillList => WillList', Publishing => Publishing' \/ WillList',
         \A t \in Threads' : t.pc = "publish" => t \in Threads,
         \A t \in bg' : t.pc = "decide" => t \in bg,
         \A p : p \in accepted /\ At(p, "decide") => p \in accepted' \/ (At(p, "remove")' /\ mirror[p] # "none"),
         \A p : At(p, "remove") /\ mirror[p] # "none" => At(p, "remove")'
  PROVE  Listed'
<1>1. /\ cached = mirror \/ WillList
      /\ shown = mirror \/ WillList \/ Publishing
      /\ \A g \in Threads : g.pc = "publish" => g.list = mirror
      /\ \A g \in bg : g.pc = "decide" => \/ g.list = mirror \/ g.who \in accepted
                                          \/ At(g.who, "remove") /\ mirror[g.who] # "none"
  BY DEF Listed, Publishing
<1>2. cached' = mirror' \/ WillList'
  BY <1>1
<1>3. shown' = mirror' \/ WillList' \/ Publishing'
  BY <1>1
<1>4. \A g \in Threads' : g.pc = "publish" => g.list = mirror'
  BY <1>1
<1>5. ASSUME NEW g \in bg', g.pc = "decide"
      PROVE  g.list = mirror' \/ g.who \in accepted' \/ (At(g.who, "remove")' /\ mirror'[g.who] # "none")
  <2>1. g \in bg
    BY <1>5
  <2>2. PICK q : q = g.who
    OBVIOUS
  <2>3. At(q, "decide")
    BY <1>5, <2>1, <2>2 DEF At
  <2>4. g.list = mirror \/ q \in accepted \/ (At(q, "remove") /\ mirror[q] # "none")
    BY <1>1, <1>5, <2>1, <2>2
  <2>5. g.list = mirror' \/ q \in accepted' \/ (At(q, "remove")' /\ mirror'[q] # "none")
    BY <2>3, <2>4
  <2>6. QED BY <2>2, <2>5 DEF At
<1>6. QED BY <1>2, <1>3, <1>4, <1>5 DEF Listed, Publishing

LEMMA ListsClear ==
  ASSUME mirror' = cached', mirror' = shown',
         \A t \in Threads' : t.pc # "publish",
         \A t \in bg' : t.pc = "decide" => t.list = mirror' \/ t.who \in accepted'
  PROVE  Listed'
  BY DEF Listed

\* A goroutine, or the call, goes on or ends.
LEMMA BgMoves ==
  ASSUME NEW g \in bg, NEW h, bg' = (bg \ {g}) \cup {h}, ui' = ui, NEW old, old = g.pc, NEW pc, pc = h.pc
  PROVE  /\ \A x : Running(x) /\ x # old => Running(x)'
         /\ Running(pc)'
         /\ \A t \in Threads' : t \in Threads \/ t = h
         /\ \A t \in bg' : t \in bg \/ t = h
<1>1. Threads' = bg' \cup (IF ui = None THEN {} ELSE {ui}) /\ Threads = bg \cup (IF ui = None THEN {} ELSE {ui})
  BY DEF Threads
<1>2. \A x : Running(x)' <=> \E t \in Threads' : t.pc = x
  BY DEF Running
<1>3. \A x : Running(x) <=> \E t \in Threads : t.pc = x
  BY DEF Running
<1>4. QED BY <1>1, <1>2, <1>3

LEMMA BgEnds ==
  ASSUME NEW g \in bg, bg' = bg \ {g}, ui' = ui, NEW old, old = g.pc
  PROVE  /\ \A x : Running(x) /\ x # old => Running(x)'
         /\ \A t \in Threads' : t \in Threads
         /\ \A t \in bg' : t \in bg
<1>1. Threads' = bg' \cup (IF ui = None THEN {} ELSE {ui}) /\ Threads = bg \cup (IF ui = None THEN {} ELSE {ui})
  BY DEF Threads
<1>2. \A x : Running(x)' <=> \E t \in Threads' : t.pc = x
  BY DEF Running
<1>3. QED BY <1>1, <1>2 DEF Running

LEMMA BgGrows ==
  ASSUME NEW h, bg' = bg \/ bg' = bg \cup {h}, ui' = ui
  PROVE  /\ \A x : Running(x) => Running(x)'
         /\ \A t \in Threads' : t \in Threads \/ t = h
         /\ \A t \in bg' : t \in bg \/ t = h
         /\ \A p, x : At(p, x) => At(p, x)'
<1>1. Threads' = bg' \cup (IF ui = None THEN {} ELSE {ui}) /\ Threads = bg \cup (IF ui = None THEN {} ELSE {ui})
  BY DEF Threads
<1>2. \A x : Running(x)' <=> \E t \in Threads' : t.pc = x
  BY DEF Running
<1>3. QED BY <1>1, <1>2 DEF Running, At

LEMMA UiMoves ==
  ASSUME ui # None, NEW h, ui' = h, h # None, bg' = bg, NEW old, old = ui.pc, NEW pc, pc = h.pc
  PROVE  /\ \A x : Running(x) /\ x # old => Running(x)'
         /\ Running(pc)'
         /\ \A t \in Threads' : t \in Threads \/ t = h
         /\ \A t \in bg' : t \in bg
<1>1. Threads' = bg \cup {h} /\ Threads = bg \cup {ui}
  BY DEF Threads
<1>2. \A x : Running(x)' <=> \E t \in Threads' : t.pc = x
  BY DEF Running
<1>3. QED BY <1>1, <1>2 DEF Running

LEMMA UiLeaves ==
  ASSUME ui # None, ui' = None, bg' = bg, NEW old, old = ui.pc
  PROVE  /\ \A x : Running(x) /\ x # old => Running(x)'
         /\ \A t \in Threads' : t \in Threads
<1>1. Threads' = bg /\ Threads = bg \cup {ui}
  BY DEF Threads
<1>2. \A x : Running(x)' <=> \E t \in Threads' : t.pc = x
  BY DEF Running
<1>3. QED BY <1>1, <1>2 DEF Running

LEMMA UiComes ==
  ASSUME ui = None, NEW h, ui' = h, bg' = bg
  PROVE  /\ \A x : Running(x) => Running(x)'
         /\ \A t \in Threads' : t \in Threads \/ t = h
<1>1. Threads' \subseteq bg \cup {h} /\ bg \subseteq Threads' /\ Threads = bg
  BY DEF Threads
<1>2. \A x : Running(x)' <=> \E t \in Threads' : t.pc = x
  BY DEF Running
<1>3. QED BY <1>1, <1>2 DEF Running

LEMMA ListsSteady ==
  ASSUME Listed, UNCHANGED <<account, mirror, cached, shown, ui, bg>>, accepted \subseteq accepted'
  PROVE  Listed'
<1>1. CASE account = None
  BY <1>1 DEF Listed
<1>2. CASE account # None
  <2>1. (\A p, pc : At(p, pc)' <=> At(p, pc)) /\ Threads' = Threads
    BY AtSame DEF Threads
  <2>2. \A x : Running(x)' <=> Running(x)
    BY <2>1 DEF Running
  <2>3. QED BY <1>2, <2>1, <2>2, ListsStay DEF WillList, Publishing
<1>3. QED BY <1>1, <1>2

\* The call's part.
LEMMA UiLists ==
  ASSUME Types, OnlyHasty, Listed, UiRuns
  PROVE  Listed'
<1>1. ui \in Calls /\ ui # None /\ account # None /\ bg' = bg /\ accepted' = accepted /\ account' = account
  BY CallFields, NothingRefused DEF UiRuns, SendInsert, Record, ListOf, PublishBuddyList, RemoveRow, SendDelete, AddRow, UiAt, Types, TypeOK, Shape, marks
<1>2. \A p, pc : At(p, pc)' <=> At(p, pc)
  BY <1>1, AtSame
<1>l. /\ cached = mirror \/ WillList
      /\ shown = mirror \/ WillList \/ Publishing
      /\ \A g \in Threads : g.pc = "publish" => g.list = mirror
      /\ \A g \in bg : g.pc = "decide" => \/ g.list = mirror \/ g.who \in accepted
                                          \/ At(g.who, "remove") /\ mirror[g.who] # "none"
  BY <1>1 DEF Listed, Publishing
<1>3. CASE SendInsert \/ Record \/ SendDelete
  <2>1. \E pc \in {"record", "list"} : UiGoes(pc)
    BY <1>3 DEF SendInsert, Record, SendDelete
  <2>2. PICK pc \in {"record", "list"} : UiGoes(pc)
    BY <2>1
  <2>3. PICK h : h = [ui EXCEPT !.pc = pc]
    OBVIOUS
  <2>4. ui' = h /\ h # None /\ h.pc = pc /\ ui.pc \notin {"publish", "decide", "remove"}
    <3>1. pc \in Pcs
      BY DEF Pcs
    <3>2. h \in Calls /\ h.pc = pc
      BY <1>1, <2>3, <3>1, CallTypes
    <3>3. h # None
      BY <3>2, NoneIsNoCall
    <3>4. QED BY <1>3, <2>2, <2>3, <3>2, <3>3 DEF UiGoes, SendInsert, Record, SendDelete, UiAt
  <2>5. /\ Running(pc)' /\ \A t \in Threads' : t \in Threads \/ t = h
        /\ \A x : Running(x) /\ x \in {"publish", "decide", "remove"} => Running(x)'
    BY <1>1, <2>4, UiMoves
  <2>6. WillList'
    BY <2>5 DEF WillList
  <2>7. mirror' = mirror /\ cached' = cached /\ shown' = shown
    BY <1>3 DEF SendInsert, Record, SendDelete, list
  <2>8. QED BY <1>1, <1>2, <2>4, <2>5, <2>6, <2>7, ListsStay
<1>4. CASE ListOf
  <2>1. PICK h : h = [ui EXCEPT !.pc = "publish", !.list = mirror]
    OBVIOUS
  <2>2. ui' = h /\ h # None /\ h.pc = "publish" /\ h.list = mirror /\ mirror' = mirror /\ cached' = mirror
    <3>1. "publish" \in Pcs /\ mirror \in Entries
      BY DEF Pcs, Types, TypeOK
    <3>2. h \in Calls /\ h.pc = "publish" /\ h.list = mirror
      BY <1>1, <2>1, <3>1 DEF Calls, Pcs
    <3>3. h # None
      BY <3>2, NoneIsNoCall
    <3>4. QED BY <1>4, <2>1, <3>2, <3>3 DEF ListOf
  <2>3. Running("publish")' /\ \A t \in Threads' : t \in Threads \/ t = h
    BY <1>1, <2>2, UiMoves
  <2>4. QED BY <1>1, <1>2, <1>l, <2>2, <2>3 DEF Listed, Publishing
<1>5. CASE PublishBuddyList
  <2>1. ui' = None /\ shown' = ui.list /\ ui.pc = "publish" /\ ui \in Threads /\ mirror' = mirror /\ cached' = cached
    BY <1>1, <1>5 DEF PublishBuddyList, Publish, UiAt, Threads
  <2>2. shown' = mirror
    BY <1>l, <2>1
  <2>3. /\ \A x : Running(x) /\ x # "publish" => Running(x)'
        /\ \A t \in Threads' : t \in Threads
    BY <1>1, <2>1, UiLeaves
  <2>4. WillList => WillList'
    BY <2>3 DEF WillList
  <2>5. QED BY <1>1, <1>2, <1>l, <2>1, <2>2, <2>3, <2>4 DEF Listed
<1>6. CASE (RemoveRow /\ mirror[ui.who] = "none") \/ (AddRow /\ mirror[ui.who] # "none")
  <2>1. ui' = None /\ ui.pc \in {"remove", "new", "add"} /\ mirror' = mirror /\ cached' = cached /\ shown' \in {cached, shown}
        /\ (shown' = shown => ui.pc # "remove" \/ shown' = cached)
    BY <1>6 DEF RemoveRow, AddRow, Publish, UiAt
  <2>2. /\ \A x : Running(x) /\ x # ui.pc => Running(x)'
        /\ \A t \in Threads' : t \in Threads
    <3>1. PICK old : old = ui.pc
      OBVIOUS
    <3>2. QED BY <1>1, <2>1, <3>1, UiLeaves
  <2>3. WillList => WillList'
    BY <2>1, <2>2 DEF WillList
  <2>4. shown' = cached \/ (Publishing => Publishing')
    BY <2>1, <2>2 DEF Publishing
  <2>5. shown' = mirror' \/ WillList' \/ Publishing'
    BY <1>l, <2>1, <2>3, <2>4
  <2>6. QED BY <1>1, <1>2, <1>l, <2>1, <2>2, <2>3, <2>5 DEF Listed, Publishing
<1>7. CASE (RemoveRow /\ mirror[ui.who] # "none") \/ (AddRow /\ mirror[ui.who] = "none")
  <2>1. /\ UiGoes("delete") \/ UiGoes("insert")
        /\ Overtakes({"publish", "decide", "resend", "delete"})
    BY <1>7 DEF RemoveRow, AddRow
  <2>2. \A t \in Threads : t.pc # "publish" /\ t.pc # "decide"
    BY <2>1, NobodyOvertaken
  <2>3. PICK pc \in {"delete", "insert"} : UiGoes(pc)
    BY <2>1
  <2>4. PICK h : h = [ui EXCEPT !.pc = pc]
    OBVIOUS
  <2>5. ui' = h /\ h # None /\ h.pc = pc
    <3>1. pc \in Pcs
      BY DEF Pcs
    <3>2. h \in Calls /\ h.pc = pc
      BY <1>1, <2>4, <3>1, CallTypes
    <3>3. h # None
      BY <3>2, NoneIsNoCall
    <3>4. QED BY <2>3, <2>4, <3>2, <3>3 DEF UiGoes
  <2>6. Running(pc)' /\ \A t \in Threads' : t \in Threads \/ t = h
    BY <1>1, <2>5, UiMoves
  <2>7. WillList'
    BY <2>6 DEF WillList
  <2>8. (\A t \in Threads' : t.pc # "publish") /\ \A t \in bg' : t.pc # "decide"
    BY <1>1, <2>2, <2>5, <2>6 DEF Threads
  <2>9. QED BY <2>7, <2>8 DEF Listed
<1>8. QED BY <1>3, <1>4, <1>5, <1>6, <1>7, NothingRefused DEF UiRuns

\* Clearing a mark, with nobody about to publish an older list but one who will look again.
LEMMA ClearLists ==
  ASSUME Types, OnlyHasty, NEW q \in People, ClearPending(q), accepted' = accepted,
         \A t \in Threads' : t \in Threads, \A t \in bg' : t \in bg,
         q \in accepted \/ ~At(q, "decide")
  PROVE  Listed'
<1>1. mirror' = cached' /\ mirror' = shown'
  BY ClearTypes
<1>2. /\ \A t \in Threads : t.pc = "decide" => t.who \in accepted \cup {q}
      /\ Overtakes({"publish"})
  <2>1. ~Upset("second")
    BY NoUpset DEF UpsetKinds
  <2>2. QED BY <2>1 DEF ClearPending
<1>3. \A t \in Threads : t.pc # "publish"
  BY <1>2, NobodyOvertaken
<1>4. \A t \in bg : t.pc = "decide" => t.who \in accepted
  BY <1>2 DEF At, Threads
<1>5. QED BY <1>1, <1>3, <1>4, ListsClear

\* The read loop's part.
LEMMA LoopLists ==
  ASSUME Types, OnlyHasty, Orderly, Listed, LoopRuns
  PROVE  Listed'
<1>1. CASE HandleFeedbagStatus \/ HandleConnectionResponse
  <2>1. account # None /\ account' = account /\ mirror' = mirror /\ cached' = cached /\ shown' = shown
        /\ accepted' = accepted /\ ui' = ui
    BY <1>1 DEF HandleFeedbagStatus, HandleConnectionResponse, Reads, list, marks
  <2>2. \E h : (bg' = bg \/ bg' = bg \cup {h}) /\ h.pc # "publish" /\ h.pc # "decide"
    <3>1. PICK h : h = [pc |-> "check", who |-> Who, list |-> mirror, approves |-> FALSE]
      OBVIOUS
    <3>2. PICK i : i = [pc |-> "forget", who |-> Who, list |-> mirror, approves |-> FALSE]
      OBVIOUS
    <3>3. h.pc = "check" /\ i.pc = "forget"
      BY <3>1, <3>2
    <3>4. bg' = bg \/ bg' = bg \cup {h} \/ bg' = bg \cup {i}
      BY <1>1, <3>1, <3>2 DEF HandleFeedbagStatus, HandleConnectionResponse, Starts
    <3>5. QED BY <3>3, <3>4
  <2>3. PICK h : (bg' = bg \/ bg' = bg \cup {h}) /\ h.pc # "publish" /\ h.pc # "decide"
    BY <2>2
  <2>4. /\ \A x : Running(x) => Running(x)'
        /\ \A t \in Threads' : t \in Threads \/ t = h
        /\ \A t \in bg' : t \in bg \/ t = h
        /\ \A p, x : At(p, x) => At(p, x)'
    BY <2>1, <2>3, BgGrows
  <2>5. (WillList => WillList') /\ (Publishing => Publishing')
    BY <2>4 DEF WillList, Publishing
  <2>6. QED BY <2>1, <2>3, <2>4, <2>5, ListsStay
<1>2. CASE Accepted \/ HandleConnectionRequest
  <2>1. UNCHANGED <<account, mirror, cached, shown, ui, bg>> /\ accepted \subseteq accepted'
    BY <1>2 DEF Accepted, HandleConnectionRequest, MarkAccepted, list, marks
  <2>2. QED BY <2>1, ListsSteady
<1>3. CASE HandleAccepted
  <2>1. PICK q : q = loop
    OBVIOUS
  <2>2. q \in People /\ ClearPending(q) /\ accepted' = accepted /\ Threads' = Threads /\ bg' = bg
    BY <1>3, <2>1 DEF HandleAccepted, Types, TypeOK, marks, Threads
  <2>3. q \in accepted \/ ~At(q, "decide")
    BY <2>1, <2>2 DEF Orderly, Standings, Known
  <2>4. QED BY <2>2, <2>3, ClearLists
<1>4. QED BY <1>1, <1>2, <1>3 DEF LoopRuns

\* The goroutines' part.
LEMMA BgLists ==
  ASSUME Types, OnlyHasty, Orderly, Listed, NEW g \in bg,
         \/ CheckAccepted(g) \/ MarkBuddyPending(g) \/ ReAddBuddyPending(g) \/ ListPending(g) \/ Decide(g)
         \/ Forget(g) \/ SeverRow(g) \/ SendSevered(g) \/ ListSevered(g) \/ PublishSevered(g)
  PROVE  Listed'
<1>1. g \in Calls /\ account # None /\ ui' = ui /\ account' = account
  BY DEF Types, TypeOK, Shape, CheckAccepted, MarkBuddyPending, ReAddBuddyPending, ListPending, Decide, Forget, SeverRow,
     SendSevered, ListSevered, PublishSevered
<1> PICK q : q = g.who
  OBVIOUS
<1>q. q \in People /\ g \in Threads
  BY <1>1, CallFields DEF Threads
<1>l. /\ cached = mirror \/ WillList
      /\ shown = mirror \/ WillList \/ Publishing
      /\ \A t \in Threads : t.pc = "publish" => t.list = mirror
      /\ \A t \in bg : t.pc = "decide" => \/ t.list = mirror \/ t.who \in accepted
                                          \/ At(t.who, "remove") /\ mirror[t.who] # "none"
  BY <1>1 DEF Listed, Publishing
\* Going on without touching the list.
<1>2. ASSUME NEW pc, Goes(g, pc), pc \notin {"publish", "decide"}, g.pc \notin {"publish", "decide", "remove"},
             mirror' = mirror, cached' = cached, shown' = shown,
             g.pc \in {"resend", "delete"} => pc \in {"list", "listSevered"}, g.pc \notin {"list", "insert", "record", "listSevered"},
             \A p \in accepted : p \in accepted' \/ (p = q /\ pc = "remove" /\ mirror[p] # "none")
      PROVE  Listed'
  <2>1. PICK h : h = [g EXCEPT !.pc = pc]
    OBVIOUS
  <2>2. bg' = (bg \ {g}) \cup {h} /\ h.pc = pc
    BY <1>1, <1>2, <2>1 DEF Goes, Calls
  <2>3. PICK old : old = g.pc
    OBVIOUS
  <2>4. /\ \A x : Running(x) /\ x # old => Running(x)'
        /\ Running(pc)'
        /\ \A t \in Threads' : t \in Threads \/ t = h
        /\ \A t \in bg' : t \in bg \/ t = h
    BY <1>1, <2>2, <2>3, BgMoves
  <2>5. (WillList => WillList') /\ (Publishing => Publishing' \/ WillList')
    BY <1>2, <2>3, <2>4 DEF WillList, Publishing
  <2>6. (\A p, x : At(p, x) /\ ~(p = q /\ x = old) => At(p, x)') /\ At(q, pc)'
    BY <1>1, <1>2, <2>3, GoesView
  <2>7. QED BY <1>1, <1>2, <2>2, <2>3, <2>4, <2>5, <2>6, ListsStay
\* Changing the list, with nobody about to publish an older one.
<1>3. ASSUME NEW pc \in {"resend", "delete"}, Goes(g, pc), Overtakes({"publish", "decide", "resend", "delete"})
      PROVE  Listed'
  <2>1. \A t \in Threads : t.pc # "publish" /\ t.pc # "decide"
    BY <1>3, NobodyOvertaken
  <2>2. PICK h : h = [g EXCEPT !.pc = pc]
    OBVIOUS
  <2>3. bg' = (bg \ {g}) \cup {h} /\ h.pc = pc
    BY <1>1, <1>3, <2>2 DEF Goes, Calls
  <2>4. /\ Running(pc)'
        /\ \A t \in Threads' : t \in Threads \/ t = h
        /\ \A t \in bg' : t \in bg \/ t = h
    BY <1>1, <2>3, BgMoves
  <2>5. WillList'
    BY <2>4 DEF WillList
  <2>6. (\A t \in Threads' : t.pc # "publish") /\ \A t \in bg' : t.pc # "decide"
    BY <2>1, <2>3, <2>4 DEF Threads
  <2>7. QED BY <2>5, <2>6 DEF Listed
\* Ending.
<1>4. ASSUME Ends(g)
      PROVE  /\ \A t \in Threads' : t \in Threads
             /\ \A t \in bg' : t \in bg
             /\ g.pc \in {"mark", "publish", "decide", "remove"} => (WillList => WillList')
             /\ g.pc = "mark" => (Publishing => Publishing')
             /\ Running("remove") /\ g.pc # "remove" => Publishing'
             /\ \A p : At(p, "remove") /\ (p # q \/ g.pc # "remove") => At(p, "remove")'
  <2>1. bg' = bg \ {g}
    BY <1>4 DEF Ends
  <2>2. PICK old : old = g.pc
    OBVIOUS
  <2>3. /\ \A x : Running(x) /\ x # old => Running(x)'
        /\ \A t \in Threads' : t \in Threads
        /\ \A t \in bg' : t \in bg
    BY <1>1, <2>1, <2>2, BgEnds
  <2>4. \A p, x : At(p, x) /\ ~(p = q /\ x = old) => At(p, x)'
    BY <1>4, <2>2, AtEnds
  <2>5. QED BY <2>2, <2>3, <2>4 DEF WillList, Publishing
\* Listing.
<1>5. ASSUME NEW pc \in {"publish", "decide"}, bg' = (bg \ {g}) \cup {[g EXCEPT !.pc = pc, !.list = mirror]},
             mirror' = mirror, cached' = mirror, accepted' = accepted, g.pc # "remove"
      PROVE  Listed'
  <2>1. PICK h : h = [g EXCEPT !.pc = pc, !.list = mirror]
    OBVIOUS
  <2>2. bg' = (bg \ {g}) \cup {h} /\ h.pc = pc /\ h.list = mirror /\ h.who = q
    BY <1>1, <1>5, <2>1 DEF Calls
  <2>3. /\ Running(pc)'
        /\ \A t \in Threads' : t \in Threads \/ t = h
        /\ \A t \in bg' : t \in bg \/ t = h
    BY <1>1, <2>2, BgMoves
  <2>4. Running("publish")' \/ Running("decide")'
    BY <2>3
  <2>5. PICK old : old = g.pc
    OBVIOUS
  <2>6. \A p, x : At(p, x) /\ ~(p = q /\ x = old) => At(p, x)'
    BY <2>2, <2>5, AtGoes
  <2>7. \A p : At(p, "remove") => At(p, "remove")'
    BY <1>5, <2>5, <2>6
  <2>8. \A t \in Threads' : t.pc = "publish" => t.list = mirror'
    BY <1>l, <1>5, <2>2, <2>3
  <2>9. ASSUME NEW t \in bg', t.pc = "decide"
        PROVE  t.list = mirror' \/ t.who \in accepted' \/ (At(t.who, "remove")' /\ mirror'[t.who] # "none")
    <3>1. CASE t = h
      BY <1>5, <2>2, <3>1
    <3>2. CASE t \in bg
      <4>1. PICK p : p = t.who
        OBVIOUS
      <4>2. t.list = mirror \/ p \in accepted \/ (At(p, "remove") /\ mirror[p] # "none")
        BY <1>l, <2>9, <3>2, <4>1
      <4>3. t.list = mirror' \/ p \in accepted' \/ (At(p, "remove")' /\ mirror'[p] # "none")
        BY <1>5, <2>7, <4>2
      <4>4. QED BY <4>1, <4>3 DEF At
    <3>3. QED BY <2>3, <3>1, <3>2
  <2>10. QED BY <1>5, <2>4, <2>8, <2>9 DEF Listed
\* Ending with a list published.
<1>6. ASSUME Ends(g), g.pc \in {"publish", "decide", "remove"}, mirror' = mirror, cached' = cached, accepted' = accepted,
             shown' = mirror \/ WillList' \/ Publishing', g.pc = "remove" => mirror[q] = "none"
      PROVE  Listed'
  <2>1. cached' = mirror' \/ WillList'
    BY <1>l, <1>4, <1>6
  <2>2. \A t \in Threads' : t.pc = "publish" => t.list = mirror'
    BY <1>l, <1>4, <1>6
  <2>3. ASSUME NEW t \in bg', t.pc = "decide"
        PROVE  t.list = mirror' \/ t.who \in accepted' \/ (At(t.who, "remove")' /\ mirror'[t.who] # "none")
    <3>1. t \in bg
      BY <1>4, <1>6
    <3>2. PICK p : p = t.who
      OBVIOUS
    <3>3. t.list = mirror \/ p \in accepted \/ (At(p, "remove") /\ mirror[p] # "none")
      BY <1>l, <2>3, <3>1, <3>2
    <3>4. t.list = mirror' \/ p \in accepted' \/ (At(p, "remove")' /\ mirror'[p] # "none")
      BY <1>4, <1>6, <3>3
    <3>5. QED BY <3>2, <3>4 DEF At
  <2>4. QED BY <1>6, <2>1, <2>2, <2>3 DEF Listed, Publishing
<1>7. CASE CheckAccepted(g)
  <2>1. CASE q \in accepted
    <3>1. ClearPending(q) /\ Ends(g) /\ accepted' = accepted
      BY <1>7, <2>1 DEF CheckAccepted, marks
    <3>2. QED BY <1>q, <1>4, <2>1, <3>1, ClearLists
  <2>2. CASE q \notin accepted
    <3>1. Goes(g, "mark") /\ accepted' = accepted /\ mirror' = mirror /\ cached' = cached /\ shown' = shown /\ g.pc = "check"
      BY <1>7, <2>2 DEF CheckAccepted, marks, list
    <3>2. QED BY <1>2, <3>1
  <2>3. QED BY <2>1, <2>2
<1>8. CASE MarkBuddyPending(g)
  <2>1. cached' = cached /\ shown' = shown /\ accepted' = accepted /\ g.pc = "mark" /\ mirror[q] \in {"none", "pending", "plain"}
    BY <1>8, <1>q, MirrorView DEF MarkBuddyPending, marks
  <2>2. CASE mirror[q] = "none"
    <3>1. Ends(g) /\ mirror' = mirror
      BY <1>8, <2>1, <2>2 DEF MarkBuddyPending
    <3>2. QED BY <1>1, <1>4, <2>1, <3>1, ListsStay
  <2>3. CASE mirror[q] = "pending"
    <3>1. Goes(g, "list") /\ mirror' = mirror
      BY <1>8, <2>1, <2>3 DEF MarkBuddyPending
    <3>2. QED BY <1>2, <2>1, <3>1
  <2>4. CASE mirror[q] = "plain"
    <3>1. Goes(g, "resend") /\ Overtakes({"publish", "decide", "resend", "delete"})
      BY <1>8, <2>1, <2>4 DEF MarkBuddyPending
    <3>2. QED BY <1>3, <3>1
  <2>5. QED BY <2>1, <2>2, <2>3, <2>4
<1>9. CASE ReAddBuddyPending(g) \/ SendSevered(g)
  <2>1. /\ Goes(g, "list") \/ Goes(g, "listSevered")
        /\ accepted' = accepted /\ mirror' = mirror /\ cached' = cached /\ shown' = shown /\ g.pc \in {"resend", "delete"}
    BY <1>9 DEF ReAddBuddyPending, SendSevered, list, marks
  <2>2. CASE Goes(g, "list")
    BY <1>2, <2>1, <2>2
  <2>3. CASE Goes(g, "listSevered")
    BY <1>2, <2>1, <2>3
  <2>4. QED BY <2>1, <2>2, <2>3
<1>10. CASE ListPending(g)
  <2>1. /\ bg' = (bg \ {g}) \cup {[g EXCEPT !.pc = "decide", !.list = mirror]}
        /\ mirror' = mirror /\ cached' = mirror /\ accepted' = accepted /\ g.pc # "remove"
    BY <1>10 DEF ListPending, marks
  <2>2. QED BY <1>5, <2>1
<1>11. CASE ListSevered(g)
  <2>1. /\ bg' = (bg \ {g}) \cup {[g EXCEPT !.pc = "publish", !.list = mirror]}
        /\ mirror' = mirror /\ cached' = mirror /\ accepted' = accepted /\ g.pc # "remove"
    BY <1>11 DEF ListSevered, marks
  <2>2. QED BY <1>5, <2>1
<1>12. CASE Decide(g)
  <2>1. CASE q \in accepted
    <3>1. ClearPending(q) /\ Ends(g) /\ accepted' = accepted
      BY <1>12, <2>1 DEF Decide, marks
    <3>2. QED BY <1>q, <1>4, <2>1, <3>1, ClearLists
  <2>2. CASE q \notin accepted
    <3>1. Ends(g) /\ shown' = g.list /\ mirror' = mirror /\ cached' = cached /\ accepted' = accepted /\ g.pc = "decide"
      BY <1>12, <2>2 DEF Decide, marks, Publish
    <3>2. g.list = mirror \/ Running("remove")
      BY <1>l, <2>2, <3>1 DEF At, Running, Threads
    <3>3. QED BY <1>4, <1>6, <3>1, <3>2
  <2>3. QED BY <2>1, <2>2
<1>13. CASE Forget(g)
  <2>1. Goes(g, "remove") /\ accepted' = accepted \ {q} /\ mirror' = mirror /\ cached' = cached /\ shown' = shown /\ g.pc = "forget"
    BY <1>13 DEF Forget, list
  <2>2. q \in accepted => mirror[q] # "none"
    BY <1>1, <1>q DEF Orderly, Standings, Known
  <2>3. QED BY <1>2, <2>1, <2>2
<1>14. CASE SeverRow(g)
  <2>1. CASE mirror[q] = "none"
    <3>1. Ends(g) /\ shown' = cached /\ mirror' = mirror /\ cached' = cached /\ accepted' = accepted /\ g.pc = "remove"
      BY <1>14, <2>1 DEF SeverRow, marks, Publish
    <3>2. QED BY <1>l, <1>4, <1>6, <2>1, <3>1
  <2>2. CASE mirror[q] # "none"
    <3>1. Goes(g, "delete") /\ Overtakes({"publish", "decide", "resend", "delete"})
      BY <1>14, <2>2 DEF SeverRow
    <3>2. QED BY <1>3, <3>1
  <2>3. QED BY <2>1, <2>2
<1>15. CASE PublishSevered(g)
  <2>1. Ends(g) /\ shown' = g.list /\ mirror' = mirror /\ cached' = cached /\ accepted' = accepted /\ g.pc = "publish"
    BY <1>15 DEF PublishSevered, marks, Publish
  <2>2. g.list = mirror
    BY <1>l, <1>q, <2>1
  <2>3. QED BY <1>6, <2>1, <2>2
<1>16. QED BY <1>7, <1>8, <1>9, <1>10, <1>11, <1>12, <1>13, <1>14, <1>15

LEMMA PeersLists ==
  ASSUME Listed, Peers
  PROVE  Listed'
<1>1. UNCHANGED <<account, mirror, cached, shown, ui, bg>> /\ accepted' = accepted
  BY DEF Peers, Agrees, Declines, Removes, Asks, list, marks
<1>2. QED BY <1>1, ListsSteady

LEMMA CallLists ==
  ASSUME Types, OnlyHasty, Listed, NEW pc \in {"new", "add", "remove"}, NEW q \in People, Call(pc, q),
         UNCHANGED <<account, mirror, cached, shown, bg>>, accepted \ {q} \subseteq accepted'
  PROVE  Listed'
<1>1. pc \in Pcs
  BY DEF Pcs
<1>2. (\A x : ~At(q, x)) /\ ui = None /\ account # None /\ ui'.pc = pc
  BY <1>1, CallsAlone
<1>3. PICK h : h = [pc |-> pc, who |-> q, list |-> mirror, approves |-> pc = "add"]
  OBVIOUS
<1>4. ui' = h /\ h.pc = pc
  BY <1>2, <1>3 DEF Call
<1>5. /\ \A x : Running(x) => Running(x)'
      /\ \A t \in Threads' : t \in Threads \/ t = h
  BY <1>2, <1>4, UiComes
<1>6. \A p, x : At(p, x)' <=> At(p, x)
  BY AtSame
<1>7. (WillList => WillList') /\ (Publishing => Publishing')
  BY <1>5 DEF WillList, Publishing
<1>8. \A p : p \in accepted /\ At(p, "decide") => p \in accepted'
  BY <1>2
<1>9. QED BY <1>2, <1>4, <1>5, <1>6, <1>7, <1>8, ListsStay

LEMMA UserLists ==
  ASSUME Types, OnlyHasty, Listed, User
  PROVE  Listed'
<1>1. ASSUME NEW q \in People, AddBuddy(q) PROVE Listed'
  BY <1>1, CallLists DEF AddBuddy, list, marks
<1>2. ASSUME NEW q \in People, RemoveBuddy(q) PROVE Listed'
  BY <1>2, CallLists DEF RemoveBuddy, list
<1>3. ASSUME NEW q \in People, Approve(q) PROVE Listed'
  BY <1>3, CallLists DEF Approve, list, marks
<1>4. ASSUME NEW q \in People, DeclineConnection(q) PROVE Listed'
  <2>1. UNCHANGED <<account, mirror, cached, shown, ui, bg>> /\ accepted' = accepted
    BY <1>4 DEF DeclineConnection, list, marks
  <2>2. QED BY <2>1, ListsSteady
<1>5. ASSUME NEW a \in Accounts, SignOn(a) PROVE Listed'
  <2>1. Threads' = {} /\ mirror' = cached' /\ mirror' = shown'
    BY <1>5 DEF SignOn, Types, Shape, Threads, Publish
  <2>2. bg' = {}
    BY <1>5 DEF SignOn, Types, Shape
  <2>3. QED BY <2>1, <2>2, ListsClear
<1>6. ASSUME SignOff PROVE Listed'
  BY <1>6 DEF SignOff, Listed
<1>7. QED BY <1>1, <1>2, <1>3, <1>4, <1>5, <1>6 DEF User

LEMMA NextLists ==
  ASSUME Types, OnlyHasty, Orderly, Listed, [Next]_vars
  PROVE  Listed'
<1>1. CASE UNCHANGED vars
  BY <1>1, ListsSteady DEF vars, list, marks
<1>2. CASE UiRuns
  BY <1>2, UiLists
<1>3. CASE LoopRuns
  BY <1>3, LoopLists
<1>4. CASE BgRuns
  BY <1>4, BgLists, NothingRefused DEF BgRuns
<1>5. CASE Peers
  BY <1>5, PeersLists
<1>6. CASE User
  BY <1>6, UserLists
<1>7. QED BY <1>1, <1>2, <1>3, <1>4, <1>5, <1>6 DEF Next, Runs

LEMMA InitLists ==
  ASSUME Init
  PROVE  Listed
  BY DEF Init, Listed

LEMMA NextOrderly ==
  ASSUME Types, OnlyHasty, Orderly, Asking, unsent = {}, [Next]_vars
  PROVE  Orderly' /\ (Calm /\ Told /\ CopiesAgree => Told')
<1> DEFINE Goal == Orderly' /\ (Calm /\ Told /\ CopiesAgree => Told')
<1>1. ASSUME SendInsert PROVE Goal
  BY <1>1, SendInsertKeeps
<1>2. ASSUME Record PROVE Goal
  BY <1>2, RecordKeeps
<1>3. ASSUME ListOf PROVE Goal
  BY <1>3, ListOfKeeps
<1>4. ASSUME PublishBuddyList PROVE Goal
  BY <1>4, PublishBuddyListKeeps
<1>5. ASSUME RemoveRow PROVE Goal
  BY <1>5, RemoveRowKeeps
<1>6. ASSUME SendDelete PROVE Goal
  BY <1>6, SendDeleteKeeps
<1>7. ASSUME AddRow PROVE Goal
  BY <1>7, AddRowKeeps
<1>8. ASSUME HandleFeedbagStatus PROVE Goal
  BY <1>8, HandleFeedbagStatusKeeps
<1>9. ASSUME Accepted PROVE Goal
  BY <1>9, AcceptedKeeps
<1>10. ASSUME HandleAccepted PROVE Goal
  BY <1>10, HandleAcceptedKeeps
<1>11. ASSUME HandleConnectionResponse PROVE Goal
  BY <1>11, HandleConnectionResponseKeeps
<1>12. ASSUME HandleConnectionRequest PROVE Goal
  BY <1>12, HandleConnectionRequestKeeps
<1>13. ASSUME NEW g \in bg, CheckAccepted(g) PROVE Goal
  BY <1>13, CheckAcceptedKeeps
<1>14. ASSUME NEW g \in bg, MarkBuddyPending(g) PROVE Goal
  BY <1>14, MarkBuddyPendingKeeps
<1>15. ASSUME NEW g \in bg, ReAddBuddyPending(g) PROVE Goal
  BY <1>15, ReAddBuddyPendingKeeps
<1>16. ASSUME NEW g \in bg, ListPending(g) PROVE Goal
  BY <1>16, ListPendingKeeps
<1>17. ASSUME NEW g \in bg, Decide(g) PROVE Goal
  BY <1>17, DecideKeeps
<1>18. ASSUME NEW g \in bg, Forget(g) PROVE Goal
  BY <1>18, ForgetKeeps
<1>19. ASSUME NEW g \in bg, SeverRow(g) PROVE Goal
  BY <1>19, SeverRowKeeps
<1>20. ASSUME NEW g \in bg, SendSevered(g) PROVE Goal
  BY <1>20, SendSeveredKeeps
<1>21. ASSUME NEW g \in bg, ListSevered(g) PROVE Goal
  BY <1>21, ListSeveredKeeps
<1>22. ASSUME NEW g \in bg, PublishSevered(g) PROVE Goal
  BY <1>22, PublishSeveredKeeps
<1>23. ASSUME NEW a \in Accounts, NEW p \in People, Agrees(a, p) PROVE Goal
  <2>1. CASE a = Home
    BY <1>23, <2>1, AgreesHereKeeps
  <2>2. CASE a # Home
    BY <1>23, <2>2, AgreesElsewhereKeeps
  <2>3. QED BY <2>1, <2>2
<1>24. ASSUME NEW a \in Accounts, NEW p \in People, Declines(a, p) PROVE Goal
  <2>1. CASE a = Home
    BY <1>24, <2>1, DeclinesHereKeeps
  <2>2. CASE a # Home
    BY <1>24, <2>2, DeclinesElsewhereKeeps
  <2>3. QED BY <2>1, <2>2
<1>25. ASSUME NEW a \in Accounts, NEW p \in People, Removes(a, p) PROVE Goal
  <2>1. CASE a = Home
    BY <1>25, <2>1, RemovesHereKeeps
  <2>2. CASE a # Home
    BY <1>25, <2>2, RemovesElsewhereKeeps
  <2>3. QED BY <2>1, <2>2
<1>26. ASSUME NEW p \in People, Asks(p) PROVE Goal
  <2>1. account = Home
    BY <1>26 DEF Asks, Orderly
  <2>2. ~Sent(p, "asks")
    BY <1>26, <2>1 DEF Asks, Asking, Requested
  <2>3. QED BY <1>26, <2>2, AsksKeeps
<1>27. ASSUME NEW p \in People, AddBuddy(p) PROVE Goal
  BY <1>27, AddBuddyKeeps
<1>28. ASSUME NEW p \in People, RemoveBuddy(p) PROVE Goal
  BY <1>28, RemoveBuddyKeeps
<1>29. ASSUME NEW p \in People, Approve(p) PROVE Goal
  BY <1>29, ApproveKeeps
<1>30. ASSUME NEW p \in People, DeclineConnection(p) PROVE Goal
  BY <1>30, DeclineConnectionKeeps
<1>31. ASSUME NEW a \in Accounts, SignOn(a) PROVE Goal
  BY <1>31, SignOnKeeps
<1>32. ASSUME SignOff PROVE Goal
  BY <1>32, SignOffKeeps
<1>33. CASE UNCHANGED vars
  BY <1>33, StillKeeps
<1>34. CASE UiRuns
  BY <1>34, <1>1, <1>2, <1>3, <1>4, <1>5, <1>6, <1>7, NothingRefused DEF UiRuns
<1>35. CASE LoopRuns
  BY <1>35, <1>8, <1>9, <1>10, <1>11, <1>12 DEF LoopRuns
<1>36. CASE BgRuns
  BY <1>36, <1>13, <1>14, <1>15, <1>16, <1>17, <1>18, <1>19, <1>20, <1>21, <1>22, NothingRefused DEF BgRuns
<1>37. CASE Peers
  BY <1>37, <1>23, <1>24, <1>25, <1>26 DEF Peers
<1>38. CASE User
  BY <1>38, <1>27, <1>28, <1>29, <1>30, <1>31, <1>32 DEF User
<1>39. QED BY <1>33, <1>34, <1>35, <1>36, <1>37, <1>38 DEF Next, Runs

\* When everything under way is done, the copies agree.
LEMMA QuietAgrees ==
  ASSUME Types, Orderly, Asking, Listed
  PROVE  CopiesAgree
<1> SUFFICES ASSUME account # None, Quiet
             PROVE  /\ shown = row[account] /\ cached = row[account] /\ mirror = row[account]
                    /\ reqs \subseteq wants[account]
  BY DEF CopiesAgree
<1>1. account = Home /\ Home \in Accounts /\ loop = None /\ \A p \in People : p # None
  BY AtHome, ConnectionAssumption DEF Orderly, Quiet
<1>2. (\A p, k : ~Sent(p, k)) /\ (\A p, x : ~At(p, x)) /\ (\A p, x : ~UiOn(p, x)) /\ Threads = {}
  BY DEF Quiet, Sent, At, UiOn, Threads
<1>3. \A x : ~Running(x)
  BY <1>2 DEF Running
<1>4. cached = mirror /\ shown = mirror
  BY <1>3 DEF Listed, WillList
<1>5. ASSUME NEW p \in People PROVE mirror[p] = row[Home][p]
  <2>1. Standing(p) /\ Known(p) /\ Mirrored(p)
    BY DEF Orderly, Standings
  <2>2. mirror[p] \in {"none", "pending", "plain"} /\ row[Home][p] \in {"none", "pending", "plain"}
    BY <1>1, RowTypes, MirrorView DEF Types
  <2>3. QED BY <1>1, <1>2, <2>1, <2>2 DEF Standing, Known, Mirrored, Severing, SeveranceSent, AcceptanceSent, Refused
<1>6. mirror = row[Home]
  <2>1. mirror \in Entries /\ row[Home] \in Entries
    BY <1>1 DEF Types, TypeOK
  <2>2. QED BY <1>5, <2>1 DEF Entries
<1>7. reqs \subseteq wants[Home]
  BY <1>2 DEF Asking, Requested, Approving, Quiet, Types, TypeOK
<1>8. QED BY <1>1, <1>4, <1>6, <1>7

LEMMA NobodyUnsent ==
  ASSUME OnlyHasty, [Next]_vars, unsent = {}
  PROVE  unsent' = {}
<1>1. ~UiRefused /\ \A g : ~BgRefused(g)
  BY NothingRefused
<1>2. unsent' = unsent \/ \E a \in Accounts : SignOn(a)
  BY <1>1 DEF Next, vars, marks, Runs, UiRuns, LoopRuns, BgRuns, Peers, User, SendInsert, Record, ListOf, PublishBuddyList,
     RemoveRow, SendDelete, AddRow, HandleFeedbagStatus, Accepted, MarkAccepted, HandleAccepted, HandleConnectionResponse,
     HandleConnectionRequest, CheckAccepted, MarkBuddyPending, ReAddBuddyPending, ListPending, Decide, Forget, SeverRow,
     SendSevered, ListSevered, PublishSevered, Agrees, Declines, Removes, Asks, AddBuddy, RemoveBuddy, Approve,
     DeclineConnection, SignOff
<1>3. QED BY <1>2 DEF SignOn

\* While every send goes through and nothing else goes wrong but haste, on any schedule: when
\* nothing is under way, what the user is shown, the session's list and the mirror are the
\* server's rows, and every request on offer waits; and PendingIsTrue excepts nobody.
THEOREM PendingAlwaysTrue == OnlyHasty /\ Spec => [](PendingIsTrue /\ unsent = {})
<1> SUFFICES ASSUME OnlyHasty PROVE Spec => [](PendingIsTrue /\ unsent = {})
  OBVIOUS
<1>0. Init => unsent = {}
  BY DEF Init
<1>1. CASE Accounts = {}
  <2> DEFINE I == unsent = {}
  <2>1. TypeOK /\ I => PendingIsTrue /\ unsent = {}
    BY <1>1 DEF TypeOK, PendingIsTrue
  <2>2. I /\ [Next]_vars => I'
    BY NobodyUnsent
  <2>3. Init => I
    BY <1>0
  <2>4. QED BY <2>1, <2>2, <2>3, TypeCorrect, PTL DEF Spec
<1>2. CASE Accounts # {}
  <2> DEFINE I == Types /\ Orderly /\ Asking /\ Listed /\ unsent = {}
  <2>1. Init => I
    BY <1>0, <1>2, InitTypes, InitOrderly, InitAsking, InitLists
  <2>2. I /\ [Next]_vars => I'
    BY NextTypes, NextOrderly, NextAsking, NextLists, NobodyUnsent
  <2>3. I => PendingIsTrue /\ unsent = {}
    BY QuietAgrees DEF CopiesAgree, PendingIsTrue
  <2>4. QED BY <2>1, <2>2, <2>3, PTL DEF Spec
<1>3. QED BY <1>1, <1>2

LEMMA NothingTold ==
  ASSUME [Next]_vars
  PROVE  telling' = telling \/ HandleConnectionResponse
  BY DEF Next, vars, Runs, UiRuns, LoopRuns, BgRuns, Peers, User, SendInsert, Record, ListOf, PublishBuddyList,
     RemoveRow, SendDelete, AddRow, HandleFeedbagStatus, Accepted, HandleAccepted, HandleConnectionRequest,
     CheckAccepted, MarkBuddyPending, ReAddBuddyPending, ListPending, Decide, Forget, SeverRow, SendSevered, ListSevered,
     PublishSevered, UiRefused, BgRefused, Agrees, Declines, Removes, Asks, AddBuddy, RemoveBuddy, Approve, DeclineConnection, SignOn, SignOff

LEMMA NextAnswers ==
  ASSUME Types, Orderly, Told, AnswersAreTold, [Next]_vars
  PROVE  AnswersAreTold'
<1>1. CASE telling' = telling
  BY <1>1 DEF AnswersAreTold
<1>2. CASE HandleConnectionResponse
  <2>1. PICK q : q = Who
    OBVIOUS
  <2>2. PICK h : h = Head(inbox).kind
    OBVIOUS
  <2>3. account # None /\ inbox # <<>> /\ inbox \in Seq(Mail) /\ Rest /\ h \in {"declined", "removed"} /\ Once /\ SeveredLast
    BY <1>2, <2>2 DEF HandleConnectionResponse, Reads, Types, Shape, Mail, Orderly
  <2>4. q \in People /\ Sent(q, h)
    BY <2>1, <2>2, <2>3, SentTail
  <2>5. telling' = [of |-> h, told |-> cached[q] = "pending", listed |-> mirror[q] # "none",
                     unsent |-> q \in unsent]
    BY <1>2, <2>1, <2>2 DEF HandleConnectionResponse, WasPending
  <2>6. /\ h = "declined" => mirror[q] = "none" \/ cached[q] = "pending"
        /\ h = "removed" => cached[q] # "pending"
    BY <2>3, <2>4 DEF Told, Lapsed
  <2>7. telling'.of = h /\ telling'.listed = (mirror[q] # "none") /\ telling'.told = (cached[q] = "pending")
    BY <2>5
  <2>8. QED BY <2>3, <2>6, <2>7 DEF AnswersAreTold
<1>3. QED BY <1>1, <1>2, NothingTold

\* Whatever the schedule, while nothing goes wrong: who still waits is told of a refusal, and nobody of a removal.
THEOREM AnswersAlwaysTold == Calm /\ Spec => []AnswersAreTold
<1> SUFFICES ASSUME Calm PROVE Spec => []AnswersAreTold
  OBVIOUS
<1>0. OnlyHasty
  BY DEF Calm, OnlyHasty
<1>1. CASE Accounts = {}
  <2>1. TypeOK /\ AnswersAreTold /\ [Next]_vars => AnswersAreTold'
    <3> SUFFICES ASSUME TypeOK, AnswersAreTold, [Next]_vars PROVE AnswersAreTold'
      OBVIOUS
    <3>1. telling' = telling
      BY <1>1, NothingTold DEF HandleConnectionResponse, Reads, TypeOK
    <3>2. QED BY <3>1 DEF AnswersAreTold
  <2>2. Init => AnswersAreTold
    BY DEF Init, AnswersAreTold
  <2>3. QED BY <2>1, <2>2, TypeCorrect, PTL DEF Spec
<1>2. CASE Accounts # {}
  <2> DEFINE I == Types /\ Orderly /\ Asking /\ Listed /\ unsent = {} /\ Told /\ AnswersAreTold
  <2>1. Init => I
    BY <1>2, InitTypes, InitOrderly, InitAsking, InitLists DEF Init, Told, AnswersAreTold
  <2>2. I /\ [Next]_vars => I'
    BY <1>0, NextTypes, NextOrderly, NextAsking, NextLists, NobodyUnsent, NextAnswers, QuietAgrees
  <2>3. QED BY <2>1, <2>2, PTL DEF Spec
<1>3. QED BY <1>1, <1>2
=============================================================================
