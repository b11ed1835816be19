----------------------------- MODULE Connections -----------------------------
(***************************************************************************)
(* Buddies by consent: adding somebody is asking them, the server refuses  *)
(* to store the row until they agree, and the client stores it again as a  *)
(* pending one.  Four goroutines touch the list: the interface's call, the *)
(* read loop, and one each for a refused add and for a severed connection. *)
(*                                                                         *)
(* An entry of the list is no row, a pending one or a plain one.  The      *)
(* tree the rows are filed in is BuddyList's.                              *)
(***************************************************************************)
EXTENDS Naturals, Sequences

CONSTANTS
  Accounts, People, None,
  Upsets,       \* what may go wrong: a subset of UpsetKinds
  MaxCalls,     \* bound: calls of the interface, and sends refused
  MaxSessions,  \* bound: sessions
  MaxAnswers,   \* bound: what the people do, and sends refused
  MaxUpsets     \* bound: upsets, all told

\* `early`: a status handled before its add is on record.  `hasty`: somebody who declines
\* before being marked, if they are to be, or removes us before the acceptance is dealt
\* with.  `overtaken`: a change to the list between another goroutine's taking it and
\* sending or publishing it.
\* `across`: a session that ends with work under way or unread.  `crossed`: a call about
\* somebody whose last add is not yet dealt with.  `away`: somebody who agreed in one session
\* removes us before the next.  `account`: a sign-on as somebody else.
\* `second`: an acceptance while somebody else's pending row is about to be published.
\* `paced`: a send that the rate limiter or the connection refuses, the session going on.
UpsetKinds == {"early", "hasty", "overtaken", "across", "crossed", "away", "account", "second", "paced"}

ASSUME ConnectionAssumption == Upsets \subseteq UpsetKinds /\ None \notin Accounts \cup People
ASSUME ConnectionBounds ==
  MaxCalls \in Nat /\ MaxSessions \in Nat /\ MaxAnswers \in Nat /\ MaxUpsets \in Nat

VARIABLES
  account,   \* who is signed on, or None
  sessions,  \* sessions so far
  mirror,    \* the rows of Feedbag.items
  cached,    \* Session.buddyList
  shown,     \* the list in the store
  tracked,   \* authByReq: adds whose status is awaited
  accepted,  \* Client.accepted
  since,     \* those of them who agreed in this session
  unsent,    \* history: those about whom this session refused to send
  reqs,      \* App.connReqs
  ui,        \* the interface's call, or None
  bg,        \* goroutines of the read loop's
  loop,      \* whose acceptance the read loop is in the middle of, or None
  inbox,     \* what the server has sent
  row,       \* by account: the rows the server stores
  agrees,    \* by account: the people who have agreed to it
  asked,     \* by account: those who have been asked and have not answered
  wants,     \* by account: those who have asked it, and wait
  telling,   \* the last answer to a request, and what the user was told of it
  calls, answers, upsets

list == <<mirror, cached, shown>>
marks == <<accepted, since, unsent>>
server == <<row, agrees, asked, wants>>
counts == <<sessions, calls, answers>>
vars == <<account, list, tracked, marks, reqs, ui, bg, loop, inbox, server, telling, counts, upsets>>

Entries == [People -> {"none", "pending", "plain"}]

Init ==
  /\ account = None /\ sessions = 0 /\ calls = 0 /\ answers = 0 /\ upsets = 0
  /\ mirror = [p \in People |-> "none"] /\ cached = mirror /\ shown = mirror
  /\ tracked = {} /\ accepted = {} /\ since = {} /\ unsent = {} /\ reqs = {}
  /\ ui = None /\ bg = {} /\ loop = None /\ inbox = <<>> /\ telling = None
  /\ row = [a \in Accounts |-> mirror]
  /\ agrees = [a \in Accounts |-> {}] /\ asked = agrees /\ wants = agrees

Upset(kind) == kind \in Upsets /\ upsets < MaxUpsets /\ upsets' = upsets + 1

UpsetIf(condition, kind) == IF condition THEN Upset(kind) ELSE UNCHANGED upsets

Quiet == ui = None /\ bg = {} /\ loop = None /\ inbox = <<>>

Threads == bg \cup (IF ui = None THEN {} ELSE {ui})

\* A change to the list while somebody is about to send or to publish an older one.
Overtakes(stages) == UpsetIf(\E g \in Threads : g.pc \in stages, "overtaken")

Message(kind, p) == [kind |-> kind, who |-> p]

\* Lists at every stage of being published.
Publish(entries) == shown' = entries

-----------------------------------------------------------------------------
(* What the server makes of an edit: rows and their owner's standing, external. *)

Inserted(p, pending) ==
  /\ row' = [row EXCEPT ![account][p] = IF p \in agrees[account] THEN "plain"
                                        ELSE IF pending THEN "pending" ELSE @]
  /\ asked' = IF p \in agrees[account] \/ pending THEN asked
              ELSE [asked EXCEPT ![account] = @ \cup {p}]
  /\ inbox' = IF pending THEN inbox
              ELSE Append(inbox, Message(IF p \in agrees[account] THEN "stored" ELSE "refused", p))
  /\ UNCHANGED <<agrees, wants>>

Deleted(p) ==
  /\ row' = [row EXCEPT ![account][p] = "none"]
  /\ agrees' = [agrees EXCEPT ![account] = @ \ {p}]
  /\ asked' = [asked EXCEPT ![account] = @ \ {p}]
  /\ UNCHANGED <<wants, inbox>>

Tell(a, message) == inbox' = IF a = account THEN Append(inbox, message) ELSE inbox

Answers == answers < MaxAnswers /\ answers' = answers + 1

\* A pending row becomes a plain one; without one the server pre-authorizes.
Agrees(a, p) ==
  /\ Answers /\ p \in asked[a]
  /\ UpsetIf(a = account /\ ui # None /\ ui.who = p /\ ui.pc \in {"remove", "delete"}, "crossed")
  /\ asked' = [asked EXCEPT ![a] = @ \ {p}] /\ agrees' = [agrees EXCEPT ![a] = @ \cup {p}]
  /\ Tell(a, Message(IF row[a][p] = "pending" THEN "accepted" ELSE "preauthorized", p))
  /\ row' = [row EXCEPT ![a][p] = "plain"]
  /\ UNCHANGED <<account, list, tracked, marks, reqs, ui, bg, loop, wants, telling, sessions, calls>>

Declines(a, p) ==
  /\ Answers /\ p \in asked[a]
  /\ UpsetIf(a = account /\ ((cached[p] # "pending" /\ p \notin unsent) \/ \E g \in bg : g.who = p), "hasty")
  /\ asked' = [asked EXCEPT ![a] = @ \ {p}] /\ row' = [row EXCEPT ![a][p] = "none"]
  /\ Tell(a, Message("declined", p))
  /\ UNCHANGED <<account, list, tracked, marks, reqs, ui, bg, loop, agrees, wants, telling, sessions, calls>>

Removes(a, p) ==
  /\ Answers /\ p \in agrees[a] /\ row[a][p] = "plain" /\ UpsetIf(~Quiet /\ a = account, "hasty")
  /\ a # account /\ p \in accepted => "away" \in Upsets
  /\ agrees' = [agrees EXCEPT ![a] = @ \ {p}] /\ row' = [row EXCEPT ![a][p] = "none"]
  /\ Tell(a, Message("removed", p))
  /\ UNCHANGED <<account, list, tracked, marks, reqs, ui, bg, loop, asked, wants, telling, sessions, calls>>

Asks(p) ==
  /\ Answers /\ account # None /\ p \notin wants[account] \cup agrees[account]
  /\ wants' = [wants EXCEPT ![account] = @ \cup {p}]
  /\ inbox' = Append(inbox, Message("asks", p))
  /\ UNCHANGED <<account, list, tracked, marks, reqs, ui, bg, loop, row, agrees, asked, telling, sessions, calls, upsets>>

-----------------------------------------------------------------------------
(* The interface's call. *)

Call(pc, p) ==
  /\ account # None /\ ui = None /\ calls < MaxCalls /\ calls' = calls + 1
  /\ ui' = [pc |-> pc, who |-> p, list |-> mirror, approves |-> pc = "add"]
  /\ UpsetIf(\/ \E g \in bg : g.who = p
             \/ \E i \in DOMAIN inbox : inbox[i].who = p /\ inbox[i].kind # "asks",
             "crossed")

UiAt(pc) == ui # None /\ ui.pc = pc
UiGoes(pc) == ui' = [ui EXCEPT !.pc = pc]

AddBuddy(p) ==
  /\ mirror[p] = "none" /\ Call("new", p)
  /\ UNCHANGED <<account, list, tracked, marks, reqs, bg, loop, inbox, server, telling, sessions, answers>>

SendInsert ==
  /\ UiAt("insert") /\ UiGoes("record") /\ Inserted(ui.who, FALSE)
  /\ UNCHANGED <<account, list, tracked, marks, reqs, bg, loop, telling, counts, upsets>>

\* recordAuthReq, when the insert has gone; its group's order is still to go.
Record ==
  /\ UiAt("record") /\ UiGoes("list")
  /\ tracked' = tracked \cup {ui.who}
  /\ UNCHANGED <<account, list, marks, reqs, bg, loop, inbox, server, telling, counts, upsets>>

\* When that has gone too.
ListOf ==
  /\ UiAt("list") /\ ui' = [ui EXCEPT !.pc = "publish", !.list = mirror]
  /\ cached' = mirror
  /\ UNCHANGED <<account, mirror, shown, tracked, marks, reqs, bg, loop, inbox, server, telling, counts, upsets>>

ForgetConnectionRequest(p) == reqs' = reqs \ {p}

\* A request goes when the call that approves it has succeeded.
PublishBuddyList ==
  /\ UiAt("publish") /\ ui' = None /\ Publish(ui.list)
  /\ IF ui.approves THEN ForgetConnectionRequest(ui.who) ELSE UNCHANGED reqs
  /\ UNCHANGED <<account, mirror, cached, tracked, marks, bg, loop, inbox, server, telling, counts, upsets>>

\* forgetAccepted, then the edit.
RemoveBuddy(p) ==
  /\ shown[p] # "none" /\ Call("remove", p) /\ accepted' = accepted \ {p} /\ since' = since \ {p}
  /\ UNCHANGED <<account, list, tracked, unsent, reqs, bg, loop, inbox, server, telling, sessions, answers>>

\* Who is gone already is no failure: the store is put right.
RemoveRow ==
  /\ UiAt("remove")
  /\ IF mirror[ui.who] = "none"
     THEN ui' = None /\ Publish(cached) /\ UNCHANGED <<mirror, upsets>>
     ELSE UiGoes("delete") /\ mirror' = [mirror EXCEPT ![ui.who] = "none"]
          /\ Overtakes({"publish", "decide", "resend", "delete"}) /\ UNCHANGED shown
  /\ UNCHANGED <<account, cached, tracked, marks, reqs, bg, loop, inbox, server, telling, counts>>

SendDelete ==
  /\ UiAt("delete") /\ UiGoes("list") /\ Deleted(ui.who)
  /\ UNCHANGED <<account, list, tracked, marks, reqs, bg, loop, telling, counts, upsets>>

\* ApproveConnection: the server takes our agreement for theirs as well.
Approve(p) ==
  /\ p \in reqs /\ Call("add", p)
  /\ wants' = [wants EXCEPT ![account] = @ \ {p}]
  /\ agrees' = [agrees EXCEPT ![account] = @ \cup {p}]
  /\ asked' = [asked EXCEPT ![account] = @ \ {p}]
  /\ row' = [row EXCEPT ![account][p] = IF p \in asked[account] THEN "plain" ELSE @]
  /\ inbox' = IF row[account][p] = "pending" THEN Append(inbox, Message("accepted", p))
              ELSE IF p \in asked[account] THEN Append(inbox, Message("preauthorized", p)) ELSE inbox
  /\ UNCHANGED <<account, list, tracked, marks, reqs, bg, loop, telling, sessions, answers>>

\* The row of an add; one who is there already fails it, but for the reciprocal add of
\* an approval.
AddRow ==
  /\ UiAt("new") \/ UiAt("add")
  /\ IF mirror[ui.who] # "none"
     THEN /\ ui' = None /\ UNCHANGED <<mirror, upsets>>
          /\ IF ui.approves THEN Publish(cached) /\ ForgetConnectionRequest(ui.who) ELSE UNCHANGED <<shown, reqs>>
     ELSE /\ UiGoes("insert") /\ mirror' = [mirror EXCEPT ![ui.who] = "plain"]
          /\ Overtakes({"publish", "decide", "resend", "delete"}) /\ UNCHANGED <<shown, reqs>>
  /\ UNCHANGED <<account, cached, tracked, marks, bg, loop, inbox, server, telling, counts>>

\* Bound: a refusal uses up a call and an answer, and falls in a session that another may
\* follow.
Refuses(p) ==
  /\ Upset("paced") /\ sessions < MaxSessions
  /\ calls < MaxCalls /\ calls' = calls + 1 /\ Answers
  /\ unsent' = unsent \cup {p}

\* The call ends with the error, the mirror changed and the lists as they were: a row that
\* did not go, or the new order of its group, which goes after it.
UiRefused ==
  /\ ui # None /\ ui.pc \in {"insert", "delete", "list"} /\ Refuses(ui.who)
  /\ ui' = None
  /\ UNCHANGED <<account, list, tracked, accepted, since, reqs, bg, loop, inbox, server, telling, sessions>>

DeclineConnection(p) ==
  /\ p \in reqs /\ account # None /\ ui = None /\ calls < MaxCalls /\ calls' = calls + 1
  /\ ForgetConnectionRequest(p) /\ wants' = [wants EXCEPT ![account] = @ \ {p}]
  /\ UNCHANGED <<account, list, tracked, marks, ui, bg, loop, inbox, row, agrees, asked, telling, sessions, answers, upsets>>

-----------------------------------------------------------------------------
(* The read loop. *)

Reads(kind) == account # None /\ loop = None /\ inbox # <<>> /\ Head(inbox).kind = kind
Who == Head(inbox).who
Rest == inbox' = Tail(inbox)

Starts(pc, p) == bg' = bg \cup {[pc |-> pc, who |-> p, list |-> mirror, approves |-> FALSE]}

\* An add that is not on record is nobody's.
HandleFeedbagStatus ==
  /\ Reads("refused") \/ Reads("stored")
  /\ Rest
  /\ tracked' = tracked \ {Who}
  /\ UpsetIf(Who \notin tracked, "early")
  /\ IF Who \in tracked /\ Reads("refused") THEN Starts("check", Who) ELSE UNCHANGED bg
  /\ UNCHANGED <<account, list, marks, reqs, ui, loop, server, telling, counts>>

\* Mutant: an acceptance is not remembered.
MarksNobody(p) == UNCHANGED marks

MarkAccepted(p) == accepted' = accepted \cup {p} /\ since' = since \cup {p} /\ UNCHANGED unsent

Accepted ==
  /\ Reads("accepted") \/ Reads("preauthorized")
  /\ Rest /\ loop' = Who /\ MarkAccepted(Who)
  /\ UNCHANGED <<account, list, tracked, reqs, ui, bg, server, telling, counts, upsets>>

Cleared(p) == [mirror EXCEPT ![p] = IF @ = "pending" THEN "plain" ELSE @]

\* Clearing and publishing, under pendingMu.
ClearPending(p) ==
  /\ mirror' = Cleared(p) /\ cached' = Cleared(p) /\ Publish(Cleared(p))
  /\ IF \E g \in Threads : g.pc = "decide" /\ g.who \notin accepted \cup {p} THEN Upset("second") ELSE Overtakes({"publish"})

HandleAccepted ==
  /\ loop # None /\ loop' = None /\ ClearPending(loop)
  /\ UNCHANGED <<account, tracked, marks, reqs, ui, bg, inbox, server, telling, counts>>

\* Mutant: whoever is not known to have accepted is taken to be pending.
NeverAccepted(p) == p \notin accepted

WasPending(p) == cached[p] = "pending"

HandleConnectionResponse ==
  /\ Reads("declined") \/ Reads("removed")
  /\ Rest /\ Starts("forget", Who)
  /\ telling' = [of |-> Head(inbox).kind, told |-> WasPending(Who),
                listed |-> mirror[Who] # "none", unsent |-> Who \in unsent]
  /\ UNCHANGED <<account, list, tracked, marks, reqs, ui, loop, server, counts, upsets>>

HandleConnectionRequest ==
  /\ Reads("asks") /\ Rest /\ reqs' = reqs \cup {Who}
  /\ UNCHANGED <<account, list, tracked, marks, ui, bg, loop, server, telling, counts, upsets>>

-----------------------------------------------------------------------------
(* The goroutines of a refused add and of a severed connection. *)

Goes(g, pc) == bg' = (bg \ {g}) \cup {[g EXCEPT !.pc = pc]}
Ends(g) == bg' = bg \ {g}

\* Whoever has agreed in the meantime is not marked pending.
CheckAccepted(g) ==
  /\ g.pc = "check"
  /\ IF g.who \in accepted THEN Ends(g) /\ ClearPending(g.who) ELSE Goes(g, "mark") /\ UNCHANGED <<list, upsets>>
  /\ UNCHANGED <<account, tracked, marks, reqs, ui, loop, inbox, server, telling, counts>>

MarkBuddyPending(g) ==
  /\ g.pc = "mark"
  /\ CASE mirror[g.who] = "none"    -> Ends(g) /\ UNCHANGED <<mirror, upsets>>
       [] mirror[g.who] = "pending" -> Goes(g, "list") /\ UNCHANGED <<mirror, upsets>>
       [] mirror[g.who] = "plain"   -> /\ Goes(g, "resend") /\ Overtakes({"publish", "decide", "resend", "delete"})
                                       /\ mirror' = [mirror EXCEPT ![g.who] = "pending"]
  /\ UNCHANGED <<account, cached, shown, tracked, marks, reqs, ui, loop, inbox, server, telling, counts>>

ReAddBuddyPending(g) ==
  /\ g.pc = "resend" /\ Goes(g, "list") /\ Inserted(g.who, TRUE)
  /\ UNCHANGED <<account, list, tracked, marks, reqs, ui, loop, telling, counts, upsets>>

ListPending(g) ==
  /\ g.pc = "list" /\ bg' = (bg \ {g}) \cup {[g EXCEPT !.pc = "decide", !.list = mirror]}
  /\ cached' = mirror
  /\ UNCHANGED <<account, mirror, shown, tracked, marks, reqs, ui, loop, inbox, server, telling, counts, upsets>>

\* Mutant: the list taken before is published, whatever has come since.
DecideBlindly(g) ==
  /\ g.pc = "decide" /\ Ends(g) /\ Publish(g.list)
  /\ UNCHANGED <<account, mirror, cached, tracked, marks, reqs, ui, loop, inbox, server, telling, counts, upsets>>

\* Under pendingMu: an acceptance that has come by now wins.
Decide(g) ==
  /\ g.pc = "decide" /\ Ends(g)
  /\ IF g.who \in accepted THEN ClearPending(g.who) ELSE Publish(g.list) /\ UNCHANGED <<mirror, cached, upsets>>
  /\ UNCHANGED <<account, tracked, marks, reqs, ui, loop, inbox, server, telling, counts>>

\* RemoveBuddy again, off the read loop.
Forget(g) ==
  /\ g.pc = "forget" /\ Goes(g, "remove") /\ accepted' = accepted \ {g.who} /\ since' = since \ {g.who}
  /\ UNCHANGED <<account, list, tracked, unsent, reqs, ui, loop, inbox, server, telling, counts, upsets>>

SeverRow(g) ==
  /\ g.pc = "remove"
  /\ IF mirror[g.who] = "none" THEN Ends(g) /\ Publish(cached) /\ UNCHANGED <<mirror, upsets>>
     ELSE Goes(g, "delete") /\ mirror' = [mirror EXCEPT ![g.who] = "none"]
          /\ Overtakes({"publish", "decide", "resend", "delete"}) /\ UNCHANGED shown
  /\ UNCHANGED <<account, cached, tracked, marks, reqs, ui, loop, inbox, server, telling, counts>>

SendSevered(g) ==
  /\ g.pc = "delete" /\ Goes(g, "listSevered") /\ Deleted(g.who)
  /\ UNCHANGED <<account, list, tracked, marks, reqs, ui, loop, telling, counts, upsets>>

ListSevered(g) ==
  /\ g.pc = "listSevered" /\ bg' = (bg \ {g}) \cup {[g EXCEPT !.pc = "publish", !.list = mirror]}
  /\ cached' = mirror
  /\ UNCHANGED <<account, mirror, shown, tracked, marks, reqs, ui, loop, inbox, server, telling, counts, upsets>>

PublishSevered(g) ==
  /\ g.pc = "publish" /\ Ends(g) /\ Publish(g.list)
  /\ UNCHANGED <<account, mirror, cached, tracked, marks, reqs, ui, loop, inbox, server, telling, counts, upsets>>

BgRefused(g) ==
  /\ g.pc \in {"resend", "delete", "listSevered"} /\ Refuses(g.who)
  /\ Ends(g)
  /\ UNCHANGED <<account, list, tracked, accepted, since, reqs, ui, loop, inbox, server, telling, sessions>>

-----------------------------------------------------------------------------
(* Sessions. *)

SignOn(a) ==
  /\ account = None /\ sessions < MaxSessions /\ sessions' = sessions + 1
  /\ UpsetIf(a # CHOOSE b \in Accounts : TRUE, "account")
  /\ account' = a /\ mirror' = row[a] /\ cached' = row[a] /\ Publish(row[a])
  /\ tracked' = {} /\ since' = {} /\ unsent' = unsent \cap (reqs \cup asked[a])
  /\ inbox' = <<>>
  /\ UNCHANGED <<accepted, reqs, ui, bg, loop, server, telling, calls, answers>>

\* The list a goroutine would publish, from the mirror of its own session.
Over(g) == IF g.pc = "check" \/ (g.who \in accepted /\ g.pc = "decide") THEN Cleared(g.who)
           ELSE IF g.pc \in {"record", "list", "listSevered"} THEN mirror ELSE g.list

\* Past its last send a goroutine still publishes; before it the send fails, and with it
\* what an approval would have done to its request.
Straggling(g) == g.pc \in {"record", "list", "listSevered", "publish", "decide"} \/ (g.pc = "check" /\ g.who \in accepted)

Empty == [p \in People |-> "none"]

SignOff ==
  /\ account # None /\ UpsetIf(~Quiet, "across")
  /\ account' = None /\ inbox' = <<>> /\ loop' = None /\ ui' = None /\ bg' = {}
  /\ mirror' = Empty /\ cached' = Empty
  /\ \E entries \in {Empty} \cup {Over(g) : g \in {h \in Threads : Straggling(h)}} : Publish(entries)
  /\ reqs' \in {reqs} \cup {reqs \ {g.who} : g \in {h \in Threads : h.approves /\ Straggling(h)}}
  /\ UNCHANGED <<tracked, marks, server, telling, counts>>

-----------------------------------------------------------------------------
UiRuns == SendInsert \/ Record \/ ListOf \/ PublishBuddyList \/ RemoveRow \/ SendDelete \/ AddRow
          \/ UiRefused

LoopRuns ==
  \/ HandleFeedbagStatus \/ Accepted \/ HandleAccepted
  \/ HandleConnectionResponse \/ HandleConnectionRequest

BgRuns ==
  \E g \in bg :
    \/ CheckAccepted(g) \/ MarkBuddyPending(g) \/ ReAddBuddyPending(g) \/ ListPending(g) \/ Decide(g)
    \/ Forget(g) \/ SeverRow(g) \/ SendSevered(g) \/ ListSevered(g) \/ PublishSevered(g)
    \/ BgRefused(g)

Peers ==
  \E p \in People : \/ \E a \in Accounts : Agrees(a, p) \/ Declines(a, p) \/ Removes(a, p)
                    \/ Asks(p)

User ==
  \/ \E p \in People : AddBuddy(p) \/ RemoveBuddy(p) \/ Approve(p) \/ DeclineConnection(p)
  \/ \E a \in Accounts : SignOn(a)
  \/ SignOff

Runs == UiRuns \/ LoopRuns \/ BgRuns

Next == Runs \/ Peers \/ User

Spec == Init /\ [][Next]_vars

\* Every goroutine runs on to its end, and the read loop reads.
FairSpec == Spec /\ WF_vars(UiRuns) /\ WF_vars(LoopRuns) /\ WF_vars(BgRuns)

-----------------------------------------------------------------------------
Calls == [pc : {"new", "insert", "record", "list", "publish", "remove", "delete", "add", "check", "mark",
                "resend", "decide", "forget", "listSevered"}, who : People, list : Entries, approves : BOOLEAN]

ASSUME NoneIsNoCall == None \notin Calls

\* Types of the client's state: the account's three copies of its list, what is
\* remembered of the adds and the answers, and the goroutines (client.go, feedbag_auth.go).
TypeOK ==
  /\ account \in Accounts \cup {None} /\ {mirror, cached, shown} \subseteq Entries
  /\ tracked \subseteq People /\ since \subseteq accepted /\ accepted \subseteq People
  /\ unsent \subseteq People /\ reqs \subseteq People /\ ui \in Calls \cup {None} /\ bg \subseteq Calls
  /\ loop \in People \cup {None} /\ row \in [Accounts -> Entries]

\* When nothing is under way the user is shown what the server stores: nobody waits for an
\* answer that has come, whichever of it and the refusal was handled first, and nobody who
\* severed is listed (pendingMu and the accepted map, client.go handleFeedbagStatus); and
\* every request the user is offered waits for this account's answer (App.connReqs).  A
\* send that is refused leaves the copies apart, but only those of whom it was about, and
\* only until a sign-on that finds no request between the two still waiting for an answer.
PendingIsTrue ==
  account # None /\ Quiet =>
    /\ \A p \in People \ unsent :
         shown[p] = row[account][p] /\ cached[p] = row[account][p] /\ mirror[p] = row[account][p]
    /\ reqs \ unsent \subseteq wants[account]

\* A refusal is told to the user who still waits, a removal to nobody; the wire does not say
\* which it is, and the mark they are told apart by is another goroutine's to set, whose
\* send may be refused (ConnectionResponse.WasPending).
AnswersAreTold ==
  telling # None /\ telling.listed /\ ~telling.unsent => telling.told = (telling.of = "declined")

\* Only who agreed in this session passes for accepted (client.go wasAccepted: "was
\* approved this session").
AcceptedThisSession == account # None => accepted = since

\* Whoever has agreed comes to be shown as a buddy, unless the connection or the session
\* ends first, or a send about them is refused (handleConnectionResponse, handlePreAuthorized).
AcceptanceShows ==
  \A p \in People, a \in Accounts :
    account = a /\ row[a][p] = "plain" ~> account # a \/ row[a][p] # "plain" \/ shown[p] = "plain" \/ p \in unsent
=============================================================================
