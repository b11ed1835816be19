---------------------------- MODULE MessageSend ----------------------------
(***************************************************************************)
(* Direct messages from one client to one peer: deciding the seal, the     *)
(* directory lookup that decision may wait for, the write, the row in the  *)
(* conversation, and the acknowledgement, error or timeout that settles it.*)
(*                                                                         *)
(* Calls run side by side; the read loop handles one frame at a time.      *)
(* The server and the directory are external.  A manifest of the peer is   *)
(* its counter, and 0 stands for none: a seal of 0 is a message in clear.  *)
(* Encryption is on, this device has its keys, and the server carries a    *)
(* key directory.                                                          *)
(***************************************************************************)
EXTENDS Naturals, Sequences, FiniteSets

CONSTANTS
  Texts,         \* what the user types, each with a call of its own
  None,          \* no call
  Upsets,        \* what may go wrong: a subset of UpsetKinds
  MaxSends,      \* bound: messages written
  MaxManifests,  \* bound: manifests the peer publishes
  MaxUpsets      \* bound: upsets, all told

\* `early`: an answer handled before its message is registered.  `race`: two calls
\* read Session.reqID at once.  `late`: a sign-off between RefreshPeerKeys' verdict and
\* the seal it was for.  `unasked`: a lookup begun between a session's being cleared and
\* its being closed, which asks nobody.  A restart is a sign-off that also empties the
\* composer.
UpsetKinds == {"signoff", "drop", "unanswered", "absent", "rollback", "early", "race", "late",
               "unasked"}

ASSUME SendAssumption == None \notin Texts /\ Upsets \subseteq UpsetKinds
ASSUME SendBounds == MaxSends \in Nat /\ MaxManifests \in Nat /\ MaxUpsets \in Nat

VARIABLES
  session,   \* "on", "off", or "closing": Client.session is cleared, its connection not closed
  composer,  \* texts not submitted, or whose send returned an error
  call,      \* the SendMessage call each text is in
  sent,      \* messages written, by cookie: the text, its request, its fate
  row,       \* the conversation's row for each message
  live,      \* rows that still know their cookie
  tracked,   \* sendsByCookie: messages whose timer is running
  byReq,     \* sendsByReq: the messages its entries name
  answers,   \* messages whose acknowledgement or error is on its way
  best,      \* history: the newest manifest any message has been sealed for
  keys,      \* the session's cached device set of the peer; is a refresh under way
  pin,       \* the persisted high-water mark of the peer's manifests
  published, \* the directory's manifest of the peer
  upsets

sends == <<sent, answers>>
books == <<row, live, tracked, byReq>>
known == <<keys, pin, best>>
vars  == <<session, composer, call, sends, books, known, published, upsets>>

Counters == 0..MaxManifests
Cookies  == DOMAIN sent

Call == [pc : {"seal", "ask", "told", "reseal", "write", "row", "track"}, again : BOOLEAN, old : BOOLEAN,
         since : Counters, told : Counters, seal : Counters, cookie : 0..MaxSends]

\* `cut`: the connection was lost before the answer came.
Send == [text : Texts, req : 1..MaxSends, cut : BOOLEAN,
         fate : {"sent", "accepted", "refused", "dropped"}]

TypeOK ==
  /\ session \in {"on", "closing", "off"}
  /\ composer \subseteq Texts
  /\ call \in [Texts -> Call \cup {None}]
  /\ sent \in Seq(Send) /\ Len(sent) <= MaxSends
  /\ row \in [1..MaxSends -> {"none", "shown", "notSent"}]
  /\ live \subseteq Cookies /\ tracked \subseteq Cookies
  /\ byReq \subseteq Cookies /\ answers \subseteq Cookies
  /\ keys \in [at : Counters, asking : BOOLEAN]
  /\ pin \in Counters /\ best \in Counters /\ published \in Counters /\ upsets \in 0..MaxUpsets

NoKeys == [at |-> 0, asking |-> FALSE]

\* The trust file may remember the peer from an earlier run.
Init ==
  /\ session = "on" /\ composer = Texts
  /\ call = [t \in Texts |-> None]
  /\ sent = <<>> /\ answers = {}
  /\ row = [c \in 1..MaxSends |-> "none"] /\ live = {} /\ tracked = {} /\ byReq = {}
  /\ published \in Counters /\ pin \in 0..published /\ best = pin
  /\ keys = NoKeys /\ upsets = 0

Upset(kind) == kind \in Upsets /\ upsets < MaxUpsets /\ upsets' = upsets + 1

At(t, pc) == call[t] # None /\ call[t].pc = pc

Go(t, step) == call' = [call EXCEPT ![t] = step]

\* SendMessage returns an error: the composer keeps what was typed into it, a
\* resend has nothing to give back.
Fail(t) ==
  /\ Go(t, None)
  /\ composer' = IF call[t].again THEN composer ELSE composer \cup {t}

-----------------------------------------------------------------------------
(* What the directory teaches. *)

\* Mutant: a manifest is held against the session's cache, not the persisted mark.
TeachesByCache(m) == m # 0 /\ m >= keys.at

\* The counter rule: at the pin it is the manifest already held, above it a newer one.
Teaches(m) == m # 0 /\ m >= pin

Learn(m) ==
  IF Teaches(m)
  THEN keys' = [at |-> m, asking |-> FALSE] /\ pin' = m
  ELSE keys' = [keys EXCEPT !.asking = FALSE] /\ pin' = pin

\* What a query is answered with; an error reply reads as "nothing published".
Answer(since, m) ==
  \/ m \in since..published /\ UNCHANGED upsets
  \/ m = 0 /\ published # 0 /\ Upset("absent")
  \/ m \in 1..published /\ m < since /\ Upset("rollback")

KnownToHavePublished == keys.at # 0 \/ pin # 0

-----------------------------------------------------------------------------
(* SendMessage and ResendMessage. *)

NewCall(again) == [pc |-> "seal", again |-> again, old |-> FALSE, since |-> 0, told |-> 0, seal |-> 0,
                   cookie |-> 0]

SendMessage(t) ==
  /\ session = "on" /\ t \in composer /\ call[t] = None
  /\ composer' = composer \ {t}
  /\ Go(t, NewCall(FALSE))
  /\ UNCHANGED <<session, sends, books, known, published, upsets>>

TakeMessage(c) == row' = [row EXCEPT ![c] = "none"] /\ live' = live \ {c}

\* The row is taken first: without a session the send that follows fails, and the text
\* is gone.  Once the connection is closed the store is empty, and there is no row.
ResendMessage(c) ==
  LET t == sent[c].text
  IN  /\ row[c] = "notSent" /\ call[t] = None /\ session # "off"
      /\ TakeMessage(c)
      /\ IF session = "on" THEN Go(t, NewCall(TRUE)) ELSE UNCHANGED call
      /\ UNCHANGED <<session, composer, sends, tracked, byReq, known, published, upsets>>

Seal(t, seal) ==
  /\ Go(t, [call[t] EXCEPT !.pc = "write", !.seal = seal])
  /\ best' = IF seal > best THEN seal ELSE best

\* Keys in hand seal at once, and a set older than peerKeyTTL, or the first of many
\* messages to find it so, is re-read behind the message's back.
SealWithKeys(t) ==
  /\ At(t, "seal") /\ keys.at # 0
  /\ Seal(t, keys.at)
  /\ \E stale \in BOOLEAN : keys' = [keys EXCEPT !.asking = @ \/ stale]
  /\ UNCHANGED <<session, composer, sends, books, pin, published, upsets>>

AskFirst(t) ==
  /\ At(t, "seal") /\ keys.at = 0 /\ session = "on"
  /\ Go(t, [call[t] EXCEPT !.pc = "ask", !.since = published])
  /\ UNCHANGED <<session, composer, sends, books, known, published, upsets>>

\* Without a Client.session nobody is asked, and SupportsKeyDir's "no" reads as the
\* deployment having no directory: absent, whatever is known of the peer.
AskNobody(t) ==
  /\ At(t, "seal") /\ keys.at = 0 /\ session # "on"
  /\ IF call[t].old THEN UNCHANGED upsets ELSE Upset("unasked")
  /\ Go(t, [call[t] EXCEPT !.pc = "reseal"])
  /\ UNCHANGED <<session, composer, sends, books, known, published>>

\* The read loop learns from the reply and hands it to the call that waits.
QueryAnswered(t) ==
  /\ session = "on" /\ At(t, "ask")
  /\ \E m \in Counters :
       /\ Answer(call[t].since, m)
       /\ Learn(m)
       /\ Go(t, [call[t] EXCEPT !.pc = "told", !.told = m])
  /\ UNCHANGED <<session, composer, sends, books, best, published>>

RefreshAnswered ==
  /\ session = "on" /\ keys.asking
  /\ \E m \in Counters : Answer(keys.at, m) /\ Learn(m)
  /\ UNCHANGED <<session, composer, call, sends, books, best, published>>

\* keyDirTimeout, or a query that could not be sent: nothing is sent in its place.
QueryUnanswered(t) ==
  /\ At(t, "ask")
  /\ IF session = "on" /\ ~call[t].old THEN Upset("unanswered") ELSE UNCHANGED upsets
  /\ Fail(t)
  /\ UNCHANGED <<session, sends, books, known, published>>

RefreshUnanswered ==
  /\ keys.asking
  /\ IF session = "on" THEN Upset("unanswered") ELSE UNCHANGED upsets
  /\ keys' = [keys EXCEPT !.asking = FALSE]
  /\ UNCHANGED <<session, composer, call, sends, books, pin, best, published>>

\* RefreshPeerKeys' verdict: no answer that can be acted on.
Unavailable(told) == IF told = 0 THEN KnownToHavePublished ELSE keys.at = 0

Weigh(t) ==
  /\ At(t, "told")
  /\ IF Unavailable(call[t].told) THEN Fail(t)
     ELSE /\ Go(t, [call[t] EXCEPT !.pc = "reseal", !.since = 0, !.told = 0])
          /\ UNCHANGED composer
  /\ UNCHANGED <<session, sends, books, known, published, upsets>>

\* sealFor again, whatever the verdict was: no keys now means the clear.
Reseal(t) ==
  /\ At(t, "reseal")
  /\ Seal(t, keys.at)
  /\ UNCHANGED <<session, composer, sends, books, keys, pin, published, upsets>>

\* The request ID is one past the last, or the last again when two calls race for it.
NewReq(req) ==
  \/ req = Len(sent) + 1 /\ UNCHANGED upsets
  \/ /\ Upset("race") /\ sent # <<>>
     /\ \E u \in Texts : At(u, "row") /\ call[u].cookie = Len(sent)
     /\ req = sent[Len(sent)].req

\* Session.SendMessage: a fresh cookie; a closed connection refuses the write.
Write(t) ==
  /\ At(t, "write") /\ ~call[t].old /\ Len(sent) < MaxSends
  /\ \E req \in 1..MaxSends :
       /\ NewReq(req)
       /\ sent' = Append(sent, [text |-> t, req |-> req, cut |-> FALSE, fate |-> "sent"])
  /\ Go(t, [call[t] EXCEPT !.pc = "row", !.seal = 0, !.cookie = Len(sent) + 1])
  /\ UNCHANGED <<session, composer, answers, books, known, published>>

WriteFails(t) ==
  /\ At(t, "write") /\ call[t].old
  /\ Fail(t)
  /\ UNCHANGED <<session, sends, books, known, published, upsets>>

AddMessage(t) ==
  /\ At(t, "row")
  /\ row' = [row EXCEPT ![call[t].cookie] = "shown"]
  /\ live' = live \cup {call[t].cookie}
  /\ Go(t, [call[t] EXCEPT !.pc = "track"])
  /\ UNCHANGED <<session, composer, sends, tracked, byReq, known, published, upsets>>

SameReq(c) == {d \in byReq : sent[d].req = sent[c].req}

\* Mutant: the message is filed under its request and never timed.
TrackedByReqOnly(c) == tracked' = tracked /\ byReq' = (byReq \ SameReq(c)) \cup {c}

\* Both maps take the message, then the timer starts.
Tracked(c) == tracked' = tracked \cup {c} /\ byReq' = (byReq \ SameReq(c)) \cup {c}

TrackSend(t) ==
  /\ At(t, "track")
  /\ Tracked(call[t].cookie)
  /\ Go(t, None)
  /\ UNCHANGED <<session, composer, sends, row, live, known, published, upsets>>

-----------------------------------------------------------------------------
(* The server, and what settles a message. *)

\* It takes a message, rejects it, or, over a rate limit, discards it in silence.
ServerDecides(c) ==
  /\ session # "off" /\ sent[c].fate = "sent" /\ ~sent[c].cut
  /\ \E fate \in {"accepted", "refused", "dropped"} :
       /\ sent' = [sent EXCEPT ![c].fate = fate]
       /\ answers' = IF fate = "dropped" THEN answers ELSE answers \cup {c}
  /\ UNCHANGED <<session, composer, call, books, known, published, upsets>>

\* dropSendLocked: both entries, whichever index found them; the timer stops.
DropSend(c) == tracked' = tracked \ {c} /\ byReq' = byReq \ SameReq(c)

SetNotSent(c) ==
  row' = IF c \in live THEN [row EXCEPT ![c] = "notSent"] ELSE row

\* An answer is taken off the wire, normally once its message is registered.
Arrives(c) ==
  /\ session = "on" /\ c \in answers
  /\ answers' = answers \ {c}
  /\ IF \E t \in Texts : call[t] # None /\ call[t].cookie = c
     THEN Upset("early") ELSE UNCHANGED upsets
  /\ UNCHANGED <<session, composer, call, sent, live, known, published>>

\* Mutant: an acknowledgement leaves the timer running.
AckLeavesTimer(c) ==
  /\ sent[c].fate = "accepted" /\ Arrives(c)
  /\ UNCHANGED <<row, tracked, byReq>>

HostAck(c) ==
  /\ sent[c].fate = "accepted" /\ Arrives(c)
  /\ IF c \in tracked THEN DropSend(c) ELSE UNCHANGED <<tracked, byReq>>
  /\ UNCHANGED row

\* An error names a request: the row it flags is the one filed under it.
ICBMErr(c) ==
  /\ sent[c].fate = "refused" /\ Arrives(c)
  /\ IF SameReq(c) = {} THEN UNCHANGED <<row, tracked, byReq>>
     ELSE \E d \in SameReq(c) : DropSend(d) /\ SetNotSent(d)

\* No answer is coming: discarded, or its connection is gone.
Silent(c) == sent[c].fate = "dropped" \/ sent[c].cut \/ (sent[c].fate # "sent" /\ c \notin answers)

\* ackTimeout is far longer than a round trip, so it runs out only on silence.
AckTimeout(c) ==
  /\ c \in tracked /\ Silent(c)
  /\ DropSend(c) /\ SetNotSent(c)
  /\ UNCHANGED <<session, composer, call, sends, live, known, published, upsets>>

-----------------------------------------------------------------------------
(* Sessions, and the peer. *)

\* The store is reset.  The saved history will bring back the rows the last save
\* had, and a saved row has no cookie.
Reset ==
  /\ live' = {}
  /\ \E last \in 0..Len(sent) :
       row' = [c \in 1..MaxSends |-> IF c <= last THEN row[c] ELSE "none"]

\* The connection is gone, with every answer still due on it.
Cut ==
  /\ session' = "off" /\ answers' = {} /\ Reset
  /\ sent' = [c \in Cookies |->
                IF sent[c].fate = "sent" \/ c \in answers THEN [sent[c] EXCEPT !.cut = TRUE]
                ELSE sent[c]]

Aged == [t \in Texts |-> IF call[t] = None THEN None ELSE [call[t] EXCEPT !.old = TRUE]]

\* The read loop ends: the session is cleared, then closed, and no keys are forgotten.
Drop ==
  /\ session = "on" /\ Upset("drop")
  /\ session' = "closing"
  /\ UNCHANGED <<composer, call, sends, books, known, published>>

\* Client.SignOff: the session is cleared and the keys forgotten, then it is closed.
SignOff ==
  /\ session = "on"
  /\ Upset(IF \E t \in Texts : At(t, "reseal") /\ ~call[t].old THEN "late" ELSE "signoff")
  /\ session' = "closing" /\ keys' = NoKeys
  /\ UNCHANGED <<composer, call, sends, books, pin, best, published>>

Close ==
  /\ session = "closing"
  /\ Cut /\ call' = Aged
  /\ UNCHANGED <<composer, tracked, byReq, known, published, upsets>>

\* RestoreConversations replaces whatever a late AddMessage put in the empty store.
SignOn ==
  /\ session = "off" /\ session' = "on"
  /\ row' = [c \in 1..MaxSends |-> IF c \in live THEN "none" ELSE row[c]]
  /\ live' = {}
  /\ UNCHANGED <<composer, call, sends, tracked, byReq, known, published, upsets>>

PeerPublishes ==
  /\ published < MaxManifests /\ published' = published + 1
  /\ UNCHANGED <<session, composer, call, sends, books, known, upsets>>

-----------------------------------------------------------------------------
CallStep(t) ==
  \/ SealWithKeys(t) \/ AskFirst(t) \/ AskNobody(t) \/ QueryAnswered(t) \/ QueryUnanswered(t)
  \/ Weigh(t) \/ Reseal(t) \/ Write(t) \/ WriteFails(t) \/ AddMessage(t) \/ TrackSend(t)

Settle(c) == ServerDecides(c) \/ HostAck(c) \/ ICBMErr(c) \/ AckTimeout(c)

Next ==
  \/ \E t \in Texts : SendMessage(t) \/ CallStep(t)
  \/ \E c \in Cookies : ResendMessage(c) \/ Settle(c)
  \/ RefreshAnswered \/ RefreshUnanswered \/ PeerPublishes
  \/ Drop \/ SignOff \/ Close \/ SignOn

\* Goroutines run, a server on a live connection reads what it is sent, timers fire.
\* Calls and messages are finite in number and each takes finitely many steps, so one
\* condition for all of them is enough.
Fairness ==
  /\ WF_vars((\E t \in Texts : CallStep(t)) \/ (\E c \in Cookies : Settle(c)))
  /\ WF_vars(Close)

Spec == Init /\ [][Next]_vars /\ Fairness

-----------------------------------------------------------------------------
(* Properties. *)

\* "a false 'not sent' on a message that did arrive is worse than a slow one"
\* (ackTimeout): of acknowledgement, error and timeout the first to act is right, so
\* long as the connection lasts.
NotSentIsNotDelivered ==
  \A c \in Cookies : row[c] = "notSent" /\ ~sent[c].cut => sent[c].fate # "accepted"

\* Once a call has decided to seal for the peer, none whose connection can still carry
\* it decides on the clear or on an older manifest, whatever the directory says or
\* fails to say and whether or not this process remembers the peer.
SealsNeverStepBack ==
  [][\A t \in Texts : At(t, "write")' /\ ~At(t, "write") /\ ~call'[t].old
                        => call'[t].seal >= best]_vars

\* What the user typed is in the composer, in a call, or in a row, until it is
\* delivered ("the message is kept and a retry encrypts", sealOutbound).
TextIsKept ==
  \A t \in Texts :
    \/ t \in composer \/ call[t] # None
    \/ \E c \in Cookies : sent[c].text = t /\ (row[c] # "none" \/ sent[c].fate = "accepted")

\* A message the server never took does not go on looking sent.
SendsSettle ==
  \A c \in 1..MaxSends :
    (c \in live /\ row[c] = "shown")
      ~> (c \notin live \/ row[c] = "notSent" \/ sent[c].fate = "accepted")

\* The same for the rows a later session restores ("Persisted, so a message that
\* failed still reads as failed after a restart", Message.NotSent).
RestoredRowsSettle ==
  \A c \in 1..MaxSends :
    row[c] = "shown" ~> (row[c] # "shown" \/ sent[c].fate = "accepted")
=============================================================================
