-------------------------- MODULE MessageSend_proof --------------------------
(***************************************************************************)
(* Theorems about MessageSend, for any texts, any numbers of messages,     *)
(* manifests and upsets: types; a row that says "not sent" is right as     *)
(* long as no answer overtakes its own registration and no two calls share *)
(* a request; and the seal never steps back, as long as no lookup begins   *)
(* while the session is cleared and not yet closed, and no sign-off falls  *)
(* between a lookup's verdict and the seal it was for.                     *)
(***************************************************************************)
EXTENDS MessageSend, TLAPS

\* Where a call stands decides whether it has a message, and which.
CallsHaveMessages ==
  \A t \in Texts : At(t, "row") \/ At(t, "track") => call[t].cookie \in Cookies

Types == TypeOK /\ CallsHaveMessages

LEMMA InitTypes == Init => Types
<1> SUFFICES ASSUME Init PROVE Types
  OBVIOUS
<1>1. \A t \in Texts : call[t] = None
  BY DEF Init
<1>2. CallsHaveMessages
  BY <1>1 DEF CallsHaveMessages, At
<1>3. TypeOK
  BY SendBounds DEF Init, TypeOK, Cookies, Counters, NoKeys
<1>4. QED BY <1>2, <1>3 DEF Types

-----------------------------------------------------------------------------
(* Types. *)

\* One call moves; the others stay.
LEMMA OneCall ==
  ASSUME TypeOK, NEW t \in Texts, NEW step, Go(t, step)
  PROVE  call'[t] = step /\ \A u \in Texts \ {t} : call'[u] = call[u]
  BY DEF Go, TypeOK

\* A call that is somewhere is a call.
LEMMA CallType ==
  ASSUME TypeOK, NEW t \in Texts, NEW pc, At(t, pc)
  PROVE  call[t] \in Call /\ call[t] # None /\ call[t].pc = pc
  BY DEF At, TypeOK

\* The messages written: one for each number up to how many there are.
LEMMA SentType ==
  ASSUME TypeOK
  PROVE  /\ Len(sent) \in 0..MaxSends /\ Cookies = 1..Len(sent)
         /\ \A c \in Cookies : sent[c] \in Send /\ c \in 1..MaxSends /\ c # 0
<1>1. sent \in Seq(Send) /\ Len(sent) <= MaxSends
  BY DEF TypeOK
<1>2. Len(sent) \in 0..MaxSends /\ Cookies = 1..Len(sent)
  BY <1>1, SendBounds DEF Cookies
<1>3. \A c \in Cookies : sent[c] \in Send
  BY <1>1, <1>2
<1>4. QED BY <1>2, <1>3, SendBounds

\* A step that moves one call within its type and leaves the messages written alone.
LEMMA CallMoves ==
  ASSUME Types, NEW t \in Texts, NEW step \in Call \cup {None}, Go(t, step),
         step # None => step.pc \notin {"row", "track"} \/ step.cookie \in Cookies,
         Cookies \subseteq Cookies'
  PROVE  call' \in [Texts -> Call \cup {None}] /\ CallsHaveMessages'
<1>1. call' \in [Texts -> Call \cup {None}]
  BY DEF Go, Types, TypeOK
<1>2. call'[t] = step /\ \A u \in Texts \ {t} : call'[u] = call[u]
  BY OneCall DEF Types
<1>3. CallsHaveMessages'
  BY <1>2 DEF CallsHaveMessages, At, Types
<1>4. QED BY <1>1, <1>3

\* The same where the calls do not move.
LEMMA CallsStay ==
  ASSUME Types, call' = call, Cookies \subseteq Cookies'
  PROVE  call' \in [Texts -> Call \cup {None}] /\ CallsHaveMessages'
  BY DEF Types, TypeOK, CallsHaveMessages, At

LEMMA UpsetType ==
  ASSUME TypeOK, NEW kind, Upset(kind) \/ UNCHANGED upsets
  PROVE  upsets' \in 0..MaxUpsets
  BY SendBounds DEF TypeOK, Upset

LEMMA LearnType ==
  ASSUME TypeOK, NEW m \in Counters, Learn(m)
  PROVE  keys' \in [at : Counters, asking : BOOLEAN] /\ pin' \in Counters
<1>1. CASE Teaches(m)
  <2>1. keys' = [at |-> m, asking |-> FALSE] /\ pin' = m
    BY <1>1 DEF Learn
  <2>2. [at |-> m, asking |-> FALSE] \in [at : Counters, asking : BOOLEAN]
    OBVIOUS
  <2>3. QED BY <2>1, <2>2
<1>2. CASE ~Teaches(m)
  <2>1. keys' = [keys EXCEPT !.asking = FALSE] /\ pin' = pin
    BY <1>2 DEF Learn
  <2>2. QED BY <2>1 DEF TypeOK
<1>3. QED BY <1>1, <1>2

LEMMA SendMessageTypes ==
  ASSUME Types, NEW t \in Texts, SendMessage(t) PROVE Types'
<1>1. NewCall(FALSE) \in Call /\ NewCall(FALSE).pc = "seal"
  BY SendBounds DEF NewCall, Call, Counters
<1>2. call' \in [Texts -> Call \cup {None}] /\ CallsHaveMessages'
  BY <1>1, CallMoves DEF SendMessage, Cookies, sends
<1>3. QED BY <1>2 DEF SendMessage, Types, TypeOK, sends, books, known, Cookies

LEMMA ResendMessageTypes ==
  ASSUME Types, NEW c \in Cookies, ResendMessage(c) PROVE Types'
<1>1. sent[c].text \in Texts
  BY SentType DEF Types, Send
<1>2. NewCall(TRUE) \in Call /\ NewCall(TRUE).pc = "seal"
  BY SendBounds DEF NewCall, Call, Counters
<1>3. ASSUME session = "on" PROVE call' \in [Texts -> Call \cup {None}] /\ CallsHaveMessages'
  BY <1>1, <1>2, <1>3, CallMoves DEF ResendMessage, Cookies, sends
<1>4. ASSUME session # "on" PROVE call' \in [Texts -> Call \cup {None}] /\ CallsHaveMessages'
  BY <1>4, CallsStay DEF ResendMessage, Cookies, sends
<1>5. call' \in [Texts -> Call \cup {None}] /\ CallsHaveMessages'
  BY <1>3, <1>4
<1>6. QED BY <1>5 DEF ResendMessage, TakeMessage, Types, TypeOK, sends, known, Cookies

LEMMA SealTypes ==
  ASSUME Types, NEW t \in Texts, SealWithKeys(t) \/ Reseal(t) PROVE Types'
<1>1. call[t] \in Call /\ keys.at \in Counters /\ keys \in [at : Counters, asking : BOOLEAN]
  BY CallType DEF SealWithKeys, Reseal, Types, TypeOK
<1> DEFINE step == [call[t] EXCEPT !.pc = "write", !.seal = keys.at]
<1>2. step \in Call /\ step.pc = "write"
  BY <1>1 DEF Call
<1>3. Go(t, step)
  BY DEF SealWithKeys, Reseal, Seal
<1> HIDE DEF step
<1>4. call' \in [Texts -> Call \cup {None}] /\ CallsHaveMessages'
  BY <1>2, <1>3, CallMoves DEF SealWithKeys, Reseal, Cookies, sends
<1>5. keys' \in [at : Counters, asking : BOOLEAN] /\ best' \in Counters
  BY <1>1 DEF SealWithKeys, Reseal, Seal, Types, TypeOK
<1>6. QED BY <1>4, <1>5 DEF SealWithKeys, Reseal, Types, TypeOK, sends, books, Cookies

LEMMA AskTypes ==
  ASSUME Types, NEW t \in Texts, AskFirst(t) \/ AskNobody(t) \/ QueryAnswered(t) PROVE Types'
<1>1. call[t] \in Call
  BY CallType DEF AskFirst, AskNobody, QueryAnswered, Types
<1>2. CASE AskFirst(t)
  <2> DEFINE step == [call[t] EXCEPT !.pc = "ask", !.since = published]
  <2>1. step \in Call /\ step.pc = "ask"
    BY <1>1 DEF Call, Types, TypeOK
  <2>2. Go(t, step)
    BY <1>2 DEF AskFirst
  <2> HIDE DEF step
  <2>3. call' \in [Texts -> Call \cup {None}] /\ CallsHaveMessages'
    BY <1>2, <2>1, <2>2, CallMoves DEF AskFirst, Cookies, sends
  <2>4. QED BY <1>2, <2>3 DEF AskFirst, Types, TypeOK, sends, books, known, Cookies
<1>3. CASE QueryAnswered(t)
  <2>1. PICK m \in Counters : Answer(call[t].since, m) /\ Learn(m)
                              /\ Go(t, [call[t] EXCEPT !.pc = "told", !.told = m])
    BY <1>3 DEF QueryAnswered
  <2> DEFINE step == [call[t] EXCEPT !.pc = "told", !.told = m]
  <2>2. step \in Call /\ step.pc = "told"
    BY <1>1 DEF Call
  <2> HIDE DEF step
  <2>3. call' \in [Texts -> Call \cup {None}] /\ CallsHaveMessages'
    BY <1>3, <2>1, <2>2, CallMoves DEF QueryAnswered, Cookies, sends, step
  <2>4. upsets' \in 0..MaxUpsets
    BY <2>1, UpsetType DEF Answer, Types
  <2>5. keys' \in [at : Counters, asking : BOOLEAN] /\ pin' \in Counters
    BY <2>1, LearnType DEF Types
  <2>6. QED
    BY <1>3, <2>3, <2>4, <2>5 DEF QueryAnswered, Types, TypeOK, sends, books, Cookies
<1>4. CASE AskNobody(t)
  <2> DEFINE step == [call[t] EXCEPT !.pc = "reseal"]
  <2>1. step \in Call /\ step.pc = "reseal"
    BY <1>1 DEF Call
  <2>2. Go(t, step)
    BY <1>4 DEF AskNobody
  <2> HIDE DEF step
  <2>3. call' \in [Texts -> Call \cup {None}] /\ CallsHaveMessages'
    BY <1>4, <2>1, <2>2, CallMoves DEF AskNobody, Cookies, sends
  <2>4. upsets' \in 0..MaxUpsets
    BY <1>4, UpsetType DEF AskNobody, Types
  <2>5. QED BY <1>4, <2>3, <2>4 DEF AskNobody, Types, TypeOK, sends, books, known, Cookies
<1>5. QED BY <1>2, <1>3, <1>4

LEMMA RefreshTypes ==
  ASSUME Types, RefreshAnswered \/ RefreshUnanswered PROVE Types'
<1>1. keys' \in [at : Counters, asking : BOOLEAN] /\ pin' \in Counters
  <2>1. CASE RefreshAnswered
    BY <2>1, LearnType DEF RefreshAnswered, Types
  <2>2. CASE RefreshUnanswered
    BY <2>2 DEF RefreshUnanswered, Types, TypeOK
  <2>3. QED BY <2>1, <2>2
<1>2. upsets' \in 0..MaxUpsets
  BY UpsetType DEF RefreshAnswered, RefreshUnanswered, Answer, Types
<1>3. call' \in [Texts -> Call \cup {None}] /\ CallsHaveMessages'
  BY CallsStay DEF RefreshAnswered, RefreshUnanswered, Cookies, sends
<1>4. QED BY <1>1, <1>2, <1>3 DEF RefreshAnswered, RefreshUnanswered, Types, TypeOK,
                                  sends, books, Cookies

\* The steps that end a call, and Weigh, which may.
LEMMA FailTypes ==
  ASSUME Types, NEW t \in Texts, QueryUnanswered(t) \/ WriteFails(t) \/ Weigh(t)
  PROVE  Types'
<1>1. call[t] \in Call
  BY CallType DEF QueryUnanswered, WriteFails, Weigh, Types
<1>2. upsets' \in 0..MaxUpsets
  BY UpsetType DEF QueryUnanswered, WriteFails, Weigh, Types
<1> DEFINE step == [call[t] EXCEPT !.pc = "reseal", !.since = 0, !.told = 0]
<1>3. step \in Call /\ step.pc = "reseal"
  <2>1. 0 \in Counters
    BY SendBounds DEF Counters
  <2>2. QED BY <1>1, <2>1 DEF Call
<1>4. /\ Go(t, None) \/ Go(t, step)
      /\ composer' \subseteq Texts
  BY DEF QueryUnanswered, WriteFails, Weigh, Fail, Types, TypeOK
<1> HIDE DEF step
<1>5. call' \in [Texts -> Call \cup {None}] /\ CallsHaveMessages'
  BY <1>3, <1>4, CallMoves DEF QueryUnanswered, WriteFails, Weigh, Cookies, sends
<1>6. QED BY <1>2, <1>4, <1>5 DEF QueryUnanswered, WriteFails, Weigh, Types, TypeOK,
                                  sends, books, known, Cookies

LEMMA WriteTypes ==
  ASSUME Types, NEW t \in Texts, Write(t) PROVE Types'
<1>1. PICK req \in 1..MaxSends :
        /\ NewReq(req)
        /\ sent' = Append(sent, [text |-> t, req |-> req, cut |-> FALSE, fate |-> "sent"])
  BY DEF Write
<1>2. /\ call[t] \in Call /\ Len(sent) \in 0..MaxSends /\ Len(sent) < MaxSends
      /\ sent \in Seq(Send) /\ Cookies = 1..Len(sent)
  BY CallType, SentType DEF Write, Types, TypeOK
<1>3. [text |-> t, req |-> req, cut |-> FALSE, fate |-> "sent"] \in Send
  BY DEF Send
<1>4. sent' \in Seq(Send) /\ Len(sent') = Len(sent) + 1
  BY <1>1, <1>2, <1>3
<1>5. Len(sent') <= MaxSends /\ Cookies' = 1..(Len(sent) + 1)
  BY <1>2, <1>4, SendBounds DEF Cookies
<1>6. Cookies \subseteq Cookies'
  BY <1>2, <1>5
<1> DEFINE step == [call[t] EXCEPT !.pc = "row", !.seal = 0, !.cookie = Len(sent) + 1]
<1>7. step \in Call /\ step.cookie \in Cookies'
  <2>1. 0 \in Counters /\ Len(sent) + 1 \in 0..MaxSends /\ Len(sent) + 1 \in Cookies'
    BY <1>2, <1>5, SendBounds DEF Counters
  <2>2. QED BY <1>2, <2>1 DEF Call
<1>8. Go(t, step)
  BY DEF Write
<1> HIDE DEF step
<1>9. call' \in [Texts -> Call \cup {None}]
  BY <1>7, <1>8 DEF Go, Types, TypeOK
<1>10. CallsHaveMessages'
  <2>1. call'[t] = step /\ \A u \in Texts \ {t} : call'[u] = call[u]
    BY <1>8, OneCall DEF Types
  <2>2. QED BY <1>6, <1>7, <2>1 DEF CallsHaveMessages, At, Types
<1>11. upsets' \in 0..MaxUpsets
  BY <1>1, UpsetType DEF NewReq, Types
<1>12. QED BY <1>4, <1>5, <1>6, <1>9, <1>10, <1>11 DEF Write, Types, TypeOK, books, known

LEMMA AddMessageTypes ==
  ASSUME Types, NEW t \in Texts, AddMessage(t) PROVE Types'
<1>1. /\ call[t] \in Call /\ call[t].cookie \in Cookies /\ call[t].cookie \in 1..MaxSends
  BY CallType, SentType DEF AddMessage, Types, CallsHaveMessages
<1> DEFINE step == [call[t] EXCEPT !.pc = "track"]
<1>2. step \in Call /\ step.cookie \in Cookies
  BY <1>1 DEF Call
<1>3. Go(t, step)
  BY DEF AddMessage
<1> HIDE DEF step
<1>4. call' \in [Texts -> Call \cup {None}] /\ CallsHaveMessages'
  BY <1>2, <1>3, CallMoves DEF AddMessage, Cookies, sends
<1>5. row' \in [1..MaxSends -> {"none", "shown", "notSent"}] /\ live' \subseteq Cookies
  BY <1>1 DEF AddMessage, Types, TypeOK
<1>6. QED BY <1>4, <1>5 DEF AddMessage, Types, TypeOK, sends, known, Cookies

LEMMA TrackSendTypes ==
  ASSUME Types, NEW t \in Texts, TrackSend(t) PROVE Types'
<1>1. call[t].cookie \in Cookies
  BY CallType, SentType DEF TrackSend, Types, CallsHaveMessages
<1>2. call' \in [Texts -> Call \cup {None}] /\ CallsHaveMessages'
  BY CallMoves DEF TrackSend, Cookies, sends
<1>3. tracked' \subseteq Cookies /\ byReq' \subseteq Cookies
  BY <1>1 DEF TrackSend, Tracked, SameReq, Types, TypeOK
<1>4. QED BY <1>2, <1>3 DEF TrackSend, Types, TypeOK, sends, known, Cookies

LEMMA ServerDecidesTypes ==
  ASSUME Types, NEW c \in Cookies, ServerDecides(c) PROVE Types'
<1>1. PICK fate \in {"accepted", "refused", "dropped"} :
        /\ sent' = [sent EXCEPT ![c].fate = fate]
        /\ answers' = IF fate = "dropped" THEN answers ELSE answers \cup {c}
  BY DEF ServerDecides
<1>2. sent[c] \in Send /\ sent \in Seq(Send) /\ Len(sent) <= MaxSends
  BY SentType DEF Types, TypeOK
<1>3. [sent[c] EXCEPT !.fate = fate] \in Send
  BY <1>2 DEF Send
<1>4. sent' \in Seq(Send) /\ Len(sent') = Len(sent) /\ Cookies' = Cookies
  BY <1>1, <1>2, <1>3 DEF Cookies
<1>5. call' \in [Texts -> Call \cup {None}] /\ CallsHaveMessages'
  BY <1>4, CallsStay DEF ServerDecides
<1>6. answers' \subseteq Cookies
  BY <1>1 DEF Types, TypeOK
<1>7. QED BY <1>2, <1>4, <1>5, <1>6 DEF ServerDecides, Types, TypeOK, books, known

LEMMA SettleTypes ==
  ASSUME Types, NEW c \in Cookies, HostAck(c) \/ ICBMErr(c) \/ AckTimeout(c) PROVE Types'
<1>1. Cookies' = Cookies /\ sent' = sent /\ answers' \subseteq Cookies
  BY DEF HostAck, ICBMErr, AckTimeout, Arrives, Types, TypeOK, Cookies, sends
<1>2. call' \in [Texts -> Call \cup {None}] /\ CallsHaveMessages'
  BY <1>1, CallsStay DEF HostAck, ICBMErr, AckTimeout, Arrives
<1>3. tracked' \subseteq Cookies /\ byReq' \subseteq Cookies
  BY DEF HostAck, ICBMErr, AckTimeout, DropSend, SameReq, Types, TypeOK
<1>4. row' \in [1..MaxSends -> {"none", "shown", "notSent"}]
  BY DEF HostAck, ICBMErr, AckTimeout, SetNotSent, Types, TypeOK
<1>5. upsets' \in 0..MaxUpsets
  BY UpsetType DEF HostAck, ICBMErr, AckTimeout, Arrives, Types
<1>6. QED BY <1>1, <1>2, <1>3, <1>4, <1>5 DEF HostAck, ICBMErr, AckTimeout, Arrives,
                                              Types, TypeOK, known

\* The connection is gone: every call is old, and nobody is answered.
LEMMA CutTypes ==
  ASSUME Types, Close PROVE Types'
<1>1. Cut /\ call' = Aged
  BY DEF Close
<1>2. sent \in Seq(Send) /\ Len(sent) \in 0..MaxSends /\ Cookies = 1..Len(sent)
  BY SentType DEF Types, TypeOK
<1>3. \A c \in Cookies : sent[c] \in Send /\ [sent[c] EXCEPT !.cut = TRUE] \in Send
  BY SentType DEF Types, Send
<1>4. /\ sent' = [c \in 1..Len(sent) |-> IF sent[c].fate = "sent" \/ c \in answers
                                         THEN [sent[c] EXCEPT !.cut = TRUE] ELSE sent[c]]
      /\ \A c \in 1..Len(sent) : sent'[c] \in Send
  BY <1>1, <1>2, <1>3 DEF Cut
<1>5. sent' \in Seq(Send) /\ Len(sent') = Len(sent) /\ Cookies' = Cookies
  BY <1>2, <1>4 DEF Cookies
<1>6. row' \in [1..MaxSends -> {"none", "shown", "notSent"}] /\ live' = {}
  BY <1>1 DEF Cut, Reset, Types, TypeOK
<1>7. \A t \in Texts : call'[t] = IF call[t] = None THEN None ELSE [call[t] EXCEPT !.old = TRUE]
  BY <1>1 DEF Aged
<1>8. \A t \in Texts : call[t] \in Call => /\ [call[t] EXCEPT !.old = TRUE] \in Call
                                           /\ [call[t] EXCEPT !.old = TRUE].pc = call[t].pc
                                           /\ [call[t] EXCEPT !.old = TRUE].cookie = call[t].cookie
  BY DEF Call
<1>9. call' \in [Texts -> Call \cup {None}]
  BY <1>1, <1>7, <1>8 DEF Aged, Types, TypeOK
<1>10. CallsHaveMessages'
  BY <1>5, <1>7, <1>8 DEF CallsHaveMessages, At, Types, TypeOK
<1>11. upsets' \in 0..MaxUpsets
  BY UpsetType DEF Close, Types
<1>12. session' = "off" /\ answers' = {}
  BY <1>1 DEF Cut
<1>13. QED BY <1>2, <1>5, <1>6, <1>9, <1>10, <1>11, <1>12 DEF Close, Types, TypeOK, known

LEMMA SessionTypes ==
  ASSUME Types, Drop \/ SignOff \/ SignOn \/ PeerPublishes PROVE Types'
<1>1. Cookies' = Cookies /\ sent' = sent
  BY DEF Drop, SignOff, SignOn, PeerPublishes, Cookies, sends
<1>2. call' \in [Texts -> Call \cup {None}] /\ CallsHaveMessages'
  BY <1>1, CallsStay DEF Drop, SignOff, SignOn, PeerPublishes
<1>3. upsets' \in 0..MaxUpsets
  BY UpsetType DEF Drop, SignOff, SignOn, PeerPublishes, Types
<1>4. NoKeys \in [at : Counters, asking : BOOLEAN]
  BY SendBounds DEF NoKeys, Counters
<1>5. published' \in Counters
  BY SendBounds DEF Drop, SignOff, SignOn, PeerPublishes, Types, TypeOK, Counters
<1>6. CASE Drop \/ SignOff
  BY <1>1, <1>2, <1>3, <1>4, <1>5, <1>6 DEF Drop, SignOff, Types, TypeOK, sends, books, known
<1>7. CASE SignOn
  <2>1. row' \in [1..MaxSends -> {"none", "shown", "notSent"}] /\ live' = {}
    BY <1>7 DEF SignOn, Types, TypeOK
  <2>2. QED BY <1>1, <1>2, <1>3, <1>5, <1>7, <2>1 DEF SignOn, Types, TypeOK, sends, known
<1>8. CASE PeerPublishes
  BY <1>1, <1>2, <1>3, <1>5, <1>8 DEF PeerPublishes, Types, TypeOK, sends, books, known
<1>9. QED BY <1>6, <1>7, <1>8

LEMMA StepTypes == Types /\ [Next]_vars => Types'
<1> SUFFICES ASSUME Types, [Next]_vars PROVE Types'
  OBVIOUS
<1>1. ASSUME NEW t \in Texts, SendMessage(t) \/ CallStep(t) PROVE Types'
  BY <1>1, SendMessageTypes, SealTypes, AskTypes, FailTypes, WriteTypes, AddMessageTypes,
     TrackSendTypes DEF CallStep
<1>2. ASSUME NEW c \in Cookies, ResendMessage(c) \/ Settle(c) PROVE Types'
  BY <1>2, ResendMessageTypes, ServerDecidesTypes, SettleTypes DEF Settle
<1>3. CASE RefreshAnswered \/ RefreshUnanswered
  BY <1>3, RefreshTypes
<1>4. CASE Close
  BY <1>4, CutTypes
<1>5. CASE Drop \/ SignOff \/ SignOn \/ PeerPublishes
  BY <1>5, SessionTypes
<1>6. CASE UNCHANGED vars
  BY <1>6 DEF vars, Types, TypeOK, CallsHaveMessages, At, Cookies, sends, books, known
<1>7. QED BY <1>1, <1>2, <1>3, <1>4, <1>5, <1>6 DEF Next

\* Calls, messages, rows and what is awaited keep their types, and a call that has
\* written its message knows which: for any texts and any bounds.
THEOREM TypeCorrect == Spec => []TypeOK
<1>1. Spec => []Types
  BY InitTypes, StepTypes, PTL DEF Spec
<1>2. Types => TypeOK
  BY DEF Types
<1>3. QED BY <1>1, <1>2, PTL

-----------------------------------------------------------------------------
(* "Not sent" is right. *)

\* A request of its own for each message: no two calls raced for one.
OwnRequests == \A c \in Cookies : sent[c].req = c

\* Somebody will still act on the answer: its timer runs, or the call that wrote it is
\* about to start one.
Awaited(c) ==
  \/ c \in tracked
  \/ \E t \in Texts : (At(t, "row") \/ At(t, "track")) /\ call[t].cookie = c

\* The answer to a message somebody awaits is still on its way.
AnswersDue ==
  \A c \in Cookies :
    Awaited(c) /\ ~sent[c].cut /\ sent[c].fate \in {"accepted", "refused"} => c \in answers

\* Either a message was turned away, or its connection was lost with the answer.
RightlyNotSent ==
  \A c \in Cookies : row[c] = "notSent" /\ ~sent[c].cut => sent[c].fate \in {"refused", "dropped"}

UnwrittenHaveNoRow == \A c \in 1..MaxSends : c \notin Cookies => row[c] = "none"

Truth == OwnRequests /\ tracked \subseteq byReq /\ AnswersDue /\ RightlyNotSent /\ UnwrittenHaveNoRow

NoRace == "early" \notin Upsets /\ "race" \notin Upsets

LEMMA InitTruth == Init => Truth
<1> SUFFICES ASSUME Init PROVE Truth
  OBVIOUS
<1>1. Cookies = {} /\ tracked = {} /\ \A c \in 1..MaxSends : row[c] = "none"
  BY DEF Init, Cookies
<1>2. QED BY <1>1 DEF Truth, OwnRequests, AnswersDue, RightlyNotSent, UnwrittenHaveNoRow

\* A step that writes nothing, answers nothing and flags no row keeps it all.
LEMMA TruthStays ==
  ASSUME Types, Truth, sent' = sent, answers' = answers, tracked' = tracked, byReq' = byReq,
         \A c \in 1..MaxSends : row'[c] = row[c] \/ row'[c] = "none",
         \A t \in Texts : (At(t, "row") \/ At(t, "track"))' =>
           /\ At(t, "row") \/ At(t, "track")
           /\ call'[t].cookie = call[t].cookie
  PROVE  Truth'
<1>1. Cookies' = Cookies /\ \A c \in Cookies : c \in 1..MaxSends
  BY SentType DEF Cookies, Types
<1>2. \A c : Awaited(c)' => Awaited(c)
  BY DEF Awaited
<1>3. OwnRequests' /\ AnswersDue'
  BY <1>1, <1>2 DEF Truth, OwnRequests, AnswersDue
<1>4. RightlyNotSent' /\ UnwrittenHaveNoRow'
  BY <1>1 DEF Truth, RightlyNotSent, UnwrittenHaveNoRow
<1>5. QED BY <1>3, <1>4 DEF Truth

\* A call that moves elsewhere than to its row awaits nothing it did not await.
LEMMA CallAwaits ==
  ASSUME TypeOK, NEW t \in Texts, NEW step, Go(t, step),
         step # None => step.pc \notin {"row", "track"}
  PROVE  \A u \in Texts : (At(u, "row") \/ At(u, "track"))' =>
           /\ At(u, "row") \/ At(u, "track")
           /\ call'[u].cookie = call[u].cookie
<1>1. call'[t] = step /\ \A u \in Texts \ {t} : call'[u] = call[u]
  BY OneCall
<1>2. QED BY <1>1 DEF At

LEMMA CallTruth ==
  ASSUME Types, Truth, NEW t \in Texts,
         \/ SendMessage(t) \/ SealWithKeys(t) \/ Reseal(t) \/ AskFirst(t) \/ AskNobody(t)
         \/ QueryAnswered(t) \/ QueryUnanswered(t) \/ Weigh(t) \/ WriteFails(t)
  PROVE  Truth'
<1>1. PICK step : Go(t, step) /\ (step # None => step.pc \notin {"row", "track"})
  <2>1. CASE SendMessage(t)
    BY <2>1 DEF SendMessage, NewCall
  <2>2. CASE SealWithKeys(t) \/ Reseal(t)
    <3>1. call[t] \in Call
      BY <2>2, CallType DEF SealWithKeys, Reseal, Types
    <3>2. [call[t] EXCEPT !.pc = "write", !.seal = keys.at].pc = "write"
      BY <3>1 DEF Call
    <3>3. QED BY <2>2, <3>2 DEF SealWithKeys, Reseal, Seal
  <2>3. CASE AskFirst(t)
    <3>1. call[t] \in Call
      BY <2>3, CallType DEF AskFirst, Types
    <3>2. [call[t] EXCEPT !.pc = "ask", !.since = published].pc = "ask"
      BY <3>1 DEF Call
    <3>3. QED BY <2>3, <3>2 DEF AskFirst
  <2>4. CASE QueryAnswered(t)
    <3>1. call[t] \in Call
      BY <2>4, CallType DEF QueryAnswered, Types
    <3>2. \A m : [call[t] EXCEPT !.pc = "told", !.told = m].pc = "told"
      BY <3>1 DEF Call
    <3>3. QED BY <2>4, <3>2 DEF QueryAnswered
  <2>5. CASE QueryUnanswered(t) \/ WriteFails(t)
    BY <2>5 DEF QueryUnanswered, WriteFails, Fail
  <2>6. CASE Weigh(t)
    <3>1. call[t] \in Call
      BY <2>6, CallType DEF Weigh, Types
    <3>2. [call[t] EXCEPT !.pc = "reseal", !.since = 0, !.told = 0].pc = "reseal"
      BY <3>1 DEF Call
    <3>3. QED BY <2>6, <3>2 DEF Weigh, Fail
  <2>7. CASE AskNobody(t)
    <3>1. call[t] \in Call
      BY <2>7, CallType DEF AskNobody, Types
    <3>2. [call[t] EXCEPT !.pc = "reseal"].pc = "reseal"
      BY <3>1 DEF Call
    <3>3. QED BY <2>7, <3>2 DEF AskNobody
  <2>8. QED BY <2>1, <2>2, <2>3, <2>4, <2>5, <2>6, <2>7
<1>2. UNCHANGED <<sends, books>>
  BY DEF SendMessage, SealWithKeys, Reseal, AskFirst, AskNobody, QueryAnswered, QueryUnanswered,
         Weigh, WriteFails
<1>3. QED BY <1>1, <1>2, CallAwaits, TruthStays DEF sends, books, Types

LEMMA ResendTruth ==
  ASSUME Types, Truth, NEW c \in Cookies, ResendMessage(c) PROVE Truth'
<1>1. sent[c].text \in Texts /\ c \in 1..MaxSends
  BY SentType DEF Types, Send
<1>2. \/ Go(sent[c].text, NewCall(TRUE)) /\ NewCall(TRUE).pc = "seal"
      \/ call' = call
  BY DEF ResendMessage, NewCall
<1>3. \A d \in 1..MaxSends : row'[d] = row[d] \/ row'[d] = "none"
  BY DEF ResendMessage, TakeMessage, Types, TypeOK
<1>4. \A u \in Texts : (At(u, "row") \/ At(u, "track"))' =>
        (At(u, "row") \/ At(u, "track")) /\ call'[u].cookie = call[u].cookie
  <2>1. CASE call' = call
    BY <2>1 DEF At
  <2>2. CASE call' # call
    BY <1>1, <1>2, <2>2, CallAwaits DEF Types
  <2>3. QED BY <2>1, <2>2
<1>5. QED BY <1>3, <1>4, TruthStays DEF ResendMessage, sends

LEMMA WriteTruth ==
  ASSUME NoRace, Types, Truth, NEW t \in Texts, Write(t) PROVE Truth'
<1> DEFINE n == Len(sent) + 1
           m == [text |-> t, req |-> n, cut |-> FALSE, fate |-> "sent"]
<1>1. sent' = Append(sent, m)
  BY DEF Write, NewReq, Upset, NoRace
<1>2. /\ Len(sent) \in Nat /\ sent \in Seq(Send) /\ Cookies = 1..Len(sent) /\ n \in 1..MaxSends
      /\ \A c \in Cookies : c # n
  BY SentType, SendBounds DEF Write, Types, TypeOK
<1>3. m.req = n /\ ~m.cut /\ m.fate = "sent" /\ m \in Send
  BY <1>2 DEF Send
<1> HIDE DEF m
<1>4. sent' \in Seq(Send) /\ Len(sent') = n /\ sent'[n] = m /\ \A c \in 1..Len(sent) : sent'[c] = sent[c]
  BY <1>1, <1>2, <1>3
<1>5. Cookies' = Cookies \cup {n} /\ \A c \in Cookies : sent'[c] = sent[c]
  BY <1>2, <1>4 DEF Cookies
<1>6. row' = row /\ tracked' = tracked /\ byReq' = byReq /\ answers' = answers
  BY DEF Write, books
<1> HIDE DEF n
<1>7. \A c \in Cookies : Awaited(c)' => Awaited(c)
  <2>1. call[t] \in Call
    BY CallType DEF Write, Types
  <2>2. [call[t] EXCEPT !.pc = "row", !.seal = 0, !.cookie = n].cookie = n
    BY <2>1 DEF Call
  <2>3. call'[t].cookie = n /\ \A u \in Texts \ {t} : call'[u] = call[u]
    BY <2>2, OneCall DEF Write, Types, n
  <2>4. QED BY <1>2, <1>6, <2>3 DEF Awaited, At
<1>8. OwnRequests'
  BY <1>3, <1>4, <1>5 DEF Truth, OwnRequests
<1>9. AnswersDue'
  BY <1>3, <1>4, <1>5, <1>6, <1>7 DEF Truth, AnswersDue
<1>10. RightlyNotSent'
  <2>1. row[n] = "none"
    BY <1>2 DEF Truth, UnwrittenHaveNoRow
  <2>2. QED BY <1>4, <1>5, <1>6, <2>1 DEF Truth, RightlyNotSent
<1>11. UnwrittenHaveNoRow'
  BY <1>5, <1>6 DEF Truth, UnwrittenHaveNoRow
<1>12. QED BY <1>6, <1>8, <1>9, <1>10, <1>11 DEF Truth

\* The row, then the timer: what the call awaited, it still awaits.
LEMMA RowTruth ==
  ASSUME Types, Truth, NEW t \in Texts, AddMessage(t) \/ TrackSend(t) PROVE Truth'
<1> DEFINE c == call[t].cookie
<1>1. call[t] \in Call /\ c \in Cookies /\ (At(t, "row") \/ At(t, "track"))
  BY CallType DEF AddMessage, TrackSend, Types, CallsHaveMessages
<1>2. sent' = sent /\ answers' = answers /\ Cookies' = Cookies
  BY DEF AddMessage, TrackSend, sends, Cookies
<1>3. Awaited(c)
  BY <1>1 DEF Awaited
<1>4. \A d \in Cookies : d \in 1..MaxSends
  BY SentType DEF Types
<1>5. CASE AddMessage(t)
  <2>1. [call[t] EXCEPT !.pc = "track"].cookie = c
    BY <1>1 DEF Call
  <2>2. call'[t].cookie = c /\ \A u \in Texts \ {t} : call'[u] = call[u]
    BY <1>5, <2>1, OneCall DEF AddMessage, Types
  <2>3. tracked' = tracked /\ byReq' = byReq
    BY <1>5 DEF AddMessage
  <2>4. \A d : Awaited(d)' => Awaited(d)
    BY <1>3, <2>2, <2>3 DEF Awaited, At
  <2>5. row'[c] = "shown" /\ \A d \in 1..MaxSends : d # c => row'[d] = row[d]
    BY <1>1, <1>4, <1>5 DEF AddMessage, Types, TypeOK
  <2> HIDE DEF c
  <2>6. QED BY <1>1, <1>2, <1>4, <2>3, <2>4, <2>5
            DEF Truth, OwnRequests, AnswersDue, RightlyNotSent, UnwrittenHaveNoRow
<1>6. CASE TrackSend(t)
  <2>1. call'[t] = None /\ \A u \in Texts \ {t} : call'[u] = call[u]
    BY <1>6, OneCall DEF TrackSend, Types
  <2>2. tracked' = tracked \cup {c} /\ row' = row
    BY <1>6 DEF TrackSend, Tracked
  <2>3. SameReq(c) \subseteq {c}
    BY <1>1 DEF SameReq, Truth, OwnRequests, Types, TypeOK
  <2>4. byReq' = byReq \cup {c}
    BY <1>6, <2>3 DEF TrackSend, Tracked
  <2>5. \A d : Awaited(d)' => Awaited(d)
    BY <1>3, <2>1, <2>2 DEF Awaited, At
  <2> HIDE DEF c
  <2>6. QED BY <1>2, <2>2, <2>4, <2>5
            DEF Truth, OwnRequests, AnswersDue, RightlyNotSent, UnwrittenHaveNoRow
<1>7. QED BY <1>5, <1>6

LEMMA ServerDecidesTruth ==
  ASSUME Types, Truth, NEW c \in Cookies, ServerDecides(c) PROVE Truth'
<1>1. PICK fate \in {"accepted", "refused", "dropped"} :
        /\ sent' = [sent EXCEPT ![c].fate = fate]
        /\ answers' = IF fate = "dropped" THEN answers ELSE answers \cup {c}
  BY DEF ServerDecides
<1>2. /\ sent[c] \in Send /\ sent \in Seq(Send) /\ Cookies = 1..Len(sent)
      /\ sent[c].fate = "sent" /\ ~sent[c].cut
  BY SentType DEF ServerDecides, Types, TypeOK
<1>3. /\ [sent[c] EXCEPT !.fate = fate].req = sent[c].req
      /\ [sent[c] EXCEPT !.fate = fate].cut = sent[c].cut
      /\ [sent[c] EXCEPT !.fate = fate].fate = fate
  BY <1>2 DEF Send
<1>4. /\ Cookies' = Cookies
      /\ sent'[c].req = sent[c].req /\ sent'[c].cut = sent[c].cut /\ sent'[c].fate = fate
      /\ \A d \in Cookies : d # c => sent'[d] = sent[d]
  BY <1>1, <1>2, <1>3 DEF Cookies
<1>5. \A d : Awaited(d)' <=> Awaited(d)
  BY DEF Awaited, At, ServerDecides, books
<1>6. row' = row /\ tracked' = tracked /\ byReq' = byReq
  BY DEF ServerDecides, books
<1>7. row[c] # "notSent"
  BY <1>2 DEF Truth, RightlyNotSent
<1>8. OwnRequests' /\ AnswersDue'
  BY <1>1, <1>4, <1>5 DEF Truth, OwnRequests, AnswersDue
<1>9. RightlyNotSent' /\ UnwrittenHaveNoRow'
  BY <1>4, <1>6, <1>7 DEF Truth, RightlyNotSent, UnwrittenHaveNoRow
<1>10. QED BY <1>6, <1>8, <1>9 DEF Truth

\* An answer, or the timer that finds there will be none: whatever flags a row has the
\* message's own fate to go by, and whatever is dropped from the books is dropped whole.
LEMMA SettleTruth ==
  ASSUME NoRace, Types, Truth, NEW c \in Cookies, HostAck(c) \/ ICBMErr(c) \/ AckTimeout(c)
  PROVE  Truth'
<1>1. /\ sent' = sent /\ Cookies' = Cookies /\ call' = call
      /\ answers' \subseteq answers /\ answers \ {c} \subseteq answers'
  BY DEF HostAck, ICBMErr, AckTimeout, Arrives, sends, Cookies
<1>2. \A t \in Texts : ~AckTimeout(c) /\ (At(t, "row") \/ At(t, "track")) => call[t].cookie # c
  BY DEF HostAck, ICBMErr, Arrives, Upset, NoRace, At
<1>3. SameReq(c) = IF c \in byReq THEN {c} ELSE {}
  BY DEF SameReq, Truth, OwnRequests, Types, TypeOK
<1>4. /\ tracked' \subseteq tracked /\ tracked' \subseteq byReq'
      /\ ~AckTimeout(c) => c \notin tracked'
      /\ \/ row' = row
         \/ row' = [row EXCEPT ![c] = "notSent"] /\ (sent[c].fate = "refused" \/ (c \in tracked /\ Silent(c)))
  <2>1. CASE HostAck(c)
    BY <1>3, <2>1 DEF HostAck, DropSend, Truth
  <2>2. CASE ICBMErr(c)
    BY <1>3, <2>2 DEF ICBMErr, DropSend, SetNotSent, Truth
  <2>3. CASE AckTimeout(c)
    BY <1>3, <2>3 DEF AckTimeout, DropSend, SetNotSent, Truth
  <2>4. QED BY <2>1, <2>2, <2>3
<1>5. AckTimeout(c) => answers' = answers
  BY DEF AckTimeout, sends
<1>6. \A d \in Cookies : Awaited(d)' => Awaited(d) /\ (d # c \/ AckTimeout(c))
  BY <1>1, <1>2, <1>4 DEF Awaited, At
<1>7. OwnRequests' /\ AnswersDue'
  BY <1>1, <1>5, <1>6 DEF Truth, OwnRequests, AnswersDue
<1>8. c \in tracked /\ Silent(c) /\ ~sent[c].cut => sent[c].fate \in {"refused", "dropped"}
  <2>1. sent[c].fate \in {"sent", "accepted", "refused", "dropped"}
    BY SentType DEF Types, Send
  <2>2. c \in tracked => Awaited(c)
    BY DEF Awaited
  <2>3. QED BY <2>1, <2>2 DEF Silent, Truth, AnswersDue
<1>9. RightlyNotSent'
  <2>1. \A d \in Cookies : d # c => row'[d] = row[d]
    BY <1>4, SentType DEF Types, TypeOK
  <2>2. row'[c] = row[c] \/ sent[c].fate = "refused" \/ (c \in tracked /\ Silent(c))
    BY <1>4
  <2>3. QED BY <1>1, <1>8, <2>1, <2>2 DEF Truth, RightlyNotSent
<1>10. UnwrittenHaveNoRow'
  BY <1>1, <1>4 DEF Truth, UnwrittenHaveNoRow, Types, TypeOK
<1>11. QED BY <1>4, <1>7, <1>9, <1>10 DEF Truth

\* A lost connection excuses every message it leaves without an answer.
LEMMA CutTruth ==
  ASSUME Types, Truth, Close PROVE Truth'
<1>1. Cut /\ call' = Aged /\ tracked' = tracked /\ byReq' = byReq
  BY DEF Close
<1>2. Cookies' = Cookies
  BY <1>1 DEF Cut, Cookies
<1>3. \A c \in Cookies : /\ sent'[c].req = sent[c].req /\ sent'[c].fate = sent[c].fate
                         /\ sent[c].cut => sent'[c].cut
                         /\ ~sent'[c].cut => sent[c].fate # "sent" /\ c \notin answers
  <2>1. \A c \in Cookies : /\ [sent[c] EXCEPT !.cut = TRUE].req = sent[c].req
                           /\ [sent[c] EXCEPT !.cut = TRUE].fate = sent[c].fate
                           /\ [sent[c] EXCEPT !.cut = TRUE].cut
    BY SentType DEF Types, Send
  <2>2. \A c \in Cookies : sent'[c] = IF sent[c].fate = "sent" \/ c \in answers
                                      THEN [sent[c] EXCEPT !.cut = TRUE] ELSE sent[c]
    BY <1>1 DEF Cut
  <2>3. QED BY <2>1, <2>2
<1>4. \A c \in 1..MaxSends : row'[c] = row[c] \/ row'[c] = "none"
  BY <1>1 DEF Cut, Reset
<1>5. \A t \in Texts : (At(t, "row") \/ At(t, "track"))' =>
        (At(t, "row") \/ At(t, "track")) /\ call'[t].cookie = call[t].cookie
  <2>1. \A t \in Texts : call'[t] = IF call[t] = None THEN None ELSE [call[t] EXCEPT !.old = TRUE]
    BY <1>1 DEF Aged
  <2>2. \A t \in Texts : call[t] \in Call => /\ [call[t] EXCEPT !.old = TRUE].pc = call[t].pc
                                             /\ [call[t] EXCEPT !.old = TRUE].cookie = call[t].cookie
    BY DEF Call
  <2>3. QED BY <2>1, <2>2 DEF At, Types, TypeOK
<1>6. \A c : Awaited(c)' => Awaited(c)
  BY <1>1, <1>5 DEF Awaited
<1>7. \A c \in Cookies : c \in 1..MaxSends
  BY SentType DEF Types
<1>8. OwnRequests'
  BY <1>2, <1>3 DEF Truth, OwnRequests
<1>9. AnswersDue'
  BY <1>2, <1>3, <1>6 DEF Truth, AnswersDue
<1>10. RightlyNotSent'
  BY <1>2, <1>3, <1>4, <1>7 DEF Truth, RightlyNotSent
<1>11. UnwrittenHaveNoRow'
  BY <1>2, <1>4 DEF Truth, UnwrittenHaveNoRow
<1>12. QED BY <1>1, <1>8, <1>9, <1>10, <1>11 DEF Truth

LEMMA SessionTruth ==
  ASSUME Types, Truth,
         RefreshAnswered \/ RefreshUnanswered \/ Drop \/ SignOff \/ SignOn \/ PeerPublishes
  PROVE  Truth'
<1>1. sent' = sent /\ answers' = answers /\ tracked' = tracked /\ byReq' = byReq /\ call' = call
  BY DEF RefreshAnswered, RefreshUnanswered, Drop, SignOff, SignOn, PeerPublishes, sends, books
<1>2. \A c \in 1..MaxSends : row'[c] = row[c] \/ row'[c] = "none"
  BY DEF RefreshAnswered, RefreshUnanswered, Drop, SignOff, SignOn, PeerPublishes, books
<1>3. QED BY <1>1, <1>2, TruthStays DEF At

LEMMA StepTruth ==
  ASSUME NoRace
  PROVE  Types /\ Truth /\ [Next]_vars => Truth'
<1> SUFFICES ASSUME Types, Truth, [Next]_vars PROVE Truth'
  OBVIOUS
<1>1. ASSUME NEW t \in Texts, SendMessage(t) \/ CallStep(t) PROVE Truth'
  BY <1>1, CallTruth, WriteTruth, RowTruth DEF CallStep
<1>2. ASSUME NEW c \in Cookies, ResendMessage(c) \/ Settle(c) PROVE Truth'
  BY <1>2, ResendTruth, ServerDecidesTruth, SettleTruth DEF Settle
<1>3. CASE Close
  BY <1>3, CutTruth
<1>4. CASE RefreshAnswered \/ RefreshUnanswered \/ Drop \/ SignOff \/ SignOn \/ PeerPublishes
  BY <1>4, SessionTruth
<1>5. CASE UNCHANGED vars
  BY <1>5, TruthStays DEF vars, sends, books, At
<1>6. QED BY <1>1, <1>2, <1>3, <1>4, <1>5 DEF Next

\* As long as no answer overtakes its own registration and no two calls share a request,
\* a message whose row says "not sent" was not taken by the server, unless its connection
\* was lost with the answer: acknowledgement, error and timer, in whatever order.
THEOREM NotSentIsRight ==
  ASSUME NoRace
  PROVE  Spec => []NotSentIsNotDelivered
<1>1. Spec => []Types
  BY InitTypes, StepTypes, PTL DEF Spec
<1>2. Spec => []Truth
  BY <1>1, InitTruth, StepTruth, PTL DEF Spec
<1>3. Truth => NotSentIsNotDelivered
  BY DEF Truth, RightlyNotSent, NotSentIsNotDelivered
<1>4. QED BY <1>2, <1>3, PTL

-----------------------------------------------------------------------------
(* The seal. *)

\* The session's keys, when it has any, are those the persisted mark names; nothing was
\* ever sealed past the mark; and a call about to seal again, whose connection still
\* stands, has been told all of it.
KeysAtMark == keys.at # 0 => keys.at = pin
ResealHasKeys == \A t \in Texts : At(t, "reseal") /\ ~call[t].old => keys.at = pin

Marked == KeysAtMark /\ best <= pin /\ ResealHasKeys

\* No lookup begins while the session is cleared and not yet closed, and no sign-off
\* falls between a lookup's verdict and the seal it was for.
LookupsKeepSession == {"late", "unasked"} \cap Upsets = {}

\* A closed connection has closed under every call that began on it.
ClosedUnderAll == session = "off" => \A t \in Texts : call[t] # None => call[t].old

\* A step of a call leaves the connection it began on as it was.
LEMMA CallKeepsOld ==
  ASSUME Types, NEW t \in Texts, CallStep(t)
  PROVE  /\ session' = session
         /\ call'[t] # None => call'[t].old = call[t].old
         /\ \A u \in Texts \ {t} : call'[u] = call[u]
<1>1. call[t] \in Call
  BY CallType DEF CallStep, SealWithKeys, AskFirst, AskNobody, QueryAnswered, QueryUnanswered, Weigh,
                  Reseal, Write, WriteFails, AddMessage, TrackSend, Types
<1>2. PICK step : Go(t, step) /\ (step # None => step.old = call[t].old)
  <2>1. CASE SealWithKeys(t) \/ Reseal(t)
    <3>1. [call[t] EXCEPT !.pc = "write", !.seal = keys.at].old = call[t].old
      BY <1>1 DEF Call
    <3>2. QED BY <2>1, <3>1 DEF SealWithKeys, Reseal, Seal
  <2>2. CASE AskFirst(t)
    <3>1. [call[t] EXCEPT !.pc = "ask", !.since = published].old = call[t].old
      BY <1>1 DEF Call
    <3>2. QED BY <2>2, <3>1 DEF AskFirst
  <2>3. CASE AskNobody(t)
    <3>1. [call[t] EXCEPT !.pc = "reseal"].old = call[t].old
      BY <1>1 DEF Call
    <3>2. QED BY <2>3, <3>1 DEF AskNobody
  <2>4. CASE QueryAnswered(t)
    <3>1. \A m : [call[t] EXCEPT !.pc = "told", !.told = m].old = call[t].old
      BY <1>1 DEF Call
    <3>2. QED BY <2>4, <3>1 DEF QueryAnswered
  <2>5. CASE QueryUnanswered(t) \/ WriteFails(t) \/ TrackSend(t)
    BY <2>5 DEF QueryUnanswered, WriteFails, TrackSend, Fail
  <2>6. CASE Weigh(t)
    <3>1. [call[t] EXCEPT !.pc = "reseal", !.since = 0, !.told = 0].old = call[t].old
      BY <1>1 DEF Call
    <3>2. QED BY <2>6, <3>1 DEF Weigh, Fail
  <2>7. CASE Write(t)
    <3>1. [call[t] EXCEPT !.pc = "row", !.seal = 0, !.cookie = Len(sent) + 1].old = call[t].old
      BY <1>1 DEF Call
    <3>2. QED BY <2>7, <3>1 DEF Write
  <2>8. CASE AddMessage(t)
    <3>1. [call[t] EXCEPT !.pc = "track"].old = call[t].old
      BY <1>1 DEF Call
    <3>2. QED BY <2>8, <3>1 DEF AddMessage
  <2>9. QED BY <2>1, <2>2, <2>3, <2>4, <2>5, <2>6, <2>7, <2>8 DEF CallStep
<1>3. session' = session
  BY DEF CallStep, SealWithKeys, AskFirst, AskNobody, QueryAnswered, QueryUnanswered, Weigh, Reseal,
         Write, WriteFails, AddMessage, TrackSend
<1>4. QED BY <1>2, <1>3, OneCall DEF Types

LEMMA StepClosed == Types /\ ClosedUnderAll /\ [Next]_vars => ClosedUnderAll'
<1> SUFFICES ASSUME Types, ClosedUnderAll, [Next]_vars PROVE ClosedUnderAll'
  OBVIOUS
<1>1. ASSUME NEW t \in Texts, CallStep(t) PROVE ClosedUnderAll'
  <2>1. call[t] # None
    BY <1>1 DEF CallStep, SealWithKeys, AskFirst, AskNobody, QueryAnswered, QueryUnanswered, Weigh,
                Reseal, Write, WriteFails, AddMessage, TrackSend, At
  <2>2. QED BY <1>1, <2>1, CallKeepsOld DEF ClosedUnderAll
<1>2. ASSUME NEW t \in Texts, SendMessage(t) PROVE ClosedUnderAll'
  BY <1>2 DEF SendMessage, ClosedUnderAll
<1>3. ASSUME NEW c \in Cookies, ResendMessage(c) \/ Settle(c) PROVE ClosedUnderAll'
  BY <1>3 DEF ResendMessage, Settle, ServerDecides, HostAck, ICBMErr, AckTimeout, Arrives, ClosedUnderAll
<1>4. CASE Close
  <2>1. \A t \in Texts : call'[t] = IF call[t] = None THEN None ELSE [call[t] EXCEPT !.old = TRUE]
    BY <1>4 DEF Close, Aged
  <2>2. \A t \in Texts : call[t] \in Call => [call[t] EXCEPT !.old = TRUE].old
    BY DEF Call
  <2>3. QED BY <2>1, <2>2 DEF ClosedUnderAll, Types, TypeOK
<1>5. CASE \/ RefreshAnswered \/ RefreshUnanswered \/ PeerPublishes
           \/ Drop \/ SignOff \/ SignOn \/ UNCHANGED vars
  BY <1>5 DEF RefreshAnswered, RefreshUnanswered, PeerPublishes, Drop, SignOff, SignOn, vars,
              ClosedUnderAll
<1>6. QED BY <1>1, <1>2, <1>3, <1>4, <1>5 DEF Next

LEMMA MarksAreNumbers ==
  ASSUME TypeOK
  PROVE  keys.at \in Nat /\ pin \in Nat /\ best \in Nat
  BY SendBounds DEF TypeOK, Counters

LEMMA InitMarked == Init => Marked
<1> SUFFICES ASSUME Init PROVE Marked
  OBVIOUS
<1>1. best = pin /\ pin \in Nat /\ keys.at = 0 /\ \A t \in Texts : call[t] = None
  BY SendBounds DEF Init, NoKeys, Counters
<1>2. QED BY <1>1 DEF Marked, KeysAtMark, ResealHasKeys, At

\* What a reply teaches moves keys and mark together, or neither.
LEMMA LearnMarked ==
  ASSUME TypeOK, NEW m \in Counters, Learn(m)
  PROVE  /\ pin <= pin'
         /\ keys'.at = pin' \/ (keys'.at = keys.at /\ pin' = pin)
<1>1. m \in Nat /\ pin \in Nat /\ keys \in [at : Counters, asking : BOOLEAN]
  BY SendBounds DEF TypeOK, Counters
<1>2. CASE Teaches(m)
  <2>1. keys' = [at |-> m, asking |-> FALSE] /\ pin' = m /\ m >= pin
    BY <1>2 DEF Learn, Teaches
  <2>2. keys'.at = m
    BY <2>1
  <2>3. QED BY <1>1, <2>1, <2>2
<1>3. CASE ~Teaches(m)
  <2>1. keys' = [keys EXCEPT !.asking = FALSE] /\ pin' = pin
    BY <1>3 DEF Learn
  <2>2. keys'.at = keys.at
    BY <1>1, <2>1
  <2>3. QED BY <1>1, <2>1, <2>2
<1>4. QED BY <1>2, <1>3

\* Calls that do not reach "reseal" leave those that are there, or were.
LEMMA MarkedStays ==
  ASSUME TypeOK, Marked, best' = best, pin <= pin', pin' \in Nat,
         keys'.at = pin' \/ (keys'.at = keys.at /\ pin' = pin),
         \A t \in Texts : At(t, "reseal")' /\ ~call'[t].old => At(t, "reseal") /\ ~call[t].old
  PROVE  Marked'
<1>1. best \in Nat /\ pin \in Nat
  BY MarksAreNumbers
<1>2. best' <= pin'
  BY <1>1 DEF Marked
<1>3. QED BY <1>2 DEF Marked, KeysAtMark, ResealHasKeys

LEMMA SealMarked ==
  ASSUME Types, Marked, NEW t \in Texts, SealWithKeys(t) \/ Reseal(t)
  PROVE  /\ Marked' /\ \A u \in Texts \ {t} : call'[u] = call[u]
         /\ ~call'[t].old => call'[t].seal >= best
<1>1. /\ keys \in [at : Counters, asking : BOOLEAN] /\ call[t] \in Call
      /\ keys.at \in Nat /\ pin \in Nat /\ best \in Nat
  BY CallType, MarksAreNumbers DEF SealWithKeys, Reseal, Types, TypeOK
<1>2. keys.at <= pin /\ (~call[t].old => keys.at = pin)
  BY <1>1 DEF SealWithKeys, Reseal, Marked, KeysAtMark, ResealHasKeys
<1> DEFINE step == [call[t] EXCEPT !.pc = "write", !.seal = keys.at]
<1>3. step.pc = "write" /\ step.seal = keys.at /\ step.old = call[t].old
  BY <1>1 DEF Call
<1>4. Go(t, step) /\ best' = (IF keys.at > best THEN keys.at ELSE best) /\ pin' = pin
  BY DEF SealWithKeys, Reseal, Seal
<1>5. keys'.at = keys.at
  <2>1. CASE SealWithKeys(t)
    BY <1>1, <2>1 DEF SealWithKeys
  <2>2. CASE Reseal(t)
    BY <2>2 DEF Reseal
  <2>3. QED BY <2>1, <2>2
<1>6. call'[t] = step /\ \A u \in Texts \ {t} : call'[u] = call[u]
  BY <1>4, OneCall DEF Types
<1> HIDE DEF step
<1>7. (~call[t].old => keys.at >= best) /\ best' <= pin'
  BY <1>1, <1>2, <1>4 DEF Marked
<1>8. Marked'
  BY <1>2, <1>3, <1>4, <1>5, <1>6, <1>7 DEF Marked, KeysAtMark, ResealHasKeys, At
<1>9. QED BY <1>3, <1>6, <1>7, <1>8

\* Every other step of a call, and everything else, that is not a sign-off.
LEMMA OtherMarked ==
  ASSUME LookupsKeepSession, Types, Marked, ClosedUnderAll, NEW t \in Texts,
         \/ SendMessage(t) \/ AskFirst(t) \/ AskNobody(t) \/ QueryAnswered(t) \/ QueryUnanswered(t)
         \/ Weigh(t) \/ Write(t) \/ WriteFails(t) \/ AddMessage(t) \/ TrackSend(t)
  PROVE  Marked' /\ ~At(t, "write")' /\ \A u \in Texts \ {t} : call'[u] = call[u]
<1>1. SendMessage(t) \/ call[t] \in Call
  BY CallType DEF AskFirst, AskNobody, QueryAnswered, QueryUnanswered, Weigh, Write, WriteFails,
                  AddMessage, TrackSend, Types
<1>2. PICK step : /\ Go(t, step)
                  /\ step # None => step.pc # "write"
                  /\ step # None /\ step.pc = "reseal" /\ ~step.old
                       => Weigh(t) /\ ~Unavailable(call[t].told)
  <2>1. CASE SendMessage(t) \/ QueryUnanswered(t) \/ WriteFails(t) \/ TrackSend(t)
    BY <2>1 DEF SendMessage, QueryUnanswered, WriteFails, TrackSend, Fail, NewCall
  <2>2. CASE AskFirst(t)
    <3>1. [call[t] EXCEPT !.pc = "ask", !.since = published].pc = "ask"
      BY <1>1, <2>2 DEF Call, AskFirst, At, SendMessage, Types, TypeOK
    <3>2. QED BY <2>2, <3>1 DEF AskFirst
  <2>3. CASE QueryAnswered(t)
    <3>1. \A m : [call[t] EXCEPT !.pc = "told", !.told = m].pc = "told"
      BY <2>3, CallType DEF Call, QueryAnswered, Types
    <3>2. QED BY <2>3, <3>1 DEF QueryAnswered
  <2>4. CASE Weigh(t)
    <3>1. [call[t] EXCEPT !.pc = "reseal", !.since = 0, !.told = 0].pc = "reseal"
      BY <2>4, CallType DEF Call, Weigh, Types
    <3>2. QED BY <2>4, <3>1 DEF Weigh, Fail
  <2>5. CASE Write(t)
    <3>1. [call[t] EXCEPT !.pc = "row", !.seal = 0, !.cookie = Len(sent) + 1].pc = "row"
      BY <2>5, CallType DEF Call, Write, Types
    <3>2. QED BY <2>5, <3>1 DEF Write
  <2>6. CASE AddMessage(t)
    <3>1. [call[t] EXCEPT !.pc = "track"].pc = "track"
      BY <2>6, CallType DEF Call, AddMessage, Types
    <3>2. QED BY <2>6, <3>1 DEF AddMessage
  <2>7. CASE AskNobody(t)
    <3>1. call[t].old
      BY <2>7 DEF AskNobody, Upset, LookupsKeepSession, ClosedUnderAll, At, Types, TypeOK
    <3>2. [call[t] EXCEPT !.pc = "reseal"].pc = "reseal" /\ [call[t] EXCEPT !.pc = "reseal"].old
      BY <2>7, <3>1, CallType DEF Call, AskNobody, Types
    <3>3. QED BY <2>7, <3>2 DEF AskNobody
  <2>8. QED BY <2>1, <2>2, <2>3, <2>4, <2>5, <2>6, <2>7
<1>3. call'[t] = step /\ \A u \in Texts \ {t} : call'[u] = call[u]
  BY <1>2, OneCall DEF Types
<1>4. ~At(t, "write")'
  BY <1>2, <1>3 DEF At
<1>5. best \in Nat /\ pin \in Nat /\ best' = best
  BY MarksAreNumbers DEF SendMessage, AskFirst, AskNobody, QueryAnswered, QueryUnanswered, Weigh,
     Write, WriteFails, AddMessage, TrackSend, known, Types
<1>6. /\ pin <= pin' /\ pin' \in Nat
      /\ keys'.at = pin' \/ (keys'.at = keys.at /\ pin' = pin)
  <2>1. CASE QueryAnswered(t)
    <3>1. PICK m \in Counters : Learn(m)
      BY <2>1 DEF QueryAnswered
    <3>2. pin' \in Nat
      BY <3>1, LearnType, SendBounds DEF Counters, Types
    <3>3. QED BY <3>1, <3>2, LearnMarked DEF Types
  <2>2. CASE ~QueryAnswered(t)
    <3>1. keys' = keys /\ pin' = pin
      BY <2>2 DEF SendMessage, AskFirst, AskNobody, QueryUnanswered, Weigh, Write, WriteFails,
                  AddMessage, TrackSend, known
    <3>2. QED BY <1>5, <3>1
  <2>3. QED BY <2>1, <2>2
<1>7. CASE ~Weigh(t)
  <2>1. \A u \in Texts : At(u, "reseal")' /\ ~call'[u].old => At(u, "reseal") /\ ~call[u].old
    BY <1>2, <1>3, <1>7 DEF At
  <2>2. QED BY <1>3, <1>4, <1>5, <1>6, <2>1, MarkedStays DEF Types
<1>8. CASE Weigh(t)
  <2>1. keys' = keys /\ pin' = pin
    BY <1>8 DEF Weigh, known
  <2>2. At(t, "reseal")' /\ ~call'[t].old => keys.at = pin
    BY <1>2, <1>3 DEF At, Unavailable, KnownToHavePublished, Marked, KeysAtMark
  <2>3. QED BY <1>3, <1>4, <1>5, <2>1, <2>2 DEF Marked, KeysAtMark, ResealHasKeys, At
<1>9. QED BY <1>7, <1>8

LEMMA RestMarked ==
  ASSUME LookupsKeepSession, Types, Marked,
         \/ \E c \in Cookies : ResendMessage(c) \/ Settle(c)
         \/ RefreshAnswered \/ RefreshUnanswered \/ PeerPublishes
         \/ Drop \/ SignOff \/ Close \/ SignOn \/ UNCHANGED vars
  PROVE  Marked' /\ \A t \in Texts : At(t, "write")' => At(t, "write")
<1>1. best \in Nat /\ pin \in Nat /\ keys \in [at : Counters, asking : BOOLEAN]
  BY MarksAreNumbers DEF Types, TypeOK
<1>2. \A t \in Texts, pc \in {"reseal", "write"} :
        At(t, pc)' => At(t, pc) /\ (~call'[t].old => ~call[t].old)
  <2>1. ASSUME NEW c \in Cookies, ResendMessage(c)
        PROVE  \A t \in Texts, pc \in {"reseal", "write"} :
                 At(t, pc)' => At(t, pc) /\ (~call'[t].old => ~call[t].old)
    <3>1. sent[c].text \in Texts
      BY SentType DEF Types, Send
    <3>2. NewCall(TRUE).pc = "seal"
      BY DEF NewCall
    <3>3. CASE call' = call
      BY <3>3 DEF At
    <3>4. CASE Go(sent[c].text, NewCall(TRUE))
      BY <3>1, <3>2, <3>4, OneCall DEF At, Types
    <3>5. QED BY <2>1, <3>3, <3>4 DEF ResendMessage
  <2>2. CASE Close
    <3>1. \A t \in Texts : call'[t] = IF call[t] = None THEN None ELSE [call[t] EXCEPT !.old = TRUE]
      BY <2>2 DEF Close, Aged
    <3>2. \A t \in Texts : call[t] \in Call => /\ [call[t] EXCEPT !.old = TRUE].pc = call[t].pc
                                               /\ [call[t] EXCEPT !.old = TRUE].old
      BY DEF Call
    <3>3. \A t \in Texts : call'[t] # None => call[t] # None
      BY <3>1
    <3>4. \A pc : \A t \in Texts : At(t, pc)' => call[t] \in Call /\ At(t, pc) /\ call'[t].old
      BY <3>1, <3>2, <3>3 DEF At, Types, TypeOK
    <3>5. QED BY <3>4
  <2>3. CASE \/ \E c \in Cookies : Settle(c)
             \/ RefreshAnswered \/ RefreshUnanswered \/ PeerPublishes \/ Drop \/ SignOff \/ SignOn
             \/ UNCHANGED vars
    BY <2>3 DEF At, Settle, ServerDecides, HostAck, ICBMErr, AckTimeout, Arrives, RefreshAnswered,
                RefreshUnanswered, PeerPublishes, Drop, SignOff, SignOn, vars
  <2>4. QED BY <2>1, <2>2, <2>3
<1>3. CASE SignOff
  <2>1. \A t \in Texts : At(t, "reseal") => call[t].old
    BY <1>3 DEF SignOff, Upset, LookupsKeepSession
  <2>2. keys'.at = 0 /\ pin' = pin /\ best' = best
    BY <1>3 DEF SignOff, NoKeys
  <2>3. QED BY <1>2, <2>1, <2>2 DEF Marked, KeysAtMark, ResealHasKeys
<1>4. CASE RefreshAnswered
  <2>1. PICK m \in Counters : Learn(m)
    BY <1>4 DEF RefreshAnswered
  <2>2. pin' \in Nat
    BY <2>1, LearnType, SendBounds DEF Counters, Types
  <2>3. best' = best
    BY <1>4 DEF RefreshAnswered
  <2>4. QED BY <1>2, <2>1, <2>2, <2>3, LearnMarked, MarkedStays DEF Types
<1>5. CASE ~SignOff /\ ~RefreshAnswered
  <2>1. keys'.at = keys.at /\ pin' = pin /\ best' = best
    <3>1. CASE RefreshUnanswered
      BY <1>1, <3>1 DEF RefreshUnanswered
    <3>2. CASE ~RefreshUnanswered
      BY <1>5, <3>2 DEF ResendMessage, Settle, ServerDecides, HostAck, ICBMErr, AckTimeout, Arrives,
                        PeerPublishes, Drop, Close, SignOn, vars, known
    <3>3. QED BY <3>1, <3>2
  <2>2. QED BY <1>1, <1>2, <2>1, MarkedStays DEF Types
<1>6. QED BY <1>3, <1>4, <1>5

\* What the action property says of a step.
SealsForward ==
  \A t \in Texts : At(t, "write")' /\ ~At(t, "write") /\ ~call'[t].old => call'[t].seal >= best

LEMMA StepMarked ==
  ASSUME LookupsKeepSession
  PROVE  Types /\ Marked /\ ClosedUnderAll /\ [Next]_vars => Marked' /\ SealsForward
<1> SUFFICES ASSUME Types, Marked, ClosedUnderAll, [Next]_vars PROVE Marked' /\ SealsForward
  BY DEF SealsForward
<1>1. ASSUME NEW t \in Texts, SealWithKeys(t) \/ Reseal(t) PROVE Marked' /\ SealsForward
  BY <1>1, SealMarked DEF At, SealsForward
<1>2. ASSUME NEW t \in Texts,
             \/ SendMessage(t) \/ AskFirst(t) \/ AskNobody(t) \/ QueryAnswered(t) \/ QueryUnanswered(t)
             \/ Weigh(t) \/ Write(t) \/ WriteFails(t) \/ AddMessage(t) \/ TrackSend(t)
      PROVE  Marked' /\ \A u \in Texts : At(u, "write")' => At(u, "write")
  BY <1>2, OtherMarked DEF At
<1>3. CASE \/ \E c \in Cookies : ResendMessage(c) \/ Settle(c)
           \/ RefreshAnswered \/ RefreshUnanswered \/ PeerPublishes
           \/ Drop \/ SignOff \/ Close \/ SignOn \/ UNCHANGED vars
  BY <1>3, RestMarked DEF SealsForward
<1>4. QED BY <1>1, <1>2, <1>3 DEF Next, CallStep, SealsForward

\* What a call whose connection can still carry it decides to seal for is never behind
\* what any call has sealed for before: not the clear after a seal, not an older device
\* set, whatever the directory does.  The two schedules in which the code does fall back
\* are hypotheses by name: a lookup begun on a session that is cleared and not yet closed,
\* which RefreshPeerKeys takes for a deployment without a directory, and a sign-off
\* between a lookup's verdict and the seal it was for.
THEOREM SealsOnlyAdvance ==
  ASSUME LookupsKeepSession
  PROVE  Spec => SealsNeverStepBack
<1>1. Spec => []Types
  BY InitTypes, StepTypes, PTL DEF Spec
<1>2. Init => ClosedUnderAll
  BY DEF Init, ClosedUnderAll
<1>3. Spec => []ClosedUnderAll
  BY <1>1, <1>2, StepClosed, PTL DEF Spec
<1>4. Spec => []Marked
  BY <1>1, <1>3, InitMarked, StepMarked, PTL DEF Spec
<1>5. Types /\ Marked /\ ClosedUnderAll /\ [Next]_vars =>
        [\A t \in Texts : At(t, "write")' /\ ~At(t, "write") /\ ~call'[t].old
                          => call'[t].seal >= best]_vars
  BY StepMarked DEF SealsForward
<1>6. QED BY <1>1, <1>3, <1>4, <1>5, PTL DEF Spec, SealsNeverStepBack
=============================================================================
