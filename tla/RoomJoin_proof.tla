--------------------------- MODULE RoomJoin_proof ---------------------------
(***************************************************************************)
(* Theorems about RoomJoin, for any rooms and any bounds: types; a reply   *)
(* is taken for the request it answers, as long as no late one lands while *)
(* another is awaited; and rooms, rows and connections agree, as long as   *)
(* no connection or session is lost under a join, no room is joined again  *)
(* while its last connection is being closed, and nobody signs on before   *)
(* the old session is torn down.                                           *)
(***************************************************************************)
EXTENDS RoomJoin, SequenceTheorems, TLAPS

\* What a join has by the time it gets somewhere, and the connections it may still dial.
Answered ==
  join # None =>
    /\ join.pc \in {"navDial", "ask", "dial"} => join.got # None
    /\ join.pc \in {"grant", "dial", "online", "store"} => join.cookie # None
    /\ join.pc \in {"start", "navGrant", "navDial"} => Len(conns) + 2 <= MaxConns
    /\ join.pc \in {"look", "found", "ask", "grant", "dial"} => Len(conns) + 1 <= MaxConns
    /\ join.pc \in {"online", "store"} => join.conn \in DOMAIN conns

Types == TypeOK /\ Answered

LEMMA TypesInit == Init => Types
<1> SUFFICES ASSUME Init PROVE Types
  OBVIOUS
<1>1. Len(conns) = 0 /\ conns \in Seq(Conn)
  BY DEF Init
<1>2. Answered
  BY DEF Init, Answered
<1>3. PICK with \in [Rooms -> {"none", "recent"}] : row = with
  BY DEF Init
<1>4. row \in [Rooms -> {"none", "recent", "joined"}]
  BY <1>3
<1>5. 0 \in 0..Len(conns) /\ rooms \in [Rooms -> 0..Len(conns)]
  BY <1>1 DEF Init
<1>6. bos \in {0, signedOn} /\ teardown \in {"none", "chat", "reset"}
      /\ join \in Join \cup {None} /\ answer \in [room : Rooms, ok : BOOLEAN] \cup {None}
      /\ due \subseteq Chans \X (Rooms \cup {Nav})
      /\ reply \in [Chans -> Rooms \cup {Nav, None}]
      /\ {listed, inside} \subseteq [Rooms -> BOOLEAN] /\ join = None
  BY DEF Init
<1>7. 0 <= MaxConns /\ moves \in 0..MaxMoves /\ upsets \in 0..MaxUpsets
  BY JoinBounds DEF Init
<1>8. signedOn \in 0..MaxSessions
  BY JoinBounds DEF Init
<1>9. QED BY <1>1, <1>2, <1>4, <1>5, <1>6, <1>7, <1>8 DEF Types, TypeOK, Init

-----------------------------------------------------------------------------
(* Types. *)

SessionType ==
  signedOn \in 0..MaxSessions /\ bos \in {0, signedOn} /\ teardown \in {"none", "chat", "reset"}

CallType ==
  /\ join \in Join \cup {None}
  /\ answer \in [room : Rooms, ok : BOOLEAN] \cup {None}
  /\ join # None /\ join.pc \in {"look", "found", "ask", "grant", "dial", "online", "store"}
     => join.nav # 0

WireType ==
  /\ due \subseteq Chans \X (Rooms \cup {Nav})
  /\ reply \in [Chans -> Rooms \cup {Nav, None}]

ConnType ==
  /\ conns \in Seq(Conn) /\ Len(conns) <= MaxConns
  /\ nav \in 0..Len(conns)
  /\ rooms \in [Rooms -> 0..Len(conns)]

RowType ==
  row \in [Rooms -> {"none", "recent", "joined"}] /\ listed \in [Rooms -> BOOLEAN]

ThereType == inside \in [Rooms -> BOOLEAN] /\ moves \in 0..MaxMoves /\ upsets \in 0..MaxUpsets

LEMMA TypeParts ==
  TypeOK <=> SessionType /\ CallType /\ WireType /\ ConnType /\ RowType /\ ThereType
  BY DEF TypeOK, SessionType, CallType, WireType, ConnType, RowType, ThereType

LEMMA TypePartsNext ==
  TypeOK' <=> SessionType' /\ CallType' /\ WireType' /\ ConnType' /\ RowType' /\ ThereType'
  BY DEF TypeOK, SessionType, CallType, WireType, ConnType, RowType, ThereType

\* What leaves a part's variables alone leaves its types.
LEMMA TypesStay ==
  ASSUME TypeOK
  PROVE  /\ UNCHANGED <<bos, signedOn, teardown>> => SessionType'
         /\ UNCHANGED call => CallType'
         /\ UNCHANGED wire => WireType'
         /\ UNCHANGED <<conns, nav, rooms>> => ConnType'
         /\ UNCHANGED <<row, listed>> => RowType'
         /\ UNCHANGED <<inside, moves, upsets>> => ThereType'
  BY DEF TypeOK, SessionType, CallType, WireType, ConnType, RowType, ThereType, call, wire

LEMMA UpsetType ==
  ASSUME TypeOK, NEW kind, NEW b
  PROVE  /\ Upset(kind) => upsets' \in 0..MaxUpsets
         /\ UpsetIf(b, kind) => upsets' \in 0..MaxUpsets
  BY JoinBounds DEF TypeOK, Upset, UpsetIf

LEMMA RequestType ==
  ASSUME TypeOK, NEW ch \in Chans, NEW what \in Rooms \cup {Nav}, Request(ch, what)
  PROVE  WireType'
  BY DEF TypeOK, WireType, Request

LEMMA ReturnType ==
  ASSUME NEW r \in Rooms, NEW ok \in BOOLEAN, Return(r, ok)
  PROVE  CallType' /\ join' = None
  BY DEF Return, CallType

\* JoinRoom and its steps that only wait, ask and answer.
LEMMA AskTypes ==
  ASSUME Types,
         \/ \E r \in Rooms : JoinRoom(r)
         \/ EnsureChatNav \/ CreateRoom \/ RequestChat \/ DialFails \/ AwaitTimesOut
         \/ Await("navGrant", "service", "navDial") \/ Await("found", "nav", "ask")
         \/ Await("grant", "service", "dial")
  PROVE  Types'
<1>a. TypeOK /\ Answered /\ MaxConns \in Nat
  BY JoinBounds DEF Types
<1>b. "nav" \in Chans /\ "service" \in Chans
  BY DEF Chans
<1>c. join # None => join \in Join /\ join.room \in Rooms /\ join.nav \in 0..MaxConns
  BY <1>a DEF TypeOK, Join
<1>1. ASSUME NEW r \in Rooms, JoinRoom(r) PROVE Types'
  <2>1. SessionType' /\ WireType' /\ ConnType' /\ RowType' /\ ThereType' /\ conns' = conns
    BY <1>1, <1>a, TypesStay, UpsetType DEF JoinRoom, ThereType, TypeOK, there, wire
  <2>2. CASE In(r) \/ bos = 0
    <3>1. Return(r, In(r))
      BY <1>1, <2>2 DEF JoinRoom
    <3>2. CallType' /\ join' = None
      BY <3>1, ReturnType DEF In
    <3>3. QED BY <2>1, <3>2, TypePartsNext DEF Types, Answered
  <2>3. CASE ~(In(r) \/ bos = 0)
    <3> DEFINE j == [pc |-> "start", room |-> r, bos |-> bos, nav |-> 0, conn |-> 0,
                     got |-> None, cookie |-> None]
    <3>1. join' = j /\ answer' = None /\ Len(conns) + 2 <= MaxConns
      BY <1>1, <2>3 DEF JoinRoom
    <3>2. bos \in 1..MaxSessions
      BY <1>a, <2>3, JoinBounds DEF TypeOK
    <3>3. j \in Join /\ j.pc = "start"
      BY <1>a, <3>2 DEF Join
    <3> HIDE DEF j
    <3>4. CallType'
      BY <3>1, <3>3 DEF CallType
    <3>5. Answered'
      BY <2>1, <3>1, <3>3 DEF Answered
    <3>6. QED BY <2>1, <3>4, <3>5, TypePartsNext DEF Types
  <2>4. QED BY <2>2, <2>3
<1>2. CASE EnsureChatNav
  <2>1. SessionType' /\ ConnType' /\ RowType' /\ ThereType' /\ conns' = conns
    BY <1>2, <1>a, TypesStay DEF EnsureChatNav, there
  <2>2. join # None /\ join.pc = "start"
    BY <1>2 DEF EnsureChatNav, At
  <2>3. CASE nav # 0
    <3> DEFINE j == [join EXCEPT !.pc = "look", !.nav = nav]
    <3>1. join' = j /\ answer' = answer /\ UNCHANGED wire
      BY <1>2, <2>3 DEF EnsureChatNav
    <3>2. nav \in 0..MaxConns
      BY <1>a DEF TypeOK
    <3>3. j \in Join /\ j.pc = "look" /\ j.nav = nav
      BY <1>a, <1>c, <2>2, <3>2 DEF Join
    <3> HIDE DEF j
    <3>4. CallType'
      BY <1>a, <2>3, <3>1, <3>3 DEF CallType, TypeOK
    <3>5. Answered'
      BY <1>a, <2>1, <2>2, <3>1, <3>3 DEF Answered, TypeOK
    <3>6. QED BY <1>a, <2>1, <3>1, <3>4, <3>5, TypesStay, TypePartsNext DEF Types
  <2>4. CASE nav = 0 /\ bos = join.bos
    <3> DEFINE j == [join EXCEPT !.pc = "navGrant"]
    <3>1. join' = j /\ answer' = answer /\ Request("service", Nav)
      BY <1>2, <2>4 DEF EnsureChatNav, Go
    <3>2. j \in Join /\ j.pc = "navGrant"
      BY <1>a, <1>c, <2>2 DEF Join
    <3> HIDE DEF j
    <3>3. CallType' /\ WireType'
      BY <1>a, <1>b, <3>1, <3>2, RequestType DEF CallType, TypeOK
    <3>4. Answered'
      BY <1>a, <2>1, <2>2, <3>1, <3>2 DEF Answered
    <3>5. QED BY <2>1, <3>3, <3>4, TypePartsNext DEF Types
  <2>5. CASE nav = 0 /\ bos # join.bos
    <3>1. Return(join.room, FALSE) /\ UNCHANGED wire
      BY <1>2, <2>5 DEF EnsureChatNav
    <3>2. QED BY <1>a, <1>c, <2>1, <2>2, <3>1, ReturnType, TypesStay, TypePartsNext DEF Types, Answered
  <2>6. QED BY <2>3, <2>4, <2>5
<1>3. CASE CreateRoom
  <2>1. SessionType' /\ ConnType' /\ RowType' /\ ThereType' /\ conns' = conns
    BY <1>3, <1>a, TypesStay DEF CreateRoom, there
  <2>2. join # None /\ join.pc = "look"
    BY <1>3 DEF CreateRoom, At
  <2>3. CASE Open(join.nav) /\ conns[join.nav].of = Nav
    <3> DEFINE j == [join EXCEPT !.pc = "found"]
    <3>1. join' = j /\ answer' = answer /\ Request("nav", join.room)
      BY <1>3, <2>3 DEF CreateRoom, Go
    <3>2. j \in Join /\ j.pc = "found" /\ j.nav = join.nav
      BY <1>a, <1>c, <2>2 DEF Join
    <3> HIDE DEF j
    <3>3. CallType' /\ WireType'
      BY <1>a, <1>b, <1>c, <2>2, <3>1, <3>2, RequestType DEF CallType, TypeOK
    <3>4. Answered'
      BY <1>a, <2>1, <2>2, <3>1, <3>2 DEF Answered
    <3>5. QED BY <2>1, <3>3, <3>4, TypePartsNext DEF Types
  <2>4. CASE ~(Open(join.nav) /\ conns[join.nav].of = Nav)
    <3>1. Return(join.room, FALSE) /\ UNCHANGED wire
      BY <1>3, <2>4 DEF CreateRoom
    <3>2. QED BY <1>a, <1>c, <2>1, <2>2, <3>1, ReturnType, TypesStay, TypePartsNext DEF Types, Answered
  <2>5. QED BY <2>3, <2>4
<1>4. CASE RequestChat
  <2>1. SessionType' /\ ConnType' /\ RowType' /\ ThereType' /\ conns' = conns
    BY <1>4, <1>a, TypesStay DEF RequestChat, there
  <2>2. join # None /\ join.pc = "ask" /\ join.got \in Rooms \cup {Nav}
    BY <1>4, <1>a, <1>c DEF RequestChat, At, Answered, Join
  <2>3. CASE bos = join.bos
    <3> DEFINE j == [join EXCEPT !.pc = "grant", !.cookie = join.got, !.got = None]
    <3>1. join' = j /\ answer' = answer /\ Request("service", join.got)
      BY <1>4, <2>3 DEF RequestChat
    <3>2. j \in Join /\ j.pc = "grant" /\ j.nav = join.nav /\ j.cookie = join.got
      BY <1>a, <1>c, <2>2 DEF Join
    <3> HIDE DEF j
    <3>3. CallType' /\ WireType'
      BY <1>a, <1>b, <2>2, <3>1, <3>2, RequestType DEF CallType, TypeOK
    <3>4. Answered'
      BY <1>a, <2>1, <2>2, <3>1, <3>2, JoinAssumption DEF Answered
    <3>5. QED BY <2>1, <3>3, <3>4, TypePartsNext DEF Types
  <2>4. CASE bos # join.bos
    <3>1. Return(join.room, FALSE) /\ UNCHANGED wire
      BY <1>4, <2>4 DEF RequestChat
    <3>2. QED BY <1>a, <1>c, <2>1, <2>2, <3>1, ReturnType, TypesStay, TypePartsNext DEF Types, Answered
  <2>5. QED BY <2>3, <2>4
<1>5. CASE DialFails
  <2>1. SessionType' /\ WireType' /\ ConnType' /\ RowType' /\ conns' = conns
    BY <1>5, <1>a, TypesStay DEF DialFails
  <2>2. join # None /\ ThereType'
    BY <1>5, <1>a, UpsetType DEF DialFails, ThereType, TypeOK, there
  <2>3. CASE Return(join.room, FALSE)
    BY <1>c, <2>1, <2>2, <2>3, ReturnType, TypePartsNext DEF Types, Answered
  <2>4. CASE Go("wedged") /\ answer' = answer
    <3> DEFINE j == [join EXCEPT !.pc = "wedged"]
    <3>1. join' = j /\ j \in Join /\ j.pc = "wedged"
      BY <1>a, <1>c, <2>2, <2>4 DEF Go, Join
    <3> HIDE DEF j
    <3>2. CallType' /\ Answered'
      BY <1>a, <2>4, <3>1 DEF CallType, TypeOK, Answered
    <3>3. QED BY <2>1, <2>2, <3>2, TypePartsNext DEF Types
  <2>5. QED BY <1>5, <2>3, <2>4 DEF DialFails
<1>6. CASE AwaitTimesOut
  <2>1. SessionType' /\ ConnType' /\ RowType' /\ conns' = conns
    BY <1>6, <1>a, TypesStay DEF AwaitTimesOut
  <2>2. join # None /\ Return(join.room, FALSE)
    BY <1>6 DEF AwaitTimesOut
  <2>3. due' \subseteq due /\ reply' = reply /\ upsets' \in 0..MaxUpsets
    BY <1>6, <1>a, UpsetType DEF AwaitTimesOut, TypeOK
  <2>4. WireType' /\ ThereType'
    BY <1>6, <1>a, <2>3 DEF AwaitTimesOut, WireType, ThereType, TypeOK, there
  <2>5. QED BY <1>c, <2>1, <2>2, <2>4, ReturnType, TypePartsNext DEF Types, Answered
<1>7. ASSUME NEW pc, NEW ch \in Chans, NEW next \in {"navDial", "ask", "dial"}, Await(pc, ch, next),
             <<pc, next>> \in {<<"navGrant", "navDial">>, <<"found", "ask">>, <<"grant", "dial">>}
      PROVE  Types'
  <2>1. SessionType' /\ ConnType' /\ RowType' /\ ThereType' /\ conns' = conns
    BY <1>7, <1>a, TypesStay DEF Await, there
  <2>2. join # None /\ join.pc = pc /\ reply[ch] \in Rooms \cup {Nav}
    BY <1>7, <1>a DEF Await, At, TypeOK
  <2> DEFINE j == [join EXCEPT !.pc = next, !.got = reply[ch]]
  <2>3. join' = j /\ answer' = answer /\ due' = due /\ reply' = [reply EXCEPT ![ch] = None]
    BY <1>7 DEF Await
  <2>4. /\ j \in Join /\ j.pc = next /\ j.nav = join.nav /\ j.got = reply[ch]
        /\ j.cookie = join.cookie
    BY <1>a, <1>c, <1>7, <2>2 DEF Join
  <2> HIDE DEF j
  <2>5. CallType' /\ WireType'
    BY <1>a, <1>7, <2>2, <2>3, <2>4 DEF CallType, WireType, TypeOK
  <2>6. Answered'
    BY <1>a, <1>7, <2>1, <2>2, <2>3, <2>4, JoinAssumption DEF Answered
  <2>7. QED BY <2>1, <2>5, <2>6, TypePartsNext DEF Types
<1>8. QED BY <1>b, <1>1, <1>2, <1>3, <1>4, <1>5, <1>6, <1>7

\* The one connection a step changes.
LEMMA OneConn ==
  ASSUME TypeOK, NEW i \in DOMAIN conns, NEW c \in Conn, conns' = [conns EXCEPT ![i] = c]
  PROVE  /\ conns' \in Seq(Conn) /\ Len(conns') = Len(conns) /\ DOMAIN conns' = DOMAIN conns
         /\ conns'[i] = c /\ \A k \in DOMAIN conns \ {i} : conns'[k] = conns[k]
<1>1. conns \in Seq(Conn) /\ DOMAIN conns = 1..Len(conns)
  BY LenProperties DEF TypeOK
<1>2. conns' \in Seq(Conn) /\ Len(conns') = Len(conns)
  BY <1>1, ExceptSeq
<1>3. QED BY <1>1, <1>2, LenProperties

LEMMA ConnIs ==
  ASSUME TypeOK
  PROVE  /\ conns \in Seq(Conn) /\ DOMAIN conns = 1..Len(conns) /\ Len(conns) \in Nat
         /\ \A i \in DOMAIN conns : conns[i] \in Conn
  BY LenProperties, ElementOfSeq DEF TypeOK

LEMMA FunctionIsSeq ==
  ASSUME NEW S, NEW n \in Nat, NEW f \in [1..n -> S]
  PROVE  f \in Seq(S) /\ Len(f) = n
  OBVIOUS

\* Connection i, after a step that changes no other: what it is of, what it is filed
\* under and whose session it belongs to never change.
Became(i, pc, cancelled, online, news) ==
  /\ conns' \in Seq(Conn) /\ Len(conns') = Len(conns) /\ DOMAIN conns' = DOMAIN conns
  /\ \A k \in DOMAIN conns \ {i} : conns'[k] = conns[k]
  /\ conns'[i].of = conns[i].of /\ conns'[i].cookie = conns[i].cookie /\ conns'[i].bos = conns[i].bos
  /\ conns'[i].pc = pc /\ conns'[i].cancelled = cancelled
  /\ conns'[i].online = online /\ conns'[i].news = news

LEMMA ConnBecame ==
  ASSUME TypeOK, NEW i \in DOMAIN conns
  PROVE  /\ ServerCloses(i) \/ ConnEnds(i)
              => Became(i, "ended", conns[i].cancelled, conns[i].online, conns[i].news)
         /\ EntryGoes(i) =>
              Became(i, IF conns[i].cookie = Nav THEN "done" ELSE "deleted",
                     conns[i].cancelled, conns[i].online, conns[i].news)
         /\ MarkLeft(i) => Became(i, "done", conns[i].cancelled, conns[i].online, conns[i].news)
         /\ HandleChatSNAC(i)
              => Became(i, conns[i].pc, conns[i].cancelled, conns[i].online, Tail(conns[i].news))
<1>a. conns[i] \in Conn
  BY ConnIs
<1>1. ASSUME NEW pc \in {"ended", "deleted", "done"}, conns' = [conns EXCEPT ![i].pc = pc]
      PROVE  Became(i, pc, conns[i].cancelled, conns[i].online, conns[i].news)
  <2> DEFINE c == [conns[i] EXCEPT !.pc = pc]
  <2>1. /\ c \in Conn /\ c.of = conns[i].of /\ c.cookie = conns[i].cookie /\ c.bos = conns[i].bos
        /\ c.pc = pc /\ c.cancelled = conns[i].cancelled /\ c.online = conns[i].online
        /\ c.news = conns[i].news
    BY <1>a DEF Conn
  <2>2. conns' = [conns EXCEPT ![i] = c]
    BY <1>1
  <2> HIDE DEF c
  <2>3. QED BY <2>1, <2>2, OneConn DEF Became
<1>2. ServerCloses(i) \/ ConnEnds(i)
        => Became(i, "ended", conns[i].cancelled, conns[i].online, conns[i].news)
  BY <1>1 DEF ServerCloses, ConnEnds
<1>3. EntryGoes(i) =>
        Became(i, IF conns[i].cookie = Nav THEN "done" ELSE "deleted",
               conns[i].cancelled, conns[i].online, conns[i].news)
  BY <1>1 DEF EntryGoes
<1>4. MarkLeft(i) => Became(i, "done", conns[i].cancelled, conns[i].online, conns[i].news)
  BY <1>1 DEF MarkLeft
<1>5. ASSUME HandleChatSNAC(i)
      PROVE  Became(i, conns[i].pc, conns[i].cancelled, conns[i].online, Tail(conns[i].news))
  <2> DEFINE c == [conns[i] EXCEPT !.news = Tail(conns[i].news)]
  <2>1. conns[i].news \in Seq(BOOLEAN) /\ conns[i].news # <<>>
    BY <1>a, <1>5 DEF Conn, HandleChatSNAC
  <2>2. Tail(conns[i].news) \in Seq(BOOLEAN)
    BY <2>1, HeadTailProperties
  <2>3. /\ c \in Conn /\ c.of = conns[i].of /\ c.cookie = conns[i].cookie /\ c.bos = conns[i].bos
        /\ c.pc = conns[i].pc /\ c.cancelled = conns[i].cancelled /\ c.online = conns[i].online
        /\ c.news = Tail(conns[i].news)
    BY <1>a, <2>2 DEF Conn
  <2>4. conns' = [conns EXCEPT ![i] = c]
    BY <1>5 DEF HandleChatSNAC
  <2> HIDE DEF c
  <2>5. QED BY <2>3, <2>4, OneConn DEF Became
<1>6. QED BY <1>2, <1>3, <1>4, <1>5

LEMMA LeaveBecame ==
  ASSUME TypeOK, NEW r \in Rooms, LeaveRoom(r)
  PROVE  LET i == rooms[r] IN
         /\ i \in DOMAIN conns
         /\ Became(i, conns[i].pc, TRUE, conns[i].online, conns[i].news)
<1> DEFINE i == rooms[r]
           c == [conns[i] EXCEPT !.cancelled = TRUE]
<1>1. i \in 0..Len(conns) /\ i # 0
  BY DEF LeaveRoom, TypeOK
<1>2. i \in DOMAIN conns /\ conns[i] \in Conn
  BY <1>1, ConnIs
<1> HIDE DEF i
<1>3. /\ c \in Conn /\ c.of = conns[i].of /\ c.cookie = conns[i].cookie /\ c.bos = conns[i].bos
      /\ c.pc = conns[i].pc /\ c.cancelled /\ c.cancelled = TRUE /\ c.online = conns[i].online
      /\ c.news = conns[i].news
  BY <1>2 DEF Conn
<1>4. conns' = [conns EXCEPT ![i] = c]
  BY DEF LeaveRoom, i
<1> HIDE DEF c
<1>5. Became(i, conns[i].pc, TRUE, conns[i].online, conns[i].news)
  BY <1>2, <1>3, <1>4, OneConn DEF Became
<1>6. QED BY <1>2, <1>5 DEF i

\* The room's roster comes to whoever goes online in it.
LEMMA OnlineBecame ==
  ASSUME Types, GoOnline, Open(join.conn)
  PROVE  LET i == join.conn IN
         i \in DOMAIN conns /\ Became(i, "run", conns[i].cancelled, TRUE, Roster(conns[i].of))
<1> DEFINE i == join.conn
           c == [conns[i] EXCEPT !.online = TRUE, !.news = Roster(conns[i].of)]
<1>1. i \in DOMAIN conns /\ conns[i] \in Conn /\ conns[i].pc = "run"
  BY ConnIs DEF Types, Answered, GoOnline, At, Open
<1>2. conns' = [conns EXCEPT ![i] = c]
  BY DEF GoOnline
<1>3. Roster(conns[i].of) \in Seq(BOOLEAN)
  <2>1. <<TRUE>> \in Seq(BOOLEAN) /\ <<>> \in Seq(BOOLEAN)
    OBVIOUS
  <2>2. QED BY <2>1 DEF Roster
<1> HIDE DEF i
<1>4. /\ c \in Conn /\ c.of = conns[i].of /\ c.cookie = conns[i].cookie /\ c.bos = conns[i].bos
      /\ c.pc = "run" /\ c.cancelled = conns[i].cancelled /\ c.online = TRUE /\ c.news = Roster(conns[i].of)
  BY <1>1, <1>3 DEF Conn
<1> HIDE DEF c
<1>5. Became(i, "run", conns[i].cancelled, TRUE, Roster(conns[i].of))
  BY <1>1, <1>2, <1>4, OneConn DEF Became, Types
<1>6. QED BY <1>1, <1>5 DEF i

\* A connection dialed: the last of them, not online yet.
LEMMA DialedConn ==
  ASSUME TypeOK, join \in Join, join.got \in Rooms \cup {Nav}, NEW c \in Rooms \cup {Nav}, Dialed(c)
  PROVE  LET n == Len(conns') IN
         /\ n = Len(conns) + 1 /\ conns' \in Seq(Conn)
         /\ n \notin DOMAIN conns /\ DOMAIN conns' = DOMAIN conns \cup {n}
         /\ \A k \in DOMAIN conns : conns'[k] = conns[k]
         /\ conns'[n].of = join.got /\ conns'[n].cookie = c /\ conns'[n].bos = join.bos
         /\ conns'[n].pc = "run" /\ ~conns'[n].cancelled /\ conns'[n].online = FALSE
         /\ conns'[n].news = <<>>
<1> DEFINE d == [of |-> join.got, cookie |-> c, bos |-> join.bos, pc |-> "run",
                 cancelled |-> FALSE, online |-> FALSE, news |-> <<>>]
<1>1. <<>> \in Seq(BOOLEAN)
  OBVIOUS
<1>2. /\ d \in Conn /\ d.of = join.got /\ d.cookie = c /\ d.bos = join.bos /\ d.pc = "run"
      /\ ~d.cancelled /\ d.online = FALSE /\ d.news = <<>>
  BY <1>1 DEF Conn, Join
<1>3. conns' = Append(conns, d)
  BY DEF Dialed
<1> HIDE DEF d
<1>4. conns \in Seq(Conn) /\ DOMAIN conns = 1..Len(conns) /\ Len(conns) \in Nat
  BY ConnIs
<1>5. /\ conns' \in Seq(Conn) /\ Len(conns') = Len(conns) + 1
      /\ \A k \in 1..Len(conns) : conns'[k] = conns[k]
      /\ conns'[Len(conns) + 1] = d
  BY <1>2, <1>3, <1>4, AppendProperties
<1>6. DOMAIN conns' = 1..(Len(conns) + 1)
  BY <1>5, LenProperties
<1>7. QED BY <1>2, <1>4, <1>5, <1>6

\* The end of a session cancels what is filed.
LEMMA ClosedConns ==
  ASSUME TypeOK, CloseAllChat
  PROVE  /\ conns' \in Seq(Conn) /\ Len(conns') = Len(conns) /\ DOMAIN conns' = DOMAIN conns
         /\ \A i \in DOMAIN conns :
              /\ conns'[i].of = conns[i].of /\ conns'[i].cookie = conns[i].cookie
              /\ conns'[i].bos = conns[i].bos /\ conns'[i].pc = conns[i].pc
              /\ conns'[i].online = conns[i].online /\ conns'[i].news = conns[i].news
              /\ conns'[i].cancelled = (conns[i].cancelled \/ Closes(i))
<1>1. conns \in Seq(Conn) /\ DOMAIN conns = 1..Len(conns) /\ Len(conns) \in Nat
      /\ \A i \in DOMAIN conns : conns[i] \in Conn
  BY ConnIs
<1> DEFINE c(i) == IF Closes(i) THEN [conns[i] EXCEPT !.cancelled = TRUE] ELSE conns[i]
<1>2. conns' = [i \in 1..Len(conns) |-> c(i)]
  BY <1>1 DEF CloseAllChat
<1>3. \A i \in DOMAIN conns :
        /\ c(i) \in Conn /\ c(i).of = conns[i].of /\ c(i).cookie = conns[i].cookie
        /\ c(i).bos = conns[i].bos /\ c(i).pc = conns[i].pc
        /\ c(i).online = conns[i].online /\ c(i).news = conns[i].news
        /\ c(i).cancelled = (conns[i].cancelled \/ Closes(i))
  BY <1>1 DEF Conn
<1> HIDE DEF c
<1>4. conns' \in [1..Len(conns) -> Conn] /\ \A i \in 1..Len(conns) : conns'[i] = c(i)
  BY <1>1, <1>2, <1>3
<1>5. conns' \in Seq(Conn) /\ Len(conns') = Len(conns)
  BY <1>1, <1>4, FunctionIsSeq
<1>6. QED BY <1>1, <1>2, <1>3, <1>4, <1>5

\* Who is online in the room hears of it.
Hears(r, i) == conns[i].of = r /\ Open(i) /\ conns[i].online

LEMMA MovedConns ==
  ASSUME TypeOK, NEW r \in Rooms, Moves(r)
  PROVE  /\ conns' \in Seq(Conn) /\ Len(conns') = Len(conns) /\ DOMAIN conns' = DOMAIN conns
         /\ \A i \in DOMAIN conns :
              /\ conns'[i].of = conns[i].of /\ conns'[i].cookie = conns[i].cookie
              /\ conns'[i].bos = conns[i].bos /\ conns'[i].pc = conns[i].pc
              /\ conns'[i].online = conns[i].online /\ conns'[i].cancelled = conns[i].cancelled
              /\ ~Hears(r, i) => conns'[i].news = conns[i].news
              /\ Hears(r, i) => /\ conns'[i].news # <<>>
                                /\ conns'[i].news[Len(conns'[i].news)] = inside'[r]
<1>1. conns \in Seq(Conn) /\ DOMAIN conns = 1..Len(conns) /\ Len(conns) \in Nat
      /\ \A i \in DOMAIN conns : conns[i] \in Conn
  BY ConnIs
<1>2. inside'[r] \in BOOLEAN
  BY DEF Moves, TypeOK
<1> DEFINE n(i) == Append(conns[i].news, inside'[r])
           c(i) == IF Hears(r, i) THEN [conns[i] EXCEPT !.news = n(i)] ELSE conns[i]
<1>3. \A i \in DOMAIN conns : /\ n(i) \in Seq(BOOLEAN) /\ n(i) # <<>>
                              /\ n(i)[Len(n(i))] = inside'[r]
  <2> SUFFICES ASSUME NEW i \in DOMAIN conns
               PROVE  n(i) \in Seq(BOOLEAN) /\ n(i) # <<>> /\ n(i)[Len(n(i))] = inside'[r]
    OBVIOUS
  <2>1. conns[i].news \in Seq(BOOLEAN)
    BY <1>1 DEF Conn
  <2>2. QED BY <1>2, <2>1, AppendProperties
<1> HIDE DEF n
<1>4. conns' = [i \in 1..Len(conns) |-> c(i)]
  BY <1>1 DEF Moves, Hears, n
<1>5. \A i \in DOMAIN conns :
        /\ c(i) \in Conn /\ c(i).of = conns[i].of /\ c(i).cookie = conns[i].cookie
        /\ c(i).bos = conns[i].bos /\ c(i).pc = conns[i].pc
        /\ c(i).online = conns[i].online /\ c(i).cancelled = conns[i].cancelled
        /\ c(i).news = IF Hears(r, i) THEN n(i) ELSE conns[i].news
  BY <1>1, <1>3 DEF Conn
<1> HIDE DEF c
<1>6. conns' \in [1..Len(conns) -> Conn] /\ \A i \in 1..Len(conns) : conns'[i] = c(i)
  BY <1>1, <1>4, <1>5
<1>7. conns' \in Seq(Conn) /\ Len(conns') = Len(conns)
  BY <1>1, <1>6, FunctionIsSeq
<1>8. QED BY <1>1, <1>3, <1>4, <1>5, <1>6, <1>7

\* As many connections as before, the same join.
LEMMA SameLength ==
  ASSUME Types, conns' \in Seq(Conn), Len(conns') = Len(conns), DOMAIN conns' = DOMAIN conns,
         UNCHANGED call, nav' \in {nav, 0},
         rooms' = rooms \/ \E c : rooms' = [rooms EXCEPT ![c] = 0]
  PROVE  ConnType' /\ CallType' /\ Answered'
<1>1. Len(conns) \in Nat
  BY ConnIs DEF Types
<1>2. nav' \in 0..Len(conns) /\ rooms' \in [Rooms -> 0..Len(conns)]
  <2>1. nav \in 0..Len(conns) /\ rooms \in [Rooms -> 0..Len(conns)] /\ 0 \in 0..Len(conns)
    BY <1>1 DEF Types, TypeOK
  <2>2. ASSUME NEW c, rooms' = [rooms EXCEPT ![c] = 0] PROVE rooms' \in [Rooms -> 0..Len(conns)]
    BY <2>1, <2>2
  <2>3. QED BY <2>1, <2>2
<1>3. ConnType'
  BY <1>2 DEF Types, TypeOK, ConnType
<1>4. QED BY <1>3 DEF Types, TypeOK, CallType, Answered, call

\* The steps of the connections, of a session and of the other person.
LEMMA ConnTypes ==
  ASSUME Types,
         \/ \E i \in DOMAIN conns : ServerCloses(i) \/ ConnStep(i)
         \/ \E r \in Rooms : LeaveRoom(r) \/ Moves(r)
         \/ CloseAllChat
  PROVE  Types'
<1>a. TypeOK /\ Answered
  BY DEF Types
<1>1. ASSUME NEW i \in DOMAIN conns, ServerCloses(i) \/ ConnEnds(i) PROVE Types'
  <2>1. ConnType' /\ CallType' /\ Answered'
    BY <1>1, <1>a, ConnBecame, SameLength DEF Became, ServerCloses, ConnEnds
  <2>2. SessionType' /\ RowType'
    BY <1>1, <1>a, TypesStay DEF ServerCloses, ConnEnds
  <2>3. due' \subseteq due /\ reply' = reply
    BY <1>1 DEF ServerCloses, ConnEnds
  <2>4. ThereType' /\ WireType'
    BY <1>1, <1>a, <2>3, UpsetType, TypesStay
       DEF ServerCloses, ConnEnds, ThereType, WireType, TypeOK, there
  <2>5. QED BY <2>1, <2>2, <2>4, TypePartsNext DEF Types
<1>2. ASSUME NEW i \in DOMAIN conns, EntryGoes(i) PROVE Types'
  <2>1. nav' \in {nav, 0} /\ (rooms' = rooms \/ \E c : rooms' = [rooms EXCEPT ![c] = 0])
    BY <1>2 DEF EntryGoes
  <2>2. ConnType' /\ CallType' /\ Answered'
    BY <1>2, <1>a, <2>1, ConnBecame, SameLength DEF Became, EntryGoes
  <2>3. SessionType' /\ RowType' /\ ThereType' /\ WireType'
    BY <1>2, <1>a, TypesStay DEF EntryGoes, there
  <2>4. QED BY <2>2, <2>3, TypePartsNext DEF Types
<1>3. ASSUME NEW i \in DOMAIN conns, MarkLeft(i) PROVE Types'
  <2>1. ConnType' /\ CallType' /\ Answered'
    BY <1>3, <1>a, ConnBecame, SameLength DEF Became, MarkLeft
  <2>2. SessionType' /\ ThereType' /\ WireType'
    BY <1>3, <1>a, TypesStay DEF MarkLeft, there
  <2>3. RowType'
    BY <1>3, <1>a DEF MarkLeft, RowType, TypeOK
  <2>4. QED BY <2>1, <2>2, <2>3, TypePartsNext DEF Types
<1>4. ASSUME NEW i \in DOMAIN conns, HandleChatSNAC(i) PROVE Types'
  <2>1. ConnType' /\ CallType' /\ Answered'
    BY <1>4, <1>a, ConnBecame, SameLength DEF Became, HandleChatSNAC
  <2>2. SessionType' /\ ThereType' /\ WireType'
    BY <1>4, <1>a, TypesStay DEF HandleChatSNAC, there
  <2>3. RowType'
    BY <1>4, <1>a DEF HandleChatSNAC, RoomUsersJoined, RoomUsersLeft, RowType, TypeOK
  <2>4. QED BY <2>1, <2>2, <2>3, TypePartsNext DEF Types
<1>5. ASSUME NEW r \in Rooms, LeaveRoom(r) PROVE Types'
  <2>1. ConnType' /\ CallType' /\ Answered'
    BY <1>5, <1>a, LeaveBecame, SameLength DEF Became, LeaveRoom
  <2>2. SessionType' /\ RowType' /\ ThereType' /\ WireType'
    BY <1>5, <1>a, TypesStay DEF LeaveRoom, there
  <2>3. QED BY <2>1, <2>2, TypePartsNext DEF Types
<1>6. ASSUME NEW r \in Rooms, Moves(r) PROVE Types'
  <2>1. ConnType' /\ CallType' /\ Answered'
    BY <1>6, <1>a, MovedConns, SameLength DEF Moves
  <2>2. SessionType' /\ RowType' /\ WireType'
    BY <1>6, <1>a, TypesStay DEF Moves
  <2>3. ThereType'
    BY <1>6, <1>a, JoinBounds DEF Moves, ThereType, TypeOK
  <2>4. QED BY <2>1, <2>2, <2>3, TypePartsNext DEF Types
<1>7. CASE CloseAllChat
  <2>1. ConnType' /\ CallType' /\ Answered'
    BY <1>7, <1>a, ClosedConns, SameLength DEF CloseAllChat
  <2>2. RowType' /\ ThereType' /\ WireType'
    BY <1>7, <1>a, TypesStay DEF CloseAllChat, there
  <2>3. SessionType'
    BY <1>7, <1>a DEF CloseAllChat, SessionType, TypeOK
  <2>4. QED BY <2>1, <2>2, <2>3, TypePartsNext DEF Types
<1>8. QED BY <1>1, <1>2, <1>3, <1>4, <1>5, <1>6, <1>7 DEF ConnStep

LEMMA RestTypes ==
  ASSUME Types,
         \/ DialNav \/ DialChat \/ GoOnline \/ Joined \/ BosLost \/ ResetStore \/ SignOn
         \/ \E ch \in Chans, what \in Rooms \cup {Nav} : Arrives(ch, what)
  PROVE  Types'
<1>a. TypeOK /\ Answered /\ MaxConns \in Nat /\ Len(conns) \in Nat
  BY JoinBounds, ConnIs DEF Types
<1>b. join # None => join \in Join /\ join.room \in Rooms /\ join.nav \in 0..MaxConns
  BY <1>a DEF TypeOK, Join
<1>1. CASE DialNav
  <2>1. join # None /\ join.pc = "navDial" /\ join.got \in Rooms \cup {Nav} /\ Len(conns) + 2 <= MaxConns
    BY <1>1, <1>a, <1>b DEF DialNav, At, Answered, Join
  <2>2. conns' \in Seq(Conn) /\ Len(conns') = Len(conns) + 1
    BY <1>1, <1>a, <1>b, <2>1, DialedConn DEF DialNav
  <2> DEFINE j == [join EXCEPT !.pc = "look", !.nav = nav', !.got = None]
  <2>3. join' = j /\ answer' = answer /\ nav' = Len(conns) + 1 /\ rooms' = rooms
    BY <1>1, <2>2 DEF DialNav
  <2>4. nav' \in 0..MaxConns
    BY <1>a, <2>1, <2>3
  <2>5. j \in Join /\ j.pc = "look" /\ j.nav = nav'
    BY <1>b, <2>1, <2>4 DEF Join
  <2> HIDE DEF j
  <2>6. CallType' /\ Answered'
    BY <1>a, <2>1, <2>2, <2>3, <2>5 DEF CallType, TypeOK, Answered
  <2>7. ConnType'
    BY <1>a, <2>1, <2>2, <2>3 DEF ConnType, TypeOK
  <2>8. SessionType' /\ RowType' /\ ThereType' /\ WireType'
    BY <1>1, <1>a, TypesStay DEF DialNav, there
  <2>9. QED BY <2>6, <2>7, <2>8, TypePartsNext DEF Types
<1>2. CASE DialChat
  <2>1. /\ join # None /\ join.pc = "dial" /\ {join.got, join.cookie} \subseteq Rooms \cup {Nav}
        /\ Len(conns) + 1 <= MaxConns /\ join.nav # 0
    BY <1>2, <1>a, <1>b DEF DialChat, At, Answered, Join, TypeOK
  <2>2. /\ conns' \in Seq(Conn) /\ Len(conns') = Len(conns) + 1
        /\ DOMAIN conns' = DOMAIN conns \cup {Len(conns')}
    BY <1>2, <1>a, <1>b, <2>1, DialedConn DEF DialChat
  <2> DEFINE j == [join EXCEPT !.pc = "online", !.conn = Len(conns'), !.got = None]
  <2>3. /\ join' = j /\ answer' = answer /\ nav' = nav
        /\ rooms' = [rooms EXCEPT ![join.cookie] = Len(conns')]
    BY <1>2 DEF DialChat
  <2>4. Len(conns') \in 0..MaxConns
    BY <1>a, <2>1, <2>2
  <2>5. /\ j \in Join /\ j.pc = "online" /\ j.nav = join.nav /\ j.conn = Len(conns')
        /\ j.cookie = join.cookie
    BY <1>b, <2>1, <2>4 DEF Join
  <2> HIDE DEF j
  <2>6. CallType'
    BY <1>a, <2>1, <2>3, <2>5 DEF CallType, TypeOK
  <2>7. Answered'
    BY <2>1, <2>2, <2>3, <2>5, JoinAssumption DEF Answered
  <2>8. ConnType'
    <3>1. rooms \in [Rooms -> 0..Len(conns)] /\ nav \in 0..Len(conns)
      BY <1>a DEF TypeOK
    <3>2. 0..Len(conns) \subseteq 0..Len(conns') /\ Len(conns') \in 0..Len(conns')
      BY <1>a, <2>2
    <3>3. rooms \in [Rooms -> 0..Len(conns')] /\ nav' \in 0..Len(conns')
      BY <2>3, <3>1, <3>2
    <3>4. rooms' \in [Rooms -> 0..Len(conns')]
      BY <2>3, <3>2, <3>3
    <3>5. QED BY <1>a, <2>1, <2>2, <3>3, <3>4 DEF ConnType
  <2>9. SessionType' /\ RowType' /\ ThereType' /\ WireType'
    BY <1>2, <1>a, TypesStay DEF DialChat, there
  <2>10. QED BY <2>6, <2>7, <2>8, <2>9, TypePartsNext DEF Types
<1>3. CASE GoOnline
  <2>1. join # None /\ join.pc = "online" /\ join.nav # 0
    BY <1>3, <1>a DEF GoOnline, At, TypeOK
  <2>2. SessionType' /\ RowType' /\ ThereType' /\ WireType' /\ nav' = nav /\ rooms' = rooms
    BY <1>3, <1>a, TypesStay DEF GoOnline, there
  <2>3. CASE Open(join.conn)
    <3> DEFINE j == [join EXCEPT !.pc = "store"]
    <3>1. join' = j /\ answer' = answer
      BY <1>3, <2>3 DEF GoOnline, Go
    <3>2. j \in Join /\ j.pc = "store" /\ j.nav = join.nav /\ j.conn = join.conn /\ j.cookie = join.cookie
      BY <1>b, <2>1 DEF Join
    <3> HIDE DEF j
    <3>3. /\ join.conn \in DOMAIN conns /\ DOMAIN conns' = DOMAIN conns
          /\ conns' \in Seq(Conn) /\ Len(conns') = Len(conns)
      BY <1>3, <2>3, OnlineBecame DEF Became
    <3>4. CallType' /\ Answered'
      BY <1>a, <2>1, <3>1, <3>2, <3>3 DEF CallType, Answered, TypeOK
    <3>5. ConnType'
      BY <1>a, <2>2, <3>3 DEF ConnType, TypeOK
    <3>6. QED BY <2>2, <3>4, <3>5, TypePartsNext DEF Types
  <2>4. CASE ~Open(join.conn)
    <3>1. Return(join.room, FALSE) /\ conns' = conns
      BY <1>3, <2>4 DEF GoOnline
    <3>2. QED BY <1>a, <1>b, <2>1, <2>2, <3>1, ReturnType, TypesStay, TypePartsNext DEF Types, Answered
  <2>5. QED BY <2>3, <2>4
<1>4. CASE Joined
  <2>1. join # None /\ Return(join.room, TRUE)
    BY <1>4 DEF Joined, At
  <2>2. SessionType' /\ ConnType' /\ ThereType' /\ WireType'
    BY <1>4, <1>a, TypesStay DEF Joined, there
  <2>3. RowType'
    BY <1>4, <1>a DEF Joined, RowType, TypeOK
  <2>4. QED BY <1>b, <2>1, <2>2, <2>3, ReturnType, TypePartsNext DEF Types, Answered
<1>5. CASE BosLost
  <2>1. CallType' /\ ConnType' /\ RowType' /\ Answered'
    BY <1>5, <1>a, TypesStay DEF BosLost, call, Answered
  <2>2. due' \subseteq due /\ reply' = reply
    BY <1>5 DEF BosLost
  <2>3. SessionType' /\ ThereType' /\ WireType'
    BY <1>5, <1>a, <2>2, UpsetType DEF BosLost, SessionType, ThereType, WireType, TypeOK, there
  <2>4. QED BY <2>1, <2>3, TypePartsNext DEF Types
<1>6. CASE ResetStore
  <2>1. CallType' /\ ConnType' /\ ThereType' /\ WireType' /\ Answered'
    BY <1>6, <1>a, TypesStay DEF ResetStore, call, Answered, there
  <2>2. SessionType' /\ RowType'
    BY <1>6, <1>a DEF ResetStore, SessionType, RowType, TypeOK
  <2>3. QED BY <2>1, <2>2, TypePartsNext DEF Types
<1>7. CASE SignOn
  <2>1. CallType' /\ ConnType' /\ WireType' /\ Answered' /\ UNCHANGED there
    BY <1>7, <1>a, TypesStay DEF SignOn, call, Answered
  <2>5. UpsetIf(teardown # "none", "early")
    BY <1>7 DEF SignOn
  <2>6. ThereType'
    BY <1>a, <2>1, <2>5, UpsetType DEF ThereType, TypeOK, there
  <2>2. SessionType'
    BY <1>7, <1>a, JoinBounds DEF SignOn, SessionType, TypeOK
  <2>3. RowType'
    <3>1. CASE UNCHANGED <<row, listed>>
      BY <1>a, <3>1, TypesStay
    <3>2. ASSUME NEW saved \in [Rooms -> {"none", "recent"}], row' = saved,
                 listed' = [r \in Rooms |-> FALSE]
          PROVE  RowType'
      BY <3>2 DEF RowType
    <3>3. QED BY <1>7, <3>1, <3>2 DEF SignOn
  <2>4. QED BY <2>1, <2>2, <2>3, <2>6, TypePartsNext DEF Types
<1>8. ASSUME NEW ch \in Chans, NEW what \in Rooms \cup {Nav}, Arrives(ch, what) PROVE Types'
  <2>1. SessionType' /\ CallType' /\ ConnType' /\ RowType' /\ Answered'
    BY <1>8, <1>a, TypesStay DEF Arrives, call, Answered
  <2>2. WireType'
    BY <1>8, <1>a DEF Arrives, WireType, TypeOK
  <2>3. ThereType'
    BY <1>8, <1>a, UpsetType DEF Arrives, ThereType, TypeOK, there
  <2>4. QED BY <2>1, <2>2, <2>3, TypePartsNext DEF Types
<1>9. QED BY <1>1, <1>2, <1>3, <1>4, <1>5, <1>6, <1>7, <1>8

LEMMA TypesStep == Types /\ [Next]_vars => Types'
<1> SUFFICES ASSUME Types, [Next]_vars PROVE Types'
  OBVIOUS
<1>1. CASE Next
  BY <1>1, AskTypes, ConnTypes, RestTypes DEF Next, Runs, JoinStep
<1>2. CASE UNCHANGED vars
  <2>1. TypeOK'
    BY <1>2, TypesStay, TypePartsNext DEF Types, vars, there
  <2>2. Answered'
    BY <1>2 DEF Types, Answered, vars, call
  <2>3. QED BY <2>1, <2>2 DEF Types
<1>3. QED BY <1>1, <1>2

\* Sessions, joins, replies, connections and rows keep their types whatever goes wrong;
\* a join has what it dials and is filed under by the time it needs it.
THEOREM TypeCorrect == Spec => []TypeOK
<1>1. Types => TypeOK
  BY DEF Types
<1>2. QED BY <1>1, TypesInit, TypesStep, PTL DEF Spec

-----------------------------------------------------------------------------
(* Replies are taken for the requests they answer. *)

\* No late reply lands while another is awaited.
NoStray == "stale" \notin Upsets

Replied ==
  join # None =>
    /\ join.pc = "navGrant" => reply["service"] \in {None, Nav}
    /\ join.pc = "found" => reply["nav"] \in {None, join.room}
    /\ join.pc = "grant" => reply["service"] \in {None, join.room}
    /\ join.pc = "navDial" => join.got = Nav
    /\ join.pc \in {"ask", "dial"} => join.got = join.room
    /\ join.cookie \in {None, join.room}

Filed == \A i \in DOMAIN conns : conns[i].of = conns[i].cookie

LEMMA FiledStep ==
  ASSUME Types, Filed, Replied, [Next]_vars
  PROVE  Filed'
<1>a. TypeOK
  BY DEF Types
<1>b. conns' = conns => Filed'
  BY DEF Filed
<1>c. join # None => join \in Join
  BY DEF Types, TypeOK
<1>1. ASSUME NEW i \in DOMAIN conns, ServerCloses(i) \/ ConnStep(i) PROVE Filed'
  BY <1>a, <1>1, ConnBecame DEF ConnStep, Became, Filed
<1>2. ASSUME NEW r \in Rooms, LeaveRoom(r) PROVE Filed'
  BY <1>a, <1>2, LeaveBecame DEF Became, Filed
<1>3. ASSUME NEW r \in Rooms, Moves(r) PROVE Filed'
  BY <1>a, <1>3, MovedConns DEF Filed
<1>4. CASE CloseAllChat
  BY <1>a, <1>4, ClosedConns DEF Filed
<1>5. CASE GoOnline
  <2>1. CASE Open(join.conn)
    BY <1>5, <2>1, OnlineBecame DEF Became, Filed
  <2>2. CASE ~Open(join.conn)
    BY <1>5, <1>b, <2>2 DEF GoOnline
  <2>3. QED BY <2>1, <2>2
<1>6. CASE DialNav
  <2>1. join \in Join /\ join.got = Nav /\ Dialed(Nav)
    BY <1>6, <1>c DEF DialNav, At, Replied
  <2>2. PICK n : n = Len(conns')
    OBVIOUS
  <2>3. /\ DOMAIN conns' = DOMAIN conns \cup {n} /\ \A k \in DOMAIN conns : conns'[k] = conns[k]
        /\ conns'[n].of = Nav /\ conns'[n].cookie = Nav
    BY <1>a, <2>1, <2>2, DialedConn
  <2>4. QED BY <2>3 DEF Filed
<1>7. CASE DialChat
  <2>1. /\ join \in Join /\ join.got = join.room /\ join.cookie = join.room /\ join.room \in Rooms
        /\ Dialed(join.cookie)
    BY <1>7, <1>c DEF DialChat, At, Replied, Types, Answered, Join
  <2>2. PICK n : n = Len(conns')
    OBVIOUS
  <2>3. PICK q : q = join.room
    OBVIOUS
  <2>4. /\ DOMAIN conns' = DOMAIN conns \cup {n} /\ \A k \in DOMAIN conns : conns'[k] = conns[k]
        /\ conns'[n].of = q /\ conns'[n].cookie = q
    BY <1>a, <2>1, <2>2, <2>3, DialedConn
  <2>5. QED BY <2>4 DEF Filed
<1>8. CASE UNCHANGED vars
  BY <1>8, <1>b DEF vars
<1>9. ASSUME \/ EnsureChatNav \/ AwaitTimesOut \/ CreateRoom \/ RequestChat \/ Joined
             \/ \E pc, ch, next : Await(pc, ch, next)
             \/ ResetStore \/ \E ch, what : Arrives(ch, what)
             \/ DialFails \/ BosLost \/ SignOn \/ \E r \in Rooms : JoinRoom(r)
      PROVE  conns' = conns
  BY <1>9 DEF EnsureChatNav, AwaitTimesOut, CreateRoom, RequestChat, Joined, Await,
              ResetStore, Arrives, DialFails, BosLost, SignOn, JoinRoom
<1>10. QED BY <1>b, <1>1, <1>2, <1>3, <1>4, <1>5, <1>6, <1>7, <1>8, <1>9 DEF Next, Runs, JoinStep

\* The call that holds joinMu, and the channels it waits on.
LEMMA RepliedStep ==
  ASSUME NoStray, Types, Replied, [Next]_vars
  PROVE  Replied'
<1>a. /\ TypeOK /\ Answered /\ reply \in [Chans -> Rooms \cup {Nav, None}]
      /\ "nav" \in Chans /\ "service" \in Chans
  BY DEF Types, TypeOK, Chans
<1>b. join # None => join \in Join /\ join.room \in Rooms
  BY <1>a DEF TypeOK, Join
<1>c. join' = None => Replied'
  BY DEF Replied
<1>d. join' = join /\ reply' = reply => Replied'
  BY DEF Replied
<1>1. ASSUME NEW r \in Rooms, JoinRoom(r) PROVE Replied'
  BY <1>1, <1>c DEF JoinRoom, Return, Replied
<1>2. CASE EnsureChatNav
  <2>1. join # None /\ join.pc = "start" BY <1>2 DEF EnsureChatNav, At
  <2>2. CASE nav # 0
    <3> DEFINE j == [join EXCEPT !.pc = "look", !.nav = nav]
    <3>1. join' = j BY <1>2, <2>2 DEF EnsureChatNav
    <3>2. j.pc = "look" /\ j.cookie = join.cookie /\ j.room = join.room BY <1>b, <2>1 DEF Join
    <3> HIDE DEF j
    <3>3. QED BY <2>1, <3>1, <3>2 DEF Replied
  <2>3. CASE nav = 0 /\ bos = join.bos
    <3> DEFINE j == [join EXCEPT !.pc = "navGrant"]
    <3>1. join' = j /\ reply' = [reply EXCEPT !["service"] = None]
      BY <1>2, <2>3 DEF EnsureChatNav, Request, Go
    <3>2. j.pc = "navGrant" /\ j.cookie = join.cookie /\ j.room = join.room BY <1>b, <2>1 DEF Join
    <3> HIDE DEF j
    <3>3. QED BY <1>a, <2>1, <3>1, <3>2 DEF Replied
  <2>4. CASE nav = 0 /\ bos # join.bos
    BY <1>2, <1>c, <2>4 DEF EnsureChatNav, Return
  <2>5. QED BY <2>2, <2>3, <2>4
<1>3. CASE CreateRoom
  <2>1. join # None /\ join.pc = "look" BY <1>3 DEF CreateRoom, At
  <2>2. CASE Open(join.nav) /\ conns[join.nav].of = Nav
    <3> DEFINE j == [join EXCEPT !.pc = "found"]
    <3>1. join' = j /\ reply' = [reply EXCEPT !["nav"] = None]
      BY <1>3, <2>2 DEF CreateRoom, Request, Go
    <3>2. j.pc = "found" /\ j.cookie = join.cookie /\ j.room = join.room BY <1>b, <2>1 DEF Join
    <3> HIDE DEF j
    <3>3. QED BY <1>a, <2>1, <3>1, <3>2 DEF Replied
  <2>3. CASE ~(Open(join.nav) /\ conns[join.nav].of = Nav)
    BY <1>3, <1>c, <2>3 DEF CreateRoom, Return
  <2>4. QED BY <2>2, <2>3
<1>4. CASE RequestChat
  <2>1. join # None /\ join.pc = "ask" /\ join.got = join.room BY <1>4 DEF RequestChat, At, Replied
  <2>2. CASE bos = join.bos
    <3> DEFINE j == [join EXCEPT !.pc = "grant", !.cookie = join.got, !.got = None]
    <3>1. join' = j /\ reply' = [reply EXCEPT !["service"] = None]
      BY <1>4, <2>2 DEF RequestChat, Request
    <3>2. j.pc = "grant" /\ j.cookie = join.room /\ j.room = join.room BY <1>b, <2>1 DEF Join
    <3> HIDE DEF j
    <3>3. QED BY <1>a, <3>1, <3>2 DEF Replied
  <2>3. CASE bos # join.bos
    BY <1>4, <1>c, <2>3 DEF RequestChat, Return
  <2>4. QED BY <2>2, <2>3
<1>5. ASSUME NEW pc, NEW ch, NEW next, Await(pc, ch, next),
             <<pc, ch, next>> \in {<<"navGrant", "service", "navDial">>, <<"found", "nav", "ask">>,
                                   <<"grant", "service", "dial">>}
      PROVE  Replied'
  <2>1. join # None /\ join.pc = pc /\ reply[ch] # None BY <1>5 DEF Await, At
  <2> DEFINE j == [join EXCEPT !.pc = next, !.got = reply[ch]]
  <2>2. join' = j BY <1>5 DEF Await
  <2>3. j.pc = next /\ j.got = reply[ch] /\ j.cookie = join.cookie /\ j.room = join.room
    BY <1>b, <2>1 DEF Join
  <2> HIDE DEF j
  <2>4. pc = "navGrant" => reply[ch] = Nav
    BY <1>5, <2>1 DEF Replied
  <2>5. pc \in {"found", "grant"} => reply[ch] = join.room
    BY <1>5, <2>1 DEF Replied
  <2>6. QED BY <1>5, <2>1, <2>2, <2>3, <2>4, <2>5 DEF Replied
<1>6. CASE DialFails
  <2>1. CASE Return(join.room, FALSE)
    BY <1>c, <2>1 DEF Return
  <2>2. CASE Go("wedged")
    <3>1. join # None BY <1>6 DEF DialFails
    <3> DEFINE j == [join EXCEPT !.pc = "wedged"]
    <3>2. join' = j /\ j.pc = "wedged" /\ j.cookie = join.cookie /\ j.room = join.room
      BY <1>b, <2>2, <3>1 DEF Go, Join
    <3> HIDE DEF j
    <3>3. QED BY <3>1, <3>2 DEF Replied
  <2>3. QED BY <1>6, <2>1, <2>2 DEF DialFails
<1>7. CASE DialNav
  <2>1. join # None BY <1>7 DEF DialNav, At
  <2> DEFINE j == [join EXCEPT !.pc = "look", !.nav = nav', !.got = None]
  <2>2. join' = j BY <1>7 DEF DialNav
  <2>3. j.pc = "look" /\ j.cookie = join.cookie /\ j.room = join.room BY <1>b, <2>1 DEF Join
  <2> HIDE DEF j
  <2>4. QED BY <2>1, <2>2, <2>3 DEF Replied
<1>8. CASE DialChat
  <2>1. join # None BY <1>8 DEF DialChat, At
  <2> DEFINE j == [join EXCEPT !.pc = "online", !.conn = Len(conns'), !.got = None]
  <2>2. join' = j BY <1>8 DEF DialChat
  <2>3. j.pc = "online" /\ j.cookie = join.cookie /\ j.room = join.room BY <1>b, <2>1 DEF Join
  <2> HIDE DEF j
  <2>4. QED BY <2>1, <2>2, <2>3 DEF Replied
<1>9. CASE GoOnline
  <2>1. join # None BY <1>9 DEF GoOnline, At
  <2>2. CASE Open(join.conn)
    <3> DEFINE j == [join EXCEPT !.pc = "store"]
    <3>1. join' = j BY <1>9, <2>2 DEF GoOnline, Go
    <3>2. j.pc = "store" /\ j.cookie = join.cookie /\ j.room = join.room BY <1>b, <2>1 DEF Join
    <3> HIDE DEF j
    <3>3. QED BY <2>1, <3>1, <3>2 DEF Replied
  <2>3. CASE ~Open(join.conn)
    BY <1>9, <1>c, <2>3 DEF GoOnline, Return
  <2>4. QED BY <2>2, <2>3
<1>10. CASE Joined \/ AwaitTimesOut
  BY <1>10, <1>c DEF Joined, AwaitTimesOut, Return
<1>11. ASSUME NEW ch \in Chans, NEW what \in Rooms \cup {Nav}, Arrives(ch, what) PROVE Replied'
  <2>1. /\ join' = join
        /\ reply' = IF reply[ch] = None THEN [reply EXCEPT ![ch] = what] ELSE reply
    BY <1>11 DEF Arrives, call
  <2>2. join # None /\ Awaits(join.pc, ch) => Awaited = <<ch, what>>
    BY <1>11 DEF Arrives, UpsetIf, Upset, NoStray
  <2>3. ASSUME join # None, join.pc = "navGrant", ch = "service" PROVE what = Nav
    <3>1. Awaits(join.pc, ch) BY <2>3 DEF Awaits
    <3>2. Awaited = <<"service", Nav>> BY <2>3 DEF Awaited
    <3>3. QED BY <2>2, <2>3, <3>1, <3>2
  <2>4. ASSUME join # None, join.pc = "found", ch = "nav" PROVE what = join.room
    <3>1. Awaits(join.pc, ch) BY <2>4 DEF Awaits
    <3>2. Awaited = <<"nav", join.room>> BY <2>4 DEF Awaited
    <3>3. QED BY <2>2, <2>4, <3>1, <3>2
  <2>5. ASSUME join # None, join.pc = "grant", ch = "service" PROVE what = join.room
    <3>1. Awaits(join.pc, ch) BY <2>5 DEF Awaits
    <3>2. Awaited = <<"service", join.cookie>> BY <2>5 DEF Awaited
    <3>3. join.cookie = join.room BY <2>5 DEF Replied, Types, Answered
    <3>4. QED BY <2>2, <2>5, <3>1, <3>2, <3>3
  <2>6. QED BY <1>a, <2>1, <2>3, <2>4, <2>5 DEF Replied
<1>12. ASSUME \/ \E i \in DOMAIN conns : ServerCloses(i) \/ ConnStep(i)
              \/ \E r \in Rooms : LeaveRoom(r) \/ Moves(r)
              \/ CloseAllChat \/ ResetStore \/ BosLost \/ SignOn \/ UNCHANGED vars
       PROVE  join' = join /\ reply' = reply
  BY <1>12 DEF ServerCloses, ConnStep, ConnEnds, EntryGoes, MarkLeft, HandleChatSNAC, LeaveRoom,
               Moves, CloseAllChat, ResetStore, BosLost, SignOn, vars, call, wire
<1>13. QED BY <1>a, <1>d, <1>1, <1>2, <1>3, <1>4, <1>5, <1>6, <1>7, <1>8, <1>9, <1>10, <1>11, <1>12
           DEF Next, Runs, JoinStep

Answers == Types /\ Replied /\ Filed

LEMMA AnswersInit == Init => Answers
  BY TypesInit DEF Init, Answers, Replied, Filed

LEMMA AnswersStep == NoStray /\ Answers /\ [Next]_vars => Answers'
  BY TypesStep, RepliedStep, FiledStep DEF Answers

\* As long as no late reply lands while another is awaited, every connection is of what
\* it is filed under and a join is about the room it was called for, whatever times out,
\* fails or is closed (await, drain and the two reply channels of chat.go).
THEOREM RepliesMatch ==
  ASSUME NoStray PROVE Spec => []RepliesAreTheirOwn
<1>1. Answers => RepliesAreTheirOwn
  BY DEF Answers, Replied, Filed, RepliesAreTheirOwn
<1>2. Answers /\ [Next]_vars => Answers'
  BY AnswersStep
<1>3. QED BY <1>1, <1>2, AnswersInit, PTL DEF Spec

-----------------------------------------------------------------------------
(* Rooms, rows and connections. *)

\* Nothing is lost under a join: no late reply, no room or session closed while it is
\* being joined, no join of a room whose connection is still being closed, and no sign-on
\* before the old session is torn down.
Undisturbed == Upsets \cap {"stale", "kicked", "rejoin", "across", "early"} = {}

\* A connection of a room, not yet forgotten.
Of(i, r) == conns[i].cookie = r /\ conns[i].pc # "done"

\* The connection of a join that has not told the store yet.
Coming(i) == join # None /\ join.conn = i /\ join.pc \in {"online", "store"}

SessionKept ==
  /\ bos # 0 => teardown = "none"
  /\ join # None => bos # 0 /\ bos = join.bos

JoinKept ==
  join # None =>
    /\ join.pc \in {"navGrant", "navDial"} => nav = 0
    /\ join.pc # "wedged" => row[join.room] # "joined"
    /\ join.pc \in {"online", "store"} =>
         /\ Live(join.conn) /\ conns[join.conn].cookie = join.room
         /\ (join.pc = "store") = conns[join.conn].online
    /\ join.pc \notin {"online", "store"} => \A i \in DOMAIN conns : ~Of(i, join.room)

ConnKept(i) ==
  LET c == conns[i].cookie
      n == conns[i].news
  IN  /\ Live(i) => conns[i].bos = signedOn /\ (bos # 0 \/ teardown = "chat")
      /\ Of(i, Nav) => conns[i].pc # "deleted" /\ nav = i
      /\ c # Nav /\ conns[i].pc \in {"run", "ended"} => rooms[c] = i
      /\ Live(i) /\ c # Nav => Coming(i) \/ (row[c] = "joined" /\ conns[i].online)
      /\ conns[i].online => c # Nav
      /\ n # <<>> => conns[i].online
      /\ Live(i) /\ conns[i].online => IF n = <<>> THEN listed[c] = inside[c] ELSE n[Len(n)] = inside[c]

RoomKept(r) ==
  /\ rooms[r] # 0 => conns[rooms[r]].cookie = r /\ conns[rooms[r]].pc \in {"run", "ended"}
  /\ row[r] = "joined" => \E i \in DOMAIN conns : Of(i, r)
  /\ listed[r] => \E i \in DOMAIN conns : Of(i, r) /\ conns[i].online

OneEach == \A i, j \in DOMAIN conns : \A r \in Rooms : Of(i, r) /\ Of(j, r) => i = j

Kept ==
  /\ SessionKept /\ JoinKept /\ OneEach
  /\ \A i \in DOMAIN conns : ConnKept(i)
  /\ \A r \in Rooms : RoomKept(r)

LEMMA KeptInit == Init => Kept
<1> SUFFICES ASSUME Init PROVE Kept
  OBVIOUS
<1>1. DOMAIN conns = {} /\ join = None
  BY DEF Init
<1>2. SessionKept /\ JoinKept /\ OneEach
  BY <1>1 DEF Init, SessionKept, JoinKept, OneEach
<1>3. ASSUME NEW r \in Rooms PROVE RoomKept(r)
  <2>1. PICK with \in [Rooms -> {"none", "recent"}] : row = with
    BY DEF Init
  <2>2. rooms[r] = 0 /\ row[r] # "joined" /\ ~listed[r]
    BY <2>1 DEF Init
  <2>3. QED BY <2>2 DEF RoomKept
<1>4. QED BY <1>1, <1>2, <1>3 DEF Kept

\* A step of the call that gets no further than it has, or ends it before it has dialed.
LEMMA CallKept ==
  ASSUME Kept, UNCHANGED <<bos, signedOn, teardown, conns, nav, rooms, row, listed, inside>>,
         \/ join' = join
         \/ join' = None /\ \A i \in DOMAIN conns : ~Coming(i)
         \/ /\ join # None
            /\ join.pc \notin {"online", "store", "wedged"} /\ join'.pc \notin {"online", "store"}
            /\ join'.room = join.room /\ join'.bos = join.bos
            /\ join'.pc \in {"navGrant", "navDial"} => nav = 0
  PROVE  Kept'
<1>1. SessionKept'
  BY DEF Kept, SessionKept
<1>2. JoinKept'
  BY DEF Kept, JoinKept, Live, Open, Of
<1>3. ASSUME NEW i \in DOMAIN conns PROVE ConnKept(i)'
  <2>1. Coming(i) => Coming(i)'
    BY DEF Coming
  <2>2. QED BY <2>1 DEF Kept, ConnKept, Live, Open, Of
<1>4. ASSUME NEW r \in Rooms PROVE RoomKept(r)'
  BY DEF Kept, RoomKept, Of
<1>5. OneEach'
  BY DEF Kept, OneEach, Of
<1>6. QED BY <1>1, <1>2, <1>3, <1>4, <1>5 DEF Kept

LEMMA AskKept ==
  ASSUME Answers, Kept,
         \/ EnsureChatNav \/ CreateRoom \/ RequestChat \/ DialFails \/ AwaitTimesOut
         \/ Await("navGrant", "service", "navDial") \/ Await("found", "nav", "ask")
         \/ Await("grant", "service", "dial")
  PROVE  Kept'
<1>a. UNCHANGED <<bos, signedOn, teardown, conns, nav, rooms, row, listed, inside>>
  BY DEF EnsureChatNav, CreateRoom, RequestChat, DialFails, AwaitTimesOut, Await, there
<1>b. join \in Join /\ join # None
  BY DEF EnsureChatNav, CreateRoom, RequestChat, DialFails, AwaitTimesOut, Await, At,
         Answers, Types, TypeOK
<1>c. /\ join.pc \notin {"online", "store", "wedged"}
      /\ join.pc \in {"navGrant", "navDial"} => nav = 0
  BY <1>b DEF EnsureChatNav, CreateRoom, RequestChat, DialFails, AwaitTimesOut, Await, At, Kept, JoinKept
<1>1. CASE \E r, ok : Return(r, ok)
  <2>1. join' = None /\ \A i \in DOMAIN conns : ~Coming(i)
    BY <1>1, <1>c DEF Return, Coming
  <2>2. QED BY <1>a, <2>1, CallKept
<1>2. ASSUME NEW pc \in {"look", "navGrant", "navDial", "found", "ask", "grant", "dial", "wedged"},
             NEW j, join' = j, j.pc = pc, j.room = join.room, j.bos = join.bos,
             pc \in {"navGrant", "navDial"} => nav = 0
      PROVE  Kept'
  BY <1>a, <1>b, <1>c, <1>2, CallKept
<1>3. CASE EnsureChatNav
  <2>1. CASE nav # 0
    <3> DEFINE j == [join EXCEPT !.pc = "look", !.nav = nav]
    <3>1. join' = j BY <1>3, <2>1 DEF EnsureChatNav
    <3>2. j.pc = "look" /\ j.room = join.room /\ j.bos = join.bos BY <1>b DEF Join
    <3> HIDE DEF j
    <3>3. QED BY <3>1, <3>2, <1>2
  <2>2. CASE nav = 0 /\ bos = join.bos
    <3> DEFINE j == [join EXCEPT !.pc = "navGrant"]
    <3>1. join' = j BY <1>3, <2>2 DEF EnsureChatNav, Go
    <3>2. j.pc = "navGrant" /\ j.room = join.room /\ j.bos = join.bos BY <1>b DEF Join
    <3> HIDE DEF j
    <3>3. QED BY <3>1, <3>2, <2>2, <1>2
  <2>3. CASE nav = 0 /\ bos # join.bos
    BY <1>1, <1>3, <2>3 DEF EnsureChatNav
  <2>4. QED BY <2>1, <2>2, <2>3
<1>4. CASE CreateRoom
  <2> DEFINE j == [join EXCEPT !.pc = "found"]
  <2>1. join' = j \/ Return(join.room, FALSE) BY <1>4 DEF CreateRoom, Go
  <2>2. j.pc = "found" /\ j.room = join.room /\ j.bos = join.bos BY <1>b DEF Join
  <2> HIDE DEF j
  <2>3. QED BY <2>1, <2>2, <1>1, <1>2
<1>5. CASE RequestChat
  <2> DEFINE j == [join EXCEPT !.pc = "grant", !.cookie = join.got, !.got = None]
  <2>1. join' = j \/ Return(join.room, FALSE) BY <1>5 DEF RequestChat
  <2>2. j.pc = "grant" /\ j.room = join.room /\ j.bos = join.bos BY <1>b DEF Join
  <2> HIDE DEF j
  <2>3. QED BY <2>1, <2>2, <1>1, <1>2
<1>6. CASE DialFails
  <2> DEFINE j == [join EXCEPT !.pc = "wedged"]
  <2>1. join' = j \/ Return(join.room, FALSE) BY <1>6 DEF DialFails, Go
  <2>2. j.pc = "wedged" /\ j.room = join.room /\ j.bos = join.bos BY <1>b DEF Join
  <2> HIDE DEF j
  <2>3. QED BY <2>1, <2>2, <1>1, <1>2
<1>7. CASE AwaitTimesOut
  BY <1>1, <1>7 DEF AwaitTimesOut
<1>8. ASSUME NEW pc \in {"navGrant", "found", "grant"}, NEW ch, NEW next \in {"navDial", "ask", "dial"},
             Await(pc, ch, next), pc = "navGrant" <=> next = "navDial"
      PROVE  Kept'
  <2> DEFINE j == [join EXCEPT !.pc = next, !.got = reply[ch]]
  <2>1. join' = j /\ join.pc = pc BY <1>8 DEF Await, At
  <2>2. j.pc = next /\ j.room = join.room /\ j.bos = join.bos BY <1>b DEF Join
  <2> HIDE DEF j
  <2>3. QED BY <2>1, <2>2, <1>8, <1>2, <1>c
<1>9. QED BY <1>3, <1>4, <1>5, <1>6, <1>7, <1>8

LEMMA JoinRoomKept ==
  ASSUME Undisturbed, Answers, Kept, NEW r \in Rooms, JoinRoom(r)
  PROVE  Kept'
<1>a. UNCHANGED <<bos, signedOn, teardown, conns, nav, rooms, row, listed, inside>> /\ join = None
  BY DEF JoinRoom, there
<1>b. \A i \in DOMAIN conns : ~Coming(i)
  BY <1>a DEF Coming
<1>c. \A i \in DOMAIN conns : Of(i, r) => Live(i)
  BY DEF JoinRoom, UpsetIf, Upset, Undisturbed, Of
<1>1. CASE In(r) \/ bos = 0
  BY <1>a, <1>b, <1>1, CallKept DEF JoinRoom, Return
<1>2. CASE ~In(r) /\ bos # 0
  <2> DEFINE j == [pc |-> "start", room |-> r, bos |-> bos, nav |-> 0, conn |-> 0,
                   got |-> None, cookie |-> None]
  <2>1. join' = j
    BY <1>2 DEF JoinRoom
  <2>2. j.pc = "start" /\ j.room = r /\ j.bos = bos
    OBVIOUS
  <2> HIDE DEF j
  <2>3. \A i \in DOMAIN conns : ~Of(i, r)
    <3> SUFFICES ASSUME NEW i \in DOMAIN conns, Of(i, r) PROVE FALSE
      OBVIOUS
    <3>1. Live(i) /\ conns[i].cookie = r /\ r # Nav
      BY <1>c, JoinAssumption DEF Of
    <3>2. rooms[r] = i
      BY <3>1 DEF Kept, ConnKept, Live, Open
    <3>3. i # 0
      BY ConnIs DEF Answers, Types
    <3>4. QED BY <1>2, <3>2, <3>3 DEF In
  <2>4. row[r] # "joined"
    BY <2>3 DEF Kept, RoomKept
  <2>5. SessionKept' /\ OneEach'
    BY <1>a, <1>2, <2>1, <2>2 DEF Kept, SessionKept, OneEach, Of
  <2>6. JoinKept'
    BY <1>a, <2>1, <2>2, <2>3, <2>4 DEF JoinKept, Of
  <2>7. ASSUME NEW i \in DOMAIN conns PROVE ConnKept(i)'
    BY <1>a, <1>b DEF Kept, ConnKept, Live, Open, Of
  <2>8. ASSUME NEW k \in Rooms PROVE RoomKept(k)'
    BY <1>a DEF Kept, RoomKept, Of
  <2>9. QED BY <1>a, <2>5, <2>6, <2>7, <2>8 DEF Kept
<1>3. QED BY <1>1, <1>2

LEMMA EntryConn ==
  ASSUME TypeOK, NEW r \in Rooms, rooms[r] # 0
  PROVE  rooms[r] \in DOMAIN conns
  BY ConnIs DEF TypeOK

\* A room whose connections are still there and are not forgotten by a step.
LEMMA RoomStays ==
  ASSUME Answers, Kept, NEW r \in Rooms, DOMAIN conns \subseteq DOMAIN conns',
         \A k \in DOMAIN conns : Of(k, r) => /\ Of(k, r)'
                                             /\ conns[k].online => conns'[k].online,
         \/ rooms'[r] = 0
         \/ rooms'[r] = rooms[r] /\ \A k \in DOMAIN conns :
              k = rooms[r] => conns'[k].cookie = conns[k].cookie /\ conns'[k].pc \in {conns[k].pc, "ended"},
         row'[r] = "joined" => row[r] = "joined", listed'[r] => listed[r]
  PROVE  RoomKept(r)'
<1>1. RoomKept(r)
  BY DEF Kept
<1>2. rooms'[r] # 0 => /\ conns'[rooms'[r]].cookie = r
                        /\ conns'[rooms'[r]].pc \in {"run", "ended"}
  BY <1>1, EntryConn DEF RoomKept, Answers, Types
<1>3. row'[r] = "joined" => \E k \in DOMAIN conns' : Of(k, r)'
  BY <1>1 DEF RoomKept
<1>4. listed'[r] => \E k \in DOMAIN conns' : Of(k, r)' /\ conns'[k].online
  BY <1>1 DEF RoomKept
<1>5. QED BY <1>2, <1>3, <1>4 DEF RoomKept, Of

\* A connection that is not being joined ends, or is cancelled.
LEMMA DeadKept ==
  ASSUME Answers, Kept, NEW i \in DOMAIN conns, ~Coming(i), NEW pc, NEW cancelled,
         Became(i, pc, cancelled, conns[i].online, conns[i].news),
         \/ pc = "ended" /\ conns[i].pc = "run"
         \/ pc = conns[i].pc /\ cancelled = TRUE,
         UNCHANGED <<bos, signedOn, teardown, join, nav, rooms, row, listed, inside>>
  PROVE  Kept'
<1>a. DOMAIN conns' = DOMAIN conns
  BY DEF Became
<1>b. \A k \in DOMAIN conns :
        /\ conns'[k].cookie = conns[k].cookie /\ conns'[k].bos = conns[k].bos
        /\ conns'[k].online = conns[k].online /\ conns'[k].news = conns[k].news
        /\ conns'[k].pc = conns[k].pc \/ (conns'[k].pc = "ended" /\ conns[k].pc = "run")
  BY DEF Became
<1>c. \A k \in DOMAIN conns : k # i => conns'[k] = conns[k]
  BY DEF Became
<1>d. \A k \in DOMAIN conns : Live(k)' => Live(k)
  BY <1>c DEF Live, Open, Became
<1>e. \A k \in DOMAIN conns : \A r : Of(k, r)' = Of(k, r)
  BY <1>b DEF Of
<1>1. SessionKept' /\ OneEach'
  BY <1>a, <1>e DEF Kept, SessionKept, OneEach
<1>2. JoinKept'
  <2>1. join # None /\ join.pc \in {"online", "store"} => join.conn # i
    BY DEF Coming
  <2>2. join # None /\ join.pc \in {"online", "store"} => conns'[join.conn] = conns[join.conn]
    BY <1>c, <2>1 DEF Answers, Types, Answered
  <2>3. join' = join /\ nav' = nav /\ row' = row /\ JoinKept
    BY DEF Kept
  <2>4. join # None /\ join.pc \in {"online", "store"}
        => /\ Live(join.conn)' /\ conns'[join.conn].cookie = join.room
           /\ (join.pc = "store") = conns'[join.conn].online
    BY <2>2, <2>3 DEF JoinKept, Live, Open
  <2>5. join # None /\ join.pc \notin {"online", "store"} => \A k \in DOMAIN conns' : ~Of(k, join.room)'
    BY <1>a, <1>e, <2>3 DEF JoinKept
  <2>6. QED BY <2>3, <2>4, <2>5 DEF JoinKept, Live, Open, Of
<1>3. ASSUME NEW k \in DOMAIN conns PROVE ConnKept(k)'
  BY <1>b, <1>d, <1>e DEF Kept, ConnKept, Coming
<1>4. ASSUME NEW r \in Rooms PROVE RoomKept(r)'
  BY <1>a, <1>b, <1>e, RoomStays
<1>5. QED BY <1>a, <1>1, <1>2, <1>3, <1>4 DEF Kept

LEMMA ClosedKept ==
  ASSUME Undisturbed, Answers, Kept, NEW i \in DOMAIN conns, ServerCloses(i) \/ ConnEnds(i)
  PROVE  Kept'
<1>1. /\ UNCHANGED <<bos, signedOn, teardown, join, nav, rooms, row, listed, inside>>
      /\ Became(i, "ended", conns[i].cancelled, conns[i].online, conns[i].news) /\ conns[i].pc = "run"
  BY ConnBecame DEF ServerCloses, ConnEnds, Answers, Types, call, there, Open
<1>2. CASE ServerCloses(i)
  <2>1. ~(join # None /\ i \in {join.nav, join.conn})
    BY <1>2 DEF ServerCloses, Upset, Undisturbed
  <2>2. QED BY <1>1, <2>1, DeadKept DEF Coming
<1>3. CASE ConnEnds(i)
  <2>1. ~Coming(i)
    BY <1>3 DEF ConnEnds, Coming, Kept, JoinKept, Live
  <2>2. QED BY <1>1, <2>1, DeadKept
<1>4. QED BY <1>2, <1>3

LEMMA LeaveKept ==
  ASSUME Answers, Kept, NEW r \in Rooms, LeaveRoom(r)
  PROVE  Kept'
<1>1. /\ UNCHANGED <<bos, signedOn, teardown, join, nav, rooms, row, listed, inside>>
      /\ row[r] = "joined" /\ rooms[r] # 0
  BY DEF LeaveRoom, call, there
<1>2. /\ rooms[r] \in DOMAIN conns
      /\ Became(rooms[r], conns[rooms[r]].pc, TRUE, conns[rooms[r]].online, conns[rooms[r]].news)
  BY LeaveBecame DEF Answers, Types
<1>3. ~Coming(rooms[r])
  BY <1>1 DEF Coming, Kept, JoinKept, RoomKept
<1>4. QED BY <1>1, <1>2, <1>3, DeadKept

\* The join that is dialed has a live connection of its own.
LEMMA ComingIs ==
  ASSUME Answers, Kept, join # None, join.pc \in {"online", "store"}
  PROVE  /\ join.conn \in DOMAIN conns /\ Live(join.conn) /\ conns[join.conn].cookie = join.room
         /\ join.room \in Rooms /\ rooms[join.room] = join.conn /\ join.cookie = join.room
         /\ (join.pc = "store") = conns[join.conn].online
<1>1. join.conn \in DOMAIN conns /\ join.room \in Rooms
  BY DEF Answers, Types, TypeOK, Answered, Join
<1>2. /\ Live(join.conn) /\ conns[join.conn].cookie = join.room
      /\ (join.pc = "store") = conns[join.conn].online
  BY DEF Kept, JoinKept
<1>3. join.room # Nav
  BY <1>1, JoinAssumption
<1>4. rooms[join.room] = join.conn
  BY <1>1, <1>2, <1>3 DEF Kept, ConnKept, Live, Open
<1>5. join.cookie = join.room
  BY DEF Answers, Types, Answered, Replied
<1>6. QED BY <1>1, <1>2, <1>4, <1>5

LEMMA EntryGoesKept ==
  ASSUME Answers, Kept, NEW i \in DOMAIN conns, EntryGoes(i)
  PROVE  Kept'
<1> DEFINE c == conns[i].cookie
<1>a. /\ UNCHANGED <<bos, signedOn, teardown, join, row, listed, inside>>
      /\ conns[i].pc = "ended"
      /\ IF c = Nav THEN nav' = 0 /\ rooms' = rooms ELSE nav' = nav /\ rooms' = [rooms EXCEPT ![c] = 0]
  BY DEF EntryGoes, call, there
<1>b. Became(i, IF c = Nav THEN "done" ELSE "deleted", conns[i].cancelled, conns[i].online, conns[i].news)
  BY ConnBecame DEF Answers, Types
<1>c. DOMAIN conns' = DOMAIN conns /\ \A k \in DOMAIN conns : k # i => conns'[k] = conns[k]
  BY <1>b DEF Became
<1>d. /\ conns'[i].cookie = c /\ conns'[i].online = conns[i].online /\ conns'[i].news = conns[i].news
      /\ conns'[i].pc = IF c = Nav THEN "done" ELSE "deleted"
  BY <1>b DEF Became
<1>e. rooms \in [Rooms -> 0..Len(conns)] /\ c \in Rooms \cup {Nav} /\ i # 0
  BY ConnIs DEF Answers, Types, TypeOK, Conn
<1>f. \A r \in Rooms : \A k \in DOMAIN conns : Of(k, r)' = Of(k, r)
  BY <1>a, <1>c, <1>d, JoinAssumption DEF Of
<1>g. ConnKept(i)
  BY DEF Kept
<1>h. ~Live(i)' /\ ~Live(i)
  BY <1>a, <1>d DEF Live, Open
<1>1. SessionKept' /\ OneEach'
  BY <1>a, <1>c, <1>f DEF Kept, SessionKept, OneEach
<1>2. JoinKept'
  <2>1. join # None /\ join.pc \in {"online", "store"} => conns'[join.conn] = conns[join.conn]
    BY <1>c, <1>h, ComingIs
  <2>2. join # None => join.room \in Rooms
    BY DEF Answers, Types, TypeOK, Join
  <2>3. join # None /\ join.pc \in {"online", "store"}
        => /\ Live(join.conn)' /\ conns'[join.conn].cookie = join.room
           /\ (join.pc = "store") = conns'[join.conn].online
    BY <1>a, <2>1, ComingIs DEF Live, Open
  <2>4. join # None /\ join.pc \notin {"online", "store"} => \A k \in DOMAIN conns' : ~Of(k, join.room)'
    BY <1>a, <1>c, <1>f, <2>2 DEF Kept, JoinKept
  <2>5. join # None /\ join.pc \in {"navGrant", "navDial"} => nav' = 0
    BY <1>a DEF Kept, JoinKept
  <2>6. join # None /\ join.pc # "wedged" => row[join.room] # "joined"
    BY DEF Kept, JoinKept
  <2>7. QED BY <1>a, <2>3, <2>4, <2>5, <2>6 DEF JoinKept, Live, Open, Of
<1>3. ASSUME NEW k \in DOMAIN conns PROVE ConnKept(k)'
  <2>1. CASE k = i
    BY <1>a, <1>d, <1>g, <1>h, <2>1 DEF ConnKept, Of
  <2>2. CASE k # i
    <3>1. conns'[k] = conns[k] /\ ConnKept(k) /\ Live(k)' = Live(k) /\ Coming(k)' = Coming(k)
      BY <1>a, <1>c, <2>2 DEF Kept, Live, Open, Coming
    <3>2. Of(k, Nav)' = Of(k, Nav)
      BY <3>1 DEF Of
    <3>3. Of(k, Nav) => nav' = k
      BY <1>a, <1>g, <2>2, <3>1 DEF ConnKept, Of
    <3>4. conns[k].cookie # Nav /\ conns[k].pc \in {"run", "ended"} => rooms'[conns[k].cookie] = k
      <4> DEFINE d == conns[k].cookie
      <4> SUFFICES ASSUME d # Nav, conns[k].pc \in {"run", "ended"} PROVE rooms'[d] = k
        OBVIOUS
      <4>1. d \in Rooms /\ rooms[d] = k
        BY <3>1, ConnIs DEF ConnKept, Answers, Types, Conn
      <4>2. d # c
        BY <1>a, <1>g, <2>2, <4>1 DEF ConnKept
      <4> HIDE DEF d, c
      <4>3. QED BY <1>a, <1>e, <4>1, <4>2
    <3>5. QED BY <1>a, <3>1, <3>2, <3>3, <3>4 DEF ConnKept
  <2>3. QED BY <2>1, <2>2
<1>4. ASSUME NEW r \in Rooms PROVE RoomKept(r)'
  <2>1. rooms'[r] = 0 \/ (rooms'[r] = rooms[r] /\ r # c)
    BY <1>a, <1>e, JoinAssumption
  <2>2. CASE rooms'[r] = 0
    BY <1>a, <1>c, <1>d, <1>f, <2>2, RoomStays
  <2>3. CASE rooms'[r] # 0
    <3>1. rooms'[r] = rooms[r] /\ rooms[r] # i
      BY <2>1, <2>3, EntryConn DEF Kept, RoomKept, Answers, Types
    <3>2. \A k \in DOMAIN conns :
              k = rooms[r] => conns'[k].cookie = conns[k].cookie /\ conns'[k].pc \in {conns[k].pc, "ended"}
      BY <1>c, <3>1
    <3>3. QED BY <1>a, <1>c, <1>d, <1>f, <3>1, <3>2, RoomStays
  <2>4. QED BY <2>2, <2>3
<1>5. QED BY <1>c, <1>1, <1>2, <1>3, <1>4 DEF Kept

LEMMA MarkLeftKept ==
  ASSUME Answers, Kept, NEW i \in DOMAIN conns, MarkLeft(i)
  PROVE  Kept'
<1> DEFINE c == conns[i].cookie
<1>a. /\ UNCHANGED <<bos, signedOn, teardown, join, nav, rooms, inside>>
      /\ conns[i].pc = "deleted"
      /\ row' = [row EXCEPT ![c] = "recent"] /\ listed' = [listed EXCEPT ![c] = FALSE]
  BY DEF MarkLeft, call, there
<1>b. Became(i, "done", conns[i].cancelled, conns[i].online, conns[i].news)
  BY ConnBecame DEF Answers, Types
<1>c. DOMAIN conns' = DOMAIN conns /\ \A k \in DOMAIN conns : k # i => conns'[k] = conns[k]
  BY <1>b DEF Became
<1>d. /\ conns'[i].cookie = c /\ conns'[i].online = conns[i].online /\ conns'[i].news = conns[i].news
      /\ conns'[i].pc = "done"
  BY <1>b DEF Became
<1>g. ConnKept(i)
  BY DEF Kept
<1>e. /\ row \in [Rooms -> {"none", "recent", "joined"}] /\ listed \in [Rooms -> BOOLEAN]
      /\ c \in Rooms
  BY <1>a, <1>g, ConnIs DEF Answers, Types, TypeOK, Conn, ConnKept, Of
<1>f. \A r \in Rooms : \A k \in DOMAIN conns : Of(k, r)' => Of(k, r)
  BY <1>c, <1>d DEF Of
<1>h. ~Live(i)' /\ ~Live(i)
  BY <1>a, <1>d DEF Live, Open
<1>i. \A k \in DOMAIN conns : k # i /\ conns[k].pc # "done" => conns[k].cookie # c
  BY <1>a, <1>e DEF Kept, OneEach, Of
<1> HIDE DEF c
<1>1. SessionKept' /\ OneEach'
  BY <1>a, <1>c, <1>f DEF Kept, SessionKept, OneEach
<1>2. JoinKept'
  <2>1. join # None /\ join.pc \in {"online", "store"} => conns'[join.conn] = conns[join.conn]
    BY <1>c, <1>h, ComingIs
  <2>2. join # None => join.room \in Rooms
    BY DEF Answers, Types, TypeOK, Join
  <2>3. join # None /\ join.pc \in {"online", "store"}
        => /\ Live(join.conn)' /\ conns'[join.conn].cookie = join.room
           /\ (join.pc = "store") = conns'[join.conn].online
    BY <1>a, <2>1, ComingIs DEF Live, Open
  <2>4. join # None /\ join.pc \notin {"online", "store"} => \A k \in DOMAIN conns' : ~Of(k, join.room)'
    BY <1>a, <1>c, <1>f, <2>2 DEF Kept, JoinKept
  <2>5. join # None /\ join.pc \in {"navGrant", "navDial"} => nav' = 0
    BY <1>a DEF Kept, JoinKept
  <2>6. join # None /\ join.pc # "wedged" => row'[join.room] # "joined"
    BY <1>a, <1>e, <2>2 DEF Kept, JoinKept
  <2>7. QED BY <1>a, <2>3, <2>4, <2>5, <2>6 DEF JoinKept, Live, Open, Of
<1>3. ASSUME NEW k \in DOMAIN conns PROVE ConnKept(k)'
  <2>1. CASE k = i
    BY <1>a, <1>d, <1>g, <1>h, <2>1 DEF ConnKept, Of, c
  <2>2. CASE k # i
    <3>1. conns'[k] = conns[k] /\ ConnKept(k) /\ Live(k)' = Live(k) /\ Coming(k)' = Coming(k)
      BY <1>a, <1>c, <2>2 DEF Kept, Live, Open, Coming
    <3>2. Of(k, Nav)' = Of(k, Nav)
      BY <3>1 DEF Of
    <3>3. Live(k) => conns[k].cookie # c
      BY <1>i, <2>2 DEF Live, Open
    <3>4. conns[k].cookie # c =>
            row'[conns[k].cookie] = row[conns[k].cookie] /\ listed'[conns[k].cookie] = listed[conns[k].cookie]
      <4> DEFINE d == conns[k].cookie
      <4>1. d \in Rooms \cup {Nav}
        BY ConnIs DEF Answers, Types, Conn
      <4> HIDE DEF d
      <4>2. d # c => row'[d] = row[d] /\ listed'[d] = listed[d]
        BY <1>a, <1>e, <4>1
      <4>3. QED BY <4>2 DEF d
    <3>5. QED BY <1>a, <3>1, <3>2, <3>3, <3>4 DEF ConnKept
  <2>3. QED BY <2>1, <2>2
<1>4. ASSUME NEW r \in Rooms PROVE RoomKept(r)'
  <2>1. CASE r = c
    <3>1. ~listed'[r] /\ row'[r] # "joined"
      BY <1>a, <1>e, <2>1
    <3>2. rooms[r] # 0 => conns[rooms[r]].cookie = r /\ conns[rooms[r]].pc \in {"run", "ended"}
                          /\ rooms[r] \in DOMAIN conns
      BY EntryConn DEF Kept, RoomKept, Answers, Types
    <3>3. rooms[r] # 0 => conns'[rooms[r]] = conns[rooms[r]]
      BY <1>a, <1>c, <3>2
    <3>4. QED BY <1>a, <3>1, <3>2, <3>3 DEF RoomKept
  <2>2. CASE r # c
    <3>1. row'[r] = row[r] /\ listed'[r] = listed[r]
      BY <1>a, <1>e, <2>2
    <3>2. \A k \in DOMAIN conns : Of(k, r) => conns'[k] = conns[k]
      BY <1>c, <2>2 DEF Of, c
    <3>3. \A k \in DOMAIN conns : Of(k, r) => Of(k, r)'
      BY <3>2 DEF Of
    <3>4. rooms[r] # 0 => rooms[r] # i
      BY <1>a DEF Kept, RoomKept
    <3>5. rooms[r] = 0 \/ \A k \in DOMAIN conns : k = rooms[r] => conns'[k] = conns[k]
      BY <1>c, <3>4
    <3>6. QED BY <1>a, <1>c, <3>1, <3>2, <3>3, <3>5, RoomStays
  <2>3. QED BY <2>1, <2>2
<1>5. QED BY <1>c, <1>1, <1>2, <1>3, <1>4 DEF Kept

\* What was last pushed is what is read last.
LEMMA NewsRead ==
  ASSUME NEW n \in Seq(BOOLEAN), n # <<>>
  PROVE  IF Tail(n) = <<>> THEN Head(n) = n[Len(n)] ELSE Tail(n)[Len(Tail(n))] = n[Len(n)]
<1>1. /\ Len(n) \in Nat /\ Len(n) # 0 /\ Tail(n) \in Seq(BOOLEAN) /\ Len(Tail(n)) = Len(n) - 1
      /\ Head(n) = n[1] /\ \A k \in 1..Len(Tail(n)) : Tail(n)[k] = n[k + 1]
  BY HeadTailProperties, EmptySeq
<1>2. Tail(n) = <<>> <=> Len(Tail(n)) = 0
  BY <1>1, EmptySeq
<1>3. QED BY <1>1, <1>2

LEMMA HandleChatKept ==
  ASSUME Answers, Kept, NEW i \in DOMAIN conns, HandleChatSNAC(i)
  PROVE  Kept'
<1> DEFINE c == conns[i].cookie
           n == conns[i].news
<1>a. /\ UNCHANGED <<bos, signedOn, teardown, join, nav, rooms, inside>>
      /\ conns[i].pc = "run" /\ n # <<>>
      /\ IF Head(n) THEN RoomUsersJoined(c) ELSE RoomUsersLeft(c)
  BY DEF HandleChatSNAC, call, there, Open
<1>b. Became(i, conns[i].pc, conns[i].cancelled, conns[i].online, Tail(n))
  BY ConnBecame DEF Answers, Types
<1>c. DOMAIN conns' = DOMAIN conns /\ \A k \in DOMAIN conns : k # i => conns'[k] = conns[k]
  BY <1>b DEF Became
<1>d. \A k \in DOMAIN conns :
        /\ conns'[k].cookie = conns[k].cookie /\ conns'[k].bos = conns[k].bos
        /\ conns'[k].online = conns[k].online /\ conns'[k].pc = conns[k].pc
        /\ conns'[k].cancelled = conns[k].cancelled
  BY <1>b DEF Became
<1>e. ConnKept(i) /\ n \in Seq(BOOLEAN)
  BY ConnIs DEF Kept, Answers, Types, Conn
<1>f. /\ row \in [Rooms -> {"none", "recent", "joined"}] /\ listed \in [Rooms -> BOOLEAN]
      /\ c \in Rooms /\ conns[i].online
  BY <1>a, <1>e, ConnIs DEF Answers, Types, TypeOK, Conn, ConnKept
<1>g. /\ \A k \in DOMAIN conns : \A r : Of(k, r)' = Of(k, r)
      /\ \A k \in DOMAIN conns : Live(k)' = Live(k) /\ Coming(k)' = Coming(k)
  BY <1>a, <1>d DEF Of, Live, Open, Coming
<1>h. Head(n) \in BOOLEAN
  BY <1>a, <1>e, HeadTailProperties
<1>i. \A k \in DOMAIN conns : k # i /\ conns[k].pc # "done" => conns[k].cookie # c
  BY <1>a, <1>f DEF Kept, OneEach, Of
<1>j. conns'[i].news = Tail(n)
  BY <1>b DEF Became
<1>k. /\ listed'[c] = Head(n)
      /\ \A r \in Rooms : r # c => listed'[r] = listed[r] /\ row'[r] = row[r]
      /\ \A r \in Rooms : row'[r] = "joined" <=> row[r] = "joined"
  <2> HIDE DEF c, n
  <2>1. CASE Head(n)
    BY <1>a, <1>f, <1>h, <2>1 DEF RoomUsersJoined
  <2>2. CASE ~Head(n)
    BY <1>a, <1>f, <1>h, <2>2 DEF RoomUsersLeft
  <2>3. QED BY <2>1, <2>2
<1>1. SessionKept' /\ OneEach'
  BY <1>a, <1>c, <1>g DEF Kept, SessionKept, OneEach
<1>2. JoinKept'
  <2>2. join # None => join.room \in Rooms
    BY DEF Answers, Types, TypeOK, Join
  <2>3. join # None /\ join.pc \in {"online", "store"}
        => /\ Live(join.conn)' /\ conns'[join.conn].cookie = join.room
           /\ (join.pc = "store") = conns'[join.conn].online
    BY <1>a, <1>d, ComingIs DEF Live, Open
  <2>4. join # None /\ join.pc \notin {"online", "store"} => \A k \in DOMAIN conns' : ~Of(k, join.room)'
    BY <1>a, <1>c, <1>g, <2>2 DEF Kept, JoinKept
  <2>5. join # None /\ join.pc \in {"navGrant", "navDial"} => nav' = 0
    BY <1>a DEF Kept, JoinKept
  <2>6. join # None /\ join.pc # "wedged" => row'[join.room] # "joined"
    BY <1>a, <1>k, <2>2 DEF Kept, JoinKept
  <2>7. QED BY <1>a, <2>3, <2>4, <2>5, <2>6 DEF JoinKept, Live, Open, Of
<1>3. ASSUME NEW k \in DOMAIN conns PROVE ConnKept(k)'
  <2>1. CASE k = i
    <3>1. row'[c] = "joined" <=> row[c] = "joined"
      BY <1>f, <1>k
    <3>2. conns'[k].news # <<>> \/ listed'[c] = n[Len(n)]
      BY <1>a, <1>e, <1>j, <1>k, <2>1, NewsRead
    <3>3. conns'[k].news # <<>> => conns'[k].news[Len(conns'[k].news)] = n[Len(n)]
      BY <1>a, <1>e, <1>j, <2>1, NewsRead
    <3>4. Live(i) => n[Len(n)] = inside[c]
      BY <1>a, <1>e, <1>f DEF ConnKept
    <3>5. ConnKept(i) /\ Live(i)' = Live(i) /\ Coming(i)' = Coming(i) /\ Of(i, Nav)' = Of(i, Nav)
      BY <1>e, <1>g
    <3>6. Live(i) => conns'[i].bos = signedOn /\ (bos # 0 \/ teardown = "chat")
      BY <1>d, <3>5 DEF ConnKept
    <3>7. c # Nav /\ rooms[c] = i
      BY <1>a, <1>f, <3>5 DEF ConnKept
    <3>8. Live(i) => Coming(i) \/ row'[c] = "joined"
      BY <3>1, <3>5, <3>7 DEF ConnKept
    <3>9. ~Of(i, Nav)
      BY <3>7 DEF Of
    <3> HIDE DEF c, n
    <3>10. conns'[i].cookie = c /\ conns'[i].online
      BY <1>d, <1>f DEF c
    <3>11. QED BY <1>a, <2>1, <3>2, <3>3, <3>4, <3>5, <3>6, <3>7, <3>8, <3>9, <3>10 DEF ConnKept
  <2>2. CASE k # i
    <3>1. conns'[k] = conns[k] /\ ConnKept(k) /\ Live(k)' = Live(k) /\ Coming(k)' = Coming(k)
      BY <1>c, <1>g, <2>2 DEF Kept
    <3>2. Of(k, Nav)' = Of(k, Nav)
      BY <1>g
    <3>3. Live(k) => conns[k].cookie # c
      BY <1>i, <2>2 DEF Live, Open
    <3>4. conns[k].cookie \in Rooms \cup {Nav}
      BY ConnIs DEF Answers, Types, Conn
    <3>5. conns[k].cookie \in Rooms /\ conns[k].cookie # c =>
            row'[conns[k].cookie] = row[conns[k].cookie] /\ listed'[conns[k].cookie] = listed[conns[k].cookie]
      BY <1>k
    <3>6. QED BY <1>a, <3>1, <3>2, <3>3, <3>4, <3>5 DEF ConnKept
  <2>3. QED BY <2>1, <2>2
<1>4. ASSUME NEW r \in Rooms PROVE RoomKept(r)'
  <2>1. CASE r = c
    <3>1. Of(i, r)' /\ conns'[i].online
      BY <1>a, <1>d, <1>f, <2>1 DEF Of
    <3>2. rooms[r] # 0 => rooms[r] \in DOMAIN conns
      BY EntryConn DEF Answers, Types
    <3>3. RoomKept(r) BY DEF Kept
    <3>4. rooms[r] # 0 => /\ conns'[rooms[r]].cookie = r
                          /\ conns'[rooms[r]].pc \in {"run", "ended"}
      BY <1>d, <3>2, <3>3 DEF RoomKept
    <3>5. QED BY <1>a, <1>c, <3>1, <3>4 DEF RoomKept, Of
  <2>2. CASE r # c
    BY <1>a, <1>c, <1>d, <1>g, <1>k, <2>2, RoomStays
  <2>3. QED BY <2>1, <2>2
<1>5. QED BY <1>c, <1>1, <1>2, <1>3, <1>4 DEF Kept

LEMMA MovesKept ==
  ASSUME Answers, Kept, NEW p \in Rooms, Moves(p)
  PROVE  Kept'
<1>a. /\ UNCHANGED <<bos, signedOn, teardown, join, nav, rooms, row, listed>>
      /\ inside' = [inside EXCEPT ![p] = ~inside[p]] /\ inside \in [Rooms -> BOOLEAN]
  BY DEF Moves, call, Answers, Types, TypeOK
<1>b. DOMAIN conns' = DOMAIN conns
      /\ \A k \in DOMAIN conns :
           /\ conns'[k].cookie = conns[k].cookie /\ conns'[k].bos = conns[k].bos
           /\ conns'[k].online = conns[k].online /\ conns'[k].pc = conns[k].pc
           /\ conns'[k].cancelled = conns[k].cancelled
           /\ ~Hears(p, k) => conns'[k].news = conns[k].news
           /\ Hears(p, k) => conns'[k].news # <<>> /\ conns'[k].news[Len(conns'[k].news)] = inside'[p]
  BY MovedConns DEF Answers, Types
<1>g. /\ \A k \in DOMAIN conns : \A r : Of(k, r)' = Of(k, r)
      /\ \A k \in DOMAIN conns : Live(k)' = Live(k) /\ Coming(k)' = Coming(k)
  BY <1>a, <1>b DEF Of, Live, Open, Coming
<1>1. SessionKept' /\ OneEach'
  BY <1>a, <1>b, <1>g DEF Kept, SessionKept, OneEach
<1>2. JoinKept'
  <2>3. join # None /\ join.pc \in {"online", "store"}
        => /\ Live(join.conn)' /\ conns'[join.conn].cookie = join.room
           /\ (join.pc = "store") = conns'[join.conn].online
    BY <1>a, <1>b, ComingIs DEF Live, Open
  <2>4. join # None /\ join.pc \notin {"online", "store"} => \A k \in DOMAIN conns' : ~Of(k, join.room)'
    BY <1>a, <1>b, <1>g DEF Kept, JoinKept
  <2>5. join # None /\ join.pc \in {"navGrant", "navDial"} => nav' = 0
    BY <1>a DEF Kept, JoinKept
  <2>6. join # None /\ join.pc # "wedged" => row'[join.room] # "joined"
    BY <1>a DEF Kept, JoinKept
  <2>7. QED BY <1>a, <2>3, <2>4, <2>5, <2>6 DEF JoinKept, Live, Open, Of
<1>3. ASSUME NEW k \in DOMAIN conns PROVE ConnKept(k)'
  <2>1. ConnKept(k) /\ conns[k].of = conns[k].cookie /\ conns[k].cookie \in Rooms \cup {Nav}
    BY ConnIs DEF Kept, Answers, Filed, Types, Conn
  <2>2. CASE Hears(p, k)
    BY <1>a, <1>b, <1>g, <2>1, <2>2 DEF ConnKept, Hears
  <2>3. CASE ~Hears(p, k)
    <3>1. Live(k) /\ conns[k].online => conns[k].cookie # p /\ conns[k].cookie \in Rooms
      BY <2>1, <2>3 DEF Hears, Live, ConnKept
    <3>2. Live(k) /\ conns[k].online => inside'[conns[k].cookie] = inside[conns[k].cookie]
      BY <1>a, <3>1
    <3>3. QED BY <1>a, <1>b, <1>g, <2>1, <2>3, <3>2 DEF ConnKept
  <2>4. QED BY <2>2, <2>3
<1>4. ASSUME NEW r \in Rooms PROVE RoomKept(r)'
  BY <1>a, <1>b, <1>g, RoomStays
<1>5. QED BY <1>b, <1>1, <1>2, <1>3, <1>4 DEF Kept

\* Steps of the session, with no join under way and no connection left live by them.
LEMMA SessionStepKept ==
  ASSUME Answers, Kept, join = None, join' = None, SessionKept',
         UNCHANGED <<nav, rooms, inside>>, DOMAIN conns' = DOMAIN conns,
         \A k \in DOMAIN conns :
           /\ conns'[k].cookie = conns[k].cookie /\ conns'[k].pc = conns[k].pc
           /\ conns'[k].online = conns[k].online /\ conns'[k].news = conns[k].news
           /\ ~Live(k)',
         \A r \in Rooms : /\ row'[r] = "joined" => row[r] = "joined"
                          /\ listed'[r] => listed[r]
  PROVE  Kept'
<1>1. \A k \in DOMAIN conns : \A r : Of(k, r)' = Of(k, r)
  BY DEF Of
<1>2. OneEach' /\ JoinKept'
  BY <1>1 DEF Kept, OneEach, JoinKept
<1>3. ASSUME NEW k \in DOMAIN conns PROVE ConnKept(k)'
  <2>1. ConnKept(k) /\ ~Live(k)'
    BY DEF Kept
  <2>2. QED BY <1>1, <2>1 DEF ConnKept
<1>4. ASSUME NEW r \in Rooms PROVE RoomKept(r)'
  BY <1>1, RoomStays
<1>5. QED BY <1>2, <1>3, <1>4 DEF Kept

LEMMA SessionsKept ==
  ASSUME Undisturbed, Answers, Kept, BosLost \/ CloseAllChat \/ ResetStore \/ SignOn
  PROVE  Kept'
<1>a. TypeOK /\ SessionKept /\ \A i \in DOMAIN conns : ConnKept(i)
  BY DEF Answers, Types, Kept
<1>1. CASE BosLost
  <2>1. join = None
    BY <1>1 DEF BosLost, Upset, Undisturbed
  <2>2. /\ UNCHANGED <<signedOn, join, conns, nav, rooms, row, listed, inside>>
        /\ bos' = 0 /\ teardown' = "chat" /\ bos # 0
    BY <1>1 DEF BosLost, call, there
  <2>3. SessionKept' /\ JoinKept' /\ OneEach'
    BY <2>1, <2>2 DEF SessionKept, JoinKept, OneEach, Of, Kept
  <2>4. ASSUME NEW i \in DOMAIN conns PROVE ConnKept(i)'
    BY <1>a, <2>2 DEF ConnKept, Live, Open, Of, Coming
  <2>5. ASSUME NEW r \in Rooms PROVE RoomKept(r)'
    BY <2>2 DEF Kept, RoomKept, Of
  <2>6. QED BY <2>2, <2>3, <2>4, <2>5 DEF Kept
<1>2. CASE CloseAllChat
  <2>1. /\ UNCHANGED <<bos, signedOn, join, nav, rooms, row, listed, inside>>
        /\ teardown = "chat" /\ teardown' = "reset"
    BY <1>2 DEF CloseAllChat, call, there
  <2>2. bos = 0 /\ join = None /\ SessionKept'
    BY <1>a, <2>1 DEF SessionKept
  <2>3. /\ DOMAIN conns' = DOMAIN conns
        /\ \A k \in DOMAIN conns :
             /\ conns'[k].cookie = conns[k].cookie /\ conns'[k].pc = conns[k].pc
             /\ conns'[k].online = conns[k].online /\ conns'[k].news = conns[k].news
             /\ conns'[k].cancelled = (conns[k].cancelled \/ Closes(k))
    BY <1>2, <1>a, ClosedConns
  <2>4. ASSUME NEW k \in DOMAIN conns, conns[k].pc = "run" PROVE Closes(k)
    <3>1. CASE conns[k].cookie = Nav
      BY <1>a, <2>4, <3>1 DEF ConnKept, Of, Closes
    <3>2. CASE conns[k].cookie # Nav
      <4>1. conns[k].cookie \in Rooms
        BY <1>a, <3>2, ConnIs DEF Conn
      <4>2. rooms[conns[k].cookie] = k
        BY <1>a, <2>4, <3>2 DEF ConnKept
      <4>3. QED BY <4>1, <4>2 DEF Closes
    <3>3. QED BY <3>1, <3>2
  <2>5. \A k \in DOMAIN conns : ~Live(k)'
    BY <2>3, <2>4 DEF Live, Open
  <2>6. QED BY <2>1, <2>2, <2>3, <2>5, SessionStepKept
<1>3. CASE ResetStore
  <2>1. /\ UNCHANGED <<bos, signedOn, join, conns, nav, rooms, inside>>
        /\ teardown = "reset" /\ teardown' = "none"
        /\ row' = [r \in Rooms |-> "none"] /\ listed' = [r \in Rooms |-> FALSE]
    BY <1>3 DEF ResetStore, call, there
  <2>2. bos = 0 /\ join = None /\ SessionKept'
    BY <1>a, <2>1 DEF SessionKept
  <2>3. \A k \in DOMAIN conns : ~Live(k)'
    BY <1>a, <2>1, <2>2 DEF ConnKept, Live, Open
  <2>4. \A r \in Rooms : row'[r] # "joined" /\ ~listed'[r]
    BY <2>1
  <2>5. QED BY <2>1, <2>2, <2>3, <2>4, SessionStepKept
<1>4. CASE SignOn
  <2>1. /\ UNCHANGED <<join, conns, nav, rooms, inside>>
        /\ bos = 0 /\ teardown = "none" /\ teardown' = "none"
    BY <1>4 DEF SignOn, call, there, UpsetIf, Upset, Undisturbed
  <2>2. join = None /\ SessionKept'
    BY <1>a, <2>1 DEF SessionKept
  <2>3. \A k \in DOMAIN conns : ~Live(k)'
    BY <1>a, <2>1 DEF ConnKept, Live, Open
  <2>4. \A r \in Rooms : /\ row'[r] = "joined" => row[r] = "joined"
                         /\ listed'[r] => listed[r]
    <3>1. CASE UNCHANGED <<row, listed>>
      BY <3>1
    <3>2. ASSUME NEW saved \in [Rooms -> {"none", "recent"}], row' = saved,
                 listed' = [r \in Rooms |-> FALSE]
          PROVE  \A r \in Rooms : row'[r] # "joined" /\ ~listed'[r]
      BY <3>2
    <3>3. QED BY <1>4, <3>1, <3>2 DEF SignOn
  <2>5. QED BY <2>1, <2>2, <2>3, <2>4, SessionStepKept
<1>5. QED BY <1>1, <1>2, <1>3, <1>4

LEMMA DialNavKept ==
  ASSUME Answers, Kept, DialNav
  PROVE  Kept'
<1>m. PICK m : m = Len(conns')
  OBVIOUS
<1>a. /\ join # None /\ join \in Join /\ join.pc = "navDial" /\ join.got = Nav /\ join.bos = bos
      /\ Dialed(Nav) /\ nav' = m /\ nav = 0 /\ bos # 0 /\ bos = signedOn
      /\ UNCHANGED <<bos, signedOn, teardown, rooms, row, listed, inside>>
  BY <1>m DEF DialNav, At, Answers, Types, TypeOK, Replied, Kept, SessionKept, JoinKept, there
<1>b. /\ m \notin DOMAIN conns /\ DOMAIN conns' = DOMAIN conns \cup {m}
      /\ \A k \in DOMAIN conns : conns'[k] = conns[k]
      /\ conns'[m].cookie = Nav /\ conns'[m].bos = join.bos
      /\ conns'[m].pc = "run" /\ ~conns'[m].online /\ conns'[m].news = <<>>
  BY <1>m, <1>a, DialedConn DEF Answers, Types
<1> DEFINE j == [join EXCEPT !.pc = "look", !.nav = nav', !.got = None]
<1>c. join' = j
  BY DEF DialNav
<1>d. j.pc = "look" /\ j.room = join.room /\ j.bos = join.bos
  BY <1>a DEF Join
<1> HIDE DEF j
<1>e. /\ \A k \in DOMAIN conns : \A r : Of(k, r)' = Of(k, r)
      /\ \A k \in DOMAIN conns : Live(k)' = Live(k) /\ ~Coming(k)
      /\ \A r \in Rooms : ~Of(m, r)'
  BY <1>a, <1>b, JoinAssumption DEF Of, Live, Open, Coming
<1>f. join.room \in Rooms
  BY <1>a DEF Join
<1>1. SessionKept' /\ OneEach'
  BY <1>a, <1>b, <1>c, <1>d, <1>e DEF Kept, SessionKept, OneEach
<1>2. JoinKept'
  <2>1. \A k \in DOMAIN conns' : ~Of(k, join.room)'
    BY <1>a, <1>b, <1>c, <1>d, <1>e, <1>f DEF Kept, JoinKept
  <2>2. row[join.room] # "joined"
    BY <1>a DEF Kept, JoinKept
  <2>3. QED BY <1>a, <1>c, <1>d, <2>1, <2>2 DEF JoinKept, Of
<1>3. ASSUME NEW k \in DOMAIN conns' PROVE ConnKept(k)'
  <2>1. CASE k = m
    BY <1>a, <1>b, <2>1 DEF ConnKept, Of
  <2>2. CASE k # m
    <3>1. k \in DOMAIN conns /\ conns'[k] = conns[k] /\ ConnKept(k)
      BY <1>b, <2>2 DEF Kept
    <3>2. ~Of(k, Nav)
      BY <1>a, <3>1, ConnIs DEF ConnKept, Answers, Types
    <3>3. QED BY <1>a, <1>e, <3>1, <3>2 DEF ConnKept
  <2>3. QED BY <2>1, <2>2
<1>4. ASSUME NEW r \in Rooms PROVE RoomKept(r)'
  BY <1>a, <1>b, <1>e, RoomStays
<1>5. QED BY <1>1, <1>2, <1>3, <1>4 DEF Kept

LEMMA DialChatKept ==
  ASSUME Answers, Kept, DialChat
  PROVE  Kept'
<1>m. PICK m : m = Len(conns')
  OBVIOUS
<1>r. PICK q : q = join.room
  OBVIOUS
<1>a. /\ join # None /\ join \in Join /\ join.pc = "dial" /\ join.got = q /\ join.bos = bos
      /\ join.cookie = q /\ q \in Rooms /\ q # Nav
      /\ Dialed(q) /\ rooms' = [rooms EXCEPT ![q] = m] /\ bos # 0 /\ bos = signedOn
      /\ UNCHANGED <<bos, signedOn, teardown, nav, row, listed, inside>>
      /\ rooms \in [Rooms -> 0..Len(conns)]
  BY <1>m, <1>r, JoinAssumption
     DEF DialChat, At, Answers, Types, TypeOK, Answered, Replied, Kept, SessionKept, there, Join
<1>b. /\ m = Len(conns) + 1 /\ m \notin DOMAIN conns /\ DOMAIN conns' = DOMAIN conns \cup {m}
      /\ \A k \in DOMAIN conns : conns'[k] = conns[k]
      /\ conns'[m].cookie = q /\ conns'[m].bos = join.bos
      /\ conns'[m].pc = "run" /\ ~conns'[m].cancelled /\ conns'[m].online = FALSE /\ conns'[m].news = <<>>
  BY <1>m, <1>a, DialedConn DEF Answers, Types
<1> DEFINE j == [join EXCEPT !.pc = "online", !.conn = m, !.got = None]
<1>c. join' = j
  BY <1>m DEF DialChat
<1>d. /\ j.pc = "online" /\ j.room = q /\ j.bos = join.bos /\ j.conn = m
      /\ j \in Join /\ j # None
  <2>1. m \in 0..MaxConns
    <3>1. Len(conns) + 1 <= MaxConns /\ Len(conns) \in Nat
      BY <1>a, ConnIs DEF Answers, Types, Answered
    <3>2. QED BY <1>b, <3>1, JoinBounds
  <2>2. QED BY <1>a, <1>r, <2>1, NoJoinAssumption DEF Join
<1> HIDE DEF j
<1>e. /\ \A k \in DOMAIN conns : \A r : Of(k, r)' = Of(k, r)
      /\ \A k \in DOMAIN conns : Live(k)' = Live(k) /\ ~Coming(k)
      /\ \A k \in DOMAIN conns : ~Of(k, q)
      /\ \A r \in Rooms : Of(m, r)' => r = q
  BY <1>a, <1>b, <1>r DEF Of, Live, Open, Coming, Kept, JoinKept
<1>1. SessionKept'
  BY <1>a, <1>c, <1>d DEF Kept, SessionKept
<1>2. OneEach'
  BY <1>b, <1>e DEF Kept, OneEach
<1>3. JoinKept'
  <2>1. row'[q] # "joined"
    BY <1>a, <1>r DEF Kept, JoinKept
  <2>2. join' = j /\ j.pc = "online" /\ j.room = q /\ j.conn = m
    BY <1>c, <1>d
  <2>3. QED BY <1>b, <2>1, <2>2 DEF JoinKept, Live, Open
<1>4. ASSUME NEW k \in DOMAIN conns' PROVE ConnKept(k)'
  <2>1. CASE k = m
    <3>1. Coming(k)'
      BY <1>c, <1>d, <2>1 DEF Coming
    <3>2. rooms'[q] = k
      BY <1>a, <2>1
    <3>3. QED BY <1>a, <1>b, <2>1, <3>1, <3>2 DEF ConnKept, Of
  <2>2. CASE k # m
    <3>1. k \in DOMAIN conns /\ conns'[k] = conns[k] /\ ConnKept(k)
      BY <1>b, <2>2 DEF Kept
    <3>2. conns[k].pc \in {"run", "ended"} => conns[k].cookie # q
      BY <1>e, <3>1 DEF Of
    <3>3. conns[k].cookie # q => rooms'[conns[k].cookie] = rooms[conns[k].cookie]
      BY <1>a
    <3>4. QED BY <1>a, <1>e, <3>1, <3>2, <3>3 DEF ConnKept
  <2>3. QED BY <2>1, <2>2
<1>5. ASSUME NEW r \in Rooms PROVE RoomKept(r)'
  <2>1. CASE r # q
    <3>1. rooms'[r] = rooms[r]
      BY <1>a, <2>1
    <3>2. QED BY <1>a, <1>b, <1>e, <3>1, RoomStays
  <2>2. CASE r = q
    <3>1. rooms'[r] = m /\ RoomKept(r)
      BY <1>a, <2>2 DEF Kept
    <3>2. row'[r] # "joined" /\ ~listed'[r]
      BY <1>a, <1>e, <2>2, <3>1 DEF RoomKept
    <3>3. QED BY <1>b, <2>2, <3>1, <3>2 DEF RoomKept
  <2>3. QED BY <2>1, <2>2
<1>6. QED BY <1>1, <1>2, <1>3, <1>4, <1>5 DEF Kept

LEMMA GoOnlineKept ==
  ASSUME Answers, Kept, GoOnline
  PROVE  Kept'
<1>i. PICK i : i = join.conn
  OBVIOUS
<1>r. PICK q : q = join.room
  OBVIOUS
<1>a. /\ join # None /\ join \in Join /\ join.pc = "online"
      /\ UNCHANGED <<bos, signedOn, teardown, nav, rooms, row, listed, inside>>
  BY DEF GoOnline, At, Answers, Types, TypeOK, there
<1>b. /\ i \in DOMAIN conns /\ Live(i) /\ conns[i].cookie = q /\ q \in Rooms /\ q # Nav
      /\ rooms[q] = i /\ ~conns[i].online /\ conns[i].of = q
      /\ inside[q] \in BOOLEAN /\ listed[q] \in BOOLEAN
  BY <1>a, <1>i, <1>r, ComingIs, JoinAssumption DEF Answers, Filed, Types, TypeOK
<1>c. Open(i) /\ Became(i, "run", conns[i].cancelled, TRUE, Roster(q))
  BY <1>b, <1>i, OnlineBecame DEF Answers, Live
<1> DEFINE j == [join EXCEPT !.pc = "store"]
<1>d. join' = j
  BY <1>c, <1>i DEF GoOnline, Go
<1>e. /\ j.pc = "store" /\ j.room = q /\ j.bos = join.bos /\ j.conn = i
      /\ j \in Join /\ j # None
  BY <1>a, <1>i, <1>r, NoJoinAssumption DEF Join
<1> HIDE DEF j
<1>f. /\ DOMAIN conns' = DOMAIN conns /\ \A k \in DOMAIN conns : k # i => conns'[k] = conns[k]
      /\ conns'[i].cookie = q /\ conns'[i].bos = conns[i].bos /\ conns'[i].pc = "run"
      /\ conns'[i].cancelled = conns[i].cancelled /\ conns'[i].online = TRUE
      /\ conns'[i].news = Roster(q) /\ conns[i].pc = "run"
  BY <1>b, <1>c DEF Became, Open
<1>g. /\ \A k \in DOMAIN conns : \A r : Of(k, r)' = Of(k, r)
      /\ \A k \in DOMAIN conns : Live(k)' = Live(k)
      /\ \A k \in DOMAIN conns : k # i => ~Coming(k)
      /\ \A k \in DOMAIN conns : Of(k, q) => k = i
  BY <1>b, <1>f, <1>i DEF Of, Live, Open, Coming, Kept, OneEach
<1>1. SessionKept'
  BY <1>a, <1>d, <1>e DEF Kept, SessionKept
<1>2. OneEach'
  BY <1>f, <1>g DEF Kept, OneEach
<1>3. JoinKept'
  <2>1. row'[q] # "joined"
    BY <1>a, <1>r DEF Kept, JoinKept
  <2>2. join' = j /\ j.pc = "store" /\ j.room = q /\ j.conn = i
    BY <1>d, <1>e
  <2>3. Live(i)'
    BY <1>b, <1>g
  <2>4. QED BY <1>f, <2>1, <2>2, <2>3 DEF JoinKept, Live, Open
<1>4. ASSUME NEW k \in DOMAIN conns PROVE ConnKept(k)'
  <2>1. CASE k = i
    <3>1. Coming(i)' /\ ConnKept(i)
      BY <1>b, <1>d, <1>e DEF Coming, Kept
    <3>2. ~listed[q]
      BY <1>b, <1>g DEF Kept, RoomKept
    <3>3. ~Of(i, Nav)' /\ ~Of(i, Nav)
      BY <1>b, <1>f DEF Of
    <3>4. Live(i)' => conns'[i].bos = signedOn /\ (bos # 0 \/ teardown = "chat")
      BY <1>f, <1>g, <1>b, <3>1 DEF ConnKept
    <3>5. IF Roster(q) = <<>> THEN listed[q] = inside[q] ELSE Roster(q)[Len(Roster(q))] = inside[q]
      <4>1. CASE inside[q]
        <5>1. Roster(q) = <<TRUE>> /\ inside[q] = TRUE
          BY <1>b, <4>1 DEF Roster
        <5>2. Roster(q) # <<>> /\ Roster(q)[Len(Roster(q))] = TRUE
          BY <5>1
        <5>3. QED BY <5>1, <5>2
      <4>2. CASE ~inside[q]
        BY <1>b, <3>2, <4>2 DEF Roster
      <4>3. QED BY <4>1, <4>2
    <3> DEFINE n == Roster(q)
    <3> HIDE DEF n
    <3>6. conns'[i].news = n /\ IF n = <<>> THEN listed[q] = inside[q] ELSE n[Len(n)] = inside[q]
      BY <1>f, <3>5 DEF n
    <3>7. QED BY <1>a, <1>b, <1>f, <2>1, <3>1, <3>3, <3>4, <3>6 DEF ConnKept
  <2>2. CASE k # i
    <3>1. conns'[k] = conns[k] /\ ConnKept(k) /\ Live(k)' = Live(k) /\ ~Coming(k)
      BY <1>f, <1>g, <2>2 DEF Kept
    <3>2. Of(k, Nav)' = Of(k, Nav)
      BY <1>g
    <3>3. QED BY <1>a, <3>1, <3>2 DEF ConnKept
  <2>3. QED BY <2>1, <2>2
<1>5. ASSUME NEW r \in Rooms PROVE RoomKept(r)'
  BY <1>a, <1>b, <1>f, <1>g, RoomStays
<1>6. QED BY <1>1, <1>2, <1>3, <1>4, <1>5, <1>f DEF Kept

LEMMA JoinedKept ==
  ASSUME Answers, Kept, Joined
  PROVE  Kept'
<1>i. PICK i : i = join.conn
  OBVIOUS
<1>r. PICK q : q = join.room
  OBVIOUS
<1>a. /\ join # None /\ join.pc = "store" /\ join' = None
      /\ row' = [row EXCEPT ![join.cookie] = "joined"]
      /\ UNCHANGED <<bos, signedOn, teardown, conns, nav, rooms, listed, inside>>
      /\ row \in [Rooms -> {"none", "recent", "joined"}]
  BY DEF Joined, At, Return, Answers, Types, TypeOK, there
<1>b. /\ i \in DOMAIN conns /\ Live(i) /\ conns[i].cookie = q /\ q \in Rooms
      /\ conns[i].online /\ join.cookie = q
  BY <1>a, <1>i, <1>r, ComingIs
<1>c. row'[q] = "joined" /\ \A r \in Rooms : r # q => row'[r] = row[r]
  BY <1>a, <1>b
<1>1. SessionKept' /\ JoinKept' /\ OneEach'
  BY <1>a DEF Kept, SessionKept, JoinKept, OneEach, Of
<1>2. ASSUME NEW k \in DOMAIN conns PROVE ConnKept(k)'
  <2>1. ConnKept(k) /\ conns[k].cookie \in Rooms \cup {Nav} /\ (k # i => ~Coming(k))
    BY <1>i, ConnIs DEF Kept, Answers, Types, Conn, Coming
  <2>2. conns[k].cookie \in Rooms /\ row[conns[k].cookie] = "joined" => row'[conns[k].cookie] = "joined"
    BY <1>c
  <2>3. QED BY <1>a, <1>b, <1>c, <2>1, <2>2 DEF ConnKept, Live, Open, Of
<1>3. ASSUME NEW r \in Rooms PROVE RoomKept(r)'
  <2>1. CASE r = q
    <3>1. Of(i, r)
      BY <1>b, <2>1 DEF Of, Live, Open
    <3>2. QED BY <1>a, <1>b, <3>1 DEF Kept, RoomKept, Of
  <2>2. CASE r # q
    BY <1>a, <1>c, <2>2 DEF Kept, RoomKept, Of
  <2>3. QED BY <2>1, <2>2
<1>4. QED BY <1>a, <1>1, <1>2, <1>3 DEF Kept

LEMMA KeptStep ==
  ASSUME Undisturbed, Answers, Kept, [Next]_vars
  PROVE  Kept'
<1>1. ASSUME UNCHANGED <<bos, signedOn, teardown, join, conns, nav, rooms, row, listed, inside>>
      PROVE  Kept'
  BY <1>1, CallKept
<1>2. ASSUME NEW ch \in Chans, NEW what \in Rooms \cup {Nav}, Arrives(ch, what) PROVE Kept'
  BY <1>1, <1>2 DEF Arrives, call, there
<1>3. CASE UNCHANGED vars
  BY <1>1, <1>3 DEF vars, call, there
<1>4. ASSUME NEW i \in DOMAIN conns, ServerCloses(i) \/ ConnStep(i) PROVE Kept'
  BY <1>4, ClosedKept, EntryGoesKept, MarkLeftKept, HandleChatKept DEF ConnStep
<1>5. ASSUME NEW r \in Rooms, JoinRoom(r) \/ LeaveRoom(r) \/ Moves(r) PROVE Kept'
  BY <1>5, JoinRoomKept, LeaveKept, MovesKept
<1>6. CASE JoinStep \/ DialFails
  BY <1>6, AskKept, DialNavKept, DialChatKept, GoOnlineKept, JoinedKept DEF JoinStep
<1>7. CASE BosLost \/ CloseAllChat \/ ResetStore \/ SignOn
  BY <1>7, SessionsKept
<1>8. QED BY <1>2, <1>3, <1>4, <1>5, <1>6, <1>7 DEF Next, Runs

InStep == Answers /\ Kept

LEMMA InStepInit == Init => InStep
  BY AnswersInit, KeptInit DEF InStep

LEMMA InStepStep == Undisturbed /\ InStep /\ [Next]_vars => InStep'
  BY AnswersStep, KeptStep DEF InStep, Undisturbed, NoStray

LEMMA InStepAgrees ==
  ASSUME InStep
  PROVE  RoomsAgree
<1>a. /\ TypeOK /\ OneEach /\ \A i \in DOMAIN conns : ConnKept(i)
      /\ \A r \in Rooms : RoomKept(r)
  BY DEF InStep, Answers, Types, Kept
<1>b. \A i \in DOMAIN conns : conns[i].cookie \in Rooms \cup {Nav} /\ i # 0
  BY <1>a, ConnIs DEF Conn
<1>1. OneConnectionEach
  <2> SUFFICES ASSUME NEW i \in DOMAIN conns, NEW k \in DOMAIN conns, Live(i), Live(k),
                      conns[i].cookie = conns[k].cookie
               PROVE  i = k
    BY DEF OneConnectionEach
  <2>1. CASE conns[i].cookie = Nav
    BY <1>a, <2>1 DEF ConnKept, Of, Live, Open
  <2>2. CASE conns[i].cookie # Nav
    BY <1>a, <1>b, <2>2 DEF OneEach, Of, Live, Open
  <2>3. QED BY <2>1, <2>2
<1>2. ASSUME Settled, NEW r \in Rooms
      PROVE  (row[r] = "joined") = (rooms[r] # 0) /\ listed[r] = (row[r] = "joined" /\ inside[r])
  <2>1. /\ join = None /\ teardown = "none" /\ RoomKept(r) /\ r # Nav
        /\ listed[r] \in BOOLEAN /\ inside[r] \in BOOLEAN
        /\ \A i \in DOMAIN conns : Of(i, r) => Live(i) /\ conns[i].news = <<>>
    BY <1>a, <1>2, JoinAssumption DEF Settled, Of, TypeOK
  <2>2. ASSUME NEW i \in DOMAIN conns, Of(i, r)
        PROVE  /\ row[r] = "joined" /\ rooms[r] = i /\ conns[i].online
               /\ listed[r] = inside[r]
    BY <1>a, <2>1, <2>2 DEF ConnKept, Coming, Of, Live, Open
  <2>3. rooms[r] # 0 => Of(rooms[r], r) /\ rooms[r] \in DOMAIN conns
    BY <1>a, <2>1, EntryConn DEF RoomKept, Of
  <2>4. row[r] = "joined" => rooms[r] # 0
    BY <1>b, <2>1, <2>2 DEF RoomKept
  <2>5. rooms[r] # 0 => row[r] = "joined" /\ listed[r] = inside[r]
    BY <2>2, <2>3
  <2>6. listed[r] => row[r] = "joined"
    BY <2>1, <2>2 DEF RoomKept
  <2>7. QED BY <2>1, <2>4, <2>5, <2>6
<1>3. ASSUME Settled, NEW i \in DOMAIN conns, conns[i].pc = "run" PROVE conns[i].bos = bos
  BY <1>a, <1>3 DEF Settled, ConnKept, TypeOK
<1>4. QED BY <1>1, <1>2, <1>3 DEF RoomsAgree

LEMMA ToldIsThere ==
  ASSUME Undisturbed, InStep, [Next]_vars, answer' # answer, answer' # None, answer'.ok
  PROVE  /\ rooms[answer'.room] # 0 /\ Live(rooms[answer'.room])
         /\ row'[answer'.room] = "joined"
<1>a. Answers /\ Kept /\ TypeOK
  BY DEF InStep, Answers, Types
<1>b. \A r, ok : Return(r, ok) => answer'.room = r /\ (answer'.ok <=> ok)
  BY DEF Return
<1>c. \A r : ~Return(r, FALSE)
  BY <1>b
<1>1. ASSUME NEW r \in Rooms, JoinRoom(r)
      PROVE  /\ rooms[answer'.room] # 0 /\ Live(rooms[answer'.room])
             /\ row'[answer'.room] = "joined"
  <2>1. Return(r, In(r)) /\ join = None /\ row' = row
    BY <1>1 DEF JoinRoom
  <2>2. answer'.room = r /\ rooms[r] # 0
    BY <1>b, <2>1 DEF In
  <2>3. rooms[r] \in DOMAIN conns /\ conns[rooms[r]].cookie = r /\ conns[rooms[r]].pc \in {"run", "ended"}
    BY <1>a, <2>2, EntryConn DEF Kept, RoomKept
  <2>4. Live(rooms[r])
    BY <1>1, <2>3 DEF JoinRoom, UpsetIf, Upset, Undisturbed
  <2>5. row[r] = "joined"
    BY <1>a, <2>1, <2>3, <2>4, JoinAssumption DEF Kept, ConnKept, Coming
  <2>6. QED BY <2>1, <2>2, <2>4, <2>5
<1>2. CASE Joined
  <2>1. join # None /\ join.pc = "store" /\ Return(join.room, TRUE)
        /\ row' = [row EXCEPT ![join.cookie] = "joined"]
    BY <1>2 DEF Joined, At
  <2>2. /\ join.room \in Rooms /\ rooms[join.room] = join.conn /\ join.cookie = join.room
        /\ Live(join.conn) /\ join.conn \in DOMAIN conns
    BY <1>a, <2>1, ComingIs
  <2>3. join.conn # 0 /\ row'[join.room] = "joined"
    BY <1>a, <2>1, <2>2, ConnIs DEF TypeOK
  <2>4. QED BY <1>b, <2>1, <2>2, <2>3
<1>3. CASE GoOnline
  <2>1. Open(join.conn)
    BY <1>a, <1>3, ComingIs DEF GoOnline, At, Live
  <2>2. QED BY <1>3, <2>1 DEF GoOnline
<1>4. ASSUME \/ EnsureChatNav \/ AwaitTimesOut \/ CreateRoom \/ RequestChat \/ DialFails
             \/ DialNav \/ DialChat \/ BosLost \/ CloseAllChat \/ ResetStore \/ SignOn
             \/ \E r \in Rooms : LeaveRoom(r) \/ Moves(r)
             \/ \E i \in DOMAIN conns : ServerCloses(i) \/ ConnStep(i)
             \/ \E pc, ch, next : Await(pc, ch, next)
             \/ \E ch, what : Arrives(ch, what)
             \/ UNCHANGED vars
      PROVE  answer' = answer \/ \E r : Return(r, FALSE)
  BY <1>4 DEF EnsureChatNav, AwaitTimesOut, CreateRoom, RequestChat, DialFails, DialNav, DialChat,
              BosLost, CloseAllChat, ResetStore, SignOn, LeaveRoom, Moves, ServerCloses, ConnStep,
              ConnEnds, EntryGoes, MarkLeft, HandleChatSNAC, Await, Arrives, vars, call
<1>5. QED BY <1>c, <1>1, <1>2, <1>3, <1>4 DEF Next, Runs, JoinStep

\* As long as nothing is lost under a join, a room has at most one connection, and once
\* nothing is under way its row says joined exactly when there is a live connection to it,
\* it lists who is in the room, and no connection outlives its session, whatever replies
\* are late, connections close or sessions end at other times.
THEOREM RoomsStayInStep ==
  ASSUME Undisturbed PROVE Spec => []RoomsAgree
<1>1. InStep => RoomsAgree
  BY InStepAgrees
<1>2. InStep /\ [Next]_vars => InStep'
  BY InStepStep
<1>3. QED BY <1>1, <1>2, InStepInit, PTL DEF Spec

\* And a caller who is told that the join went well is in the room, over a connection that
\* is live, and the row says so by the time JoinRoom returns.
THEOREM ToldIsTrue ==
  ASSUME Undisturbed PROVE Spec => OkMeansThere
<1>1. ASSUME InStep, [Next]_vars
      PROVE  [answer' # answer /\ answer' # None /\ answer'.ok
              => /\ rooms[answer'.room] # 0 /\ Live(rooms[answer'.room])
                 /\ row'[answer'.room] = "joined"]_vars
  BY <1>1, ToldIsThere
<1>2. InStep /\ [Next]_vars => InStep'
  BY InStepStep
<1>3. QED BY <1>1, <1>2, InStepInit, PTL DEF Spec, OkMeansThere
=============================================================================
