------------------------------ MODULE RoomJoin ------------------------------
(***************************************************************************)
(* Joining, leaving and losing chat rooms: the handshake JoinRoom runs     *)
(* over three connections, the two reply channels it waits on, the         *)
(* goroutine that drives each connection, and what a lost session does to  *)
(* them all.                                                               *)
(*                                                                         *)
(* One join runs at a time (joinMu).  A reply is the room it is about, or  *)
(* Nav for the grant of the ChatNav connection.  A room's cookie names it. *)
(***************************************************************************)
EXTENDS Naturals, Sequences

CONSTANTS
  Rooms, Nav, None,
  Upsets,       \* what may go wrong: a subset of UpsetKinds
  MaxConns,     \* bound: connections dialed; a join may need two
  MaxSessions,  \* bound: BOS sessions
  MaxMoves,     \* bound: times the other person enters or leaves a room
  MaxUpsets     \* bound: upsets, all told

\* `slow`: a reply after its join gave up on it.  `stale`: such a reply while another
\* is awaited.  `error`: an error reply, which nobody reads.  `mute`: a connection that
\* is accepted and then says nothing.  `kicked`: a room that closes before its join has
\* returned.  `rejoin`: a join of a room whose connection is being closed.  `across`:
\* the session lost during a join.  `early`: a sign-on before the old session is torn down.
UpsetKinds == {"slow", "error", "refused", "closed", "drop",
               "stale", "mute", "kicked", "rejoin", "across", "early"}

ASSUME JoinAssumption ==
  /\ Upsets \subseteq UpsetKinds
  /\ Nav \notin Rooms /\ None \notin Rooms \cup {Nav}
ASSUME JoinBounds ==
  /\ MaxConns \in Nat /\ MaxMoves \in Nat /\ MaxUpsets \in Nat
  /\ MaxSessions \in Nat \ {0}

VARIABLES
  bos,       \* Client.session, by number; 0 is nil
  signedOn,  \* sessions so far
  teardown,  \* what is left of the end of a session
  join,      \* the JoinRoom call that holds joinMu
  answer,    \* what the last call told its caller: the room, and whether it is in it
  due,       \* replies the server has still to send, by the channel they go to
  reply,     \* what is in navReply and serviceReply
  conns,     \* the connections dialed, each driven by a goroutine of its own
  nav,       \* chatNav; 0 is nil
  rooms,     \* c.rooms: the connection of each room; 0 is no entry
  row,       \* each room in the store: no row, a recent one, a joined one
  listed,    \* Participants: whether the other person is on the row
  inside,    \* whether the other person is in the room
  moves, upsets

call == <<join, answer>>
wire == <<due, reply>>
there == <<inside, moves>>
vars == <<bos, signedOn, teardown, call, wire, conns, nav, rooms, row, listed, there, upsets>>

Chans == {"nav", "service"}

Join == [pc : {"start", "navGrant", "navDial", "look", "found", "ask", "grant", "dial",
               "online", "store", "wedged"},
         room : Rooms, bos : 1..MaxSessions, nav : 0..MaxConns, conn : 0..MaxConns,
         got : Rooms \cup {Nav, None}, cookie : Rooms \cup {Nav, None}]

ASSUME NoJoinAssumption == None \notin Join

\* What a connection is really of, what it is filed under, the session it belongs to,
\* whether it is online, and the arrivals and departures pushed on it and not yet read.
Conn == [of : Rooms \cup {Nav}, cookie : Rooms \cup {Nav}, bos : 1..MaxSessions,
         pc : {"run", "ended", "deleted", "done"}, cancelled : BOOLEAN, online : BOOLEAN,
         news : Seq(BOOLEAN)]

TypeOK ==
  /\ signedOn \in 0..MaxSessions /\ bos \in {0, signedOn}
  /\ teardown \in {"none", "chat", "reset"}
  /\ join \in Join \cup {None}
  /\ answer \in [room : Rooms, ok : BOOLEAN] \cup {None}
  /\ due \subseteq Chans \X (Rooms \cup {Nav})
  /\ reply \in [Chans -> Rooms \cup {Nav, None}]
  /\ conns \in Seq(Conn) /\ Len(conns) <= MaxConns
  /\ nav \in 0..Len(conns)
  /\ rooms \in [Rooms -> 0..Len(conns)]
  /\ row \in [Rooms -> {"none", "recent", "joined"}] /\ upsets \in 0..MaxUpsets
  /\ {listed, inside} \subseteq [Rooms -> BOOLEAN] /\ moves \in 0..MaxMoves
  /\ join # None /\ join.pc \in {"look", "found", "ask", "grant", "dial", "online", "store"}
     => join.nav # 0

\* A restored history may bring rooms with it.
Init ==
  /\ bos = 1 /\ signedOn = 1 /\ teardown = "none" /\ join = None /\ answer = None
  /\ due = {} /\ reply = [ch \in Chans |-> None]
  /\ conns = <<>> /\ nav = 0 /\ rooms = [r \in Rooms |-> 0]
  /\ row \in [Rooms -> {"none", "recent"}] /\ upsets = 0
  /\ listed = [r \in Rooms |-> FALSE] /\ inside = [r \in Rooms |-> FALSE] /\ moves = 0

Upset(kind) == kind \in Upsets /\ upsets < MaxUpsets /\ upsets' = upsets + 1

UpsetIf(condition, kind) == IF condition THEN Upset(kind) ELSE UNCHANGED upsets

-----------------------------------------------------------------------------
(* JoinRoom. *)

At(pc) == join # None /\ join.pc = pc

Go(pc) == join' = [join EXCEPT !.pc = pc]

Return(room, ok) == join' = None /\ answer' = [room |-> room, ok |-> ok]

Open(i) == conns[i].pc = "run"

Live(i) == Open(i) /\ ~conns[i].cancelled

\* A room with an entry needs no second connection.
In(r) == rooms[r] # 0

JoinRoom(r) ==
  /\ join = None
  /\ Len(conns) + 2 <= MaxConns
  /\ UpsetIf(\E i \in DOMAIN conns :
               conns[i].cookie = r /\ conns[i].pc # "done" /\ ~Live(i), "rejoin")
  /\ IF In(r) \/ bos = 0 THEN Return(r, In(r))
     ELSE /\ join' = [pc |-> "start", room |-> r, bos |-> bos, nav |-> 0, conn |-> 0,
                      got |-> None, cookie |-> None]
          /\ answer' = None
  /\ UNCHANGED <<bos, signedOn, teardown, wire, conns, nav, rooms, row, listed, there>>

\* Mutant: the channel is not drained first.
RequestUndrained(ch, what) == due' = due \cup {<<ch, what>>} /\ UNCHANGED reply

\* drain, then the request.
Request(ch, what) == due' = due \cup {<<ch, what>>} /\ reply' = [reply EXCEPT ![ch] = None]

EnsureChatNav ==
  /\ At("start")
  /\ IF nav # 0 THEN join' = [join EXCEPT !.pc = "look", !.nav = nav] /\ UNCHANGED <<wire, answer>>
     ELSE IF bos = join.bos THEN Request("service", Nav) /\ Go("navGrant") /\ UNCHANGED answer
     ELSE Return(join.room, FALSE) /\ UNCHANGED wire
  /\ UNCHANGED <<bos, signedOn, teardown, conns, nav, rooms, row, listed, there, upsets>>

\* await: whatever is on the channel is the reply.
Await(pc, ch, next) ==
  /\ At(pc) /\ reply[ch] # None
  /\ reply' = [reply EXCEPT ![ch] = None]
  /\ join' = [join EXCEPT !.pc = next, !.got = reply[ch]]
  /\ UNCHANGED <<bos, signedOn, teardown, answer, due, conns, nav, rooms, row, listed, there, upsets>>

Awaits(pc, ch) ==
  \/ ch = "nav" /\ pc = "found"
  \/ ch = "service" /\ pc \in {"navGrant", "grant"}

Awaited ==
  CASE join.pc = "navGrant" -> <<"service", Nav>>
    [] join.pc = "found"    -> <<"nav", join.room>>
    [] join.pc = "grant"    -> <<"service", join.cookie>>

\* Mutant: a join waits for its reply without a limit.
AwaitsForever ==
  /\ join # None /\ join.pc \in {"navGrant", "found", "grant"}
  /\ reply[Awaited[1]] = None
  /\ Awaited \in due /\ Upset("error") /\ due' = due \ {Awaited}
  /\ UNCHANGED <<bos, signedOn, teardown, call, reply, conns, nav, rooms, row, listed, there>>

\* replyTimeout is far longer than a round trip: the reply is late, or is an error
\* nobody reads, or is on a connection that is gone.
AwaitTimesOut ==
  /\ join # None /\ join.pc \in {"navGrant", "found", "grant"}
  /\ reply[Awaited[1]] = None
  /\ \/ Awaited \in due /\ Upset("slow") /\ due' = due
     \/ Awaited \in due /\ Upset("error") /\ due' = due \ {Awaited}
     \/ Awaited \notin due /\ UNCHANGED <<due, upsets>>
  /\ Return(join.room, FALSE)
  /\ UNCHANGED <<bos, signedOn, teardown, reply, conns, nav, rooms, row, listed, there>>

Dialed(cookie) ==
  conns' = Append(conns, [of |-> join.got, cookie |-> cookie, bos |-> join.bos, pc |-> "run",
                          cancelled |-> FALSE, online |-> FALSE, news |-> <<>>])

DialFails ==
  /\ join # None /\ join.pc \in {"navDial", "dial"}
  /\ \/ Upset("refused") /\ Return(join.room, FALSE)
     \/ Upset("mute") /\ Go("wedged") /\ UNCHANGED answer
  /\ UNCHANGED <<bos, signedOn, teardown, wire, conns, nav, rooms, row, listed, there>>

DialNav ==
  /\ At("navDial")
  /\ Dialed(Nav) /\ nav' = Len(conns')
  /\ join' = [join EXCEPT !.pc = "look", !.nav = nav', !.got = None]
  /\ UNCHANGED <<bos, signedOn, teardown, answer, wire, rooms, row, listed, there, upsets>>

CreateRoom ==
  /\ At("look")
  /\ IF Open(join.nav) /\ conns[join.nav].of = Nav
     THEN Request("nav", join.room) /\ Go("found") /\ UNCHANGED answer
     ELSE Return(join.room, FALSE) /\ UNCHANGED wire
  /\ UNCHANGED <<bos, signedOn, teardown, conns, nav, rooms, row, listed, there, upsets>>

RequestChat ==
  /\ At("ask")
  /\ IF bos = join.bos
     THEN /\ Request("service", join.got)
          /\ join' = [join EXCEPT !.pc = "grant", !.cookie = join.got, !.got = None]
          /\ UNCHANGED answer
     ELSE Return(join.room, FALSE) /\ UNCHANGED wire
  /\ UNCHANGED <<bos, signedOn, teardown, conns, nav, rooms, row, listed, there, upsets>>

DialChat ==
  /\ At("dial")
  /\ Dialed(join.cookie) /\ rooms' = [rooms EXCEPT ![join.cookie] = Len(conns')]
  /\ join' = [join EXCEPT !.pc = "online", !.conn = Len(conns'), !.got = None]
  /\ UNCHANGED <<bos, signedOn, teardown, answer, wire, nav, row, listed, there, upsets>>

\* What the server tells whoever comes in of who is there.
Roster(r) == IF inside[r] THEN <<TRUE>> ELSE <<>>

GoOnline ==
  /\ At("online")
  /\ IF Open(join.conn)
     THEN /\ Go("store") /\ UNCHANGED answer
          /\ conns' = [conns EXCEPT ![join.conn] =
                         [@ EXCEPT !.online = TRUE, !.news = Roster(conns[join.conn].of)]]
     ELSE Return(join.room, FALSE) /\ UNCHANGED conns
  /\ UNCHANGED <<bos, signedOn, teardown, wire, nav, rooms, row, listed, there, upsets>>

\* UpsertRoom and SetRoomJoined, and what the roster says by then stays.
Joined ==
  /\ At("store")
  /\ row' = [row EXCEPT ![join.cookie] = "joined"]
  /\ Return(join.room, TRUE)
  /\ UNCHANGED <<bos, signedOn, teardown, wire, conns, nav, rooms, listed, there, upsets>>

\* trySend: onto the channel if it is empty, dropped if not.
Arrives(ch, what) ==
  /\ <<ch, what>> \in due /\ due' = due \ {<<ch, what>>}
  /\ reply' = IF reply[ch] = None THEN [reply EXCEPT ![ch] = what] ELSE reply
  /\ UpsetIf(join # None /\ Awaits(join.pc, ch) /\ Awaited # <<ch, what>>, "stale")
  /\ UNCHANGED <<bos, signedOn, teardown, call, conns, nav, rooms, row, listed, there>>

\* The other person enters or leaves, and the server tells who is in the room.
Moves(r) ==
  /\ moves < MaxMoves /\ moves' = moves + 1
  /\ inside' = [inside EXCEPT ![r] = ~@]
  /\ conns' = [i \in DOMAIN conns |-> IF conns[i].of = r /\ Open(i) /\ conns[i].online
                                     THEN [conns[i] EXCEPT !.news = Append(@, inside'[r])] ELSE conns[i]]
  /\ UNCHANGED <<bos, signedOn, teardown, call, wire, nav, rooms, row, listed, upsets>>

\* A person who arrives makes the row if there is none, one who leaves does not.
RoomUsersJoined(r) ==
  /\ row' = [row EXCEPT ![r] = IF @ = "none" THEN "recent" ELSE @]
  /\ listed' = [listed EXCEPT ![r] = TRUE]

RoomUsersLeft(r) == listed' = [listed EXCEPT ![r] = FALSE] /\ UNCHANGED row

HandleChatSNAC(i) ==
  /\ Open(i) /\ conns[i].news # <<>>
  /\ conns' = [conns EXCEPT ![i].news = Tail(@)]
  /\ IF Head(conns[i].news) THEN RoomUsersJoined(conns[i].cookie) ELSE RoomUsersLeft(conns[i].cookie)
  /\ UNCHANGED <<bos, signedOn, teardown, call, wire, nav, rooms, there, upsets>>

-----------------------------------------------------------------------------
(* The connections, and the session they hang from. *)

LeaveRoom(r) ==
  /\ row[r] = "joined" /\ rooms[r] # 0 /\ ~conns[rooms[r]].cancelled
  /\ conns' = [conns EXCEPT ![rooms[r]].cancelled = TRUE]
  /\ UNCHANGED <<bos, signedOn, teardown, call, wire, nav, rooms, row, listed, there, upsets>>

ServerCloses(i) ==
  /\ Open(i)
  /\ Upset(IF join # None /\ i \in {join.nav, join.conn} THEN "kicked" ELSE "closed")
  /\ conns' = [conns EXCEPT ![i].pc = "ended"]
  /\ due' = IF i = nav THEN {d \in due : d[1] # "nav"} ELSE due
  /\ UNCHANGED <<bos, signedOn, teardown, call, reply, nav, rooms, row, listed, there>>

ConnEnds(i) ==
  /\ Open(i) /\ conns[i].cancelled
  /\ conns' = [conns EXCEPT ![i].pc = "ended"]
  /\ due' = IF i = nav THEN {d \in due : d[1] # "nav"} ELSE due
  /\ UNCHANGED <<bos, signedOn, teardown, call, reply, nav, rooms, row, listed, there, upsets>>

\* Mutant: the entry outlives its connection.
EntryStays(i) ==
  /\ conns[i].pc = "ended"
  /\ conns' = [conns EXCEPT ![i].pc = IF @ = "ended" THEN "deleted" ELSE @]
  /\ nav' = IF conns[i].cookie = Nav THEN 0 ELSE nav
  /\ UNCHANGED <<bos, signedOn, teardown, call, wire, rooms, row, listed, there, upsets>>

\* runRoom takes its entry away, whoever's it is by now; runService calls clearChatNav.
EntryGoes(i) ==
  /\ conns[i].pc = "ended"
  /\ LET c == conns[i].cookie
     IN  IF c = Nav
         THEN nav' = 0 /\ rooms' = rooms /\ conns' = [conns EXCEPT ![i].pc = "done"]
         ELSE nav' = nav /\ rooms' = [rooms EXCEPT ![c] = 0]
              /\ conns' = [conns EXCEPT ![i].pc = "deleted"]
  /\ UNCHANGED <<bos, signedOn, teardown, call, wire, row, listed, there, upsets>>

\* SetRoomJoined(false), which makes the row if there is none, with nobody on it.
MarkLeft(i) ==
  /\ conns[i].pc = "deleted"
  /\ conns' = [conns EXCEPT ![i].pc = "done"]
  /\ row' = [row EXCEPT ![conns[i].cookie] = "recent"]
  /\ listed' = [listed EXCEPT ![conns[i].cookie] = FALSE]
  /\ UNCHANGED <<bos, signedOn, teardown, call, wire, nav, rooms, there, upsets>>

\* Sign-off and a lost connection end alike.  What an earlier end has still to do, this
\* one does.
BosLost ==
  /\ bos # 0 /\ Upset(IF join # None THEN "across" ELSE "drop")
  /\ bos' = 0 /\ teardown' = "chat" /\ due' = {d \in due : d[1] # "service"}
  /\ UNCHANGED <<signedOn, call, reply, conns, nav, rooms, row, listed, there>>

\* Mutant: the navigation connection is left open.
KeepsNav(i) == i \in {rooms[r] : r \in Rooms}

Closes(i) == i = nav \/ i \in {rooms[r] : r \in Rooms}

CloseAllChat ==
  /\ teardown = "chat" /\ teardown' = "reset"
  /\ conns' = [i \in DOMAIN conns |-> IF Closes(i) THEN [conns[i] EXCEPT !.cancelled = TRUE] ELSE conns[i]]
  /\ UNCHANGED <<bos, signedOn, call, wire, nav, rooms, row, listed, there, upsets>>

ResetStore ==
  /\ teardown = "reset" /\ teardown' = "none"
  /\ row' = [r \in Rooms |-> "none"] /\ listed' = [r \in Rooms |-> FALSE]
  /\ UNCHANGED <<bos, signedOn, call, wire, conns, nav, rooms, there, upsets>>

\* Only Client.session is asked, and it is nil before the rooms are closed.  RestoreRooms,
\* when there is a history to restore.
SignOn ==
  /\ bos = 0 /\ signedOn < MaxSessions
  /\ UpsetIf(teardown # "none", "early")
  /\ bos' = signedOn + 1 /\ signedOn' = signedOn + 1
  /\ \/ UNCHANGED <<row, listed>>
     \/ /\ \E saved \in [Rooms -> {"none", "recent"}] : row' = saved
        /\ listed' = [r \in Rooms |-> FALSE]
  /\ UNCHANGED <<teardown, call, wire, conns, nav, rooms, there>>

-----------------------------------------------------------------------------
JoinStep ==
  \/ EnsureChatNav \/ AwaitTimesOut \/ DialNav \/ CreateRoom \/ RequestChat \/ DialChat
  \/ GoOnline \/ Joined
  \/ Await("navGrant", "service", "navDial") \/ Await("found", "nav", "ask")
  \/ Await("grant", "service", "dial")

ConnStep(i) == ConnEnds(i) \/ EntryGoes(i) \/ MarkLeft(i) \/ HandleChatSNAC(i)

Runs ==
  \/ JoinStep \/ CloseAllChat \/ ResetStore
  \/ \E i \in DOMAIN conns : ConnStep(i)
  \/ \E ch \in Chans, what \in Rooms \cup {Nav} : Arrives(ch, what)

Next ==
  \/ Runs \/ DialFails \/ BosLost \/ SignOn
  \/ \E r \in Rooms : JoinRoom(r) \/ LeaveRoom(r) \/ Moves(r)
  \/ \E i \in DOMAIN conns : ServerCloses(i)

\* Goroutines run, the server answers what it does not lose, timers fire.
Spec == Init /\ [][Next]_vars /\ WF_vars(Runs)

-----------------------------------------------------------------------------
(* Properties. *)

\* Every connection is of what it is filed under, and a call that returns well is in
\* the room it asked for: replies carry no name of their request, and what arrives late
\* is for the room of another join.
RepliesAreTheirOwn ==
  /\ \A i \in DOMAIN conns : conns[i].of = conns[i].cookie
  /\ join # None /\ join.cookie # None => join.cookie = join.room

\* Told that the join went well, the caller is in the room and its row says so.
OkMeansThere ==
  [][answer' # answer /\ answer' # None /\ answer'.ok
     => /\ rooms[answer'.room] # 0 /\ Live(rooms[answer'.room])
        /\ row'[answer'.room] = "joined"]_vars

OneConnectionEach ==
  \A i, j \in DOMAIN conns : Live(i) /\ Live(j) /\ conns[i].cookie = conns[j].cookie => i = j

Settled ==
  /\ join = None /\ teardown = "none"
  /\ \A i \in DOMAIN conns : conns[i].pc = "done" \/ (Live(i) /\ conns[i].news = <<>>)

\* There is at most one connection to a room, never a second that nothing will close
\* ("abandon the first without closing it", JoinRoom). Once nothing is under way, a room's
\* row says joined exactly when there is a live connection to it, it lists who is in the
\* room, and no connection outlives its session.
RoomsAgree ==
  /\ OneConnectionEach
  /\ Settled =>
       /\ \A r \in Rooms : /\ (row[r] = "joined") = (rooms[r] # 0)
                           /\ listed[r] = (row[r] = "joined" /\ inside[r])
       /\ \A i \in DOMAIN conns : conns[i].pc = "run" => conns[i].bos = bos

\* "a full sign-off clears everything via the store reset anyway" (runRoom).
SignOffClears == Settled /\ bos = 0 => \A r \in Rooms : row[r] = "none"

\* "so a silent server can't wedge JoinRoom forever" (replyTimeout).
JoinsReturn == join # None ~> join = None
=============================================================================
