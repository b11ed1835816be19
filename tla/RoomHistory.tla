---------------------------- MODULE RoomHistory ----------------------------
(***************************************************************************)
(* What each member of one encrypted room has of what was said in it: live *)
(* messages, what another member is asked for after an absence (catch-up), *)
(* and what a restart leaves.                                              *)
(*                                                                         *)
(* A room's loop, the goroutine a rejoin starts and the read loop of the   *)
(* BOS connection run side by side in each client; each of their handlers  *)
(* is one action.  Message n is the n-th said, and is said in the n-th     *)
(* second: send times are compared to the second here, as catch-up does.   *)
(***************************************************************************)
EXTENDS Naturals, Sequences, FiniteSets, SequencesExt

CONSTANTS
  People,
  Founders,     \* who is in the room to begin with
  None,
  Upsets,       \* what may go wrong: a subset of UpsetKinds
  Limit,        \* CatchupMaxMessages
  MaxSaid,      \* bound: messages said
  MaxMoves,     \* bound: times anybody enters the room or starts anew
  MaxUpsets     \* bound: upsets, all told

\* `again`: a second copy of what was seen in this session.  `replayed`: of one's own
\* message, or of one seen before a restart.  `overlap`: an answer that holds what was
\* seen in this session.  `raced`: a message between a rejoin and the request it makes.
\* `lost`: a request or an answer lost that somebody needs.  `unshared`: a message of a chain some do not hold.
UpsetKinds == {"again", "replayed", "overlap", "raced", "lost", "unshared"}

ASSUME HistoryAssumption ==
  Upsets \subseteq UpsetKinds /\ Founders \subseteq People /\ None \notin Nat /\ Limit \in Nat \ {0}
ASSUME HistoryBounds == MaxSaid \in Nat /\ MaxMoves \in Nat /\ MaxUpsets \in Nat

VARIABLES
  said,     \* who said each message
  lacks,    \* who never gets the chain that opens which message
  here,     \* who is connected to the room
  links,    \* what the room's server has relayed to each, unread
  rows,     \* the room's messages, as each shows them
  seen,     \* seenIDs
  floor,    \* roomJoinedAt
  due,      \* rejoins whose request is not made yet
  mail,     \* requests and answers on their way to each
  moves,
  upsets

room == <<said, lacks>>
client == <<rows, seen>>
vars == <<room, here, links, client, floor, due, mail, moves, upsets>>

Ids == 1..MaxSaid

\* A row, and what catch-up carries of it.  `env`: the envelope is held.  `whole`: recovered,
\* with a time of whole seconds; what is heard or said live falls within its second.
Row == [id : Ids, at : 0..MaxSaid, text : {"said", "locked", "blank"}, env : BOOLEAN, whole : BOOLEAN]

Mail == [kind : {"ask"}, by : People, since : Nat]
  \cup [kind : {"answer"}, rows : Seq(Row), cut : BOOLEAN]

TypeOK ==
  /\ said \in Seq(People) /\ Len(said) <= MaxSaid /\ lacks \subseteq People \X Ids
  /\ here \in [People -> BOOLEAN] /\ links \in [People -> Seq(Ids)]
  /\ rows \in [People -> Seq(Row)] /\ seen \in [People -> SUBSET Ids]
  /\ floor \in [People -> Nat \cup {None}] /\ due \in [People -> Nat]
  /\ mail \in [People -> Seq(Mail)]
  /\ moves \in 0..MaxMoves /\ upsets \in 0..MaxUpsets

Everybody(v) == [p \in People |-> v]

Init ==
  /\ said = <<>> /\ lacks = {} /\ here = [p \in People |-> p \in Founders]
  /\ floor = [p \in People |-> IF p \in Founders THEN 0 ELSE None] /\ links = Everybody(<<>>)
  /\ rows = Everybody(<<>>) /\ seen = Everybody({}) /\ due = Everybody(0)
  /\ mail = Everybody(<<>>) /\ moves = 0 /\ upsets = 0

UpsetIf(condition, kind) ==
  IF condition THEN kind \in Upsets /\ upsets < MaxUpsets /\ upsets' = upsets + 1
               ELSE UNCHANGED upsets

Moves == moves < MaxMoves /\ moves' = moves + 1

Shown(q) == {rows[q][i] : i \in DOMAIN rows[q]}
Has(q, n) == \E r \in Shown(q) : r.id = n
Opens(q, n) == <<q, n>> \notin lacks
Missed(q) == {n \in DOMAIN said : floor[q] # None /\ n > floor[q] /\ ~Has(q, n)}

\* roomLastSeen, and the request's whole seconds: the first second asked for.
larger(a, b) == IF a > b THEN a ELSE b
Since(q) == IF rows[q] = <<>> THEN floor[q] + 1 ELSE larger(floor[q] + 1, Last(rows[q]).at)

Asking(q) ==
  \/ due[q] > 0
  \/ \E p \in People : \E i \in DOMAIN mail[p] : mail[p][i].kind = "ask" /\ mail[p][i].by = q

Coming(q) == UNION {{mail[q][i].rows[k].id : k \in DOMAIN mail[q][i].rows} :
                      i \in {j \in DOMAIN mail[q] : mail[q][j].kind = "answer"}}

Shows(q, row) == rows' = [rows EXCEPT ![q] = Append(@, row)]

-----------------------------------------------------------------------------
(* The room. *)

\* SendRoomMessage; the server relays to everyone but the sender.
Speak(p, without) ==
  LET n == Len(said) + 1 IN
  /\ here[p] /\ n <= MaxSaid
  /\ said' = Append(said, p)
  /\ lacks' = lacks \cup (without \X {n})
  /\ links' = [q \in People |-> IF here[q] /\ q # p THEN Append(links[q], n) ELSE links[q]]
  /\ Shows(p, [id |-> n, at |-> n, text |-> "said", env |-> TRUE, whole |-> FALSE])
  /\ IF without # {} THEN UpsetIf(TRUE, "unshared")
                     ELSE UpsetIf(due[p] > 0 /\ Missed(p) # {}, "raced")
  /\ UNCHANGED <<here, seen, floor, due, mail, moves>>

\* Mutant: copies are not told from the first.
SeenNothing(q, n) == FALSE

SeenBefore(q, n) == n \in seen[q]

\* handleChatSNAC: what cannot be opened is shown as a placeholder, of the moment.
Hear(q) ==
  LET n == Head(links[q]) IN
  /\ here[q] /\ links[q] # <<>> /\ links' = [links EXCEPT ![q] = Tail(@)]
  /\ IF ~Opens(q, n)
     THEN Shows(q, [id |-> n, at |-> Len(said), text |-> "locked", env |-> FALSE, whole |-> FALSE]) /\ UNCHANGED seen
     ELSE /\ seen' = [seen EXCEPT ![q] = @ \cup {n}]
          /\ IF SeenBefore(q, n) THEN UNCHANGED rows
             ELSE Shows(q, [id |-> n, at |-> n, text |-> "said", env |-> TRUE, whole |-> FALSE])
  /\ IF due[q] > 0 /\ \E k \in Missed(q) : k < n THEN UpsetIf(TRUE, "raced")
     ELSE UpsetIf(~SeenBefore(q, n) /\ (Asking(q) \/ n \in Coming(q)), "overlap")
  /\ UNCHANGED <<room, here, floor, due, mail, moves>>

\* The server relays a copy it kept.
Redeliver(q, n) ==
  /\ here[q] /\ n \in DOMAIN said
  /\ ~\E i \in DOMAIN links[q] : links[q][i] = n
  /\ links' = [links EXCEPT ![q] = Append(@, n)]
  /\ UpsetIf(TRUE, IF n \in seen[q] THEN "again" ELSE "replayed")
  /\ UNCHANGED <<room, here, client, floor, due, mail, moves>>

\* LeaveRoom, or the connection ends.
Leave(q) ==
  /\ here[q] /\ here' = [here EXCEPT ![q] = FALSE] /\ links' = [links EXCEPT ![q] = <<>>]
  /\ UNCHANGED <<room, client, floor, due, mail, moves, upsets>>

\* Whether anybody is to miss something for the loss of this.
Matters(q, m) ==
  IF m.kind = "ask" THEN Missed(m.by) # {}
  ELSE here[q] /\ \E i \in DOMAIN m.rows : m.rows[i].id \in Missed(q)

\* The program ends and starts: the saved history holds no envelopes.
Restart(q) ==
  /\ Moves
  /\ seen' = [seen EXCEPT ![q] = {}] /\ due' = [due EXCEPT ![q] = 0]
  /\ rows' = [rows EXCEPT ![q] = [i \in DOMAIN @ |-> [@[i] EXCEPT !.env = FALSE]]]
  /\ here' = [here EXCEPT ![q] = FALSE]
  /\ links' = [links EXCEPT ![q] = <<>>] /\ mail' = [mail EXCEPT ![q] = <<>>]
  /\ UpsetIf(\E i \in DOMAIN mail[q] : Matters(q, mail[q][i]), "lost")
  /\ UNCHANGED <<room, floor>>

-----------------------------------------------------------------------------
(* Catch-up. *)

\* JoinRoom: the first time pins the floor, every later one asks.
JoinRoom(q) ==
  /\ ~here[q] /\ here' = [here EXCEPT ![q] = TRUE]
  /\ Moves
  /\ IF floor[q] = None
     THEN floor' = [floor EXCEPT ![q] = Len(said)] /\ UNCHANGED <<due, upsets>>
     ELSE /\ due' = [due EXCEPT ![q] = @ + 1] /\ UNCHANGED floor
          /\ UpsetIf(\/ Asking(q) \/ Coming(q) # {}
                     \/ \E r \in Shown(q) : r.at >= Since(q) /\ r.id \in seen[q], "overlap")
  /\ UNCHANGED <<room, links, client, mail>>

\* requestRoomCatchup: one member is asked, here or not.
Request(q) ==
  /\ due[q] > 0 /\ due' = [due EXCEPT ![q] = @ - 1]
  /\ \E p \in People \ {q} :
       mail' = [mail EXCEPT ![p] = Append(@, [kind |-> "ask", by |-> q, since |-> Since(q)])]
  /\ UNCHANGED <<room, here, links, client, floor, moves, upsets>>

\* Mutant: the row in whose second the request falls is left out.
ServedAfter(row, since) == row.at > since /\ (row.env \/ row.text # "said")

\* RoomHistorySince, after the whole second asked for: what was opened is passed on sealed
\* or not at all.
Served(row, since) ==
  (IF row.whole THEN row.at > since ELSE row.at >= since) /\ (row.env \/ row.text # "said")

\* EncodeCatchupResponse keeps the newest.
Newest(s) == IF Len(s) > Limit THEN SubSeq(s, Len(s) - Limit + 1, Len(s)) ELSE s

HistorySince(p, since) == SelectSeq(rows[p], LAMBDA row : Served(row, since))

ServeCatchup(p) ==
  LET ask == Head(mail[p])
      history == HistorySince(p, ask.since)
      read == [mail EXCEPT ![p] = Tail(@)] IN
  /\ mail[p] # <<>> /\ ask.kind = "ask"
  /\ mail' = IF here[p] /\ history # <<>>
             THEN [read EXCEPT ![ask.by] = Append(@, [kind |-> "answer", rows |-> Newest(history),
                                                      cut |-> Len(history) > Limit])]
             ELSE read
  /\ UNCHANGED <<room, here, links, client, floor, due, moves, upsets>>

\* Decoded as if it were live, but for a copy of what was seen: that has no text.
Decoded(q, row) ==
  IF ~row.env THEN [row EXCEPT !.whole = TRUE]
  ELSE [row EXCEPT !.whole = TRUE,
                   !.text = IF ~Opens(q, row.id) THEN "locked"
                            ELSE IF row.id \in seen[q] THEN "blank" ELSE "said"]

\* MergeRoomMessages: what is there already, by sender, second and text, is skipped, and
\* the rows put in order of time.
SameRow(a, b) == a.id = b.id /\ a.at = b.at /\ a.text = b.text

New(q, batch) == SelectSeq(batch, LAMBDA row : \A r \in Shown(q) : ~SameRow(r, row))

Earlier(a, b) == a.at < b.at \/ (a.at = b.at /\ a.whole /\ ~b.whole)

ByTime(s) ==
  LET first(i, j) == Earlier(s[i], s[j]) \/ (~Earlier(s[j], s[i]) /\ i < j)
      order == SetToSortSeq(DOMAIN s, first)
  IN  [k \in DOMAIN s |-> s[order[k]]]

MergeCatchup(q) ==
  LET answer == Head(mail[q])
      new == New(q, [i \in DOMAIN answer.rows |-> Decoded(q, answer.rows[i])]) IN
  /\ mail[q] # <<>> /\ answer.kind = "answer" /\ mail' = [mail EXCEPT ![q] = Tail(@)]
  /\ IF ~here[q] THEN UNCHANGED client
     ELSE /\ seen' = [seen EXCEPT ![q] = @ \cup {answer.rows[i].id : i \in
                        {j \in DOMAIN answer.rows : answer.rows[j].env /\ Opens(q, answer.rows[j].id)}}]
          /\ rows' = [rows EXCEPT ![q] = IF new = <<>> THEN @ ELSE ByTime(@ \o new)]
  /\ UNCHANGED <<room, here, links, floor, due, moves, upsets>>

LoseMail(q) ==
  /\ mail[q] # <<>> /\ mail' = [mail EXCEPT ![q] = Tail(@)]
  /\ UpsetIf(Matters(q, Head(mail[q])), "lost")
  /\ UNCHANGED <<room, here, links, client, floor, due, moves>>

-----------------------------------------------------------------------------
HandleCatchup(q) == ServeCatchup(q) \/ MergeCatchup(q)

Next ==
  \E q \in People :
    \/ \E without \in SUBSET (People \ {q}) : Speak(q, without)
    \/ Hear(q) \/ Leave(q) \/ Restart(q) \/ JoinRoom(q) \/ Request(q) \/ HandleCatchup(q)
    \/ LoseMail(q)
    \/ \E n \in Ids : Redeliver(q, n)

\* What the code starts ends: the goroutine of a rejoin, the BOS connection's loop.
Fairness == \A q \in People : WF_vars(Request(q)) /\ WF_vars(HandleCatchup(q))

Spec == Init /\ [][Next]_vars /\ Fairness

-----------------------------------------------------------------------------
(* Properties. *)

\* A message is shown once, and as what was said unless its chain is not held, whatever
\* was heard, recovered, restored or relayed: "the merge has to be idempotent rather than
\* appending blindly" (MergeRoomMessages).
RowsAreWhatWasSaid ==
  \A q \in People :
    /\ \A i, j \in DOMAIN rows[q] : rows[q][i].id = rows[q][j].id => i = j
    /\ \A r \in Shown(q) : r.text = "said" \/ (r.text = "locked" /\ ~Opens(q, r.id))

Keeps(p, n, since) ==
  here[p] /\ \E r \in Shown(p) : r.id = n /\ r.env /\ r.text = "said" /\ (r.whole => n > since)

CutShort(q) == \E i \in DOMAIN mail[q] : mail[q][i].kind = "answer" /\ mail[q][i].cut

\* Whoever comes back gets what was said since the last message they show, as long as all
\* the others have it and still are there ("One member is enough", requestRoomCatchup),
\* and it is not more than an answer holds; in the very second asked from, as long as all
\* the others had it live.
MissedIsRecovered ==
  \A q \in People, n \in Ids : \A since \in 1..n :
    due[q] > 0 /\ here[q] /\ n \in Missed(q) /\ since = Since(q)
      ~> n \notin Missed(q) \/ ~here[q] \/ CutShort(q) \/ \E p \in People \ {q} : ~Keeps(p, n, since)
=============================================================================
