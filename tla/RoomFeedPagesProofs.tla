------------------------ MODULE RoomFeedPagesProofs ------------------------
(***************************************************************************)
(* Every page shows the room, for any number of players, sockets, clocks   *)
(* and races.                                                              *)
(*                                                                         *)
(* A page may be behind the room.  The invariant says how far: in a field  *)
(* nobody contests, either something is still to be announced, or the page *)
(* is near the room; and everything still to be announced brings it there. *)
(* The same holds of the pages that may yet come of a snapshot that is     *)
(* being sent and of the frames queued behind it.                          *)
(*                                                                         *)
(* FeedAssumption is a hypothesis of the lemmas that need it, and cited    *)
(* where they are used: in every obligation it would slow the provers down *)
(* on sequences.                                                           *)
(***************************************************************************)
EXTENDS RoomFeedProofs

-----------------------------------------------------------------------------

(* What the scripts do to the record.                                       *)
LEMMA SeatHas ==
    ASSUME NEW x \in Seats
    PROVE  /\ x.conn \in Sockets /\ x.connected \in BOOLEAN /\ x.typed \in 0..Length
           /\ x.finished \in BOOLEAN
           /\ Public(x).connected = x.connected /\ Public(x).typed = x.typed
           /\ Public(x).finished = x.finished
BY DEF Seats, Public

LEMMA SeatsChange ==
    ASSUME NEW x \in Seats
    PROVE  /\ \A s \in Sockets : [x EXCEPT !.conn = s, !.connected = TRUE] \in Seats
           /\ [x EXCEPT !.connected = FALSE] \in Seats
           /\ \A n \in 0..Length : /\ [x EXCEPT !.typed = n] \in Seats
                                   /\ [x EXCEPT !.finished = TRUE, !.typed = n] \in Seats
BY DEF Seats

LEMMA NewSeatIs ==
    ASSUME FeedAssumption, NEW s \in Sockets PROVE NewSeat(s) \in Seats
BY DEF FeedAssumption, NewSeat, Seats

LEMMA RoomSeated ==
    ASSUME NEW r, RoomOf(r), NEW p \in Players, NEW seat \in Seats,
           NEW r2, r2 = [r EXCEPT !.seats = Seating(@, p, seat)]
    PROVE  /\ RoomOf(r2) /\ r2.state = r.state /\ r2.host = r.host
           /\ DOMAIN r2.seats = DOMAIN r.seats \cup {p}
           /\ \A q \in DOMAIN r2.seats : r2.seats[q] = IF q = p THEN seat ELSE r.seats[q]
<1> DEFINE seats == Seating(r.seats, p, seat)
<1>1. r2 = [r EXCEPT !.seats = seats]
  OBVIOUS
<1>2. /\ DOMAIN seats = DOMAIN r.seats \cup {p} /\ seats = [q \in DOMAIN seats |-> seats[q]]
      /\ \A q \in DOMAIN seats : seats[q] = IF q = p THEN seat ELSE r.seats[q]
  BY DEF Seating
<1> HIDE DEF seats
<1>3. seats \in SeatMaps
  <2>1. DOMAIN seats \subseteq Players /\ \A q \in DOMAIN seats : seats[q] \in Seats
    BY <1>2, RoomHas
  <2> QED
    BY <1>2, <2>1, SeatMapIs
<1> QED
  BY <1>1, <1>2, <1>3 DEF RoomOf, Rooms

LEMMA RoomPatched ==
    ASSUME NEW r, RoomOf(r), NEW p \in DOMAIN r.seats, NEW seat \in Seats,
           NEW r2, r2 = [r EXCEPT !.seats = [r.seats EXCEPT ![p] = seat]]
    PROVE  /\ RoomOf(r2) /\ r2.state = r.state /\ r2.host = r.host
           /\ DOMAIN r2.seats = DOMAIN r.seats
           /\ \A q \in DOMAIN r2.seats : r2.seats[q] = IF q = p THEN seat ELSE r.seats[q]
<1> DEFINE seats == [r.seats EXCEPT ![p] = seat]
<1>1. r2 = [r EXCEPT !.seats = seats]
  OBVIOUS
<1>2. /\ DOMAIN seats = DOMAIN r.seats /\ seats = [q \in DOMAIN seats |-> seats[q]]
      /\ \A q \in DOMAIN seats : seats[q] = IF q = p THEN seat ELSE r.seats[q]
  OBVIOUS
<1> HIDE DEF seats
<1>3. seats \in SeatMaps
  BY <1>2, RoomHas, SeatMapIs
<1> QED
  BY <1>1, <1>2, <1>3 DEF RoomOf, Rooms

LEMMA RoomWithout ==
    ASSUME NEW r, RoomOf(r), NEW gone, NEW r2, r2 = [r EXCEPT !.seats = Without(@, gone)]
    PROVE  /\ RoomOf(r2) /\ r2.state = r.state /\ r2.host = r.host
           /\ DOMAIN r2.seats = DOMAIN r.seats \ gone
           /\ \A q \in DOMAIN r2.seats : r2.seats[q] = r.seats[q]
<1> DEFINE seats == Without(r.seats, gone)
<1>1. r2 = [r EXCEPT !.seats = seats]
  OBVIOUS
<1>2. /\ DOMAIN seats = DOMAIN r.seats \ gone /\ seats = [q \in DOMAIN seats |-> seats[q]]
      /\ \A q \in DOMAIN seats : seats[q] = r.seats[q]
  BY DEF Without
<1> HIDE DEF seats
<1>3. seats \in SeatMaps
  BY <1>2, RoomHas, SeatMapIs
<1> QED
  BY <1>1, <1>2, <1>3 DEF RoomOf, Rooms

LEMMA RoomDeleted ==
    ASSUME NEW r, RoomOf(r), NEW gone, NEW r2, r2 = [r EXCEPT !.state = "none", !.seats = Without(@, gone)]
    PROVE  /\ RoomOf(r2) /\ r2.state = "none" /\ r2.host = r.host
           /\ DOMAIN r2.seats = DOMAIN r.seats \ gone
           /\ \A q \in DOMAIN r2.seats : r2.seats[q] = r.seats[q]
<1> DEFINE seats == Without(r.seats, gone)
<1>1. r2 = [r EXCEPT !.state = "none", !.seats = seats]
  OBVIOUS
<1>2. /\ DOMAIN seats = DOMAIN r.seats \ gone /\ seats = [q \in DOMAIN seats |-> seats[q]]
      /\ \A q \in DOMAIN seats : seats[q] = r.seats[q]
  BY DEF Without
<1> HIDE DEF seats
<1>3. seats \in SeatMaps
  BY <1>2, RoomHas, SeatMapIs
<1> QED
  BY <1>1, <1>2, <1>3 DEF RoomOf, Rooms

LEMMA RoomReset ==
    ASSUME FeedAssumption, NEW r, RoomOf(r), NEW state \in States,
           state = "countdown" => r.race < MaxRaces,
           NEW r2, r2 = [r EXCEPT !.state = state, !.seats = Reset(@)]
    PROVE  /\ RoomOf(r2) /\ r2.state = state /\ r2.host = r.host
           /\ DOMAIN r2.seats = DOMAIN r.seats
           /\ \A q \in DOMAIN r2.seats :
                 /\ r2.seats[q].connected = r.seats[q].connected
                 /\ r2.seats[q].typed = 0 /\ r2.seats[q].finished = FALSE
<1> DEFINE seats == Reset(r.seats)
<1>1. r2 = [r EXCEPT !.state = state, !.seats = seats]
  OBVIOUS
<1>2. /\ DOMAIN seats = DOMAIN r.seats /\ seats = [q \in DOMAIN seats |-> seats[q]]
      /\ \A q \in DOMAIN seats : seats[q] = [r.seats[q] EXCEPT !.typed = 0, !.finished = FALSE]
  BY DEF Reset
<1> HIDE DEF seats
<1>3. 0 \in 0..Length
  BY DEF FeedAssumption
<1>4. ASSUME NEW q \in DOMAIN seats
      PROVE  /\ seats[q] \in Seats /\ seats[q].connected = r.seats[q].connected
             /\ seats[q].typed = 0 /\ seats[q].finished = FALSE
  <2>1. r.seats[q] \in Seats
    BY <1>2, RoomHas
  <2>2. seats[q] = [r.seats[q] EXCEPT !.typed = 0, !.finished = FALSE]
    BY <1>2
  <2> QED
    BY <1>3, <2>1, <2>2 DEF Seats
<1>5. seats \in SeatMaps
  BY <1>2, <1>4, RoomHas, SeatMapIs
<1>6. RoomOf(r2) /\ r2.state = state /\ r2.host = r.host /\ r2.seats = seats
  BY <1>1, <1>5 DEF RoomOf, Rooms
<1> QED
  BY <1>2, <1>4, <1>6

LEMMA RoomMoved ==
    ASSUME NEW r, RoomOf(r), NEW state \in States, state # "countdown", NEW race \in 0..MaxRaces,
           NEW r2, \/ r2 = [r EXCEPT !.state = state, !.race = race]
                   \/ r2 = [r EXCEPT !.state = state]
    PROVE  RoomOf(r2) /\ r2.state = state /\ r2.host = r.host /\ r2.seats = r.seats
BY DEF RoomOf, Rooms

LEMMA RoomHosted ==
    ASSUME NEW r, RoomOf(r), NEW host \in Players, NEW r2, r2 = [r EXCEPT !.host = host]
    PROVE  RoomOf(r2) /\ r2.state = r.state /\ r2.host = host /\ r2.seats = r.seats
BY DEF RoomOf, Rooms

(* Types: one lemma per action, with the work it leaves its writer.         *)
LEMMA AppendTwo == ASSUME NEW x, NEW y PROVE Append(<<x>>, y) = <<x, y>>
<1> DEFINE t == Append(<<x>>, y)
<1>1. <<x>> \in Seq({x, y}) /\ Len(<<x>>) = 1
  OBVIOUS
<1>2. t \in Seq({x, y}) /\ Len(t) = 2 /\ t[1] = x /\ t[2] = y
  BY <1>1
<1> HIDE DEF t
<1>3. t = <<t[1], t[2]>>
  BY <1>2, PairIs
<1> QED
  BY <1>2, <1>3 DEF t

(* A writer at its next step. *)
LEMMA WriterIs ==
    ASSUME WorkTyped, NEW a \in Actors, NEW what, Doing(a, what)
    PROVE  /\ todo[a] # <<>> /\ WorkOf(a, todo[a], Awaits(a))
           /\ Step(a) = todo[a][1] /\ Step(a) \in Steps /\ Step(a).do = what
           /\ todo[a] \in Seq(Steps) /\ Orderly(todo[a]) /\ 1 \in DOMAIN todo[a]
           /\ what \notin {"publish", "read", "record"} =>
                 todo[a] = <<Step(a)>> /\ Tail(todo[a]) = <<>>
           /\ what \in {"join", "read", "send"} => Awaits(a)
           /\ what = "record" => a \in Sockets /\ todo[a] = Recording(a)
           /\ what = "read" => /\ todo[a] = <<Step(a), todo[a][2]>> /\ Tail(todo[a]) = <<todo[a][2]>>
                               /\ todo[a][2] \in Steps /\ todo[a][2].do = "publish"
<1>1. todo[a] # <<>> /\ WorkOf(a, todo[a], Awaits(a)) /\ Head(todo[a]).do = what
  BY DEF WorkTyped, Doing, Busy, Step
<1>2. Step(a) = Head(todo[a])
  BY DEF Step
<1> DEFINE q == todo[a]
<1>3. WorkOf(a, q, Awaits(a)) /\ q # <<>> /\ Head(q).do = what /\ Step(a) = Head(q)
  BY <1>1, <1>2
<1> HIDE DEF q
<1>4. /\ q \in Seq(Steps) /\ Orderly(q) /\ Head(q) = q[1] /\ q[1] \in Steps /\ 1 \in DOMAIN q
      /\ q[1].do \notin {"publish", "read", "record"} => q = <<q[1]>> /\ Tail(q) = <<>>
      /\ q[1].do \in {"join", "read", "send"} => Awaits(a)
      /\ q[1].do = "record" => a \in Sockets /\ q = Recording(a)
      /\ q[1].do = "read" => q = <<q[1], q[2]>> /\ Tail(q) = <<q[2]>>
                             /\ q[2] \in Steps /\ q[2].do = "publish"
  BY <1>3, WorkHead
<1>5. q[1] = Step(a) /\ Step(a).do = what
  BY <1>3, <1>4
<1>6. /\ q # <<>> /\ WorkOf(a, q, Awaits(a))
      /\ Step(a) = q[1] /\ Step(a) \in Steps /\ Step(a).do = what
      /\ q \in Seq(Steps) /\ Orderly(q) /\ 1 \in DOMAIN q
      /\ what \notin {"publish", "read", "record"} => q = <<Step(a)>> /\ Tail(q) = <<>>
      /\ what \in {"join", "read", "send"} => Awaits(a)
      /\ what = "record" => a \in Sockets /\ q = Recording(a)
      /\ what = "read" => /\ q = <<Step(a), q[2]>> /\ Tail(q) = <<q[2]>>
                          /\ q[2] \in Steps /\ q[2].do = "publish"
  BY <1>3, <1>4, <1>5
<1> QED
  BY <1>6 DEF q

LEMMA AwaitsBoolean == ASSUME NEW a PROVE Awaits(a) \in BOOLEAN /\ Awaits(a)' \in BOOLEAN
BY DEF Awaits

LEMMA ChangeTyped ==
    ASSUME PagesTyped, NEW a, NEW fields \in SUBSET Fields, NEW r, Change(a, fields, r)
    PROVE  contested' \subseteq Fields /\ room' = r
BY DEF PagesTyped, Change

(* A step that leaves the pages and the sockets as they are.                *)
LEMMA ElsewhereTyped ==
    ASSUME PagesTyped, Elsewhere, contested' \subseteq Fields
    PROVE  PagesTyped' /\ \A a \in Actors : Awaits(a)' <=> Awaits(a)
BY DEF PagesTyped, Elsewhere, Awaits

LEMMA WriterMoves ==
    ASSUME WorkTyped, PagesTyped, Elsewhere, contested' \subseteq Fields,
           NEW a \in Actors, NEW q, todo' = [todo EXCEPT ![a] = q], WorkOf(a, q, Awaits(a))
    PROVE  WorkTyped' /\ PagesTyped'
<1>1. PagesTyped' /\ (Awaits(a)' <=> Awaits(a))
  BY ElsewhereTyped
<1>2. WorkOf(a, q, Awaits(a)')
  BY <1>1, WorkSame
<1>3. \A s \in Sockets \ {a} : phase'[s] = phase[s]
  BY DEF Elsewhere
<1>4. WorkTyped'
  BY <1>2, <1>3, WorkMoves
<1> QED
  BY <1>1, <1>4

LEMMA ConnectTyped ==
    ASSUME FeedAssumption, TypesInv, NEW s \in Sockets, Connect(s) PROVE TypesInv'
<1>1. s \in Actors /\ phase' = [phase EXCEPT ![s] = "open"] /\ todo' = [todo EXCEPT ![s] = <<Do("join")>>]
      /\ room' = room /\ queue' = queue /\ view' = view /\ contested' = contested
  BY DEF Connect, Actors
<1>2. phase' \in [Sockets -> Phases] /\ phase'[s] = "open" /\ \A t \in Sockets \ {s} : phase'[t] = phase[t]
  BY <1>1 DEF TypesInv, PagesTyped, Phases
<1>3. Awaits(s)'
  BY <1>2 DEF Awaits
<1>4. WorkOf(s, <<Do("join")>>, Awaits(s)')
  <2>1. Do("join") \in Steps /\ Do("join").do \notin {"read", "record"}
    BY StepsAre DEF Do
  <2> QED
    BY <1>3, <2>1, AwaitsBoolean, WorkLast, Zenon
<1>5. WorkTyped'
  BY <1>1, <1>2, <1>4, WorkMoves DEF TypesInv
<1>6. PagesTyped'
  BY <1>1, <1>2 DEF TypesInv, PagesTyped
<1> QED
  BY <1>1, <1>5, <1>6 DEF TypesInv, RoomTyped

LEMMA RefuseTyped ==
    ASSUME TypesInv, NEW s \in Sockets, Refuse(s) PROVE TypesInv'
<1>1. /\ s \in Actors /\ phase' = [phase EXCEPT ![s] = "refused"]
      /\ queue' = [queue EXCEPT ![s] = <<>>] /\ todo' = [todo EXCEPT ![s] = <<>>]
      /\ room' = room /\ view' = view /\ contested' = contested
  BY DEF Refuse, Actors, Then, Same
<1>2. phase' \in [Sockets -> Phases] /\ phase'[s] = "refused" /\ \A t \in Sockets \ {s} : phase'[t] = phase[t]
  BY <1>1 DEF TypesInv, PagesTyped, Phases
<1>3. queue' \in [Sockets -> Seq(Frames)] /\ queue'[s] = <<>> /\ \A t \in Sockets \ {s} : queue'[t] = queue[t]
  BY <1>1 DEF TypesInv, PagesTyped
<1>4. WorkTyped'
  <2>1. WorkOf(s, <<>>, Awaits(s)')
    BY WorkNone, AwaitsBoolean, Zenon
  <2> QED
    BY <1>1, <1>2, <2>1, WorkMoves DEF TypesInv
<1>5. PagesTyped'
  BY <1>1, <1>2, <1>3 DEF TypesInv, PagesTyped
<1> QED
  BY <1>1, <1>4, <1>5 DEF TypesInv, RoomTyped

LEMMA JoinTyped ==
    ASSUME FeedAssumption, TypesInv, NEW s \in Sockets, Join(s) PROVE TypesInv'
<1> DEFINE p == Owner[s]
           again == p \in Seated
           seat == IF again THEN [room.seats[p] EXCEPT !.conn = s, !.connected = TRUE]
                   ELSE NewSeat(s)
           event == IF again THEN Presence(p, TRUE) ELSE PlayerJoined(s)
<1>1. CASE Refuse(s)
  BY <1>1, RefuseTyped
<1>2. CASE /\ Change(s, {p}, [room EXCEPT !.seats = Seating(@, p, seat)])
           /\ Then(s, <<Do("read"), Publish(event)>>) /\ Elsewhere
  <2>1. s \in Actors /\ p \in Players /\ p \in Fields
    BY DEF FeedAssumption, Actors, Fields
  <2>2. seat \in Seats
    <3>1. again => room.seats[p] \in Seats
      BY RoomHas DEF TypesInv, RoomTyped, Seated
    <3>2. again => [room.seats[p] EXCEPT !.conn = s, !.connected = TRUE] \in Seats
      BY <3>1, SeatsChange
    <3>3. NewSeat(s) \in Seats
      BY NewSeatIs
    <3>4. CASE again
      <4>1. seat = [room.seats[p] EXCEPT !.conn = s, !.connected = TRUE]
        BY <3>4
      <4> QED
        BY <3>2, <3>4, <4>1
    <3>5. CASE ~again
      BY <3>3, <3>5
    <3> QED
      BY <3>4, <3>5
  <2>3. event \in Frames
    BY <2>1, FramesAre
  <2> HIDE DEF p, seat, event
  <2>4. contested' \subseteq Fields /\ room' = [room EXCEPT !.seats = Seating(@, p, seat)]
    BY <1>2, <2>1, ChangeTyped DEF TypesInv
  <2>5. RoomTyped'
    BY <2>1, <2>2, <2>4, RoomSeated DEF TypesInv, RoomTyped
  <2>6. Awaits(s)
    BY <2>1, WriterIs DEF Join, TypesInv
  <2>7. WorkOf(s, <<Do("read"), Publish(event)>>, Awaits(s))
    <3>1. /\ Do("read") \in Steps /\ Do("read").do = "read"
          /\ Publish(event) \in Steps /\ Publish(event).do = "publish"
      BY <2>3, StepsAre DEF Do, Publish
    <3>2. Publish(event).do \notin {"read", "record", "join"} /\ Publish(event).do # "send"
      BY <3>1
    <3> QED
      BY <2>6, <3>1, <3>2, AwaitsBoolean, WorkTwo, Zenon
  <2>8. todo' = [todo EXCEPT ![s] = <<Do("read"), Publish(event)>>] /\ Elsewhere
    BY <1>2 DEF Then
  <2> QED
    BY <2>1, <2>4, <2>5, <2>7, <2>8, WriterMoves DEF TypesInv
<1> QED
  BY <1>1, <1>2 DEF Join

LEMMA ReadSnapshotTyped ==
    ASSUME TypesInv, NEW s \in Sockets, ReadSnapshot(s)
    PROVE  /\ TypesInv'
           /\ room.state # "none" => todo' = [todo EXCEPT ![s] = <<todo[s][2], Send(Snapshot)>>]
<1>1. CASE Refuse(s) /\ room.state = "none"
  BY <1>1, RefuseTyped
<1>2. CASE /\ room.state # "none"
           /\ Then(s, Append(Tail(todo[s]), Send(Snapshot))) /\ Same /\ Elsewhere
  <2>1. s \in Actors /\ Doing(s, "read")
    BY DEF Actors, ReadSnapshot
  <2>2. Awaits(s) /\ Tail(todo[s]) = <<todo[s][2]>> /\ todo[s][2] \in Steps /\ todo[s][2].do = "publish"
    BY <2>1, WriterIs DEF TypesInv
  <2>3. Send(Snapshot) \in Steps /\ Send(Snapshot).do = "send"
    BY <1>2, SnapshotIs, StepsAre DEF Send, TypesInv
  <2>4. \A x, y : Append(<<x>>, y) = <<x, y>>
    BY AppendTwo
  <2>5. todo' = [todo EXCEPT ![s] = <<todo[s][2], Send(Snapshot)>>]
    BY <1>2, <2>2, <2>4 DEF Then
  <2>6. WorkOf(s, <<todo[s][2], Send(Snapshot)>>, Awaits(s))
    <3>1. Send(Snapshot).do \notin {"read", "record", "join"}
      BY <2>3
    <3> QED
      BY <2>2, <2>3, <3>1, AwaitsBoolean, WorkTwo, Zenon
  <2>7. room' = room /\ contested' \subseteq Fields
    BY <1>2 DEF Same, TypesInv, PagesTyped
  <2> QED
    BY <1>2, <2>1, <2>5, <2>6, <2>7, WriterMoves DEF TypesInv, RoomTyped
<1> QED
  BY <1>1, <1>2 DEF ReadSnapshot

(* The lists of steps the actions leave behind. *)
LEMMA WorksAre ==
    ASSUME NEW a, NEW waits \in BOOLEAN
    PROVE  /\ WorkOf(a, <<>>, waits)
           /\ \A f \in Frames :
                 /\ WorkOf(a, <<Publish(f)>>, waits)
                 /\ WorkOf(a, <<Publish(f), Do("check")>>, waits)
                 /\ \A gone \in SUBSET Players : WorkOf(a, <<Publish(f), Settle(gone)>>, waits)
           /\ WorkOf(a, <<Do("delete")>>, waits) /\ WorkOf(a, <<Do("fresh")>>, waits)
           /\ \A p, q \in Players : WorkOf(a, <<HandOff(p, q)>>, waits)
           /\ \A n \in 0..Length : WorkOf(a, <<SetTyped(n)>>, waits)
<1>1. WorkOf(a, <<>>, waits)
  BY WorkNone
<1>2. ASSUME NEW x \in Steps, x.do \notin {"read", "record"}, x.do \notin {"join", "send"}
      PROVE  WorkOf(a, <<x>>, waits)
  BY <1>2, WorkLast
<1>3. ASSUME NEW x \in Steps, NEW y \in Steps, x.do = "publish",
             y.do \notin {"read", "record", "join"}, y.do # "send"
      PROVE  WorkOf(a, <<x, y>>, waits)
  BY <1>3, WorkTwo
<1>4. ASSUME NEW f \in Frames
      PROVE  /\ WorkOf(a, <<Publish(f)>>, waits)
             /\ WorkOf(a, <<Publish(f), Do("check")>>, waits)
             /\ \A gone \in SUBSET Players : WorkOf(a, <<Publish(f), Settle(gone)>>, waits)
  <2>1. Publish(f) \in Steps /\ Publish(f).do = "publish"
    BY StepsAre DEF Publish
  <2>2. Do("check") \in Steps /\ Do("check").do = "check"
    BY StepsAre DEF Do
  <2>3. \A gone \in SUBSET Players : Settle(gone) \in Steps /\ Settle(gone).do = "settle"
    BY StepsAre DEF Settle
  <2> QED
    BY <1>2, <1>3, <2>1, <2>2, <2>3
<1>5. WorkOf(a, <<Do("delete")>>, waits) /\ WorkOf(a, <<Do("fresh")>>, waits)
  <2>1. /\ Do("delete") \in Steps /\ Do("delete").do = "delete"
        /\ Do("fresh") \in Steps /\ Do("fresh").do = "fresh"
    BY StepsAre DEF Do
  <2> QED
    BY <1>2, <2>1
<1>6. ASSUME NEW p \in Players, NEW q \in Players PROVE WorkOf(a, <<HandOff(p, q)>>, waits)
  <2>1. HandOff(p, q) \in Steps /\ HandOff(p, q).do = "handoff"
    BY StepsAre DEF HandOff
  <2> QED
    BY <1>2, <2>1
<1>7. ASSUME NEW n \in 0..Length PROVE WorkOf(a, <<SetTyped(n)>>, waits)
  <2>1. SetTyped(n) \in Steps /\ SetTyped(n).do = "typed"
    BY StepsAre DEF SetTyped
  <2> QED
    BY <1>2, <2>1
<1> QED
  BY <1>1, <1>4, <1>5, <1>6, <1>7

LEMMA Joined ==
    /\ \A x : <<x>> \o <<>> = <<x>>
    /\ \A S : \A q \in Seq(S) : <<>> \o q = q
<1>1. ASSUME NEW x PROVE <<x>> \o <<>> = <<x>>
  <2> DEFINE t == <<x>> \o <<>>
  <2>1. <<x>> \in Seq({x}) /\ <<>> \in Seq({x})
    OBVIOUS
  <2>2. t \in Seq({x}) /\ Len(t) = 1 /\ t[1] = x
    BY <2>1
  <2> HIDE DEF t
  <2>3. t = <<t[1]>>
    BY <2>2, SingleIs
  <2> QED
    BY <2>2, <2>3 DEF t
<1>2. ASSUME NEW S, NEW q \in Seq(S) PROVE <<>> \o q = q
  OBVIOUS
<1> QED
  BY <1>1, <1>2

(* A step of one writer that changes the room and leaves the pages.         *)
LEMMA WriterTyped ==
    ASSUME TypesInv, Elsewhere, contested' \subseteq Fields, RoomOf(room'),
           NEW a \in Actors, NEW q, todo' = [todo EXCEPT ![a] = q], WorkOf(a, q, Awaits(a))
    PROVE  TypesInv'
BY WriterMoves DEF TypesInv, RoomTyped

LEMMA SameTyped ==
    ASSUME TypesInv, Same, Elsewhere,
           NEW a \in Actors, NEW q, todo' = [todo EXCEPT ![a] = q], WorkOf(a, q, Awaits(a))
    PROVE  TypesInv'
<1>1. room' = room /\ contested' \subseteq Fields /\ RoomOf(room)
  BY DEF Same, TypesInv, PagesTyped, RoomTyped
<1> QED
  BY <1>1, WriterTyped

LEMMA ChangeWriterTyped ==
    ASSUME TypesInv, Elsewhere, NEW a \in Actors, NEW fields \in SUBSET Fields, NEW r,
           Change(a, fields, r), RoomOf(r),
           NEW q, todo' = [todo EXCEPT ![a] = q], WorkOf(a, q, Awaits(a))
    PROVE  TypesInv'
<1>1. contested' \subseteq Fields /\ room' = r
  BY ChangeTyped DEF TypesInv
<1> QED
  BY <1>1, WriterTyped

LEMMA SendSnapshotTyped ==
    ASSUME FeedAssumption, TypesInv, NEW s \in Sockets, SendSnapshot(s)
    PROVE  /\ TypesInv' /\ todo[s] = <<Step(s)>> /\ Awaits(s)
           /\ \A w \in View : Reduced(ReduceRoom(w, Step(s).frame), queue[s]) \in View
<1>1. /\ s \in Actors /\ Doing(s, "send") /\ Owner[s] \in Players
      /\ view' = [view EXCEPT ![Owner[s]] = Reduced(ReduceRoom(@, Step(s).frame), queue[s])]
      /\ phase' = [phase EXCEPT ![s] = "live"] /\ queue' = [queue EXCEPT ![s] = <<>>]
      /\ todo' = [todo EXCEPT ![s] = <<>>] /\ room' = room /\ contested' = contested
  BY DEF SendSnapshot, Actors, Then, Same, FeedAssumption
<1>2. todo[s] = <<Step(s)>> /\ Awaits(s) /\ Step(s) \in Steps /\ Step(s).do = "send"
  BY <1>1, WriterIs DEF TypesInv
<1>3. Step(s).frame \in Frames /\ queue[s] \in Seq(Frames)
  BY <1>2, StepHas, FramesAre DEF TypesInv, PagesTyped
<1>4. ASSUME NEW w \in View PROVE Reduced(ReduceRoom(w, Step(s).frame), queue[s]) \in View
  BY <1>3, ReduceEffect, ReducedView DEF Effect
<1>5. phase' \in [Sockets -> Phases] /\ phase'[s] = "live" /\ \A t \in Sockets \ {s} : phase'[t] = phase[t]
  BY <1>1 DEF TypesInv, PagesTyped, Phases
<1>6. queue' \in [Sockets -> Seq(Frames)] /\ queue'[s] = <<>> /\ \A t \in Sockets \ {s} : queue'[t] = queue[t]
  BY <1>1 DEF TypesInv, PagesTyped
<1>7. view' \in [Players -> View]
  <2>1. view \in [Players -> View] /\ view[Owner[s]] \in View
    BY <1>1 DEF TypesInv, PagesTyped
  <2>2. Reduced(ReduceRoom(view[Owner[s]], Step(s).frame), queue[s]) \in View
    BY <1>4, <2>1
  <2> QED
    BY <1>1, <2>1, <2>2
<1>8. WorkTyped'
  <2>1. WorkOf(s, <<>>, Awaits(s)')
    BY WorkNone, AwaitsBoolean, Zenon
  <2> QED
    BY <1>1, <1>5, <2>1, WorkMoves DEF TypesInv
<1>9. PagesTyped'
  BY <1>1, <1>5, <1>6, <1>7 DEF TypesInv, PagesTyped
<1> QED
  BY <1>1, <1>2, <1>4, <1>8, <1>9 DEF TypesInv, RoomTyped

LEMMA DropTyped ==
    ASSUME TypesInv, NEW s \in Sockets, Drop(s) PROVE TypesInv'
<1>1. /\ s \in Actors /\ phase[s] = "live" /\ phase' = [phase EXCEPT ![s] = "lost"]
      /\ room' = room /\ contested' = contested /\ todo' = todo /\ queue' = queue /\ view' = view
  BY DEF Drop, Actors, Same
<1>2. phase' \in [Sockets -> Phases] /\ phase'[s] = "lost" /\ \A t \in Sockets \ {s} : phase'[t] = phase[t]
  BY <1>1 DEF TypesInv, PagesTyped, Phases
<1>3. ASSUME NEW b \in Actors PROVE WorkOf(b, todo[b], Awaits(b)')
  <2>1. Awaits(b) => Awaits(b)'
    BY <1>1, <1>2 DEF Awaits
  <2> QED
    BY <2>1, WorkSame DEF TypesInv, WorkTyped
<1>4. WorkTyped'
  BY <1>1, <1>3 DEF TypesInv, WorkTyped
<1>5. PagesTyped'
  BY <1>1, <1>2 DEF TypesInv, PagesTyped
<1> QED
  BY <1>1, <1>4, <1>5 DEF TypesInv, RoomTyped

(* A socket whose handler ends, or whose player leaves.                     *)
LEMMA EndingTyped ==
    ASSUME TypesInv, NEW s \in Sockets, phase[s] # "open", NEW last \in {"closed", "left"},
           phase' = [phase EXCEPT ![s] = last], queue' = queue, view' = view,
           contested' \subseteq Fields, RoomOf(room'),
           NEW q, todo' = [todo EXCEPT ![s] = q], WorkOf(s, q, Awaits(s))
    PROVE  TypesInv'
<1>1. s \in Actors
  BY DEF Actors
<1>2. phase' \in [Sockets -> Phases] /\ phase'[s] = last /\ \A t \in Sockets \ {s} : phase'[t] = phase[t]
  BY DEF TypesInv, PagesTyped, Phases
<1>3. WorkOf(s, q, Awaits(s)')
  <2>1. Awaits(s) => Awaits(s)'
    BY DEF Awaits
  <2> QED
    BY <2>1, WorkSame
<1>4. WorkTyped'
  BY <1>1, <1>2, <1>3, WorkMoves DEF TypesInv
<1>5. PagesTyped'
  BY <1>2 DEF TypesInv, PagesTyped
<1> QED
  BY <1>4, <1>5 DEF TypesInv, RoomTyped

(* Writers and players. *)
LEMMA IdleIs ==
    ASSUME WorkTyped, NEW a \in Actors, ~Busy(a)
    PROVE  todo[a] = <<>> /\ todo = [todo EXCEPT ![a] = <<>>] /\ WorkOf(a, <<>>, Awaits(a))
<1>1. todo[a] = <<>>
  BY DEF Busy
<1>2. WorkOf(a, <<>>, Awaits(a))
  BY WorkNone, AwaitsBoolean, Zenon
<1>3. todo = [todo EXCEPT ![a] = <<>>]
  BY <1>1 DEF WorkTyped
<1> QED
  BY <1>1, <1>2, <1>3

LEMMA WorksHere ==
    ASSUME NEW a
    PROVE  /\ WorkOf(a, <<>>, Awaits(a))
           /\ \A f \in Frames :
                 /\ WorkOf(a, <<Publish(f)>>, Awaits(a))
                 /\ WorkOf(a, <<Publish(f), Do("check")>>, Awaits(a))
                 /\ \A gone \in SUBSET Players : WorkOf(a, <<Publish(f), Settle(gone)>>, Awaits(a))
           /\ WorkOf(a, <<Do("delete")>>, Awaits(a)) /\ WorkOf(a, <<Do("fresh")>>, Awaits(a))
           /\ \A p, q \in Players : WorkOf(a, <<HandOff(p, q)>>, Awaits(a))
           /\ \A n \in 0..Length : WorkOf(a, <<SetTyped(n)>>, Awaits(a))
BY AwaitsBoolean, WorksAre, Zenon

LEMMA OwnerIs == ASSUME FeedAssumption, NEW s \in Sockets
                 PROVE s \in Actors /\ Owner[s] \in Players /\ Owner[s] \in Fields
BY DEF FeedAssumption, Actors, Fields

LEMMA SeatIn ==
    ASSUME RoomTyped, NEW p \in Seated PROVE p \in Players /\ p \in Fields /\ room.seats[p] \in Seats
BY RoomHas DEF RoomTyped, Seated, Fields

(* The record, one seat of it changed. *)
LEMMA DisconnectedRoom ==
    ASSUME RoomTyped, NEW p \in Seated
    PROVE  \A r : r = [room EXCEPT !.seats[p].connected = FALSE] =>
              /\ RoomOf(r) /\ r.state = room.state /\ r.host = room.host
              /\ DOMAIN r.seats = Seated
              /\ \A q \in Seated : r.seats[q] = IF q = p THEN [room.seats[p] EXCEPT !.connected = FALSE] ELSE room.seats[q]
<1> DEFINE seat == [room.seats[p] EXCEPT !.connected = FALSE]
<1>1. \A r : r = [room EXCEPT !.seats[p].connected = FALSE] => r = [room EXCEPT !.seats = [room.seats EXCEPT ![p] = seat]]
  OBVIOUS
<1>2. seat \in Seats
  BY SeatIn, SeatsChange
<1> HIDE DEF seat
<1>3. RoomOf(room) /\ p \in DOMAIN room.seats
  BY DEF RoomTyped, Seated
<1>4. ASSUME NEW r, r = [room EXCEPT !.seats = [room.seats EXCEPT ![p] = seat]]
      PROVE  /\ RoomOf(r) /\ r.state = room.state /\ r.host = room.host
             /\ DOMAIN r.seats = DOMAIN room.seats
             /\ \A q \in DOMAIN r.seats : r.seats[q] = IF q = p THEN seat ELSE room.seats[q]
  BY <1>2, <1>3, <1>4, RoomPatched
<1> QED
  BY <1>1, <1>4, Zenon DEF Seated, seat

LEMMA TypedRoom ==
    ASSUME NEW n \in 0..Length, RoomTyped, NEW p \in Seated
    PROVE  \A r : r = [room EXCEPT !.seats[p].typed = n] =>
              /\ RoomOf(r) /\ r.state = room.state /\ r.host = room.host
              /\ DOMAIN r.seats = Seated
              /\ \A q \in Seated : r.seats[q] = IF q = p THEN [room.seats[p] EXCEPT !.typed = n] ELSE room.seats[q]
<1> DEFINE seat == [room.seats[p] EXCEPT !.typed = n]
<1>1. \A r : r = [room EXCEPT !.seats[p].typed = n] => r = [room EXCEPT !.seats = [room.seats EXCEPT ![p] = seat]]
  OBVIOUS
<1>2. seat \in Seats
  BY SeatIn, SeatsChange
<1> HIDE DEF seat
<1>3. RoomOf(room) /\ p \in DOMAIN room.seats
  BY DEF RoomTyped, Seated
<1>4. ASSUME NEW r, r = [room EXCEPT !.seats = [room.seats EXCEPT ![p] = seat]]
      PROVE  /\ RoomOf(r) /\ r.state = room.state /\ r.host = room.host
             /\ DOMAIN r.seats = DOMAIN room.seats
             /\ \A q \in DOMAIN r.seats : r.seats[q] = IF q = p THEN seat ELSE room.seats[q]
  BY <1>2, <1>3, <1>4, RoomPatched
<1> QED
  BY <1>1, <1>4, Zenon DEF Seated, seat

LEMMA FinishedRoom ==
    ASSUME FeedAssumption, RoomTyped, NEW p \in Seated
    PROVE  \A r : r = [room EXCEPT !.seats[p] = [@ EXCEPT !.finished = TRUE, !.typed = Length]] =>
              /\ RoomOf(r) /\ r.state = room.state /\ r.host = room.host
              /\ DOMAIN r.seats = Seated
              /\ \A q \in Seated : r.seats[q] = IF q = p THEN [room.seats[p] EXCEPT !.finished = TRUE, !.typed = Length] ELSE room.seats[q]
<1> DEFINE seat == [room.seats[p] EXCEPT !.finished = TRUE, !.typed = Length]
<1>1. \A r : r = [room EXCEPT !.seats[p] = [@ EXCEPT !.finished = TRUE, !.typed = Length]] => r = [room EXCEPT !.seats = [room.seats EXCEPT ![p] = seat]]
  OBVIOUS
<1>2. seat \in Seats
  <2>1. Length \in 0..Length /\ room.seats[p] \in Seats
    BY SeatIn DEF FeedAssumption
  <2> QED
    BY <2>1, SeatsChange
<1> HIDE DEF seat
<1>3. RoomOf(room) /\ p \in DOMAIN room.seats
  BY DEF RoomTyped, Seated
<1>4. ASSUME NEW r, r = [room EXCEPT !.seats = [room.seats EXCEPT ![p] = seat]]
      PROVE  /\ RoomOf(r) /\ r.state = room.state /\ r.host = room.host
             /\ DOMAIN r.seats = DOMAIN room.seats
             /\ \A q \in DOMAIN r.seats : r.seats[q] = IF q = p THEN seat ELSE room.seats[q]
  BY <1>2, <1>3, <1>4, RoomPatched
<1> QED
  BY <1>1, <1>4, Zenon DEF Seated, seat

LEMMA MarkDisconnectedTyped ==
    ASSUME FeedAssumption, TypesInv, NEW s \in Sockets, MarkDisconnected(s) PROVE TypesInv'
<1> DEFINE p == Owner[s]
           f == Presence(p, FALSE)
<1>1. s \in Actors /\ p \in Players /\ p \in Fields /\ f \in Frames
  BY OwnerIs, FramesAre
<1>2. /\ phase[s] = "lost" /\ phase' = [phase EXCEPT ![s] = "closed"] /\ queue' = queue
      /\ view' = view /\ ~Busy(s)
  BY DEF MarkDisconnected, Idle
<1>3. CASE p \in Seated /\ room.seats[p].conn = s
  <2>1. /\ Change(s, {p}, [room EXCEPT !.seats[p].connected = FALSE])
        /\ todo' = [todo EXCEPT ![s] = <<Publish(f), Do("check")>>]
    BY <1>3 DEF MarkDisconnected, Then
  <2>2. contested' \subseteq Fields /\ room' = [room EXCEPT !.seats[p].connected = FALSE]
    BY <1>1, <2>1, ChangeTyped DEF TypesInv
  <2>3. RoomOf(room')
    BY <1>3, <2>2, DisconnectedRoom DEF TypesInv
  <2>4. WorkOf(s, <<Publish(f), Do("check")>>, Awaits(s))
    BY <1>1, WorksHere
  <2> QED
    BY <1>2, <2>1, <2>2, <2>3, <2>4, EndingTyped
<1>4. CASE ~(p \in Seated /\ room.seats[p].conn = s)
  <2>1. room' = room /\ contested' = contested /\ todo' = todo
    BY <1>4 DEF MarkDisconnected, Same
  <2>2. todo' = [todo EXCEPT ![s] = <<>>] /\ WorkOf(s, <<>>, Awaits(s))
    BY <1>1, <1>2, <2>1, IdleIs DEF TypesInv
  <2>3. contested' \subseteq Fields /\ RoomOf(room')
    BY <2>1 DEF TypesInv, PagesTyped, RoomTyped
  <2> QED
    BY <1>2, <2>2, <2>3, EndingTyped
<1> QED
  BY <1>3, <1>4

LEMMA LeaveTyped ==
    ASSUME FeedAssumption, TypesInv, NEW s \in Sockets, Leave(s) PROVE TypesInv'
<1> DEFINE p == Owner[s]
           f == PlayerLeft(p)
<1>1. s \in Actors /\ p \in Players /\ p \in Fields /\ f \in Frames
  BY OwnerIs, FramesAre
<1>2. /\ phase[s] = "live" /\ phase' = [phase EXCEPT ![s] = "left"] /\ queue' = queue
      /\ view' = view /\ ~Busy(s)
  BY DEF Leave, Ready, Idle
<1>3. CASE p \in Seated
  <2>1. /\ Change(s, {p}, [room EXCEPT !.seats = Without(@, {p})])
        /\ todo' = [todo EXCEPT ![s] = <<Publish(f), Settle({p})>>]
    BY <1>3 DEF Leave, Then
  <2>2. contested' \subseteq Fields /\ room' = [room EXCEPT !.seats = Without(@, {p})]
    BY <1>1, <2>1, ChangeTyped DEF TypesInv
  <2>3. RoomOf(room')
    BY <2>2, RoomWithout DEF TypesInv, RoomTyped
  <2>4. WorkOf(s, <<Publish(f), Settle({p})>>, Awaits(s))
    BY <1>1, WorksHere
  <2> QED
    BY <1>2, <2>1, <2>2, <2>3, <2>4, EndingTyped
<1>4. CASE p \notin Seated
  <2>1. room' = room /\ contested' = contested /\ todo' = todo
    BY <1>4 DEF Leave, Same
  <2>2. todo' = [todo EXCEPT ![s] = <<>>] /\ WorkOf(s, <<>>, Awaits(s))
    BY <1>1, <1>2, <2>1, IdleIs DEF TypesInv
  <2>3. contested' \subseteq Fields /\ RoomOf(room')
    BY <2>1 DEF TypesInv, PagesTyped, RoomTyped
  <2> QED
    BY <1>2, <2>2, <2>3, EndingTyped
<1> QED
  BY <1>3, <1>4

(* An announcement reaches the pages and queues of the room.                *)
LEMMA AnnounceTyped ==
    ASSUME FeedAssumption, TypesInv, NEW a \in Actors, Announce(a)
    PROVE  /\ TypesInv' /\ Step(a) = todo[a][1] /\ Step(a).do = "publish"
           /\ Step(a).frame \in Frames /\ todo' = [todo EXCEPT ![a] = Tail(todo[a])]
<1> DEFINE f == Step(a).frame
           told == {Owner[s] : s \in {t \in Sockets : phase[t] = "live"}}
<1>1. /\ Doing(a, "publish")
      /\ view' = [p \in Players |-> IF p \in told THEN ReduceRoom(view[p], f) ELSE view[p]]
      /\ queue' = [s \in Sockets |-> IF Waits(s) THEN Append(queue[s], f) ELSE queue[s]]
      /\ todo' = [todo EXCEPT ![a] = <<>> \o Tail(todo[a])]
      /\ room' = room /\ contested' = contested /\ phase' = phase
  BY DEF Announce, Carry, Then, Same
<1>2. /\ todo[a] # <<>> /\ WorkOf(a, todo[a], Awaits(a)) /\ todo[a] \in Seq(Steps)
      /\ Step(a) = todo[a][1] /\ Step(a) \in Steps /\ Step(a).do = "publish"
  BY <1>1, WriterIs DEF TypesInv
<1>3. f \in Frames
  BY <1>2, StepHas
<1>4. WorkOf(a, Tail(todo[a]), Awaits(a))
  BY <1>2, WorkTail, AwaitsBoolean
<1>5. todo' = [todo EXCEPT ![a] = Tail(todo[a])]
  <2>1. Tail(todo[a]) \in Seq(Steps)
    BY <1>4 DEF WorkOf
  <2> QED
    BY <1>1, <2>1, Joined
<1> HIDE DEF f
<1>6. WorkTyped'
  <2>1. WorkOf(a, Tail(todo[a]), Awaits(a)')
    BY <1>1, <1>4, WorkSame DEF Awaits
  <2> QED
    BY <1>1, <1>5, <2>1, WorkMoves DEF TypesInv
<1>7. view' \in [Players -> View]
  <2>1. \A p \in Players : view[p] \in View /\ ReduceRoom(view[p], f) \in View
    BY <1>3, ReduceEffect DEF Effect, TypesInv, PagesTyped
  <2> QED
    BY <1>1, <2>1
<1>8. queue' \in [Sockets -> Seq(Frames)] /\ \A s \in Sockets : phase'[s] # "open" => queue'[s] = <<>>
  <2>1. \A s \in Sockets : queue[s] \in Seq(Frames) /\ Append(queue[s], f) \in Seq(Frames)
                           /\ (phase[s] # "open" => queue[s] = <<>>)
    BY <1>3 DEF TypesInv, PagesTyped
  <2> QED
    BY <1>1, <2>1 DEF Waits
<1>9. PagesTyped'
  BY <1>1, <1>7, <1>8 DEF TypesInv, PagesTyped
<1> QED
  BY <1>1, <1>2, <1>3, <1>5, <1>6, <1>9 DEF TypesInv, RoomTyped, f

(* The players swept away, one announcement each.                           *)
LEMMA Listed ==
    ASSUME NEW S, IsFiniteSet(S)
    PROVE  /\ Cardinality(S) \in Nat /\ SetToSeq(S) \in [1..Cardinality(S) -> S]
           /\ \A x \in S : \E i \in 1..Cardinality(S) : SetToSeq(S)[i] = x
<1> DEFINE n == Cardinality(S)
           f == SetToSeq(S)
<1>1. n \in Nat /\ ExistsBijection(1..n, S)
  BY FS_CardinalityType
<1>2. \E g \in [1..n -> S] : IsInjective(g)
  BY <1>1 DEF ExistsBijection, Bijection, Injection
<1>3. f \in [1..n -> S] /\ IsInjective(f)
  BY <1>2 DEF SetToSeq
<1>4. f \in Injection(1..n, S)
  BY <1>3 DEF Injection
<1>5. Cardinality(1..n) = n
  BY <1>1, FS_Interval
<1> HIDE DEF f
<1>6. f \in Surjection(1..n, S)
  BY <1>4, <1>5, FS_Injection
<1>7. \A x \in S : \E i \in 1..n : f[i] = x
  BY <1>6 DEF Surjection
<1> QED
  BY <1>1, <1>3, <1>7 DEF f

LEMMA WorkMany ==
    ASSUME NEW a, NEW waits \in BOOLEAN, NEW news \in Seq(Steps),
           \A i \in DOMAIN news : news[i].do = "publish",
           NEW x \in Steps, x.do \notin {"publish", "read", "record", "join", "send"}
    PROVE  /\ WorkOf(a, Append(news, x), waits)
           /\ DOMAIN Append(news, x) = 1..Len(news) + 1
           /\ \A i \in 1..Len(news) : Append(news, x)[i] = news[i]
           /\ Append(news, x)[Len(news) + 1] = x
<1> DEFINE q == Append(news, x)
<1>1. Len(news) \in Nat /\ DOMAIN news = 1..Len(news)
  OBVIOUS
<1>2. q \in Seq(Steps) /\ Len(q) = Len(news) + 1
  OBVIOUS
<1>3. DOMAIN q = 1..Len(news) + 1
  BY <1>1, <1>2
<1>4. (\A i \in 1..Len(news) : q[i] = news[i]) /\ q[Len(news) + 1] = x
  BY <1>1
<1> HIDE DEF q
<1>5. \A i \in DOMAIN q : (i \in 1..Len(news) /\ q[i].do = "publish") \/ (i = Len(q) /\ q[i] = x)
  BY <1>1, <1>2, <1>3, <1>4
<1>6. WorkOf(a, q, waits)
  BY <1>2, <1>5 DEF WorkOf, Orderly
<1> QED
  BY <1>3, <1>4, <1>6 DEF q

LEMMA LongAs == ASSUME NEW S, NEW n \in Nat, NEW f \in [1..n -> S] PROVE f \in Seq(S) /\ Len(f) = n
OBVIOUS

Farewell(gone) ==
    [i \in 1..Cardinality(gone) |-> Publish(PlayerLeft(SetToSeq(gone)[i]))]

LEMMA Farewells ==
    ASSUME FeedAssumption, NEW gone \in SUBSET Players, NEW news, news = Farewell(gone)
    PROVE  /\ news \in Seq(Steps) /\ DOMAIN news = 1..Len(news)
           /\ \A i \in DOMAIN news : /\ news[i].do = "publish"
                                     /\ \E p \in gone : news[i] = Publish(PlayerLeft(p))
           /\ \A p \in gone : \E i \in DOMAIN news : news[i] = Publish(PlayerLeft(p))
<1>1. IsFiniteSet(gone)
  BY FS_Subset DEF FeedAssumption
<1> DEFINE n == Cardinality(gone)
           f == SetToSeq(gone)
<1>2. n \in Nat /\ f \in [1..n -> gone] /\ \A x \in gone : \E i \in 1..n : f[i] = x
  BY <1>1, Listed
<1>3. news = [i \in 1..n |-> Publish(PlayerLeft(f[i]))]
  BY DEF Farewell
<1> HIDE DEF n, f
<1>4. \A p \in gone : Publish(PlayerLeft(p)) \in Steps /\ Publish(PlayerLeft(p)).do = "publish"
  BY FramesAre, StepsAre DEF Publish
<1>5. DOMAIN news = 1..n /\ \A i \in 1..n : news[i] = Publish(PlayerLeft(f[i])) /\ f[i] \in gone
  BY <1>2, <1>3
<1>6. news \in [1..n -> Steps]
  <2>1. \A i \in 1..n : news[i] \in Steps
    BY <1>4, <1>5
  <2> QED
    BY <1>3, <1>5, <2>1
<1>7. news \in Seq(Steps) /\ Len(news) = n
  BY <1>2, <1>6, LongAs
<1>8. \A i \in DOMAIN news : /\ news[i].do = "publish"
                             /\ \E p \in gone : news[i] = Publish(PlayerLeft(p))
  BY <1>4, <1>5
<1>9. \A p \in gone : \E i \in DOMAIN news : news[i] = Publish(PlayerLeft(p))
  BY <1>2, <1>5
<1> QED
  BY <1>5, <1>7, <1>8, <1>9

LEMMA SweepIs ==
    ASSUME FeedAssumption, TypesInv, NEW c \in Clocks, Sweep(c)
    PROVE  \E gone \in SUBSET Seated :
              /\ gone \in SUBSET Players /\ gone \in SUBSET Fields /\ ~Busy(c)
              /\ room.state \in {"lobby", "finished"}
              /\ Change(c, gone, [room EXCEPT !.seats = Without(@, gone)])
              /\ todo' = [todo EXCEPT ![c] = Append(Farewell(gone), Settle(gone))]
              /\ Elsewhere
<1>1. PICK gone \in SUBSET {p \in Seated : ~room.seats[p].connected} \ {{}} :
        LET news == [i \in 1..Cardinality(gone) |-> Publish(PlayerLeft(SetToSeq(gone)[i]))] IN
        /\ Idle(c) /\ room.state \in {"lobby", "finished"}
        /\ Change(c, gone, [room EXCEPT !.seats = Without(@, gone)])
        /\ Then(c, Append(news, Settle(gone)))
        /\ Elsewhere
  BY DEF Sweep
<1>2. gone \in SUBSET Seated
  OBVIOUS
<1>3. gone \in SUBSET Players /\ gone \in SUBSET Fields
  BY <1>2, SeatIn DEF TypesInv
<1>4. todo' = [todo EXCEPT ![c] = Append(Farewell(gone), Settle(gone))]
  BY <1>1 DEF Then, Farewell
<1> QED
  BY <1>1, <1>2, <1>3, <1>4 DEF Idle

LEMMA SweepTyped ==
    ASSUME FeedAssumption, TypesInv, NEW c \in Clocks, Sweep(c) PROVE TypesInv'
<1> PICK gone \in SUBSET Seated :
       /\ gone \in SUBSET Players /\ gone \in SUBSET Fields
       /\ Change(c, gone, [room EXCEPT !.seats = Without(@, gone)])
       /\ todo' = [todo EXCEPT ![c] = Append(Farewell(gone), Settle(gone))]
       /\ Elsewhere
  BY SweepIs
<1>2. c \in Actors
  BY DEF Actors
<1>3. Farewell(gone) \in Seq(Steps) /\ \A i \in DOMAIN Farewell(gone) : Farewell(gone)[i].do = "publish"
  BY Farewells
<1>4. Settle(gone) \in Steps /\ Settle(gone).do = "settle"
  BY StepsAre DEF Settle
<1>5. WorkOf(c, Append(Farewell(gone), Settle(gone)), Awaits(c))
  <2>1. Settle(gone).do \notin {"publish", "read", "record", "join", "send"}
    BY <1>4
  <2>2. Awaits(c) \in BOOLEAN
    BY AwaitsBoolean
  <2> QED
    BY <1>3, <1>4, <2>1, <2>2, WorkMany
<1>6. RoomOf([room EXCEPT !.seats = Without(@, gone)])
  BY RoomWithout DEF TypesInv, RoomTyped
<1> QED
  BY <1>2, <1>5, <1>6, ChangeWriterTyped

(* After a removal: the room is deleted, handed over, or left as it is. *)
LEMMA AfterRemovalTyped ==
    ASSUME TypesInv, NEW a \in Actors, AfterRemoval(a)
    PROVE  /\ TypesInv' /\ Same /\ Elsewhere
           /\ \E q : /\ todo' = [todo EXCEPT ![a] = q]
                     /\ q = <<>> \/ q = <<Do("delete")>>
                        \/ \E from, to \in Players : q = <<HandOff(from, to)>>
<1>1. \E q : /\ todo' = [todo EXCEPT ![a] = q]
             /\ q = <<>> \/ q = <<Do("delete")>> \/ \E from, to \in Players : q = <<HandOff(from, to)>>
  <2>1. room.host \in Players /\ \A p \in Seated : p \in Players
    BY RoomHas, SeatIn DEF TypesInv, RoomTyped
  <2> QED
    BY <2>1 DEF AfterRemoval, Then
<1>2. Same /\ Elsewhere
  BY DEF AfterRemoval
<1>3. PICK q : /\ todo' = [todo EXCEPT ![a] = q]
               /\ q = <<>> \/ q = <<Do("delete")>>
                  \/ \E from, to \in Players : q = <<HandOff(from, to)>>
  BY <1>1
<1>4. WorkOf(a, q, Awaits(a))
  BY <1>3, WorksHere
<1> QED
  BY <1>1, <1>2, <1>3, <1>4, SameTyped

LEMMA DeleteRoomTyped ==
    ASSUME TypesInv, NEW a \in Actors, DeleteRoom(a)
    PROVE  TypesInv' /\ room'.state = "none"
<1> DEFINE r == [room EXCEPT !.state = "none", !.seats = Without(@, Seated)]
<1>1. Change(a, Fields, r) /\ todo' = [todo EXCEPT ![a] = <<>>] /\ Elsewhere
  BY DEF DeleteRoom, Then
<1>2. RoomOf(r)
  BY RoomDeleted DEF TypesInv, RoomTyped
<1>5. r.state = "none"
  BY DEF TypesInv, RoomTyped, RoomOf, Rooms
<1>3. room' = r
  BY <1>1 DEF Change
<1> HIDE DEF r
<1>4. WorkOf(a, <<>>, Awaits(a))
  BY WorksHere
<1> QED
  BY <1>1, <1>2, <1>3, <1>4, <1>5, ChangeWriterTyped

LEMMA HandOverTyped ==
    ASSUME TypesInv, NEW a \in Actors, HandOver(a)
    PROVE  /\ TypesInv' /\ Step(a).to \in Players
           /\ todo' = [todo EXCEPT ![a] =
                 IF room.host = Step(a).from /\ room.state # "none"
                 THEN <<Publish(HostChanged(Step(a).to))>> ELSE <<>>]
<1> DEFINE to == Step(a).to
           f == HostChanged(to)
           r == [room EXCEPT !.host = to]
<1>1. Doing(a, "handoff") /\ Elsewhere
  BY DEF HandOver
<1>2. Tail(todo[a]) = <<>> /\ Step(a) \in Steps /\ Step(a).do = "handoff"
  BY <1>1, WriterIs DEF TypesInv
<1>3. to \in Players /\ f \in Frames
  BY <1>2, StepHas, FramesAre
<1>4. <<Publish(f)>> \o Tail(todo[a]) = <<Publish(f)>> /\ <<>> \o Tail(todo[a]) = <<>>
  <2>1. <<>> \in Seq(Steps)
    OBVIOUS
  <2> QED
    BY <1>2, <2>1, Joined
<1>5. CASE room.host = Step(a).from /\ room.state # "none"
  <2>1. Change(a, {"host"}, r) /\ todo' = [todo EXCEPT ![a] = <<Publish(f)>>]
    BY <1>4, <1>5 DEF HandOver, Carry, Then
  <2>2. RoomOf(r)
    BY <1>3, RoomHosted DEF TypesInv, RoomTyped
  <2>3. WorkOf(a, <<Publish(f)>>, Awaits(a)) /\ {"host"} \in SUBSET Fields
    BY <1>3, WorksHere DEF Fields
  <2> HIDE DEF r
  <2>4. TypesInv'
    BY <1>1, <2>1, <2>2, <2>3, ChangeWriterTyped
  <2> QED
    BY <1>3, <1>5, <2>1, <2>4
<1>6. CASE ~(room.host = Step(a).from /\ room.state # "none")
  <2>1. Same /\ todo' = [todo EXCEPT ![a] = <<>>]
    BY <1>4, <1>6 DEF HandOver, Carry, Then
  <2>2. TypesInv'
    BY <1>1, <2>1, SameTyped, WorksHere
  <2> QED
    BY <1>3, <1>6, <2>1, <2>2
<1> QED
  BY <1>5, <1>6

(* The race: started, run, finished. *)
LEMMA SeatedFields ==
    ASSUME TypesInv PROVE Seated \cup {"state"} \in SUBSET Fields /\ {"state"} \in SUBSET Fields
BY SeatIn DEF TypesInv, Fields

LEMMA StartTyped ==
    ASSUME FeedAssumption, TypesInv, NEW s \in Sockets, Start(s) PROVE TypesInv'
<1> DEFINE f == Plain("countdown")
<1>1. /\ room.state = "lobby" /\ room.race < MaxRaces /\ Elsewhere
      /\ Change(s, Seated \cup {"state"}, [room EXCEPT !.state = "countdown", !.seats = Reset(@)])
      /\ todo' = [todo EXCEPT ![s] = <<Publish(f)>>]
  BY DEF Start, Then
<1>2. RoomOf([room EXCEPT !.state = "countdown", !.seats = Reset(@)])
  <2>1. RoomOf(room) /\ "countdown" \in States
    BY DEF TypesInv, RoomTyped, States
  <2> QED
    BY <1>1, <2>1, RoomReset
<1>3. WorkOf(s, <<Publish(f)>>, Awaits(s)) /\ s \in Actors
  BY FramesAre, WorksHere DEF Actors
<1> QED
  BY <1>1, <1>2, <1>3, SeatedFields, ChangeWriterTyped

LEMMA GoTyped ==
    ASSUME FeedAssumption, TypesInv, NEW c \in Clocks, Go(c) PROVE TypesInv'
<1> DEFINE f == Plain("started")
<1>1. /\ room.state = "countdown" /\ Elsewhere
      /\ Change(c, {"state"}, [room EXCEPT !.state = "running", !.race = room.race + 1])
      /\ todo' = [todo EXCEPT ![c] = <<Publish(f)>>]
  BY DEF Go, Then
<1>2. RoomOf([room EXCEPT !.state = "running", !.race = room.race + 1])
  <2>1. RoomOf(room) /\ "running" \in States /\ room.race \in 0..MaxRaces /\ room.race < MaxRaces
    BY <1>1, RoomHas DEF TypesInv, RoomTyped, States
  <2>2. room.race + 1 \in 0..MaxRaces
    BY <2>1 DEF FeedAssumption
  <2> QED
    BY <2>1, <2>2, RoomMoved
<1>3. WorkOf(c, <<Publish(f)>>, Awaits(c)) /\ c \in Actors
  BY FramesAre, WorksHere DEF Actors
<1> QED
  BY <1>1, <1>2, <1>3, SeatedFields, ChangeWriterTyped

LEMMA EndTyped ==
    ASSUME FeedAssumption, TypesInv, NEW a \in Actors, End(a), Elsewhere PROVE TypesInv'
<1> DEFINE f == Plain("race_over")
<1>1. /\ Change(a, {"state"}, [room EXCEPT !.state = "finished"])
      /\ todo' = [todo EXCEPT ![a] = <<Publish(f)>>]
  BY DEF End, Then
<1>2. RoomOf([room EXCEPT !.state = "finished"])
  <2>1. RoomOf(room) /\ "finished" \in States /\ room.race \in 0..MaxRaces
    BY RoomHas DEF TypesInv, RoomTyped, States
  <2> QED
    BY <2>1, RoomMoved
<1>3. WorkOf(a, <<Publish(f)>>, Awaits(a))
  BY FramesAre, WorksHere
<1> QED
  BY <1>1, <1>2, <1>3, SeatedFields, ChangeWriterTyped

LEMMA MaybeEndRaceTyped ==
    ASSUME FeedAssumption, TypesInv, NEW a \in Actors, MaybeEndRace(a) PROVE TypesInv'
<1>1. CASE End(a) /\ Elsewhere
  BY <1>1, EndTyped
<1>2. CASE Then(a, <<>>) /\ Same /\ Elsewhere
  BY <1>2, SameTyped, WorksHere DEF Then
<1> QED
  BY <1>1, <1>2 DEF MaybeEndRace, End

LEMMA ClampIs == ASSUME FeedAssumption, NEW n \in 0..Length + 1 PROVE Clamp(n) \in 0..Length
BY DEF FeedAssumption, Clamp

LEMMA SendProgressTyped ==
    ASSUME FeedAssumption, TypesInv, NEW s \in Sockets, NEW n \in 0..Length + 1, SendProgress(s, n)
    PROVE TypesInv'
<1>1. s \in Actors /\ WorkOf(s, <<SetTyped(Clamp(n))>>, Awaits(s))
  BY ClampIs, WorksHere DEF Actors
<1> QED
  BY <1>1, SameTyped DEF SendProgress, Then

LEMMA PatchTypedIs ==
    ASSUME FeedAssumption, TypesInv, NEW s \in Sockets, PatchTyped(s)
    PROVE  /\ s \in Actors /\ Owner[s] \in Players /\ Step(s).typed \in 0..Length /\ Elsewhere
           /\ Progress(Owner[s], Step(s).typed) \in Frames /\ todo[s] = <<Step(s)>>
           /\ Step(s).do = "typed"
           /\ \/ /\ StillTyping(Owner[s])
                 /\ Change(s, {Owner[s]}, [room EXCEPT !.seats[Owner[s]].typed = Step(s).typed])
                 /\ todo' = [todo EXCEPT ![s] = <<Publish(Progress(Owner[s], Step(s).typed))>>]
              \/ Same /\ todo' = [todo EXCEPT ![s] = <<>>]
<1> DEFINE n == Step(s).typed
           f == Progress(Owner[s], n)
<1>1. s \in Actors /\ Doing(s, "typed") /\ Elsewhere /\ Owner[s] \in Players
  BY OwnerIs DEF PatchTyped
<1>2. Tail(todo[s]) = <<>> /\ Step(s) \in Steps /\ Step(s).do = "typed" /\ todo[s] = <<Step(s)>>
  BY <1>1, WriterIs DEF TypesInv
<1>3. n \in 0..Length /\ f \in Frames
  BY <1>1, <1>2, StepHas, FramesAre
<1>4. <<Publish(f)>> \o Tail(todo[s]) = <<Publish(f)>> /\ <<>> \o Tail(todo[s]) = <<>>
  <2>1. <<>> \in Seq(Steps)
    OBVIOUS
  <2> QED
    BY <1>2, <2>1, Joined
<1>5. CASE StillTyping(Owner[s])
  <2>1. /\ Change(s, {Owner[s]}, [room EXCEPT !.seats[Owner[s]].typed = n])
        /\ todo' = [todo EXCEPT ![s] = <<Publish(f)>>]
    BY <1>4, <1>5, Zenon DEF PatchTyped, Carry, Then
  <2> QED
    BY <1>1, <1>2, <1>3, <1>5, <2>1, Zenon
<1>6. CASE ~StillTyping(Owner[s])
  <2>1. Same /\ todo' = [todo EXCEPT ![s] = <<>>]
    BY <1>4, <1>6, Zenon DEF PatchTyped, Carry, Then
  <2> QED
    BY <1>1, <1>2, <1>3, <2>1, Zenon
<1> QED
  BY <1>5, <1>6

LEMMA PatchTypedTyped ==
    ASSUME FeedAssumption, TypesInv, NEW s \in Sockets, PatchTyped(s) PROVE TypesInv'
<1> DEFINE p == Owner[s]
           n == Step(s).typed
           f == Progress(p, n)
<1>1. s \in Actors /\ p \in Players /\ n \in 0..Length /\ f \in Frames /\ Elsewhere /\ {p} \in SUBSET Fields
  BY PatchTypedIs, OwnerIs
<1>2. CASE /\ StillTyping(p) /\ Change(s, {p}, [room EXCEPT !.seats[p].typed = n])
           /\ todo' = [todo EXCEPT ![s] = <<Publish(f)>>]
  <2>1. RoomOf([room EXCEPT !.seats[p].typed = n])
    <3>1. p \in Seated /\ RoomTyped
      BY <1>2 DEF StillTyping, TypesInv
    <3> QED
      BY <1>1, <3>1, TypedRoom
  <2>2. WorkOf(s, <<Publish(f)>>, Awaits(s))
    BY <1>1, WorksHere
  <2> QED
    BY <1>1, <1>2, <2>1, <2>2, ChangeWriterTyped
<1>3. CASE Same /\ todo' = [todo EXCEPT ![s] = <<>>]
  BY <1>1, <1>3, SameTyped, WorksHere
<1> QED
  BY <1>2, <1>3, PatchTypedIs

LEMMA FinishTyped ==
    ASSUME FeedAssumption, TypesInv, NEW s \in Sockets, Finish(s)
    PROVE  TypesInv' /\ todo' = [todo EXCEPT ![s] = Recording(s)]
<1>1. todo' = [todo EXCEPT ![s] = Recording(s)] /\ Same /\ Elsewhere /\ s \in Actors
  BY DEF Finish, Recording, Then, Actors
<1>2. Owner[s] \in Players
  BY OwnerIs
<1>3. WorkOf(s, Recording(s), Awaits(s))
  BY WorkRecording, AwaitsBoolean, Zenon
<1> QED
  BY <1>1, <1>3, SameTyped

LEMMA ThreeTail == ASSUME NEW x, NEW y, NEW z PROVE Tail(<<x, y, z>>) = <<y, z>>
<1> DEFINE t == Tail(<<x, y, z>>)
<1>1. <<x, y, z>> \in Seq({x, y, z}) /\ Len(<<x, y, z>>) = 3
  OBVIOUS
<1>2. t \in Seq({x, y, z}) /\ Len(t) = 2 /\ t[1] = y /\ t[2] = z
  BY <1>1
<1> HIDE DEF t
<1>3. t = <<t[1], t[2]>>
  BY <1>2, PairIs
<1> QED
  BY <1>2, <1>3 DEF t

LEMMA RecordFinishTyped ==
    ASSUME FeedAssumption, TypesInv, NEW s \in Sockets, RecordFinish(s)
    PROVE  /\ TypesInv' /\ todo[s] = Recording(s) /\ Doing(s, "record")
           /\ todo' = [todo EXCEPT ![s] = <<Publish(PlayerFinished(Owner[s])), Do("check")>>]
<1> DEFINE p == Owner[s]
           f == PlayerFinished(p)
           seats == [room EXCEPT !.seats[p] = [@ EXCEPT !.finished = TRUE, !.typed = Length]]
<1>1. s \in Actors /\ Doing(s, "record") /\ Elsewhere /\ p \in Players /\ p \in Fields /\ f \in Frames
  BY OwnerIs, FramesAre DEF RecordFinish
<1>2. todo[s] = <<Do("record"), Publish(f), Do("check")>>
  BY <1>1, WriterIs DEF TypesInv, Recording
<1>3. todo' = [todo EXCEPT ![s] = <<Publish(f), Do("check")>>]
  <2>1. Tail(todo[s]) = <<Publish(f), Do("check")>>
    BY <1>2, ThreeTail
  <2>2. Publish(f) \in Steps /\ Do("check") \in Steps
    BY <1>1, StepsAre
  <2>3. <<Publish(f), Do("check")>> \in Seq(Steps)
    BY <2>2
  <2>4. <<>> \o Tail(todo[s]) = <<Publish(f), Do("check")>>
    BY <2>1, <2>3, Joined
  <2> QED
    BY <2>4 DEF RecordFinish, Carry, Then
<1>4. WorkOf(s, <<Publish(f), Do("check")>>, Awaits(s))
  BY <1>1, WorksHere
<1>5. CASE p \in Seated
  <2>1. Change(s, {p}, seats)
    BY <1>5 DEF RecordFinish
  <2>2. RoomOf(seats)
    BY <1>5, FinishedRoom DEF TypesInv
  <2> HIDE DEF seats
  <2>3. TypesInv'
    BY <1>1, <1>3, <1>4, <2>1, <2>2, ChangeWriterTyped
  <2> QED
    BY <1>1, <1>2, <1>3, <2>3 DEF Recording
<1>6. CASE p \notin Seated
  <2>1. Same
    BY <1>6 DEF RecordFinish
  <2>2. TypesInv'
    BY <1>1, <1>3, <1>4, <2>1, SameTyped
  <2> QED
    BY <1>1, <1>2, <1>3, <2>2 DEF Recording
<1> QED
  BY <1>5, <1>6

LEMMA PlayAgainTyped ==
    ASSUME FeedAssumption, TypesInv, NEW s \in Sockets, PlayAgain(s) PROVE TypesInv'
<1>1. /\ Elsewhere
      /\ Change(s, Seated \cup {"state"}, [room EXCEPT !.state = "lobby", !.seats = Reset(@)])
      /\ todo' = [todo EXCEPT ![s] = <<Do("fresh")>>]
  BY DEF PlayAgain, Then
<1>2. RoomOf([room EXCEPT !.state = "lobby", !.seats = Reset(@)])
  <2>1. RoomOf(room) /\ "lobby" \in States
    BY DEF TypesInv, RoomTyped, States
  <2> QED
    BY <2>1, RoomReset
<1>3. WorkOf(s, <<Do("fresh")>>, Awaits(s)) /\ s \in Actors
  BY WorksHere DEF Actors
<1> QED
  BY <1>1, <1>2, <1>3, SeatedFields, ChangeWriterTyped

LEMMA ReadFreshTyped ==
    ASSUME TypesInv, NEW s \in Sockets, ReadFresh(s) PROVE TypesInv'
<1>1. Same /\ Elsewhere /\ s \in Actors
  BY DEF ReadFresh, Actors
<1>2. CASE room.state = "none"
  <2>1. todo' = [todo EXCEPT ![s] = <<>>]
    BY <1>2 DEF ReadFresh, Then
  <2> QED
    BY <1>1, <2>1, WorksHere, SameTyped
<1>3. CASE room.state # "none"
  <2>1. todo' = [todo EXCEPT ![s] = <<Publish(Snapshot)>>]
    BY <1>3 DEF ReadFresh, Then
  <2>2. WorkOf(s, <<Publish(Snapshot)>>, Awaits(s))
    BY <1>3, SnapshotIs, WorksHere DEF TypesInv
  <2> QED
    BY <1>1, <2>1, <2>2, SameTyped
<1> QED
  BY <1>2, <1>3

(* The types are inductive by themselves. *)
LEMMA TypesNext == ASSUME FeedAssumption, TypesInv, [Next]_vars PROVE TypesInv'
<1>1. CASE UNCHANGED vars
  BY <1>1 DEF TypesInv, RoomTyped, WorkTyped, PagesTyped, Awaits, vars
<1>2. ASSUME NEW s \in Sockets, Handler(s) PROVE TypesInv'
  <2>1. ASSUME NEW n \in 0..Length + 1, SendProgress(s, n) PROVE TypesInv'
    BY <2>1, SendProgressTyped
  <2> QED
    BY <1>2, <2>1, ConnectTyped, JoinTyped, ReadSnapshotTyped, SendSnapshotTyped, DropTyped,
       MarkDisconnectedTyped, LeaveTyped, StartTyped, PatchTypedTyped, FinishTyped,
       RecordFinishTyped, PlayAgainTyped, ReadFreshTyped DEF Handler
<1>3. ASSUME NEW c \in Clocks, Clock(c) PROVE TypesInv'
  <2>1. ASSUME TimeUp(c) PROVE TypesInv'
    <3>1. c \in Actors /\ End(c) /\ Elsewhere
      BY <2>1 DEF TimeUp, End, Actors
    <3> QED
      BY <3>1, EndTyped
  <2> QED
    BY <1>3, <2>1, SweepTyped, GoTyped DEF Clock
<1>4. ASSUME NEW a \in Actors, Continue(a) PROVE TypesInv'
  BY <1>4, AnnounceTyped, AfterRemovalTyped, DeleteRoomTyped, HandOverTyped, MaybeEndRaceTyped
     DEF Continue
<1> QED
  BY <1>1, <1>2, <1>3, <1>4 DEF Next

LEMMA TypesInit == ASSUME FeedAssumption, Init PROVE TypesInv
<1> DEFINE m == [p \in {Creator} |-> NewSeat(First)]
<1>1. room = [state |-> "lobby", host |-> Creator, race |-> 0, seats |-> m]
  BY DEF Init
<1>2. DOMAIN m = {Creator} /\ m[Creator] \in Seats /\ m = [p \in DOMAIN m |-> m[p]]
  BY NewSeatIs DEF FeedAssumption
<1> HIDE DEF m
<1>3. m \in SeatMaps
  BY <1>2, SeatMapIs DEF FeedAssumption
<1>4. RoomTyped /\ room.state # "none"
  BY <1>1, <1>3 DEF RoomTyped, RoomOf, Rooms, States, FeedAssumption
<1>5. WorkTyped
  <2>1. \A a \in Actors : WorkOf(a, <<>>, Awaits(a))
    BY WorksHere
  <2> QED
    BY <2>1 DEF Init, WorkTyped
<1>6. InitialRoom \in View
  <2> DEFINE none == [p \in {} |-> {}]
  <2>1. DOMAIN none = {} /\ none = [p \in DOMAIN none |-> none[p]]
    OBVIOUS
  <2> HIDE DEF none
  <2>2. none \in Rosters
    BY <2>1, RosterIs
  <2>3. "lobby" \in States /\ Nobody \in Players \cup {Nobody}
    BY DEF States
  <2>4. [state |-> "lobby", host |-> Nobody, text |-> FALSE, roster |-> none] \in View
    BY <2>2, <2>3, ViewIs
  <2> QED
    BY <2>4 DEF InitialRoom, none
<1>7. ReduceRoom(InitialRoom, Snapshot) \in View
  BY <1>4, <1>6, SnapshotIs, ReduceEffect DEF Effect
<1>8. view \in [Players -> View]
  BY <1>6, <1>7 DEF Init
<1>9. PagesTyped
  <2>1. <<>> \in Seq(Frames)
    OBVIOUS
  <2> QED
    BY <1>8, <2>1 DEF Init, PagesTyped, Phases
<1> QED
  BY <1>4, <1>5, <1>9 DEF TypesInv

LEMMA TypesAlways == Spec => []TypesInv
<1>1. Init => TypesInv
  BY FeedAssumption, TypesInit
<1>2. TypesInv /\ [Next]_vars => TypesInv'
  BY FeedAssumption, TypesNext
<1> QED
  BY <1>1, <1>2, PTL DEF Spec

(* Whatever order writes, announcements and snapshots come in, the record  *)
(* holds players of the room on sockets of theirs with progress within the *)
(* text, and every page is a view that reduceRoom() can make of frames: no *)
(* frame is ever applied that leaves a page without one of its fields or   *)
(* with a seat of another shape.                                           *)
THEOREM FeedTypes == Spec => []TypeOK
<1>1. TypesInv => TypeOK
  <2> SUFFICES ASSUME TypesInv PROVE TypeOK
    OBVIOUS
  <2>1. \A p \in Seated : room.seats[p].conn \in Sockets /\ Public(room.seats[p]) \in Shown
    BY SeatIn, SeatHas, PublicIs DEF TypesInv
  <2>2. /\ room.state \in States \cup {"none"} /\ room.host \in Players
        /\ room.race \in 0..MaxRaces /\ Seated \subseteq Players
    BY RoomHas, SeatIn DEF TypesInv, RoomTyped
  <2> QED
    BY <2>1, <2>2 DEF TypeOK, TypesInv, PagesTyped
<1> QED
  BY <1>1, TypesAlways, PTL

-----------------------------------------------------------------------------
(* The invariant of the pages. *)

(* What is announced, and what still is to be.                              *)
Records(q) == q # <<>> /\ q[1].do = "record"
Fresh(q) == q # <<>> /\ q[1].do = "fresh"
Announces(q) == {i \in DOMAIN q : q[i].do = "publish"}
OwedIn(q) == IF Records(q) THEN {} ELSE {q[i].frame : i \in Announces(q)}
AllOwed == UNION {OwedIn(todo[a]) : a \in Actors}
Late == \E a \in Actors : Fresh(todo[a])
Truth == TruthOf(room)

RightFrame(f, r, k) ==
    Concerns(f, r, k) =>
        Brings(f, r, r, k) /\ (k \in Players /\ k \notin DOMAIN r.roster => Removes(f, k))
(* Every frame announced still brings the pages to the room as it is now. *)
RightFrames == \A f \in AllOwed : \A k \in Fields \ contested : RightFrame(f, Truth, k)

(* A finish that is being recorded is of a player who is seated, in a      *)
(* race, unless what was written about them since is contested.            *)
FinishHeld ==
    \A a \in Actors :
        Records(todo[a]) /\ Owner[a] \notin contested => Owner[a] \in Seated /\ HasText

(* The views that a socket's page has or may come to have, g, when the      *)
(* snapshot still to be read would find it at v.                            *)
Page(s, g, v) ==
    \/ phase[s] = "live" /\ g = view[Owner[s]]
    \/ phase[s] = "open" /\ g = Reduced(v, queue[s])
    \/ \E i \in DOMAIN todo[s], w \in View :
          /\ todo[s][i].do = "send"
          /\ g = Reduced(ReduceRoom(w, todo[s][i].frame), queue[s])
Pages ==
    \A s \in Sockets, g \in View, v \in View :
        Page(s, g, v) => \A k \in Fields \ contested : Tracked(g, v, Truth, AllOwed, Late, k)

(* The invariant: all three, and the types, as long as there is a room. *)
FeedHeld == RightFrames /\ FinishHeld /\ Pages
FeedInv == TypesInv /\ (room.state # "none" => FeedHeld)

(* What is owed by lists of one, two or three steps. *)
NoSend(q) == \A i \in DOMAIN q : q[i].do # "send"

LEMMA NoWork == OwedIn(<<>>) = {} /\ ~Fresh(<<>>) /\ ~Records(<<>>) /\ NoSend(<<>>)
BY DEF OwedIn, Announces, Fresh, Records, NoSend

LEMMA OneWork ==
    ASSUME NEW x
    PROVE  /\ x.do = "publish" => OwedIn(<<x>>) = {x.frame}
           /\ x.do # "publish" => OwedIn(<<x>>) = {}
           /\ Fresh(<<x>>) <=> x.do = "fresh"
           /\ Records(<<x>>) <=> x.do = "record"
           /\ NoSend(<<x>>) <=> x.do # "send"
<1> DEFINE q == <<x>>
<1>1. q # <<>> /\ q[1] = x /\ DOMAIN q = {1}
  OBVIOUS
<1> HIDE DEF q
<1>2. /\ Fresh(q) <=> x.do = "fresh"
      /\ Records(q) <=> x.do = "record"
      /\ NoSend(q) <=> x.do # "send"
  BY <1>1 DEF Fresh, Records, NoSend
<1>3. x.do = "publish" => OwedIn(q) = {x.frame}
  BY <1>1, <1>2 DEF OwedIn, Announces
<1>4. x.do # "publish" => OwedIn(q) = {}
  BY <1>1, <1>2 DEF OwedIn, Announces
<1> QED
  BY <1>2, <1>3, <1>4 DEF q

LEMMA TwoWork ==
    ASSUME NEW x, NEW y
    PROVE  /\ x.do = "publish" /\ y.do # "publish" => OwedIn(<<x, y>>) = {x.frame}
           /\ x.do \notin {"publish", "record"} /\ y.do = "publish" => OwedIn(<<x, y>>) = {y.frame}
           /\ Fresh(<<x, y>>) <=> x.do = "fresh"
           /\ Records(<<x, y>>) <=> x.do = "record"
           /\ NoSend(<<x, y>>) <=> x.do # "send" /\ y.do # "send"
<1> DEFINE q == <<x, y>>
<1>1. q # <<>> /\ q[1] = x /\ q[2] = y /\ DOMAIN q = {1, 2}
  OBVIOUS
<1> HIDE DEF q
<1>2. /\ Fresh(q) <=> x.do = "fresh"
      /\ Records(q) <=> x.do = "record"
      /\ NoSend(q) <=> x.do # "send" /\ y.do # "send"
  BY <1>1 DEF Fresh, Records, NoSend
<1>3. x.do = "publish" /\ y.do # "publish" => OwedIn(q) = {x.frame}
  <2> SUFFICES ASSUME x.do = "publish", y.do # "publish" PROVE OwedIn(q) = {x.frame}
    OBVIOUS
  <2>1. Announces(q) = {1} /\ ~Records(q)
    BY <1>1, <1>2 DEF Announces
  <2> QED
    BY <1>1, <2>1 DEF OwedIn
<1>4. x.do \notin {"publish", "record"} /\ y.do = "publish" => OwedIn(q) = {y.frame}
  <2> SUFFICES ASSUME x.do \notin {"publish", "record"}, y.do = "publish" PROVE OwedIn(q) = {y.frame}
    OBVIOUS
  <2>1. Announces(q) = {2} /\ ~Records(q)
    BY <1>1, <1>2 DEF Announces
  <2> QED
    BY <1>1, <2>1 DEF OwedIn
<1> QED
  BY <1>2, <1>3, <1>4 DEF q

LEMMA RecordingWork ==
    ASSUME NEW a
    PROVE  /\ OwedIn(Recording(a)) = {} /\ Records(Recording(a)) /\ ~Fresh(Recording(a))
           /\ NoSend(Recording(a)) /\ Recording(a)[2] = Publish(PlayerFinished(Owner[a]))
           /\ 2 \in DOMAIN Recording(a)
<1> DEFINE q == Recording(a)
<1>1. /\ q # <<>> /\ q[1] = Do("record") /\ q[2] = Publish(PlayerFinished(Owner[a]))
      /\ q[3] = Do("check") /\ DOMAIN q = {1, 2, 3}
  BY DEF Recording
<1> HIDE DEF q
<1>2. Records(q) /\ ~Fresh(q) /\ NoSend(q)
  BY <1>1 DEF Records, Fresh, NoSend, Do, Publish
<1> QED
  BY <1>1, <1>2 DEF OwedIn, q

(* A writer's announcements are frames, and due.                            *)
LEMMA OwedFrames ==
    ASSUME NEW q \in Seq(Steps), NEW f \in OwedIn(q)
    PROVE  f \in Frames /\ ~Records(q) /\ \E i \in DOMAIN q : q[i] \in Steps /\ q[i].do = "publish" /\ f = q[i].frame
<1>1. \E i \in DOMAIN q : q[i].do = "publish" /\ f = q[i].frame
  BY DEF OwedIn, Announces
<1>2. \A i \in DOMAIN q : q[i] \in Steps
  OBVIOUS
<1> QED
  BY <1>1, <1>2, StepHas DEF OwedIn

LEMMA OwedAreFrames ==
    ASSUME WorkTyped
    PROVE  /\ AllOwed \subseteq Frames
           /\ \A a \in Actors : todo[a] \in Seq(Steps)
<1>1. \A a \in Actors : todo[a] \in Seq(Steps)
  BY DEF WorkTyped, WorkOf
<1> QED
  BY <1>1, OwedFrames DEF AllOwed

(* What is owed is due: who writes it meanwhile makes it contested. *)
LEMMA DueIs ==
    ASSUME NEW b, NEW i \in DOMAIN todo[b]
    PROVE  /\ todo[b][i].do = "publish" => About(todo[b][i].frame) \subseteq Due(b)
           /\ todo[b][i].do = "fresh" => Fields \subseteq Due(b)
BY DEF Due

LEMMA OwedDue ==
    ASSUME WorkTyped, NEW b \in Actors
    PROVE  /\ \A f \in OwedIn(todo[b]) : About(f) \subseteq Due(b)
           /\ Fresh(todo[b]) => Fields \subseteq Due(b)
           /\ Records(todo[b]) => Owner[b] \in Due(b)
<1> DEFINE q == todo[b]
<1>1. q \in Seq(Steps) /\ WorkOf(b, q, Awaits(b))
  BY DEF WorkTyped, WorkOf
<1>2. \A f \in OwedIn(q) : About(f) \subseteq Due(b)
  BY <1>1, OwedFrames, DueIs
<1>3. Fresh(q) => Fields \subseteq Due(b)
  <2> SUFFICES ASSUME Fresh(q) PROVE Fields \subseteq Due(b)
    OBVIOUS
  <2>1. 1 \in DOMAIN q /\ q[1].do = "fresh"
    BY <1>1 DEF Fresh
  <2> QED
    BY <2>1, DueIs
<1>4. Records(q) => Owner[b] \in Due(b)
  <2> SUFFICES ASSUME Records(q) PROVE Owner[b] \in Due(b)
    OBVIOUS
  <2>1. q = Recording(b)
    BY <1>1 DEF Records, WorkOf
  <2>2. 2 \in DOMAIN q /\ q[2] = Publish(PlayerFinished(Owner[b]))
    BY <2>1, RecordingWork
  <2>3. q[2].do = "publish" /\ Owner[b] \in About(q[2].frame)
    BY <2>2 DEF Publish, PlayerFinished, About
  <2> QED
    BY <2>2, <2>3, DueIs
<1> QED
  BY <1>2, <1>3, <1>4

LEMMA SameItself == ASSUME NEW r, NEW k PROVE SameRoom(r, r, k)
BY DEF SameRoom

LEMMA SameBrings ==
    ASSUME NEW f, NEW r, NEW r2, NEW k \in Fields, SameRoom(r, r2, k), Brings(f, r, r, k)
    PROVE  Brings(f, r2, r2, k)
<1> SUFFICES ASSUME NEW w \in View, NEW v \in View, Near(w, v, r2, k)
             PROVE  Near(ReduceRoom(w, f), v, r2, k)
  BY DEF Brings
<1>1. Near(w, v, r, k)
  BY SameNear
<1>2. Near(ReduceRoom(w, f), v, r, k)
  BY <1>1 DEF Brings
<1> QED
  BY <1>2, SameNear

LEMMA SameRight ==
    ASSUME NEW f, NEW r, NEW r2, NEW k \in Fields, SameRoom(r, r2, k), RightFrame(f, r, k)
    PROVE  RightFrame(f, r2, k)
<1> SUFFICES ASSUME Concerns(f, r2, k)
             PROVE  Brings(f, r2, r2, k) /\ (k \in Players /\ k \notin DOMAIN r2.roster => Removes(f, k))
  BY DEF RightFrame
<1>1. Concerns(f, r, k)
  BY SameConcerns
<1>2. Brings(f, r, r, k) /\ (k \in Players /\ k \notin DOMAIN r.roster => Removes(f, k))
  BY <1>1 DEF RightFrame
<1>3. Brings(f, r2, r2, k)
  BY <1>2, SameBrings
<1> QED
  BY <1>2, <1>3 DEF SameRoom

(* What a page is owed after a write that changes the fields in fields and  *)
(* has the frames in N announced, or, if late, the whole room.              *)
Announced(N, r, r2, fields, late, bad) ==
    /\ \A k \in Fields \ fields : SameRoom(r, r2, k)
    /\ \A k \in fields \ bad : Owing(N, r2, late, k)
    /\ \A n \in N : \A k \in Fields \ bad :
          Concerns(n, r2, k) => k \in fields /\ Brings(n, r, r2, k) /\ RightFrame(n, r2, k)
Untold(F, late, fields, bad) ==
    \A k \in fields \ bad : ~late /\ \A f \in F : k \notin About(f)

(* What a write does to a tracked page, to a frame still owed, and to all. *)
LEMMA PageMoves ==
    ASSUME NEW F \in SUBSET Frames, NEW N \in SUBSET Frames, NEW r, NEW r2,
           NEW fields \in SUBSET Fields, NEW late \in BOOLEAN, NEW more \in BOOLEAN, NEW bad,
           NEW late2 \in BOOLEAN, late \/ more => late2,
           Announced(N, r, r2, fields, more, bad), Untold(F, late, fields, bad),
           NEW g \in View, NEW v \in View, NEW k \in Fields \ bad, Tracked(g, v, r, F, late, k)
    PROVE  Tracked(g, v, r2, F \cup N, late2, k)
<1> DEFINE G == F \cup N
<1>1. CASE k \in fields
  <2>1. ~Owing(F, r, late, k)
    BY <1>1 DEF Untold, Owing, Concerns
  <2>2. Owing(N, r2, more, k)
    BY <1>1 DEF Announced
  <2>3. Owing(G, r2, late2, k)
    BY <2>2 DEF Owing
  <2>4. \A f \in G : Concerns(f, r2, k) => Brings(f, r, r2, k)
    BY <1>1 DEF Untold, Announced, Concerns
  <2> HIDE DEF G
  <2> QED
    BY <2>1, <2>3, <2>4, TrackedWrite DEF G
<1>2. CASE k \notin fields
  <2>1. SameRoom(r, r2, k)
    BY <1>2 DEF Announced
  <2>2. \A f \in G : Concerns(f, r2, k) => f \in F
    BY <1>2 DEF Announced
  <2>3. Owing(F, r, late, k) => Owing(G, r2, late2, k)
    BY <2>1, SameConcerns DEF Owing
  <2> HIDE DEF G
  <2> QED
    BY <2>1, <2>2, <2>3, TrackedSame DEF G
<1> QED
  BY <1>1, <1>2

LEMMA FrameMoves ==
    ASSUME NEW F \in SUBSET Frames, NEW N \in SUBSET Frames, NEW r, NEW r2,
           NEW fields \in SUBSET Fields, NEW late \in BOOLEAN, NEW more \in BOOLEAN, NEW bad,
           Announced(N, r, r2, fields, more, bad), Untold(F, late, fields, bad),
           NEW k \in Fields \ bad, \A f \in F : RightFrame(f, r, k)
    PROVE  \A f \in F \cup N : RightFrame(f, r2, k)
<1> SUFFICES ASSUME NEW f \in F \cup N, Concerns(f, r2, k) PROVE RightFrame(f, r2, k)
  BY DEF RightFrame
<1>1. CASE f \in N
  BY <1>1 DEF Announced
<1>2. CASE f \in F
  <2>1. k \notin fields
    BY <1>2 DEF Untold, Concerns
  <2>2. SameRoom(r, r2, k)
    BY <2>1 DEF Announced
  <2> QED
    BY <1>2, <2>2, SameRight
<1> QED
  BY <1>1, <1>2

LEMMA Moves ==
    ASSUME TypesInv, RightFrames, Pages, contested \subseteq contested', view' \in [Players -> View],
           NEW fields \in SUBSET Fields, NEW N \in SUBSET Frames, NEW more \in BOOLEAN,
           AllOwed' = AllOwed \cup N, Late \/ more => Late',
           Announced(N, Truth, Truth', fields, more, contested'),
           Untold(AllOwed, Late, fields, contested'),
           \A s \in Sockets, g \in View, v \in View : Page(s, g, v)' =>
              \/ Page(s, g, v)
              \/ \A k \in Fields \ contested' : Tracked(g, v, Truth', AllOwed', Late', k)
    PROVE  RightFrames' /\ Pages'
<1>1. AllOwed \subseteq Frames /\ Late \in BOOLEAN /\ Late' \in BOOLEAN
  BY OwedAreFrames DEF TypesInv, Late
<1>2. RightFrames'
  <2> SUFFICES ASSUME NEW k \in Fields \ contested'
               PROVE  \A f \in AllOwed \cup N : RightFrame(f, Truth', k)
    BY DEF RightFrames
  <2>1. \A f \in AllOwed : RightFrame(f, Truth, k)
    BY DEF RightFrames
  <2> QED
    BY <1>1, <2>1, FrameMoves
<1>3. Pages'
  <2> SUFFICES ASSUME NEW s \in Sockets, NEW g \in View, NEW v \in View, Page(s, g, v)',
                      NEW k \in Fields \ contested'
               PROVE  Tracked(g, v, Truth', AllOwed', Late', k)
    BY DEF Pages
  <2>1. CASE Page(s, g, v)
    <3>1. Tracked(g, v, Truth, AllOwed, Late, k)
      BY <2>1 DEF Pages
    <3>2. Tracked(g, v, Truth', AllOwed \cup N, Late', k)
      BY <1>1, <3>1, PageMoves
    <3> QED
      BY <3>2
  <2> QED
    BY <2>1
<1> QED
  BY <1>2, <1>3

(* One writer's work changes: what is owed then. *)
LEMMA WorkPut ==
    ASSUME WorkTyped, NEW a \in Actors, NEW q, todo' = [todo EXCEPT ![a] = q]
    PROVE  todo'[a] = q /\ \A b \in Actors \ {a} : todo'[b] = todo[b]
BY DEF WorkTyped

LEMMA OwedMoves ==
    ASSUME WorkTyped, NEW a \in Actors, NEW q, todo' = [todo EXCEPT ![a] = q],
           OwedIn(todo[a]) \subseteq OwedIn(q)
    PROVE  /\ AllOwed' = AllOwed \cup OwedIn(q)
           /\ ~Fresh(todo[a]) => (Late' <=> Late \/ Fresh(q))
<1>1. todo'[a] = q /\ \A b \in Actors \ {a} : todo'[b] = todo[b]
  BY WorkPut
<1>2. AllOwed' = UNION {OwedIn(todo'[b]) : b \in Actors} /\ (Late' <=> \E b \in Actors : Fresh(todo'[b]))
  BY DEF AllOwed, Late
<1>3. AllOwed' = AllOwed \cup OwedIn(q)
  <2>1. ASSUME NEW f \in AllOwed' PROVE f \in AllOwed \cup OwedIn(q)
    BY <1>1, <1>2 DEF AllOwed
  <2>2. ASSUME NEW f \in AllOwed PROVE f \in AllOwed'
    <3>1. PICK b \in Actors : f \in OwedIn(todo[b])
      BY DEF AllOwed
    <3>2. f \in OwedIn(todo'[b])
      BY <1>1, <3>1
    <3> QED
      BY <1>2, <3>2
  <2>3. ASSUME NEW f \in OwedIn(q) PROVE f \in AllOwed'
    BY <1>1, <1>2
  <2> QED
    BY <2>1, <2>2, <2>3
<1>4. ASSUME ~Fresh(todo[a]) PROVE Late' <=> Late \/ Fresh(q)
  <2>1. ASSUME Late' PROVE Late \/ Fresh(q)
    BY <1>1, <1>2, <2>1 DEF Late
  <2>2. ASSUME Late PROVE Late'
    <3>1. PICK b \in Actors : Fresh(todo[b])
      BY <2>2 DEF Late
    <3> QED
      BY <1>1, <1>2, <1>4, <3>1
  <2> QED
    BY <1>1, <1>2, <2>1, <2>2
<1> QED
  BY <1>3, <1>4

LEMMA UntoldIs ==
    ASSUME WorkTyped, NEW a \in Actors, NEW fields \in SUBSET Fields, NEW r, Change(a, fields, r),
           OwedIn(todo[a]) = {}, ~Fresh(todo[a])
    PROVE  Untold(AllOwed, Late, fields, contested')
<1> SUFFICES ASSUME NEW k \in fields \ contested'
             PROVE  ~Late /\ \A f \in AllOwed : k \notin About(f)
  BY DEF Untold
<1>1. \A b \in Actors \ {a} : k \notin Due(b)
  BY DEF Change
<1>2. ~Late
  <2> SUFFICES ASSUME NEW b \in Actors, Fresh(todo[b]) PROVE FALSE
    BY DEF Late
  <2> QED
    BY <1>1, OwedDue
<1>3. ASSUME NEW f \in AllOwed PROVE k \notin About(f)
  <2>1. PICK b \in Actors : f \in OwedIn(todo[b])
    BY DEF AllOwed
  <2> QED
    BY <1>1, <2>1, OwedDue
<1> QED
  BY <1>2, <1>3

LEMMA ChangeKeeps ==
    ASSUME NEW a, NEW fields, NEW r, Change(a, fields, r)
    PROVE  contested \subseteq contested'
BY DEF Change

(* The room before the step, and after it. *)
LEMMA TruthNow ==
    ASSUME RoomTyped, room.state # "none"
    PROVE  /\ Truth \in View /\ Truth.state = room.state /\ Truth.host = room.host
           /\ Truth.text = HasText /\ DOMAIN Truth.roster = Seated
           /\ \A p \in Seated : Truth.roster[p] = Public(room.seats[p])
<1>1. RoomOf(room)
  BY DEF RoomTyped
<1>2. Truth.text = HasText
  BY <1>1, TruthIs, Zenon DEF Truth, HasText
<1>3. /\ DOMAIN Truth.roster = Seated
      /\ \A p \in Seated : Truth.roster[p] = Public(room.seats[p])
  BY <1>1, TruthIs DEF Truth, Seated
<1> QED
  BY <1>1, <1>2, <1>3, TruthIs DEF Truth

LEMMA TruthNext ==
    ASSUME RoomTyped', room'.state # "none"
    PROVE  /\ Truth' \in View /\ Truth'.state = room'.state /\ Truth'.host = room'.host
           /\ Truth'.text = HasText' /\ DOMAIN Truth'.roster = Seated'
           /\ \A p \in Seated' : Truth'.roster[p] = Public(room'.seats[p])
<1>1. RoomOf(room')
  BY DEF RoomTyped
<1>2. Truth'.text = HasText'
  BY <1>1, TruthIs, Zenon DEF Truth, HasText
<1>3. /\ DOMAIN Truth'.roster = Seated'
      /\ \A p \in Seated' : Truth'.roster[p] = Public(room'.seats[p])
  BY <1>1, TruthIs DEF Truth, Seated
<1> QED
  BY <1>1, <1>2, <1>3, TruthIs DEF Truth

(* A finish under way stays one. *)
LEMMA HeldMoves ==
    ASSUME FeedAssumption, TypesInv, RoomTyped', room.state # "none", room'.state # "none",
           FinishHeld, NEW a \in Actors, NEW fields \in SUBSET Fields, Change(a, fields, room'),
           NEW q, todo' = [todo EXCEPT ![a] = q],
           Records(q) => Owner[a] \in Seated' /\ HasText',
           \A k \in Fields \ fields : SameRoom(Truth, Truth', k)
    PROVE  FinishHeld'
<1> SUFFICES ASSUME NEW b \in Actors, Records(todo'[b]), Owner[b] \notin contested'
             PROVE  Owner[b] \in Seated' /\ HasText'
  BY DEF FinishHeld
<1>1. todo'[a] = q /\ \A c \in Actors \ {a} : todo'[c] = todo[c]
  BY WorkPut DEF TypesInv
<1>2. CASE b = a
  BY <1>1, <1>2
<1>3. CASE b # a
  <2>1. Records(todo[b])
    BY <1>1, <1>3
  <2>2. b \in Sockets
    BY <2>1 DEF TypesInv, WorkTyped, WorkOf, Records
  <2>3. Owner[b] \in Fields /\ Owner[b] \in Players
    BY <2>2, OwnerIs
  <2>4. Owner[b] \in Due(b)
    BY <2>1, OwedDue DEF TypesInv
  <2>5. Owner[b] \notin fields /\ Owner[b] \notin contested
    BY <1>3, <2>4 DEF Change
  <2>6. Owner[b] \in Seated /\ HasText
    BY <2>1, <2>5 DEF FinishHeld
  <2>7. SameRoom(Truth, Truth', Owner[b])
    BY <2>3, <2>5
  <2>8. /\ DOMAIN Truth.roster = Seated /\ Truth.text = HasText
        /\ DOMAIN Truth'.roster = Seated' /\ Truth'.text = HasText'
    BY TruthNow, TruthNext DEF TypesInv
  <2> QED
    BY <2>3, <2>6, <2>7, <2>8 DEF SameRoom
<1> QED
  BY <1>2, <1>3

(* No socket takes anything in; some may close. *)
StillOpen ==
    \A s \in Sockets :
        (phase'[s] = phase[s] /\ queue'[s] = queue[s]) \/ phase'[s] \notin {"open", "live"}

LEMMA PagesStay ==
    ASSUME WorkTyped, WorkTyped', NEW a \in Actors, NEW q, todo' = [todo EXCEPT ![a] = q],
           NoSend(q), view' = view, StillOpen,
           NEW s \in Sockets, NEW g \in View, NEW v \in View, Page(s, g, v)'
    PROVE  Page(s, g, v)
<1>1. todo'[a] = q /\ \A b \in Actors \ {a} : todo'[b] = todo[b]
  BY WorkPut
<1>2. CASE phase'[s] = "live" /\ g = view[Owner[s]]
  BY <1>2 DEF Page, StillOpen
<1>3. CASE phase'[s] = "open" /\ g = Reduced(v, queue'[s])
  BY <1>3 DEF Page, StillOpen
<1>4. ASSUME NEW i \in DOMAIN todo'[s], NEW w \in View, todo'[s][i].do = "send",
             g = Reduced(ReduceRoom(w, todo'[s][i].frame), queue'[s])
      PROVE  Page(s, g, v)
  <2>1. todo'[s] = todo[s]
    BY <1>1, <1>4 DEF NoSend, Actors
  <2>2. Awaits(s)'
    BY <1>4 DEF WorkTyped, WorkOf, Actors
  <2>3. queue'[s] = queue[s]
    BY <2>2 DEF StillOpen, Awaits
  <2> QED
    BY <1>4, <2>1, <2>3 DEF Page
<1>5. Page(s, g, v)' <=>
         \/ phase'[s] = "live" /\ g = view'[Owner[s]]
         \/ phase'[s] = "open" /\ g = Reduced(v, queue'[s])
         \/ \E i \in DOMAIN todo'[s], w \in View :
               /\ todo'[s][i].do = "send"
               /\ g = Reduced(ReduceRoom(w, todo'[s][i].frame), queue'[s])
  BY DEF Page
<1> QED
  BY <1>2, <1>3, <1>4, <1>5

(* A step that writes the record and announces it: all that is left to     *)
(* show of an action is Announced.                                         *)
LEMMA Wrote ==
    ASSUME FeedAssumption, TypesInv, TypesInv', room.state # "none", room'.state # "none",
           FeedHeld, NEW a \in Actors, NEW fields \in SUBSET Fields, Change(a, fields, room'),
           NEW q, todo' = [todo EXCEPT ![a] = q], NoSend(q),
           OwedIn(todo[a]) = {}, ~Fresh(todo[a]), OwedIn(q) \subseteq Frames,
           Records(q) => Owner[a] \in Seated' /\ HasText',
           view' = view, StillOpen,
           Announced(OwedIn(q), Truth, Truth', fields, Fresh(q), contested')
    PROVE  FeedHeld'
<1>1. AllOwed' = AllOwed \cup OwedIn(q) /\ (Late' <=> Late \/ Fresh(q))
  BY OwedMoves DEF TypesInv
<1>2. Untold(AllOwed, Late, fields, contested') /\ contested \subseteq contested'
  BY UntoldIs, ChangeKeeps DEF TypesInv
<1>3. FinishHeld'
  <2>1. \A k \in Fields \ fields : SameRoom(Truth, Truth', k)
    BY DEF Announced
  <2> QED
    BY <2>1, HeldMoves DEF TypesInv, FeedHeld
<1>4. \A s \in Sockets, g \in View, v \in View : Page(s, g, v)' => Page(s, g, v)
  BY PagesStay DEF TypesInv
<1>5. view' \in [Players -> View] /\ Fresh(q) \in BOOLEAN
  BY DEF TypesInv, PagesTyped, Fresh
<1>6. RightFrames' /\ Pages'
  <2>1. RightFrames /\ Pages
    BY DEF FeedHeld
  <2> QED
    BY <1>1, <1>2, <1>4, <1>5, <2>1, Moves
<1> QED
  BY <1>3, <1>6 DEF FeedHeld

-----------------------------------------------------------------------------
(* The actions, one lemma each. *)
Feeding == TypesInv /\ room.state # "none" /\ FeedHeld

(* Who is idle, or writes, owes nothing. *)
LEMMA Free ==
    ASSUME WorkTyped, NEW a \in Actors
    PROVE  /\ ~Busy(a) => OwedIn(todo[a]) = {} /\ ~Fresh(todo[a])
           /\ \A what : Doing(a, what) /\ what \notin {"publish", "read", "fresh"} =>
                 OwedIn(todo[a]) = {} /\ ~Fresh(todo[a])
<1>1. ASSUME ~Busy(a) PROVE OwedIn(todo[a]) = {} /\ ~Fresh(todo[a])
  BY <1>1, IdleIs, NoWork
<1>2. ASSUME NEW what, Doing(a, what), what \notin {"publish", "read", "fresh"}
      PROVE  OwedIn(todo[a]) = {} /\ ~Fresh(todo[a])
  <2>1. CASE what = "record"
    BY <1>2, <2>1, WriterIs, RecordingWork
  <2>2. CASE what # "record"
    <3>1. todo[a] = <<Step(a)>> /\ Step(a).do = what
      BY <1>2, <2>2, WriterIs
    <3> HIDE DEF Step
    <3> QED
      BY <1>2, <3>1, OneWork
  <2> QED
    BY <2>1, <2>2
<1> QED
  BY <1>1, <1>2

LEMMA OpenElsewhere == ASSUME Elsewhere PROVE StillOpen /\ view' = view
BY DEF Elsewhere, StillOpen

(* A step that leaves the room as it is, and announces nothing that matters. *)
LEMMA Kept ==
    ASSUME FeedAssumption, Feeding, TypesInv', Same, NEW a \in Actors,
           NEW q, todo' = [todo EXCEPT ![a] = q], NoSend(q), ~Fresh(q),
           OwedIn(todo[a]) = {}, ~Fresh(todo[a]), OwedIn(q) \subseteq Frames,
           \A n \in OwedIn(q) : \A k \in Fields \ contested : ~Concerns(n, Truth, k),
           Records(q) => Owner[a] \in Seated /\ HasText,
           view' = view, StillOpen
    PROVE  FeedHeld'
<1>1. room' = room /\ contested' = contested /\ Truth' = Truth /\ Seated' = Seated
      /\ (HasText' <=> HasText)
  BY DEF Same, Truth, Seated, HasText
<1>2. Change(a, {}, room')
  BY <1>1 DEF Change
<1>3. Announced(OwedIn(q), Truth, Truth', {}, Fresh(q), contested')
  BY <1>1, SameItself DEF Announced
<1> QED
  BY <1>1, <1>2, <1>3, Wrote DEF Feeding

LEMMA KeptQuiet ==
    ASSUME FeedAssumption, Feeding, TypesInv', Same, NEW a \in Actors,
           NEW q, todo' = [todo EXCEPT ![a] = q], NoSend(q), ~Fresh(q),
           OwedIn(todo[a]) = {}, ~Fresh(todo[a]), OwedIn(q) = {},
           Records(q) => Owner[a] \in Seated /\ HasText,
           view' = view, StillOpen
    PROVE  FeedHeld'
BY Kept

(* The steps that change no field and announce nothing. *)
LEMMA AfterRemovalHeld ==
    ASSUME FeedAssumption, Feeding, TypesInv', NEW a \in Actors, AfterRemoval(a)
    PROVE  FeedHeld'
<1>1. PICK q : /\ todo' = [todo EXCEPT ![a] = q]
               /\ q = <<>> \/ q = <<Do("delete")>>
                  \/ \E from, to \in Players : q = <<HandOff(from, to)>>
  BY AfterRemovalTyped DEF Feeding
<1>2. Same /\ StillOpen /\ view' = view
  BY AfterRemovalTyped, OpenElsewhere DEF Feeding
<1>3. NoSend(q) /\ ~Fresh(q) /\ OwedIn(q) = {} /\ ~Records(q)
  BY <1>1, NoWork, OneWork DEF Do, HandOff
<1>4. OwedIn(todo[a]) = {} /\ ~Fresh(todo[a])
  BY Free DEF Feeding, TypesInv, AfterRemoval
<1> QED
  BY <1>1, <1>2, <1>3, <1>4, KeptQuiet

LEMMA SendProgressHeld ==
    ASSUME FeedAssumption, Feeding, TypesInv', NEW s \in Sockets, NEW n \in 0..Length + 1,
           SendProgress(s, n)
    PROVE  FeedHeld'
<1>1. todo' = [todo EXCEPT ![s] = <<SetTyped(Clamp(n))>>] /\ Same /\ s \in Actors
  BY DEF SendProgress, Then, Actors
<1>2. StillOpen /\ view' = view
  BY OpenElsewhere DEF SendProgress
<1>3. /\ NoSend(<<SetTyped(Clamp(n))>>) /\ ~Fresh(<<SetTyped(Clamp(n))>>)
      /\ OwedIn(<<SetTyped(Clamp(n))>>) = {} /\ ~Records(<<SetTyped(Clamp(n))>>)
  BY OneWork DEF SetTyped
<1>4. OwedIn(todo[s]) = {} /\ ~Fresh(todo[s])
  BY <1>1, Free DEF Feeding, TypesInv, SendProgress, Ready, Idle
<1> QED
  BY <1>1, <1>2, <1>3, <1>4, KeptQuiet

LEMMA FinishHolds ==
    ASSUME FeedAssumption, Feeding, TypesInv', NEW s \in Sockets, Finish(s)
    PROVE  FeedHeld'
<1>1. todo' = [todo EXCEPT ![s] = Recording(s)] /\ Same /\ s \in Actors
  BY FinishTyped DEF Finish, Actors, Feeding
<1>2. StillOpen /\ view' = view
  BY OpenElsewhere DEF Finish
<1>3. NoSend(Recording(s)) /\ ~Fresh(Recording(s)) /\ OwedIn(Recording(s)) = {}
  BY RecordingWork
<1>4. OwedIn(todo[s]) = {} /\ ~Fresh(todo[s])
  BY <1>1, Free DEF Feeding, TypesInv, Finish, Ready, Idle
<1>5. Owner[s] \in Seated /\ HasText
  BY DEF Finish, StillTyping, HasText
<1> QED
  BY <1>1, <1>2, <1>3, <1>4, <1>5, KeptQuiet

LEMMA JoinRefusedHeld ==
    ASSUME FeedAssumption, Feeding, TypesInv', NEW s \in Sockets, Doing(s, "join"), Refuse(s)
    PROVE  FeedHeld'
<1>1. todo' = [todo EXCEPT ![s] = <<>>] /\ Same /\ s \in Actors /\ view' = view
  BY DEF Refuse, Then, Actors
<1>2. StillOpen
  BY DEF Refuse, StillOpen, Feeding, TypesInv, PagesTyped
<1>3. OwedIn(todo[s]) = {} /\ ~Fresh(todo[s])
  BY <1>1, Free DEF Feeding, TypesInv
<1> QED
  BY <1>1, <1>2, <1>3, NoWork, KeptQuiet

(* The finish of a player who is not seated: nothing is recorded, and the  *)
(* announcement concerns no page.                                          *)
LEMMA RecordMissed ==
    ASSUME FeedAssumption, Feeding, TypesInv', NEW s \in Sockets, RecordFinish(s),
           Owner[s] \notin Seated
    PROVE  FeedHeld'
<1> DEFINE q == <<Publish(PlayerFinished(Owner[s])), Do("check")>>
<1>1. todo' = [todo EXCEPT ![s] = q] /\ Same /\ s \in Actors /\ Owner[s] \in Players
  BY RecordFinishTyped, OwnerIs DEF RecordFinish, Actors, Feeding
<1>2. StillOpen /\ view' = view
  BY OpenElsewhere DEF RecordFinish
<1>3. /\ NoSend(q) /\ ~Fresh(q) /\ OwedIn(q) = {PlayerFinished(Owner[s])} /\ ~Records(q)
      /\ PlayerFinished(Owner[s]) \in Frames
  BY <1>1, FramesAre, TwoWork DEF Publish, Do
<1>4. OwedIn(todo[s]) = {} /\ ~Fresh(todo[s])
  BY <1>1, Free DEF Feeding, TypesInv, RecordFinish
<1>5. Owner[s] \in contested
  <2>1. todo[s] = Recording(s)
    BY RecordFinishTyped DEF Feeding
  <2>2. Records(todo[s])
    BY <2>1, RecordingWork
  <2> QED
    BY <1>1, <2>2 DEF Feeding, FeedHeld, FinishHeld
<1>6. ASSUME NEW k \in Fields \ contested PROVE ~Concerns(PlayerFinished(Owner[s]), Truth, k)
  BY <1>5 DEF Concerns, About, PlayerFinished
<1> HIDE DEF q
<1> QED
  BY <1>1, <1>2, <1>3, <1>4, <1>6, Kept

(* A step that leaves room and work as they are, and opens no page.         *)
LEMMA Unmoved ==
    ASSUME Feeding, TypesInv', Same, todo' = todo, view' = view, StillOpen
    PROVE  FeedHeld'
<1>1. /\ Truth' = Truth /\ AllOwed' = AllOwed /\ (Late' <=> Late) /\ contested' = contested
      /\ Seated' = Seated /\ (HasText' <=> HasText)
  BY DEF Same, Truth, AllOwed, Late, Seated, HasText
<1>2. RightFrames' /\ FinishHeld'
  BY <1>1 DEF Feeding, FeedHeld, RightFrames, FinishHeld
<1>3. ASSUME NEW s \in Sockets, NEW g \in View, NEW v \in View, Page(s, g, v)'
      PROVE  Page(s, g, v)
  <2>1. ASSUME NEW i \in DOMAIN todo[s], todo[s][i].do = "send" PROVE queue'[s] = queue[s]
    <3>1. Awaits(s)'
      BY <2>1 DEF TypesInv, WorkTyped, WorkOf, Actors
    <3> QED
      BY <3>1 DEF Awaits, StillOpen
  <2> QED
    BY <1>3, <2>1 DEF Page, StillOpen
<1>4. \A g, v, k : Tracked(g, v, Truth, AllOwed, Late, k) => Tracked(g, v, Truth', AllOwed', Late', k)
  BY <1>1 DEF Tracked, Owing
<1>5. Pages'
  BY <1>1, <1>3, <1>4 DEF Pages, Feeding, FeedHeld
<1> QED
  BY <1>2, <1>5 DEF FeedHeld

LEMMA DropHeld ==
    ASSUME Feeding, TypesInv', NEW s \in Sockets, Drop(s) PROVE FeedHeld'
<1>1. Same /\ todo' = todo /\ view' = view
  BY DEF Drop
<1>2. StillOpen
  BY DEF Drop, StillOpen, Feeding, TypesInv, PagesTyped
<1> QED
  BY <1>1, <1>2, Unmoved

(* A step that leaves the room as it is and brings a page nearer to it.     *)
LEMMA Nearer ==
    ASSUME FeedAssumption, Feeding, TypesInv', Same, NEW a \in Actors,
           NEW q, todo' = [todo EXCEPT ![a] = q], ~Fresh(q), ~Records(q),
           ~Fresh(todo[a]), OwedIn(q) = OwedIn(todo[a]),
           \A s \in Sockets, g \in View, v \in View : Page(s, g, v)' =>
              \/ Page(s, g, v)
              \/ \A k \in Fields \ contested : Tracked(g, v, Truth, AllOwed, Late, k)
    PROVE  FeedHeld'
<1>1. room' = room /\ contested' = contested /\ Truth' = Truth
  BY DEF Same, Truth
<1>2. Change(a, {}, room')
  BY <1>1 DEF Change
<1>3. AllOwed \cup OwedIn(q) = AllOwed
  BY DEF AllOwed
<1>4. AllOwed' = AllOwed /\ (Late' <=> Late)
  BY <1>3, OwedMoves DEF Feeding, TypesInv
<1>5. FinishHeld'
  <2>1. \A k \in Fields \ {} : SameRoom(Truth, Truth', k)
    BY <1>1, SameItself
  <2> QED
    BY <1>1, <1>2, <2>1, HeldMoves DEF Feeding, TypesInv, FeedHeld
<1>6. Announced({}, Truth, Truth', {}, FALSE, contested')
  BY <1>1, SameItself DEF Announced
<1>7. Untold(AllOwed, Late, {}, contested')
  BY DEF Untold
<1>8. RightFrames' /\ Pages'
  <2>1. TypesInv /\ RightFrames /\ Pages /\ contested \subseteq contested' /\ view' \in [Players -> View]
    BY <1>1 DEF Feeding, FeedHeld, TypesInv, PagesTyped
  <2>2. AllOwed' = AllOwed \cup {} /\ (Late \/ FALSE => Late')
    BY <1>4
  <2>3. \A s \in Sockets, g \in View, v \in View : Page(s, g, v)' =>
           \/ Page(s, g, v)
           \/ \A k \in Fields \ contested' : Tracked(g, v, Truth', AllOwed', Late', k)
    <3> SUFFICES ASSUME NEW s \in Sockets, NEW g \in View, NEW v \in View, Page(s, g, v)',
                        ~Page(s, g, v), NEW k \in Fields \ contested'
                 PROVE  Tracked(g, v, Truth', AllOwed', Late', k)
      OBVIOUS
    <3>1. Tracked(g, v, Truth, AllOwed, Late, k)
      BY <1>1
    <3> QED
      BY <3>1, <1>1, <1>4 DEF Tracked, Owing
  <2> QED
    BY <1>6, <1>7, <2>1, <2>2, <2>3, Moves
<1> QED
  BY <1>5, <1>8 DEF FeedHeld

(* A socket that connects starts with a page of its own. *)
LEMMA NearItself ==
    ASSUME NEW v, NEW r, NEW k PROVE Near(v, v, r, k)
BY DEF Near, Blend

LEMMA ConnectHeld ==
    ASSUME FeedAssumption, Feeding, TypesInv', NEW s \in Sockets, Connect(s) PROVE FeedHeld'
<1> DEFINE q == <<Do("join")>>
<1>1. /\ s \in Actors /\ todo' = [todo EXCEPT ![s] = q] /\ Same /\ ~Busy(s) /\ phase[s] = "unused"
      /\ queue' = queue /\ view' = view /\ phase' = [phase EXCEPT ![s] = "open"]
  BY DEF Connect, Same, Actors, Idle
<1>2. ~Fresh(q) /\ ~Records(q) /\ OwedIn(q) = {} /\ NoSend(q)
  BY OneWork DEF Do
<1> HIDE DEF q
<1>3. OwedIn(todo[s]) = {} /\ ~Fresh(todo[s])
  BY <1>1, Free DEF Feeding, TypesInv
<1>4. todo'[s] = q /\ \A b \in Actors \ {s} : todo'[b] = todo[b]
  BY <1>1, WorkPut DEF Feeding, TypesInv
<1>5. queue[s] = <<>> /\ phase'[s] = "open" /\ \A t \in Sockets \ {s} : phase'[t] = phase[t]
  BY <1>1 DEF Feeding, TypesInv, PagesTyped
<1>6. ASSUME NEW t \in Sockets, NEW g \in View, NEW v \in View, Page(t, g, v)'
      PROVE  Page(t, g, v) \/ \A k \in Fields \ contested : Tracked(g, v, Truth, AllOwed, Late, k)
  <2>1. CASE t # s
    <3>1. todo'[t] = todo[t] /\ phase'[t] = phase[t]
      BY <1>4, <1>5, <2>1 DEF Actors
    <3> QED
      BY <1>1, <1>6, <3>1 DEF Page
  <2>2. CASE t = s
    <3>1. g = Reduced(v, <<>>)
      BY <1>1, <1>2, <1>4, <1>5, <1>6, <2>2 DEF Page, NoSend
    <3>2. g = v
      BY <3>1, ReducedNone
    <3>3. ASSUME NEW k \in Fields \ contested PROVE Tracked(v, v, Truth, AllOwed, Late, k)
      <4>1. Near(v, v, Truth, k)
        BY NearItself
      <4>2. ASSUME NEW f \in AllOwed, Concerns(f, Truth, k) PROVE Near(ReduceRoom(v, f), v, Truth, k)
        <5>1. Brings(f, Truth, Truth, k)
          BY <4>2 DEF Feeding, FeedHeld, RightFrames, RightFrame
        <5> QED
          BY <4>1, <5>1 DEF Brings
      <4> QED
        BY <4>1, <4>2 DEF Tracked
    <3> QED
      BY <3>2, <3>3
  <2> QED
    BY <2>1, <2>2
<1> QED
  BY <1>1, <1>2, <1>3, <1>6, Nearer

(* The snapshot: what join_room() reads and sends is the room at that      *)
(* moment, and what is queued meanwhile is told after it.                  *)
LEMMA SnapshotShows ==
    ASSUME RoomTyped, room.state # "none", NEW w
    PROVE  ReduceRoom(w, Snapshot) = Truth
<1>1. /\ Snapshot.type = "room" /\ Snapshot.state = Truth.state /\ Snapshot.host = Truth.host
      /\ Snapshot.text = Truth.text /\ Snapshot.roster = Truth.roster
  BY SnapshotIs DEF Truth
<1>2. Truth = [state |-> Truth.state, host |-> Truth.host, text |-> Truth.text, roster |-> Truth.roster]
  BY TruthNow, ViewHas
<1>3. ReduceRoom(w, Snapshot) = [state |-> Snapshot.state, host |-> Snapshot.host,
                                 text |-> Snapshot.text, roster |-> Snapshot.roster]
  BY <1>1 DEF ReduceRoom
<1> QED
  BY <1>1, <1>2, <1>3

LEMMA ReadSnapshotHeld ==
    ASSUME FeedAssumption, Feeding, TypesInv', NEW s \in Sockets, ReadSnapshot(s) PROVE FeedHeld'
<1> DEFINE last == todo[s][2]
           q == <<last, Send(Snapshot)>>
<1>1. /\ s \in Actors /\ Doing(s, "read") /\ Same /\ queue' = queue /\ view' = view /\ phase' = phase
  BY DEF ReadSnapshot, Actors, Elsewhere, Feeding
<1>2. todo' = [todo EXCEPT ![s] = q]
  BY ReadSnapshotTyped DEF Feeding
<1>3. /\ todo[s] = <<Step(s), last>> /\ Step(s).do = "read" /\ last.do = "publish"
      /\ phase[s] = "open"
  BY <1>1, WriterIs DEF Feeding, TypesInv, Awaits
<1> HIDE DEF last, Step
<1>4. OwedIn(todo[s]) = {last.frame} /\ ~Fresh(todo[s]) /\ NoSend(todo[s])
  BY <1>3, TwoWork
<1>5. OwedIn(q) = {last.frame} /\ ~Fresh(q) /\ ~Records(q)
  BY <1>3, TwoWork DEF Send
<1>6. DOMAIN q = {1, 2} /\ q[1] = last /\ q[2] = Send(Snapshot)
  OBVIOUS
<1>7. todo'[s] = q /\ \A b \in Actors \ {s} : todo'[b] = todo[b]
  BY <1>1, <1>2, WorkPut DEF Feeding, TypesInv
<1> HIDE DEF q
<1>8. ASSUME NEW t \in Sockets, NEW g \in View, NEW v \in View, Page(t, g, v)'
      PROVE  Page(t, g, v) \/ \A k \in Fields \ contested : Tracked(g, v, Truth, AllOwed, Late, k)
  <2>1. CASE t # s
    <3>1. todo'[t] = todo[t]
      BY <1>7, <2>1 DEF Actors
    <3> QED
      BY <1>1, <1>8, <3>1 DEF Page
  <2>2. CASE t = s
    <3>1. CASE Page(t, g, v)
      BY <3>1
    <3>2. CASE ~Page(t, g, v)
      <4>1. \E i \in DOMAIN q, w \in View : /\ q[i].do = "send"
                                            /\ g = Reduced(ReduceRoom(w, q[i].frame), queue[s])
        BY <1>1, <1>7, <1>8, <2>2, <3>2 DEF Page
      <4>2. PICK w \in View : g = Reduced(ReduceRoom(w, Snapshot), queue[s])
        BY <1>3, <1>6, <4>1 DEF Send
      <4>3. g = Reduced(Truth, queue[s])
        BY <4>2, SnapshotShows DEF Feeding, TypesInv
      <4>4. Page(s, g, Truth) /\ Truth \in View
        BY <1>3, <4>3, TruthNow DEF Page, Feeding, TypesInv
      <4>5. \A k \in Fields \ contested : Tracked(g, Truth, Truth, AllOwed, Late, k)
        BY <4>4 DEF Pages, Feeding, FeedHeld
      <4> QED
        BY <4>5, TrackedRight
    <3> QED
      BY <3>1, <3>2
  <2> QED
    BY <2>1, <2>2
<1> QED
  BY <1>1, <1>2, <1>4, <1>5, <1>8, Nearer

LEMMA SendSnapshotHeld ==
    ASSUME FeedAssumption, Feeding, TypesInv', NEW s \in Sockets, SendSnapshot(s) PROVE FeedHeld'
<1> DEFINE new == Reduced(ReduceRoom(view[Owner[s]], Step(s).frame), queue[s])
<1>1. /\ s \in Actors /\ Doing(s, "send") /\ Same /\ todo' = [todo EXCEPT ![s] = <<>>]
      /\ phase' = [phase EXCEPT ![s] = "live"] /\ queue' = [queue EXCEPT ![s] = <<>>]
      /\ view' = [view EXCEPT ![Owner[s]] = new]
  BY DEF SendSnapshot, Then, Actors
<1>2. todo[s] = <<Step(s)>> /\ Step(s).do = "send" /\ Owner[s] \in Players
  BY <1>1, SendSnapshotTyped, OwnerIs DEF Feeding, Doing
<1>3. todo[s][1] = Step(s) /\ 1 \in DOMAIN todo[s]
  BY <1>2
<1>4. OwedIn(todo[s]) = {} /\ ~Fresh(todo[s])
  BY <1>1, Free DEF Feeding, TypesInv
<1>5. /\ todo'[s] = <<>> /\ \A b \in Actors \ {s} : todo'[b] = todo[b]
      /\ phase'[s] = "live" /\ \A t \in Sockets \ {s} : phase'[t] = phase[t] /\ queue'[t] = queue[t]
      /\ \A t \in Sockets : view'[Owner[t]] = IF Owner[t] = Owner[s] THEN new ELSE view[Owner[t]]
  <2>1. \A t \in Sockets : Owner[t] \in Players
    BY OwnerIs
  <2>2. phase \in [Sockets -> Phases] /\ queue \in [Sockets -> Seq(Frames)] /\ view \in [Players -> View]
    BY DEF Feeding, TypesInv, PagesTyped
  <2> HIDE DEF new
  <2> QED
    BY <1>1, <1>2, <2>1, <2>2, WorkPut DEF Feeding, TypesInv
<1>6. \A v \in View : new \in View => Page(s, new, v)
  <2>1. view[Owner[s]] \in View
    BY <1>2 DEF Feeding, TypesInv, PagesTyped
  <2> QED
    BY <1>2, <1>3, <2>1 DEF Page
<1> HIDE DEF new, Step
<1>7. ASSUME NEW t \in Sockets, NEW g \in View, NEW v \in View, Page(t, g, v)'
      PROVE  Page(t, g, v) \/ \A k \in Fields \ contested : Tracked(g, v, Truth, AllOwed, Late, k)
  <2>1. CASE phase'[t] = "live" /\ g = new
    <3>1. Page(s, g, v)
      BY <1>6, <2>1
    <3> QED
      BY <3>1 DEF Feeding, FeedHeld, Pages
  <2>2. CASE t = s /\ ~(phase'[t] = "live" /\ g = new)
    BY <1>5, <1>7, <2>2 DEF Page
  <2>3. CASE t # s /\ ~(phase'[t] = "live" /\ g = new)
    <3>1. todo'[t] = todo[t]
      BY <1>5, <2>3 DEF Actors
    <3> QED
      BY <1>5, <1>7, <2>3, <3>1 DEF Page
  <2> QED
    BY <2>1, <2>2, <2>3
<1> QED
  BY <1>1, <1>4, <1>7, NoWork, Nearer

(* The room sent afresh to all, after play_again(). *)
LEMMA RoomFrameIsRight ==
    ASSUME NEW r \in View, NEW f \in Frames, f.type = "room", f.state = r.state, f.host = r.host,
           f.text = r.text, f.roster = r.roster, NEW k \in Fields
    PROVE  /\ RightFrame(f, r, k) /\ Concerns(f, r, k)
           /\ \A r0 : Brings(f, r0, r, k)
<1>1. \A w, v \in View : Near(ReduceRoom(w, f), v, r, k)
  BY FeedAssumption, RoomFrameBrings
<1> QED
  BY <1>1 DEF RightFrame, Brings, Removes, Concerns, About

LEMMA ReadFreshHeld ==
    ASSUME FeedAssumption, Feeding, TypesInv', NEW s \in Sockets, ReadFresh(s) PROVE FeedHeld'
<1> DEFINE q == <<Publish(Snapshot)>>
<1>1. /\ s \in Actors /\ Doing(s, "fresh") /\ Same /\ todo' = [todo EXCEPT ![s] = q]
      /\ StillOpen /\ view' = view
  BY OpenElsewhere DEF ReadFresh, Then, Actors, Feeding
<1>2. OwedIn(q) = {Snapshot} /\ ~Fresh(q) /\ ~Records(q) /\ NoSend(q)
  BY OneWork DEF Publish
<1> HIDE DEF q
<1>3. OwedIn(todo[s]) = {}
  <2>1. todo[s] = <<Step(s)>> /\ Step(s).do = "fresh"
    BY <1>1, WriterIs DEF Feeding, TypesInv
  <2> HIDE DEF Step
  <2> QED
    BY <2>1, OneWork
<1>4. AllOwed' = AllOwed \cup {Snapshot}
  BY <1>1, <1>2, <1>3, OwedMoves DEF Feeding, TypesInv
<1>5. /\ Snapshot.type = "room" /\ Snapshot.state = Truth.state /\ Snapshot.host = Truth.host
      /\ Snapshot.text = Truth.text /\ Snapshot.roster = Truth.roster
      /\ Snapshot \in Frames /\ Truth \in View
  BY SnapshotIs, TruthNow DEF Truth, Feeding, TypesInv
<1>6. Truth' = Truth /\ contested' = contested /\ room' = room
  BY <1>1 DEF Same, Truth
<1>7. RightFrames'
  <2> SUFFICES ASSUME NEW f \in AllOwed', NEW k \in Fields \ contested PROVE RightFrame(f, Truth, k)
    BY <1>6 DEF RightFrames
  <2>1. CASE f = Snapshot
    BY <1>5, <2>1, RoomFrameIsRight
  <2>2. CASE f # Snapshot
    BY <1>4, <2>2 DEF Feeding, FeedHeld, RightFrames
  <2> QED
    BY <2>1, <2>2
<1>8. FinishHeld'
  <2>1. \A k \in Fields \ {} : SameRoom(Truth, Truth', k)
    BY <1>6, SameItself
  <2>2. Change(s, {}, room')
    BY <1>6 DEF Change
  <2> QED
    BY <1>1, <1>2, <1>6, <2>1, <2>2, HeldMoves DEF Feeding, TypesInv, FeedHeld
<1>9. Pages'
  <2> SUFFICES ASSUME NEW t \in Sockets, NEW g \in View, NEW v \in View, Page(t, g, v)',
                      NEW k \in Fields \ contested
               PROVE  Tracked(g, v, Truth, AllOwed', Late', k)
    BY <1>6 DEF Pages
  <2>1. Page(t, g, v)
    BY <1>1, <1>2, PagesStay DEF Feeding, TypesInv
  <2>2. Tracked(g, v, Truth, AllOwed, Late, k)
    BY <2>1 DEF Feeding, FeedHeld, Pages
  <2>3. Concerns(Snapshot, Truth, k) /\ Near(ReduceRoom(g, Snapshot), v, Truth, k)
    BY <1>5, RoomFrameIsRight, RoomFrameBrings
  <2> QED
    BY <1>4, <2>2, <2>3 DEF Tracked, Owing
<1> QED
  BY <1>7, <1>8, <1>9 DEF FeedHeld

(* The frame published is owed no more. *)
LEMMA TailOwed ==
    ASSUME NEW q \in Seq(Steps), q # <<>>, Orderly(q), q[1].do = "publish"
    PROVE  /\ q[1].frame \in OwedIn(q) /\ ~Fresh(q)
           /\ OwedIn(Tail(q)) \subseteq OwedIn(q)
           /\ OwedIn(q) \ {q[1].frame} \subseteq OwedIn(Tail(q))
           /\ ~Records(Tail(q))
           /\ \A i \in DOMAIN Tail(q) : i + 1 \in DOMAIN q /\ Tail(q)[i] = q[i + 1]
<1> DEFINE t == Tail(q)
<1>1. /\ 1 \in DOMAIN q /\ t \in Seq(Steps)
      /\ \A i \in DOMAIN t : i + 1 \in DOMAIN q /\ t[i] = q[i + 1] /\ q[i + 1].do \notin {"read", "record"}
      /\ \A i \in DOMAIN q : i # 1 => i - 1 \in DOMAIN t /\ t[i - 1] = q[i]
  BY HeadWork
<1> HIDE DEF t
<1>2. t # <<>> => 1 \in DOMAIN t
  BY <1>1
<1>3. ~Records(t) /\ ~Records(q) /\ ~Fresh(q)
  <2>1. ASSUME Records(t) PROVE FALSE
    <3>1. 1 \in DOMAIN t /\ t[1].do = "record"
      BY <1>2, <2>1 DEF Records
    <3> QED
      BY <1>1, <3>1
  <2> QED
    BY <2>1 DEF Records, Fresh
<1>4. q[1].frame \in OwedIn(q)
  BY <1>1, <1>3 DEF OwedIn, Announces
<1>5. OwedIn(t) \subseteq OwedIn(q)
  BY <1>1, <1>3 DEF OwedIn, Announces
<1>6. ASSUME NEW f \in OwedIn(q) \ {q[1].frame} PROVE f \in OwedIn(t)
  <2>1. PICK i \in DOMAIN q : q[i].do = "publish" /\ f = q[i].frame
    BY OwedFrames
  <2>2. i - 1 \in DOMAIN t /\ t[i - 1] = q[i]
    BY <1>1, <1>6, <2>1
  <2>3. i - 1 \in Announces(t) /\ f = t[i - 1].frame
    BY <2>1, <2>2 DEF Announces
  <2> QED
    BY <1>3, <2>3 DEF OwedIn
<1> QED
  BY <1>1, <1>3, <1>4, <1>5, <1>6 DEF t

(* One more frame in the queue. *)
LEMMA ToldOne ==
    ASSUME NEW q \in Seq(Frames), NEW f \in Frames
    PROVE  \A u : Reduced(u, Append(q, f)) = ReduceRoom(Reduced(u, q), f)
<1> SUFFICES ASSUME NEW u PROVE Reduced(u, Append(q, f)) = ReduceRoom(Reduced(u, q), f)
  OBVIOUS
<1> QED
  BY ReducedOne, Zenon

(* What an announcement does to each page. *)
LEMMA PageTold ==
    ASSUME FeedAssumption, TypesInv, TypesInv', NEW a \in Actors, Announce(a),
           NEW t \in Sockets, NEW h \in View, NEW v \in View, Page(t, h, v)'
    PROVE  \E g \in View : Page(t, g, v) /\ h = ReduceRoom(g, Step(a).frame)
<1> DEFINE f == Step(a).frame
           told == {Owner[s] : s \in {x \in Sockets : phase[x] = "live"}}
<1>1. /\ Step(a) = todo[a][1] /\ Step(a).do = "publish" /\ f \in Frames
      /\ todo' = [todo EXCEPT ![a] = Tail(todo[a])] /\ todo[a] # <<>>
  BY AnnounceTyped DEF Announce, Doing, Busy
<1>2. /\ phase' = phase
      /\ view' = [p \in Players |-> IF p \in told THEN ReduceRoom(view[p], f) ELSE view[p]]
      /\ queue' = [s \in Sockets |-> IF Waits(s) THEN Append(queue[s], f) ELSE queue[s]]
  BY DEF Announce
<1>3. phase'[t] = "open" => queue'[t] = Append(queue[t], f)
  BY <1>2 DEF Waits
<1>4. \A i \in DOMAIN todo'[t] : todo'[t][i].do = "send" =>
         \E j \in DOMAIN todo[t] : todo[t][j] = todo'[t][i]
  <2>1. t \in Actors
    BY DEF Actors
  <2>2. CASE t = a
    <3>1. todo'[t] = Tail(todo[t])
      BY <1>1, <2>1, <2>2, WorkPut DEF TypesInv
    <3>2. todo[t] \in Seq(Steps) /\ Orderly(todo[t])
      BY <2>1 DEF TypesInv, WorkTyped, WorkOf
    <3> QED
      BY <1>1, <2>2, <3>1, <3>2, TailOwed
  <2>3. CASE t # a
    BY <1>1, <2>1, <2>3, WorkPut DEF TypesInv
  <2> QED
    BY <2>2, <2>3
<1>5. queue[t] \in Seq(Frames)
  BY DEF TypesInv, PagesTyped
<1> HIDE DEF f
<1>10. \A u : Reduced(u, Append(queue[t], f)) = ReduceRoom(Reduced(u, queue[t]), f)
  BY <1>1, <1>5, ToldOne
<1>6. CASE phase'[t] = "live" /\ h = view'[Owner[t]]
  <2>1. Owner[t] \in told /\ Owner[t] \in Players
    BY <1>2, <1>6, OwnerIs
  <2>2. h = ReduceRoom(view[Owner[t]], f) /\ view[Owner[t]] \in View
    BY <1>2, <1>6, <2>1 DEF TypesInv, PagesTyped
  <2>3. Page(t, view[Owner[t]], v)
    BY <1>2, <1>6 DEF Page
  <2> QED
    BY <2>2, <2>3 DEF f
<1>7. CASE phase'[t] = "open" /\ h = Reduced(v, queue'[t])
  <2>1. h = ReduceRoom(Reduced(v, queue[t]), f)
    BY <1>3, <1>7, <1>10
  <2>2. Reduced(v, queue[t]) \in View
    BY <1>5, ReducedView
  <2>3. Page(t, Reduced(v, queue[t]), v)
    BY <1>2, <1>7 DEF Page
  <2> QED
    BY <2>1, <2>2, <2>3 DEF f
<1>8. ASSUME NEW i \in DOMAIN todo'[t], NEW w \in View, todo'[t][i].do = "send",
             h = Reduced(ReduceRoom(w, todo'[t][i].frame), queue'[t])
      PROVE  \E g \in View : Page(t, g, v) /\ h = ReduceRoom(g, f)
  <2>1. PICK j \in DOMAIN todo[t] : todo[t][j] = todo'[t][i]
    BY <1>4, <1>8
  <2>2. todo[t] \in Seq(Steps) /\ t \in Actors
    BY DEF TypesInv, WorkTyped, WorkOf, Actors
  <2>3. todo[t][j] \in Steps /\ todo[t][j].do = "send"
    BY <1>8, <2>1, <2>2
  <2>4. todo[t][j].frame \in Frames
    BY <2>3, StepHas, FramesAre
  <2>5. phase'[t] = "open"
    <3>1. Awaits(t)
      BY <2>2, <2>3 DEF TypesInv, WorkTyped, WorkOf
    <3> QED
      BY <1>2, <3>1 DEF Awaits
  <2> DEFINE u == ReduceRoom(w, todo[t][j].frame)
  <2>6. u \in View
    BY <2>4, ReduceEffect DEF Effect
  <2>7. h = Reduced(u, Append(queue[t], f))
    BY <1>3, <1>8, <2>1, <2>5
  <2> HIDE DEF u
  <2>8. h = ReduceRoom(Reduced(u, queue[t]), f)
    BY <1>10, <2>7
  <2>9. Reduced(u, queue[t]) \in View
    BY <1>5, <2>6, ReducedView
  <2>10. Page(t, Reduced(u, queue[t]), v)
    BY <2>1, <2>3 DEF Page, u
  <2> QED
    BY <2>8, <2>9, <2>10
<1>9. Page(t, h, v)' <=>
         \/ phase'[t] = "live" /\ h = view'[Owner[t]]
         \/ phase'[t] = "open" /\ h = Reduced(v, queue'[t])
         \/ \E i \in DOMAIN todo'[t], w \in View :
               /\ todo'[t][i].do = "send"
               /\ h = Reduced(ReduceRoom(w, todo'[t][i].frame), queue'[t])
  BY DEF Page
<1> QED
  BY <1>6, <1>7, <1>8, <1>9 DEF f

LEMMA AnnounceHeld ==
    ASSUME FeedAssumption, Feeding, TypesInv', NEW a \in Actors, Announce(a) PROVE FeedHeld'
<1> DEFINE f == Step(a).frame
           q == Tail(todo[a])
<1>1. /\ Step(a) = todo[a][1] /\ Step(a).do = "publish" /\ f \in Frames
      /\ todo' = [todo EXCEPT ![a] = q] /\ todo[a] # <<>> /\ Same
  BY AnnounceTyped DEF Announce, Doing, Busy, Feeding
<1>2. todo[a] \in Seq(Steps) /\ Orderly(todo[a])
  BY DEF Feeding, TypesInv, WorkTyped, WorkOf
<1>3. /\ f \in OwedIn(todo[a]) /\ ~Fresh(todo[a]) /\ ~Records(q)
      /\ OwedIn(q) \subseteq OwedIn(todo[a]) /\ OwedIn(todo[a]) \ {f} \subseteq OwedIn(q)
  BY <1>1, <1>2, TailOwed
<1> HIDE DEF q, f
<1>4. todo'[a] = q /\ \A b \in Actors \ {a} : todo'[b] = todo[b]
  BY <1>1, WorkPut DEF Feeding, TypesInv
<1>5. AllOwed' = UNION {OwedIn(todo'[b]) : b \in Actors} /\ (Late' <=> \E b \in Actors : Fresh(todo'[b]))
  BY DEF AllOwed, Late
<1>6. AllOwed' \subseteq AllOwed /\ AllOwed \ {f} \subseteq AllOwed' /\ f \in AllOwed
  <2>1. \A b \in Actors : /\ OwedIn(todo'[b]) \subseteq OwedIn(todo[b])
                          /\ OwedIn(todo[b]) \ {f} \subseteq OwedIn(todo'[b])
    BY <1>3, <1>4
  <2>2. f \in AllOwed /\ AllOwed' \subseteq AllOwed
    BY <1>3, <1>5, <2>1 DEF AllOwed
  <2>3. ASSUME NEW x \in AllOwed, x # f PROVE x \in AllOwed'
    <3>1. PICK b \in Actors : x \in OwedIn(todo[b])
      BY DEF AllOwed
    <3> QED
      BY <1>5, <2>1, <2>3, <3>1
  <2> QED
    BY <2>2, <2>3
<1>7. Late => Late'
  BY <1>3, <1>4, <1>5 DEF Late
<1>8. Truth' = Truth /\ contested' = contested /\ room' = room
  BY <1>1 DEF Same, Truth
<1>9. RightFrames'
  BY <1>6, <1>8 DEF RightFrames, Feeding, FeedHeld
<1>10. FinishHeld'
  <2>1. \A k \in Fields \ {} : SameRoom(Truth, Truth', k)
    BY <1>8, SameItself
  <2>2. Change(a, {}, room')
    BY <1>8 DEF Change
  <2> QED
    BY <1>1, <1>3, <1>8, <2>1, <2>2, HeldMoves DEF Feeding, TypesInv, FeedHeld
<1>11. Pages'
  <2> SUFFICES ASSUME NEW t \in Sockets, NEW h \in View, NEW v \in View, Page(t, h, v)',
                      NEW k \in Fields \ contested
               PROVE  Tracked(h, v, Truth, AllOwed', Late', k)
    BY <1>8 DEF Pages
  <2>1. PICK g \in View : Page(t, g, v) /\ h = ReduceRoom(g, f)
    BY PageTold DEF f, Feeding
  <2>2. Tracked(g, v, Truth, AllOwed, Late, k)
    BY <2>1 DEF Feeding, FeedHeld, Pages
  <2>3. \A x \in AllOwed : Concerns(x, Truth, k) =>
           /\ Brings(x, Truth, Truth, k)
           /\ k \in Players /\ k \notin DOMAIN Truth.roster => Removes(x, k)
    BY DEF Feeding, FeedHeld, RightFrames, RightFrame
  <2>4. AllOwed \in SUBSET Frames /\ Truth \in View /\ Late \in BOOLEAN
    BY OwedAreFrames, TruthNow DEF Feeding, TypesInv, Late
  <2>5. Tracked(ReduceRoom(g, f), v, Truth, AllOwed', Late, k)
    BY <1>6, <2>2, <2>3, <2>4, Published
  <2> QED
    BY <1>7, <2>1, <2>5 DEF Tracked, Owing
<1> QED
  BY <1>9, <1>10, <1>11 DEF FeedHeld

(* A step of a room that exists before and after it. *)
BothRooms ==
    RoomTyped /\ room.state # "none" /\ RoomTyped' /\ room'.state # "none"

(* The seats of others, and the rest of the room, are as they were.         *)
OnlySeats(ps) ==
    /\ room'.state = room.state /\ room'.host = room.host
    /\ \A p \in Players \ ps :
          /\ p \in Seated' <=> p \in Seated
          /\ p \in Seated => room'.seats[p] = room.seats[p]

LEMMA TextKept ==
    ASSUME BothRooms, room'.state = room.state
    PROVE  Truth'.text = Truth.text
BY TruthNow, TruthNext DEF BothRooms, HasText

LEMMA SeatsSame ==
    ASSUME FeedAssumption, BothRooms, NEW ps \in SUBSET Players, OnlySeats(ps),
           NEW k \in Fields \ ps
    PROVE  SameRoom(Truth, Truth', k)
<1>1. /\ Truth'.state = Truth.state /\ Truth'.host = Truth.host /\ Truth'.text = Truth.text
  BY TextKept, TruthNow, TruthNext DEF BothRooms, OnlySeats
<1>2. ASSUME k \in Players
      PROVE  /\ k \in DOMAIN Truth.roster <=> k \in DOMAIN Truth'.roster
             /\ k \in DOMAIN Truth.roster => Truth.roster[k] = Truth'.roster[k]
  BY <1>2, TruthNow, TruthNext DEF BothRooms, OnlySeats
<1> QED
  BY <1>1, <1>2 DEF SameRoom

LEMMA SeatNow ==
    ASSUME BothRooms
    PROVE  /\ \A p \in Seated : /\ p \in DOMAIN Truth.roster
                                /\ Truth.roster[p].connected = room.seats[p].connected
                                /\ Truth.roster[p].typed = room.seats[p].typed
                                /\ Truth.roster[p].finished = room.seats[p].finished
           /\ \A p \in Seated' : /\ p \in DOMAIN Truth'.roster
                                 /\ Truth'.roster[p] = Public(room'.seats[p])
                                 /\ Truth'.roster[p].connected = room'.seats[p].connected
                                 /\ Truth'.roster[p].typed = room'.seats[p].typed
                                 /\ Truth'.roster[p].finished = room'.seats[p].finished
           /\ DOMAIN Truth'.roster = Seated' /\ DOMAIN Truth.roster = Seated
           /\ Truth \in View /\ Truth' \in View
<1>1. /\ Truth \in View /\ DOMAIN Truth.roster = Seated
      /\ \A p \in Seated : Truth.roster[p] = Public(room.seats[p])
      /\ Truth' \in View /\ DOMAIN Truth'.roster = Seated'
      /\ \A p \in Seated' : Truth'.roster[p] = Public(room'.seats[p])
  BY TruthNow, TruthNext DEF BothRooms
<1>2. \A x : /\ Public(x).connected = x.connected /\ Public(x).typed = x.typed
              /\ Public(x).finished = x.finished
  BY DEF Public
<1>3. \A p \in Seated : /\ p \in DOMAIN Truth.roster
                        /\ Truth.roster[p].connected = room.seats[p].connected
                        /\ Truth.roster[p].typed = room.seats[p].typed
                        /\ Truth.roster[p].finished = room.seats[p].finished
  BY <1>1, <1>2
<1>4. \A p \in Seated' : /\ p \in DOMAIN Truth'.roster
                         /\ Truth'.roster[p].connected = room'.seats[p].connected
                         /\ Truth'.roster[p].typed = room'.seats[p].typed
                         /\ Truth'.roster[p].finished = room'.seats[p].finished
  BY <1>1, <1>2
<1> QED
  BY <1>1, <1>3, <1>4

(* Some parts of one seat changed, and announced.                           *)
LEMMA PatchAnnounced ==
    ASSUME FeedAssumption, BothRooms, NEW p \in Seated, p \in Players, OnlySeats({p}), Seated' = Seated,
           NEW f \in Frames, f.who = p,
           f.type \in {"player_connection", "progress", "player_finished"},
           room'.seats[p].connected = IF f.type = "player_connection" THEN f.connected
                                      ELSE room.seats[p].connected,
           room'.seats[p].typed = IF f.type = "progress" THEN f.typed
                                  ELSE IF f.type = "player_finished" THEN Length
                                  ELSE room.seats[p].typed,
           room'.seats[p].finished = IF f.type = "player_finished" THEN TRUE
                                     ELSE room.seats[p].finished,
           f.type = "player_finished" => HasText,
           NEW bad
    PROVE  Announced({f}, Truth, Truth', {p}, FALSE, bad)
<1> DEFINE x == Truth.roster[p]
           y == Truth'.roster[p]
<1>1. /\ p \in DOMAIN Truth.roster /\ p \in DOMAIN Truth'.roster
      /\ x.connected = room.seats[p].connected /\ x.typed = room.seats[p].typed
      /\ x.finished = room.seats[p].finished
      /\ y.connected = room'.seats[p].connected /\ y.typed = room'.seats[p].typed
      /\ y.finished = room'.seats[p].finished /\ Truth \in View /\ Truth' \in View
  BY SeatNow
<1>2. Truth'.text = Truth.text /\ (f.type = "player_finished" => Truth'.text)
  <2>1. Truth'.text = Truth.text
    BY TextKept DEF OnlySeats
  <2>2. HasText => Truth.text
    BY TruthNow DEF BothRooms
  <2> QED
    BY <2>1, <2>2
<1> HIDE DEF x, y
<1>3. /\ y.connected = IF f.type = "player_connection" THEN f.connected ELSE x.connected
      /\ y.typed = IF f.type = "progress" THEN f.typed
                   ELSE IF f.type = "player_finished" THEN Length ELSE x.typed
      /\ y.finished = IF f.type = "player_finished" THEN TRUE ELSE x.finished
  BY <1>1
<1>4. Brings(f, Truth, Truth', p)
  BY <1>1, <1>2, <1>3, PatchBrings DEF x, y
<1>5. Brings(f, Truth', Truth', p)
  <2>1. /\ y.connected = IF f.type = "player_connection" THEN f.connected ELSE y.connected
        /\ y.typed = IF f.type = "progress" THEN f.typed
                     ELSE IF f.type = "player_finished" THEN Length ELSE y.typed
        /\ y.finished = IF f.type = "player_finished" THEN TRUE ELSE y.finished
    BY <1>3
  <2> QED
    BY <1>1, <1>2, <2>1, PatchBrings DEF x, y
<1>6. \A k \in Fields \ {p} : SameRoom(Truth, Truth', k)
  BY SeatsSame
<1>7. About(f) = {p}
  BY AboutIs
<1>8. \A k \in Fields : Concerns(f, Truth', k) => k = p
  BY <1>7 DEF Concerns
<1>9. Concerns(f, Truth', p) /\ RightFrame(f, Truth', p)
  BY <1>1, <1>5, <1>7 DEF Concerns, RightFrame
<1> QED
  BY <1>4, <1>6, <1>8, <1>9 DEF Announced, Owing

LEMMA LeftAnnounced ==
    ASSUME FeedAssumption, BothRooms, NEW gone \in SUBSET Players, OnlySeats(gone),
           \A p \in gone : p \notin Seated', NEW N, N = {PlayerLeft(p) : p \in gone}, NEW bad
    PROVE  Announced(N, Truth, Truth', gone, FALSE, bad)
<1>1. \A k \in Fields \ gone : SameRoom(Truth, Truth', k)
  BY SeatsSame
<1>2. Truth \in View /\ Truth' \in View /\ DOMAIN Truth'.roster = Seated'
  BY SeatNow
<1>3. ASSUME NEW p \in gone
      PROVE  LET f == PlayerLeft(p) IN
             /\ f \in Frames /\ f.type = "player_left" /\ f.who = p /\ About(f) = {p}
             /\ Brings(f, Truth, Truth', p) /\ Brings(f, Truth', Truth', p)
             /\ Concerns(f, Truth', p) /\ RightFrame(f, Truth', p)
  <2> DEFINE f == PlayerLeft(p)
  <2>1. f \in Frames /\ f.type = "player_left" /\ f.who = p
    BY FramesAre DEF PlayerLeft
  <2> HIDE DEF f
  <2>2. About(f) = {p}
    BY <2>1, AboutIs
  <2>3. Brings(f, Truth, Truth', p) /\ Brings(f, Truth', Truth', p)
    BY <1>2, <2>1, LeftBrings
  <2>4. Concerns(f, Truth', p) /\ RightFrame(f, Truth', p)
    BY <2>1, <2>2, <2>3 DEF Concerns, RightFrame, Removes
  <2> QED
    BY <2>1, <2>2, <2>3, <2>4 DEF f
<1>4. \A p \in gone : Owing(N, Truth', FALSE, p)
  BY <1>3 DEF Owing
<1>5. ASSUME NEW n \in N, NEW k \in Fields, Concerns(n, Truth', k)
      PROVE  k \in gone /\ Brings(n, Truth, Truth', k) /\ RightFrame(n, Truth', k)
  <2>1. PICK p \in gone : n = PlayerLeft(p)
    OBVIOUS
  <2>2. k = p
    BY <1>3, <1>5, <2>1 DEF Concerns
  <2> QED
    BY <1>3, <2>1, <2>2
<1> QED
  BY <1>1, <1>4, <1>5 DEF Announced

(* The writes of one player's seat, and of the players removed. *)
LEMMA FeedingIs ==
    ASSUME Feeding, TypesInv', room'.state # "none"
    PROVE  BothRooms /\ TypesInv /\ WorkTyped /\ RoomTyped /\ room.state # "none" /\ FeedHeld
BY DEF Feeding, TypesInv, BothRooms

LEMMA NewsWork ==
    ASSUME NEW f, NEW gone
    PROVE  /\ OwedIn(<<Publish(f)>>) = {f} /\ NoSend(<<Publish(f)>>)
           /\ ~Fresh(<<Publish(f)>>) /\ ~Records(<<Publish(f)>>)
           /\ OwedIn(<<Publish(f), Do("check")>>) = {f} /\ NoSend(<<Publish(f), Do("check")>>)
           /\ ~Fresh(<<Publish(f), Do("check")>>) /\ ~Records(<<Publish(f), Do("check")>>)
           /\ OwedIn(<<Publish(f), Settle(gone)>>) = {f} /\ NoSend(<<Publish(f), Settle(gone)>>)
           /\ ~Fresh(<<Publish(f), Settle(gone)>>) /\ ~Records(<<Publish(f), Settle(gone)>>)
<1>1. /\ Publish(f).do = "publish" /\ Publish(f).frame = f
      /\ Do("check").do = "check" /\ Settle(gone).do = "settle"
  BY DEF Publish, Do, Settle
<1> HIDE DEF Publish, Do, Settle
<1> QED
  BY <1>1, OneWork, TwoWork

LEMMA MarkDisconnectedHeld ==
    ASSUME FeedAssumption, Feeding, TypesInv', room'.state # "none",
           NEW s \in Sockets, MarkDisconnected(s)
    PROVE  FeedHeld'
<1> DEFINE p == Owner[s]
           f == Presence(p, FALSE)
           q == <<Publish(f), Do("check")>>
<1>1. /\ s \in Actors /\ p \in Players /\ view' = view
      /\ OwedIn(todo[s]) = {} /\ ~Fresh(todo[s])
  BY OwnerIs, Free DEF MarkDisconnected, Idle, Feeding, TypesInv
<1>2. StillOpen
  BY DEF MarkDisconnected, StillOpen, Feeding, TypesInv, PagesTyped
<1>3. CASE ~(p \in Seated /\ room.seats[p].conn = s)
  <2>1. Same /\ todo' = todo
    BY <1>3 DEF MarkDisconnected
  <2> QED
    BY <1>1, <1>2, <2>1, Unmoved
<1>4. CASE p \in Seated /\ room.seats[p].conn = s
  <2>1. /\ Change(s, {p}, [room EXCEPT !.seats[p].connected = FALSE])
        /\ todo' = [todo EXCEPT ![s] = q]
    BY <1>4 DEF MarkDisconnected, Then
  <2>2. room' = [room EXCEPT !.seats[p].connected = FALSE] /\ Change(s, {p}, room')
    BY <2>1 DEF Change
  <2>3. /\ room'.state = room.state /\ room'.host = room.host /\ Seated' = Seated
        /\ \A x \in Seated : room'.seats[x] = IF x = p THEN [room.seats[p] EXCEPT !.connected = FALSE] ELSE room.seats[x]
    BY <1>4, <2>2, DisconnectedRoom, FeedingIs DEF Seated
  <2>4. f \in Frames /\ f.who = p /\ f.type = "player_connection" /\ f.connected = FALSE
    BY <1>1, FramesAre DEF Presence
  <2>5. OwedIn(q) = {f} /\ NoSend(q) /\ ~Fresh(q) /\ ~Records(q)
    BY NewsWork
  <2> HIDE DEF f, q
  <2>6. /\ room'.seats[p].connected = FALSE /\ room'.seats[p].typed = room.seats[p].typed
        /\ room'.seats[p].finished = room.seats[p].finished
    <3>1. room.seats[p] \in Seats
      BY <1>4, SeatIn, FeedingIs
    <3> QED
      BY <1>4, <2>3, <3>1 DEF Seats
  <2>7. OnlySeats({p})
    BY <2>3 DEF OnlySeats
  <2>8. Announced({f}, Truth, Truth', {p}, FALSE, contested')
    BY <1>1, <1>4, <2>3, <2>4, <2>6, <2>7, PatchAnnounced, FeedingIs
  <2>9. Announced(OwedIn(q), Truth, Truth', {p}, Fresh(q), contested')
    BY <2>5, <2>8 DEF Announced, Owing
  <2>10. {p} \in SUBSET Fields /\ OwedIn(q) \subseteq Frames
    BY <1>1, <2>4, <2>5 DEF Fields
  <2> HIDE DEF p
  <2> QED
    BY <1>1, <1>2, <2>1, <2>2, <2>5, <2>9, <2>10, Wrote, FeedingIs
<1> QED
  BY <1>3, <1>4

LEMMA EmptiedNext ==
    ASSUME RoomTyped, NEW gone, room' = [room EXCEPT !.seats = Without(@, gone)]
    PROVE  /\ room'.state = room.state /\ room'.host = room.host
           /\ Seated' = Seated \ gone
           /\ \A q \in Seated' : room'.seats[q] = room.seats[q]
<1> DEFINE seats == Without(room.seats, gone)
<1>1. room' = [room EXCEPT !.seats = seats]
  OBVIOUS
<1>2. /\ DOMAIN seats = DOMAIN room.seats \ gone
      /\ \A q \in DOMAIN seats : seats[q] = room.seats[q]
  BY DEF Without
<1> HIDE DEF seats
<1>3. room'.state = room.state /\ room'.host = room.host /\ room'.seats = seats
  BY <1>1 DEF RoomTyped, RoomOf, Rooms
<1> QED
  BY <1>2, <1>3 DEF Seated

LEMMA LeaveHeld ==
    ASSUME FeedAssumption, Feeding, TypesInv', room'.state # "none", NEW s \in Sockets, Leave(s)
    PROVE  FeedHeld'
<1> DEFINE p == Owner[s]
           f == PlayerLeft(p)
           q == <<Publish(f), Settle({p})>>
<1>1. /\ s \in Actors /\ p \in Players /\ view' = view
      /\ OwedIn(todo[s]) = {} /\ ~Fresh(todo[s])
  BY OwnerIs, Free DEF Leave, Ready, Idle, Feeding, TypesInv
<1>2. StillOpen
  BY DEF Leave, StillOpen, Feeding, TypesInv, PagesTyped
<1>3. CASE p \notin Seated
  <2>1. Same /\ todo' = todo
    BY <1>3 DEF Leave
  <2> QED
    BY <1>1, <1>2, <2>1, Unmoved
<1>4. CASE p \in Seated
  <2>1. /\ Change(s, {p}, [room EXCEPT !.seats = Without(@, {p})])
        /\ todo' = [todo EXCEPT ![s] = q]
    BY <1>4 DEF Leave, Then
  <2>2. room' = [room EXCEPT !.seats = Without(@, {p})] /\ Change(s, {p}, room')
    BY <2>1 DEF Change
  <2>3. /\ room'.state = room.state /\ room'.host = room.host /\ Seated' = Seated \ {p}
        /\ \A x \in Seated' : room'.seats[x] = room.seats[x]
    BY <2>2, EmptiedNext, FeedingIs
  <2>4. f \in Frames
    BY <1>1, FramesAre
  <2>5. OwedIn(q) = {f} /\ NoSend(q) /\ ~Fresh(q) /\ ~Records(q)
    BY NewsWork
  <2>6. {f} = {PlayerLeft(x) : x \in {p}}
    OBVIOUS
  <2> HIDE DEF f, q
  <2>7. OnlySeats({p})
    BY <2>3 DEF OnlySeats
  <2>8. Announced({f}, Truth, Truth', {p}, FALSE, contested')
    BY <1>1, <2>3, <2>6, <2>7, LeftAnnounced, FeedingIs
  <2>9. Announced(OwedIn(q), Truth, Truth', {p}, Fresh(q), contested')
    BY <2>5, <2>8 DEF Announced, Owing
  <2>10. {p} \in SUBSET Fields /\ OwedIn(q) \subseteq Frames
    BY <1>1, <2>4, <2>5 DEF Fields
  <2> HIDE DEF p
  <2> QED
    BY <1>1, <1>2, <2>1, <2>2, <2>5, <2>9, <2>10, Wrote, FeedingIs
<1> QED
  BY <1>3, <1>4

(* The players swept away, each with an announcement. *)
LEMMA FarewellWork ==
    ASSUME FeedAssumption, NEW gone \in SUBSET Players,
           NEW q, q = Append(Farewell(gone), Settle(gone))
    PROVE  /\ OwedIn(q) = {PlayerLeft(p) : p \in gone}
           /\ NoSend(q) /\ ~Fresh(q) /\ ~Records(q)
<1> DEFINE news == Farewell(gone)
           last == Settle(gone)
<1>1. /\ news \in Seq(Steps) /\ DOMAIN news = 1..Len(news)
      /\ \A i \in DOMAIN news : /\ news[i].do = "publish"
                                /\ \E p \in gone : news[i] = Publish(PlayerLeft(p))
      /\ \A p \in gone : \E i \in DOMAIN news : news[i] = Publish(PlayerLeft(p))
  BY Farewells
<1>2. last \in Steps /\ last.do = "settle"
  BY StepsAre DEF Settle
<1>3. q = Append(news, last)
  OBVIOUS
<1> HIDE DEF news, last
<1>4. /\ DOMAIN q = 1..Len(news) + 1
      /\ \A i \in 1..Len(news) : q[i] = news[i]
      /\ q[Len(news) + 1] = last
  BY <1>1, <1>2, <1>3, WorkMany
<1>5. Len(news) \in Nat
  BY <1>1
<1>6. \A i \in DOMAIN q : (i \in DOMAIN news /\ q[i] = news[i]) \/ q[i] = last
  BY <1>1, <1>4, <1>5
<1>7. \A i \in DOMAIN q : q[i].do \in {"publish", "settle"}
  BY <1>1, <1>2, <1>6
<1>8. 1 \in DOMAIN q
  BY <1>4, <1>5
<1>9. NoSend(q) /\ ~Fresh(q) /\ ~Records(q)
  BY <1>7, <1>8 DEF NoSend, Fresh, Records
<1>10. ASSUME NEW f \in OwedIn(q) PROVE \E p \in gone : f = PlayerLeft(p)
  <2>1. PICK i \in DOMAIN q : q[i].do = "publish" /\ f = q[i].frame
    BY <1>9 DEF OwedIn, Announces
  <2>2. i \in DOMAIN news /\ q[i] = news[i]
    BY <1>2, <1>6, <2>1
  <2>3. PICK p \in gone : news[i] = Publish(PlayerLeft(p))
    BY <1>1, <2>2
  <2> QED
    BY <2>1, <2>2, <2>3 DEF Publish
<1>11. ASSUME NEW p \in gone PROVE PlayerLeft(p) \in OwedIn(q)
  <2>1. PICK i \in DOMAIN news : news[i] = Publish(PlayerLeft(p))
    BY <1>1
  <2>2. i \in DOMAIN q /\ q[i] = Publish(PlayerLeft(p))
    BY <1>1, <1>4, <1>5, <2>1
  <2>3. i \in Announces(q) /\ q[i].frame = PlayerLeft(p)
    BY <2>2 DEF Announces, Publish
  <2> QED
    BY <1>9, <2>3 DEF OwedIn
<1> QED
  BY <1>9, <1>10, <1>11

LEMMA SweepHeld ==
    ASSUME FeedAssumption, Feeding, TypesInv', room'.state # "none", NEW c \in Clocks, Sweep(c)
    PROVE  FeedHeld'
<1>1. PICK gone \in SUBSET Seated :
         /\ gone \in SUBSET Players /\ gone \in SUBSET Fields /\ ~Busy(c)
         /\ Change(c, gone, [room EXCEPT !.seats = Without(@, gone)])
         /\ todo' = [todo EXCEPT ![c] = Append(Farewell(gone), Settle(gone))]
         /\ Elsewhere
  BY SweepIs, FeedingIs
<1> DEFINE q == Append(Farewell(gone), Settle(gone))
<1>2. c \in Actors /\ OwedIn(todo[c]) = {} /\ ~Fresh(todo[c])
  BY <1>1, Free DEF Actors, Feeding, TypesInv
<1>3. StillOpen /\ view' = view
  BY <1>1, OpenElsewhere
<1>4. room' = [room EXCEPT !.seats = Without(@, gone)] /\ Change(c, gone, room')
  BY <1>1 DEF Change
<1>5. /\ room'.state = room.state /\ room'.host = room.host /\ Seated' = Seated \ gone
      /\ \A x \in Seated' : room'.seats[x] = room.seats[x]
  BY <1>4, EmptiedNext, FeedingIs
<1>6. OwedIn(q) = {PlayerLeft(p) : p \in gone} /\ NoSend(q) /\ ~Fresh(q) /\ ~Records(q)
  BY <1>1, FarewellWork
<1>7. todo' = [todo EXCEPT ![c] = q]
  BY <1>1
<1> HIDE DEF q
<1>8. OnlySeats(gone)
  BY <1>5 DEF OnlySeats
<1>9. Announced(OwedIn(q), Truth, Truth', gone, FALSE, contested')
  BY <1>1, <1>5, <1>6, <1>8, LeftAnnounced, FeedingIs
<1>10. Announced(OwedIn(q), Truth, Truth', gone, Fresh(q), contested')
  BY <1>6, <1>9 DEF Announced, Owing
<1>11. OwedIn(q) \subseteq Frames
  BY <1>1, <1>6, FramesAre
<1> QED
  BY <1>1, <1>2, <1>3, <1>4, <1>6, <1>7, <1>10, <1>11, Wrote, FeedingIs

LEMMA PatchTypedHeld ==
    ASSUME FeedAssumption, Feeding, TypesInv', room'.state # "none", NEW s \in Sockets, PatchTyped(s)
    PROVE  FeedHeld'
<1> DEFINE p == Owner[s]
           n == Step(s).typed
           f == Progress(p, n)
           q == <<Publish(f)>>
<1>1. /\ s \in Actors /\ p \in Players /\ n \in 0..Length /\ f \in Frames /\ Elsewhere
      /\ \/ /\ StillTyping(p)
            /\ Change(s, {p}, [room EXCEPT !.seats[p].typed = n])
            /\ todo' = [todo EXCEPT ![s] = q]
         \/ Same /\ todo' = [todo EXCEPT ![s] = <<>>]
  BY PatchTypedIs, FeedingIs
<1>2. StillOpen /\ view' = view
  BY <1>1, OpenElsewhere
<1>3. OwedIn(todo[s]) = {} /\ ~Fresh(todo[s])
  BY <1>1, Free DEF PatchTyped, Feeding, TypesInv
<1>4. CASE Same /\ todo' = [todo EXCEPT ![s] = <<>>]
  BY <1>1, <1>2, <1>3, <1>4, NoWork, KeptQuiet
<1>5. CASE /\ StillTyping(p)
           /\ Change(s, {p}, [room EXCEPT !.seats[p].typed = n])
           /\ todo' = [todo EXCEPT ![s] = q]
  <2>1. room' = [room EXCEPT !.seats[p].typed = n] /\ Change(s, {p}, room') /\ p \in Seated
    BY <1>5 DEF Change, StillTyping
  <2>2. f.who = p /\ f.type = "progress" /\ f.typed = n
    BY DEF Progress
  <2>3. OwedIn(q) = {f} /\ NoSend(q) /\ ~Fresh(q) /\ ~Records(q)
    BY NewsWork
  <2> HIDE DEF n, f, q
  <2>4. /\ room'.state = room.state /\ room'.host = room.host /\ Seated' = Seated
        /\ \A x \in Seated : room'.seats[x] = IF x = p THEN [room.seats[p] EXCEPT !.typed = n] ELSE room.seats[x]
    BY <1>1, <2>1, TypedRoom, FeedingIs DEF Seated
  <2>5. /\ room'.seats[p].connected = room.seats[p].connected /\ room'.seats[p].typed = n
        /\ room'.seats[p].finished = room.seats[p].finished
    <3>1. room.seats[p] \in Seats
      BY <2>1, SeatIn, FeedingIs
    <3> QED
      BY <2>1, <2>4, <3>1 DEF Seats
  <2>6. OnlySeats({p})
    BY <2>4 DEF OnlySeats
  <2>7. Announced({f}, Truth, Truth', {p}, FALSE, contested')
    BY <1>1, <2>1, <2>2, <2>4, <2>5, <2>6, PatchAnnounced, FeedingIs
  <2>8. Announced(OwedIn(q), Truth, Truth', {p}, Fresh(q), contested')
    BY <2>3, <2>7 DEF Announced, Owing
  <2>9. {p} \in SUBSET Fields /\ OwedIn(q) \subseteq Frames
    BY <1>1, <2>3 DEF Fields
  <2> HIDE DEF p
  <2> QED
    BY <1>1, <1>2, <1>3, <1>5, <2>1, <2>3, <2>8, <2>9, Wrote, FeedingIs
<1> QED
  BY <1>1, <1>4, <1>5

(* The finish, recorded. *)
LEMMA FinishedNext ==
    ASSUME RoomTyped, NEW p \in Seated,
           room' = [room EXCEPT !.seats[p] = [@ EXCEPT !.finished = TRUE, !.typed = Length]]
    PROVE  /\ room'.state = room.state /\ room'.host = room.host /\ Seated' = Seated
           /\ \A q \in Seated : room'.seats[q] =
                 IF q = p THEN [room.seats[p] EXCEPT !.finished = TRUE, !.typed = Length]
                 ELSE room.seats[q]
<1> DEFINE seat == [room.seats[p] EXCEPT !.finished = TRUE, !.typed = Length]
           seats == [room.seats EXCEPT ![p] = seat]
<1>1. room' = [room EXCEPT !.seats = seats]
  OBVIOUS
<1> HIDE DEF seat
<1>2. DOMAIN seats = Seated /\ \A q \in Seated : seats[q] = IF q = p THEN seat ELSE room.seats[q]
  BY DEF Seated
<1> HIDE DEF seats
<1>3. room'.state = room.state /\ room'.host = room.host /\ room'.seats = seats
  BY <1>1 DEF RoomTyped, RoomOf, Rooms
<1> QED
  BY <1>2, <1>3 DEF Seated, seat

LEMMA RecordFinishHeld ==
    ASSUME FeedAssumption, Feeding, TypesInv', room'.state # "none", NEW s \in Sockets, RecordFinish(s)
    PROVE  FeedHeld'
<1> DEFINE p == Owner[s]
           f == PlayerFinished(p)
           q == <<Publish(f), Do("check")>>
<1>1. /\ s \in Actors /\ p \in Players /\ todo' = [todo EXCEPT ![s] = q] /\ todo[s] = Recording(s)
  BY RecordFinishTyped, OwnerIs, FeedingIs
<1>2. StillOpen /\ view' = view
  BY OpenElsewhere DEF RecordFinish
<1>3. CASE p \notin Seated
  BY <1>3, RecordMissed
<1>4. CASE p \in Seated
  <2>1. room' = [room EXCEPT !.seats[p] = [@ EXCEPT !.finished = TRUE, !.typed = Length]]
        /\ Change(s, {p}, room')
    BY <1>4 DEF RecordFinish, Change
  <2>2. f.who = p /\ f.type = "player_finished" /\ f \in Frames
    BY <1>1, FramesAre DEF PlayerFinished
  <2>3. OwedIn(q) = {f} /\ NoSend(q) /\ ~Fresh(q) /\ ~Records(q)
    BY NewsWork
  <2>4. OwedIn(todo[s]) = {} /\ ~Fresh(todo[s]) /\ (p \in contested \/ HasText)
    <3>1. OwedIn(todo[s]) = {} /\ ~Fresh(todo[s]) /\ Records(todo[s])
      BY <1>1, RecordingWork
    <3> QED
      BY <1>1, <3>1 DEF Feeding, FeedHeld, FinishHeld
  <2> HIDE DEF f, q
  <2>5. /\ room'.state = room.state /\ room'.host = room.host /\ Seated' = Seated
        /\ \A x \in Seated : room'.seats[x] = IF x = p THEN [room.seats[p] EXCEPT !.finished = TRUE, !.typed = Length] ELSE room.seats[x]
    BY <1>4, <2>1, FinishedNext, FeedingIs
  <2>6. /\ room'.seats[p].connected = room.seats[p].connected /\ room'.seats[p].typed = Length
        /\ room'.seats[p].finished = TRUE
    <3>1. room.seats[p] \in Seats
      BY <1>4, SeatIn, FeedingIs
    <3> QED
      BY <1>4, <2>5, <3>1 DEF Seats
  <2>7. OnlySeats({p})
    BY <2>5 DEF OnlySeats
  <2>8. Announced({f}, Truth, Truth', {p}, FALSE, contested')
    <3>1. CASE HasText
      BY <1>1, <1>4, <2>2, <2>5, <2>6, <2>7, <3>1, PatchAnnounced, FeedingIs
    <3>2. CASE p \in contested
      <4>1. p \in contested'
        BY <2>1, <3>2, ChangeKeeps
      <4>2. \A k \in Fields \ {p} : SameRoom(Truth, Truth', k)
        BY <1>1, <2>7, SeatsSame, FeedingIs
      <4>3. About(f) = {p}
        BY <2>2, AboutIs
      <4> QED
        BY <4>1, <4>2, <4>3 DEF Announced, Concerns
    <3> QED
      BY <2>4, <3>1, <3>2
  <2>9. Announced(OwedIn(q), Truth, Truth', {p}, Fresh(q), contested')
    BY <2>3, <2>8 DEF Announced, Owing
  <2>10. {p} \in SUBSET Fields /\ OwedIn(q) \subseteq Frames
    BY <1>1, <2>2, <2>3 DEF Fields
  <2> HIDE DEF p
  <2> QED
    BY <1>1, <1>2, <2>1, <2>3, <2>4, <2>9, <2>10, Wrote, FeedingIs DEF q
<1> QED
  BY <1>3, <1>4

(* A player who takes a seat, or comes back to it. *)
LEMMA SeatedNext ==
    ASSUME RoomTyped, NEW p, NEW seat, room' = [room EXCEPT !.seats = Seating(@, p, seat)]
    PROVE  /\ room'.state = room.state /\ room'.host = room.host
           /\ Seated' = Seated \cup {p}
           /\ \A q \in Seated' : room'.seats[q] = IF q = p THEN seat ELSE room.seats[q]
<1> DEFINE seats == Seating(room.seats, p, seat)
<1>1. room' = [room EXCEPT !.seats = seats]
  OBVIOUS
<1>2. /\ DOMAIN seats = DOMAIN room.seats \cup {p}
      /\ \A q \in DOMAIN seats : seats[q] = IF q = p THEN seat ELSE room.seats[q]
  BY DEF Seating
<1> HIDE DEF seats
<1>3. room'.state = room.state /\ room'.host = room.host /\ room'.seats = seats
  BY <1>1 DEF RoomTyped, RoomOf, Rooms
<1> QED
  BY <1>2, <1>3 DEF Seated

LEMMA JoinAnnounced ==
    ASSUME FeedAssumption, BothRooms, NEW s \in Sockets, NEW p, p = Owner[s], p \in Players,
           p \notin Seated, room.state = "lobby",
           room' = [room EXCEPT !.seats = Seating(@, p, NewSeat(s))], NEW bad
    PROVE  Announced({PlayerJoined(s)}, Truth, Truth', {p}, FALSE, bad)
<1> DEFINE f == PlayerJoined(s)
<1>1. /\ room'.state = room.state /\ room'.host = room.host
      /\ Seated' = Seated \cup {p}
      /\ \A q \in Seated' : room'.seats[q] = IF q = p THEN NewSeat(s) ELSE room.seats[q]
  BY SeatedNext DEF BothRooms
<1>2. OnlySeats({p})
  BY <1>1 DEF OnlySeats
<1>3. /\ f \in Frames /\ f.type = "player_joined" /\ f.who = p /\ f.seat = Public(NewSeat(s))
  BY FramesAre DEF PlayerJoined
<1> HIDE DEF f
<1>4. /\ Truth \in View /\ Truth' \in View /\ p \in DOMAIN Truth'.roster
      /\ Truth'.roster[p] = f.seat
  BY <1>1, <1>3, SeatNow
<1>5. ~Truth'.text
  BY <1>1, TruthNext DEF BothRooms, HasText
<1>6. Brings(f, Truth, Truth', p) /\ Brings(f, Truth', Truth', p)
  BY <1>3, <1>4, <1>5, JoinedBrings
<1>7. About(f) = {p}
  BY <1>3, AboutIs
<1>8. \A k \in Fields \ {p} : SameRoom(Truth, Truth', k)
  BY <1>2, SeatsSame
<1>9. \A k \in Fields : Concerns(f, Truth', k) => k = p
  BY <1>7 DEF Concerns
<1>10. Concerns(f, Truth', p) /\ RightFrame(f, Truth', p)
  BY <1>3, <1>4, <1>6, <1>7 DEF Concerns, RightFrame
<1>11. Announced({f}, Truth, Truth', {p}, FALSE, bad)
  BY <1>6, <1>8, <1>9, <1>10 DEF Announced, Owing
<1> QED
  BY <1>11 DEF f

LEMMA JoinHeld ==
    ASSUME FeedAssumption, Feeding, TypesInv', room'.state # "none", NEW s \in Sockets, Join(s)
    PROVE  FeedHeld'
<1> DEFINE p == Owner[s]
           seat == IF p \in Seated THEN [room.seats[p] EXCEPT !.conn = s, !.connected = TRUE]
                   ELSE NewSeat(s)
           f == IF p \in Seated THEN Presence(p, TRUE) ELSE PlayerJoined(s)
           q == <<Do("read"), Publish(f)>>
<1>1. /\ s \in Actors /\ p \in Players /\ OwedIn(todo[s]) = {} /\ ~Fresh(todo[s])
  BY OwnerIs, Free DEF Join, Feeding, TypesInv
<1>2. CASE ~(p \in Seated \/ room.state = "lobby")
  BY <1>2, JoinRefusedHeld DEF Join
<1>3. CASE p \in Seated \/ room.state = "lobby"
  <2>1. /\ Change(s, {p}, [room EXCEPT !.seats = Seating(@, p, seat)])
        /\ todo' = [todo EXCEPT ![s] = q] /\ Elsewhere
    BY <1>3 DEF Join, Then
  <2>2. room' = [room EXCEPT !.seats = Seating(@, p, seat)] /\ Change(s, {p}, room')
    BY <2>1 DEF Change
  <2>3. StillOpen /\ view' = view
    BY <2>1, OpenElsewhere
  <2>4. OwedIn(q) = {f} /\ NoSend(q) /\ ~Fresh(q) /\ ~Records(q)
    <3>1. Do("read").do = "read" /\ \A x : Publish(x).do = "publish" /\ Publish(x).frame = x
      BY DEF Do, Publish
    <3> HIDE DEF f, Do, Publish
    <3> QED
      BY <3>1, TwoWork
  <2>5. f \in Frames
    BY <1>1, FramesAre
  <2>6. Announced({f}, Truth, Truth', {p}, FALSE, contested')
    <3>1. CASE p \notin Seated
      <4>1. f = PlayerJoined(s) /\ room' = [room EXCEPT !.seats = Seating(@, p, NewSeat(s))]
        BY <2>2, <3>1
      <4> HIDE DEF f, seat
      <4> QED
        BY <1>1, <1>3, <3>1, <4>1, JoinAnnounced, FeedingIs
    <3>2. CASE p \in Seated
      <4> DEFINE back == [room.seats[p] EXCEPT !.conn = s, !.connected = TRUE]
      <4>1. f = Presence(p, TRUE) /\ room' = [room EXCEPT !.seats = Seating(@, p, back)]
        BY <2>2, <3>2
      <4>2. f.who = p /\ f.type = "player_connection" /\ f.connected = TRUE
        BY <4>1 DEF Presence
      <4>3. room.seats[p] \in Seats
        BY <3>2, SeatIn, FeedingIs
      <4>4. /\ back.connected = TRUE /\ back.typed = room.seats[p].typed
            /\ back.finished = room.seats[p].finished
        BY <4>3 DEF Seats
      <4> HIDE DEF f, seat, back
      <4>5. /\ room'.state = room.state /\ room'.host = room.host
            /\ Seated' = Seated \cup {p}
            /\ \A x \in Seated' : room'.seats[x] = IF x = p THEN back ELSE room.seats[x]
        BY <4>1, SeatedNext, FeedingIs
      <4>6. OnlySeats({p}) /\ Seated' = Seated /\ room'.seats[p] = back
        BY <3>2, <4>5 DEF OnlySeats
      <4> QED
        BY <1>1, <2>5, <3>2, <4>2, <4>4, <4>6, PatchAnnounced, FeedingIs
    <3> QED
      BY <3>1, <3>2
  <2> HIDE DEF f, q, seat
  <2>7. Announced(OwedIn(q), Truth, Truth', {p}, Fresh(q), contested')
    BY <2>4, <2>6 DEF Announced, Owing
  <2>8. {p} \in SUBSET Fields /\ OwedIn(q) \subseteq Frames
    BY <1>1, <2>4, <2>5 DEF Fields
  <2> HIDE DEF p
  <2> QED
    BY <1>1, <2>1, <2>2, <2>3, <2>4, <2>7, <2>8, Wrote, FeedingIs
<1> QED
  BY <1>2, <1>3

(* The host, and the states of the race. *)
LEMMA HandOverHeld ==
    ASSUME FeedAssumption, Feeding, TypesInv', room'.state # "none", NEW a \in Actors, HandOver(a)
    PROVE  FeedHeld'
<1> DEFINE to == Step(a).to
           f == HostChanged(to)
           q == <<Publish(f)>>
           handed == room.host = Step(a).from /\ room.state # "none"
<1>1. /\ to \in Players /\ Elsewhere
      /\ todo' = [todo EXCEPT ![a] = IF handed THEN q ELSE <<>>]
      /\ OwedIn(todo[a]) = {} /\ ~Fresh(todo[a])
  BY HandOverTyped, Free DEF HandOver, Feeding, TypesInv
<1>2. StillOpen /\ view' = view
  BY <1>1, OpenElsewhere
<1>3. CASE ~handed
  <2>1. Same
    BY <1>3 DEF HandOver
  <2>2. todo' = [todo EXCEPT ![a] = <<>>]
    BY <1>1, <1>3
  <2> QED
    BY <1>1, <1>2, <2>1, <2>2, NoWork, KeptQuiet
<1>4. CASE handed
  <2>1. todo' = [todo EXCEPT ![a] = q]
    BY <1>1, <1>4
  <2>2. room' = [room EXCEPT !.host = to] /\ Change(a, {"host"}, room')
    BY <1>4 DEF HandOver, Change
  <2>3. f \in Frames /\ f.type = "host_changed" /\ f.host = to
    BY <1>1, FramesAre DEF HostChanged
  <2>4. OwedIn(q) = {f} /\ NoSend(q) /\ ~Fresh(q) /\ ~Records(q)
    BY NewsWork
  <2> HIDE DEF to, f, q, handed
  <2>5. room'.state = room.state /\ room'.seats = room.seats /\ room'.host = to
    BY <2>2, FeedingIs DEF RoomTyped, RoomOf, Rooms
  <2>6. /\ Truth' \in View /\ Truth \in View /\ Truth'.host = to /\ Truth'.state = Truth.state
        /\ Truth'.text = Truth.text /\ DOMAIN Truth'.roster = DOMAIN Truth.roster
        /\ \A p \in DOMAIN Truth.roster : Truth'.roster[p] = Truth.roster[p]
    BY <2>5, TextKept, TruthNow, TruthNext, FeedingIs DEF BothRooms, Seated
  <2>7. \A k \in Fields \ {"host"} : SameRoom(Truth, Truth', k)
    BY <2>6 DEF SameRoom
  <2>8. Brings(f, Truth, Truth', "host") /\ Brings(f, Truth', Truth', "host")
    BY <2>3, <2>6, HostBrings
  <2>9. About(f) = {"host"} /\ "host" \in Fields /\ "host" \notin Players
    BY <2>3, AboutIs DEF Fields, FeedAssumption
  <2>10. Concerns(f, Truth', "host") /\ RightFrame(f, Truth', "host")
    BY <2>3, <2>8, <2>9 DEF Concerns, RightFrame
  <2>11. Announced(OwedIn(q), Truth, Truth', {"host"}, Fresh(q), contested')
    BY <2>4, <2>7, <2>8, <2>9, <2>10 DEF Announced, Owing, Concerns
  <2>12. {"host"} \in SUBSET Fields /\ OwedIn(q) \subseteq Frames
    BY <2>3, <2>4, <2>9
  <2> QED
    BY <1>1, <1>2, <2>1, <2>2, <2>4, <2>11, <2>12, Wrote, FeedingIs
<1> QED
  BY <1>3, <1>4

(* The state moves, and nothing else does. *)
LEMMA StateAnnounced ==
    ASSUME FeedAssumption, BothRooms, room'.host = room.host, room'.seats = room.seats,
           HasText, NEW f, f = Plain(f.type),
           \/ f.type = "started" /\ room'.state = "running"
           \/ f.type = "race_over" /\ room'.state = "finished",
           NEW bad
    PROVE  f \in Frames /\ Announced({f}, Truth, Truth', {"state"}, FALSE, bad)
<1>1. f \in Frames
  BY FramesAre
<1>2. /\ Truth' \in View /\ Truth \in View /\ Truth'.host = Truth.host
      /\ Truth'.state = room'.state /\ DOMAIN Truth'.roster = DOMAIN Truth.roster
      /\ \A p \in DOMAIN Truth.roster : Truth'.roster[p] = Truth.roster[p]
  BY TruthNow, TruthNext DEF BothRooms, Seated
<1>3. Truth'.text = Truth.text
  BY TruthNow, TruthNext DEF BothRooms, HasText
<1>4. \A k \in Fields \ {"state"} : SameRoom(Truth, Truth', k)
  BY <1>2, <1>3 DEF SameRoom
<1>5. Brings(f, Truth, Truth', "state") /\ Brings(f, Truth', Truth', "state")
  BY <1>1, <1>2, <1>3, StateBrings
<1>6. About(f) = {"state"} /\ "state" \in Fields /\ "state" \notin Players
  BY <1>1, AboutIs DEF Fields, FeedAssumption
<1>7. Concerns(f, Truth', "state") /\ RightFrame(f, Truth', "state")
  BY <1>5, <1>6 DEF Concerns, RightFrame
<1> QED
  BY <1>1, <1>4, <1>5, <1>6, <1>7 DEF Announced, Owing, Concerns

LEMMA GoHeld ==
    ASSUME FeedAssumption, Feeding, TypesInv', room'.state # "none", NEW c \in Clocks, Go(c)
    PROVE  FeedHeld'
<1> DEFINE f == Plain("started")
           q == <<Publish(f)>>
<1>1. /\ c \in Actors /\ Elsewhere /\ todo' = [todo EXCEPT ![c] = q]
      /\ OwedIn(todo[c]) = {} /\ ~Fresh(todo[c])
  BY Free DEF Go, Then, Idle, Actors, Feeding, TypesInv
<1>2. StillOpen /\ view' = view
  BY <1>1, OpenElsewhere
<1>3. /\ room' = [room EXCEPT !.state = "running", !.race = @ + 1]
      /\ Change(c, {"state"}, room') /\ room.state = "countdown"
  BY DEF Go, Change
<1>4. room'.state = "running" /\ room'.host = room.host /\ room'.seats = room.seats
  BY <1>3, FeedingIs DEF RoomTyped, RoomOf, Rooms
<1>5. f.type = "started" /\ f = Plain(f.type)
  BY DEF Plain
<1>6. OwedIn(q) = {f} /\ NoSend(q) /\ ~Fresh(q) /\ ~Records(q)
  BY NewsWork
<1> HIDE DEF f, q
<1>7. f \in Frames /\ Announced({f}, Truth, Truth', {"state"}, FALSE, contested')
  BY <1>3, <1>4, <1>5, StateAnnounced, FeedingIs DEF HasText
<1>8. Announced(OwedIn(q), Truth, Truth', {"state"}, Fresh(q), contested')
  BY <1>6, <1>7 DEF Announced, Owing
<1>9. {"state"} \in SUBSET Fields /\ OwedIn(q) \subseteq Frames
  BY <1>6, <1>7 DEF Fields
<1> QED
  BY <1>1, <1>2, <1>3, <1>6, <1>8, <1>9, Wrote, FeedingIs

LEMMA EndHeld ==
    ASSUME FeedAssumption, Feeding, TypesInv', room'.state # "none", NEW a \in Actors, End(a),
           room.state = "running", OwedIn(todo[a]) = {}, ~Fresh(todo[a])
    PROVE  FeedHeld'
<1> DEFINE f == Plain("race_over")
           q == <<Publish(f)>>
<1>1. Elsewhere /\ todo' = [todo EXCEPT ![a] = q]
  BY DEF End, Then
<1>2. StillOpen /\ view' = view
  BY <1>1, OpenElsewhere
<1>3. room' = [room EXCEPT !.state = "finished"] /\ Change(a, {"state"}, room')
  BY DEF End, Change
<1>4. room'.state = "finished" /\ room'.host = room.host /\ room'.seats = room.seats
  BY <1>3, FeedingIs DEF RoomTyped, RoomOf, Rooms
<1>5. f.type = "race_over" /\ f = Plain(f.type)
  BY DEF Plain
<1>6. OwedIn(q) = {f} /\ NoSend(q) /\ ~Fresh(q) /\ ~Records(q)
  BY NewsWork
<1> HIDE DEF f, q
<1>7. f \in Frames /\ Announced({f}, Truth, Truth', {"state"}, FALSE, contested')
  BY <1>3, <1>4, <1>5, StateAnnounced, FeedingIs DEF HasText
<1>8. Announced(OwedIn(q), Truth, Truth', {"state"}, Fresh(q), contested')
  BY <1>6, <1>7 DEF Announced, Owing
<1>9. {"state"} \in SUBSET Fields /\ OwedIn(q) \subseteq Frames
  BY <1>6, <1>7 DEF Fields
<1> QED
  BY <1>1, <1>2, <1>3, <1>6, <1>8, <1>9, Wrote, FeedingIs

LEMMA MaybeEndRaceHeld ==
    ASSUME FeedAssumption, Feeding, TypesInv', room'.state # "none", NEW a \in Actors, MaybeEndRace(a)
    PROVE  FeedHeld'
<1>1. OwedIn(todo[a]) = {} /\ ~Fresh(todo[a])
  BY Free DEF MaybeEndRace, Feeding, TypesInv
<1>2. \/ End(a) /\ room.state = "running"
      \/ Same /\ Elsewhere /\ todo' = [todo EXCEPT ![a] = <<>>]
  BY DEF MaybeEndRace, Then
<1>3. CASE End(a) /\ room.state = "running"
  BY <1>1, <1>3, EndHeld
<1>4. CASE Same /\ Elsewhere /\ todo' = [todo EXCEPT ![a] = <<>>]
  BY <1>1, <1>4, OpenElsewhere, NoWork, KeptQuiet
<1> QED
  BY <1>2, <1>3, <1>4

LEMMA TimeUpHeld ==
    ASSUME FeedAssumption, Feeding, TypesInv', room'.state # "none", NEW c \in Clocks, TimeUp(c)
    PROVE  FeedHeld'
<1>1. c \in Actors /\ OwedIn(todo[c]) = {} /\ ~Fresh(todo[c])
  BY Free DEF TimeUp, Idle, Actors, Feeding, TypesInv
<1> QED
  BY <1>1, EndHeld DEF TimeUp

LEMMA ResetNext ==
    ASSUME RoomTyped, NEW state, room' = [room EXCEPT !.state = state, !.seats = Reset(@)]
    PROVE  /\ room'.state = state /\ room'.host = room.host /\ Seated' = Seated
           /\ \A q \in Seated : /\ room'.seats[q].connected = room.seats[q].connected
                                /\ room'.seats[q].typed = 0 /\ room'.seats[q].finished = FALSE
<1> DEFINE seats == Reset(room.seats)
<1>1. room' = [room EXCEPT !.state = state, !.seats = seats]
  OBVIOUS
<1>2. DOMAIN seats = Seated
  BY DEF Reset, Seated
<1>3. ASSUME NEW q \in Seated
      PROVE  seats[q].connected = room.seats[q].connected /\ seats[q].typed = 0 /\ seats[q].finished = FALSE
  <2>1. room.seats[q] \in Seats
    BY SeatIn
  <2>2. seats[q] = [room.seats[q] EXCEPT !.typed = 0, !.finished = FALSE]
    BY DEF Reset, Seated
  <2> QED
    BY <2>1, <2>2 DEF Seats
<1> HIDE DEF seats
<1>4. room'.state = state /\ room'.host = room.host /\ room'.seats = seats
  BY <1>1 DEF RoomTyped, RoomOf, Rooms
<1> QED
  BY <1>2, <1>3, <1>4 DEF Seated

(* The seats emptied of what was typed, for a race or for the next one.     *)
LEMMA ResetSame ==
    ASSUME FeedAssumption, BothRooms, room'.host = room.host, Seated' = Seated,
           NEW k \in Fields \ (Seated \cup {"state"})
    PROVE  SameRoom(Truth, Truth', k)
BY TruthNow, TruthNext DEF BothRooms, SameRoom

LEMMA StartHeld ==
    ASSUME FeedAssumption, Feeding, TypesInv', room'.state # "none", NEW s \in Sockets, Start(s)
    PROVE  FeedHeld'
<1> DEFINE f == Plain("countdown")
           q == <<Publish(f)>>
           fields == Seated \cup {"state"}
<1>1. /\ s \in Actors /\ Elsewhere /\ todo' = [todo EXCEPT ![s] = q]
      /\ OwedIn(todo[s]) = {} /\ ~Fresh(todo[s])
  BY Free DEF Start, Then, Ready, Idle, Actors, Feeding, TypesInv
<1>2. StillOpen /\ view' = view
  BY <1>1, OpenElsewhere
<1>3. /\ room' = [room EXCEPT !.state = "countdown", !.seats = Reset(@)]
      /\ Change(s, fields, room')
  BY DEF Start, Change
<1>4. fields \in SUBSET Fields /\ Seated \subseteq Players
  BY SeatedFields, SeatIn, FeedingIs
<1>5. f.type = "countdown" /\ f \in Frames
  BY FramesAre DEF Plain
<1>6. OwedIn(q) = {f} /\ NoSend(q) /\ ~Fresh(q) /\ ~Records(q)
  BY NewsWork
<1> HIDE DEF f, q
<1>7. /\ room'.state = "countdown" /\ room'.host = room.host /\ Seated' = Seated
      /\ \A x \in Seated : /\ room'.seats[x].connected = room.seats[x].connected
                           /\ room'.seats[x].typed = 0 /\ room'.seats[x].finished = FALSE
  BY <1>3, ResetNext, FeedingIs
<1>8. /\ Truth \in View /\ Truth' \in View /\ Truth'.state = "countdown" /\ Truth'.text
      /\ DOMAIN Truth.roster = Seated /\ DOMAIN Truth'.roster = Seated
      /\ \A x \in Seated : /\ Truth'.roster[x].connected = Truth.roster[x].connected
                           /\ Truth'.roster[x].typed = 0 /\ Truth'.roster[x].finished = FALSE
  BY <1>7, SeatNow, TruthNext, FeedingIs DEF BothRooms, HasText
<1>9. ASSUME NEW k \in fields PROVE Brings(f, Truth, Truth', k) /\ Brings(f, Truth', Truth', k)
  <2>1. k \in Fields /\ k # "host"
    BY <1>4 DEF FeedAssumption
  <2>2. k \in Players => k \in Seated
    BY DEF FeedAssumption
  <2> HIDE DEF fields
  <2> QED
    BY <1>5, <1>8, <2>1, <2>2, CountdownBrings
<1>10. \A k \in Fields : Concerns(f, Truth', k) <=> k \in fields
  <2>1. About(f) = Players \cup {"state"}
    BY <1>5, AboutIs
  <2> QED
    BY <1>4, <1>5, <1>8, <2>1 DEF Concerns, FeedAssumption
<1>11. \A k \in Fields \ fields : SameRoom(Truth, Truth', k)
  BY <1>7, ResetSame, FeedingIs
<1>12. \A k \in fields : RightFrame(f, Truth', k)
  BY <1>8, <1>9 DEF RightFrame, FeedAssumption
<1> HIDE DEF fields
<1>13. Announced(OwedIn(q), Truth, Truth', fields, Fresh(q), contested')
  BY <1>4, <1>6, <1>9, <1>10, <1>11, <1>12 DEF Announced, Owing
<1> QED
  BY <1>1, <1>2, <1>3, <1>4, <1>5, <1>6, <1>13, Wrote, FeedingIs

LEMMA PlayAgainHeld ==
    ASSUME FeedAssumption, Feeding, TypesInv', room'.state # "none", NEW s \in Sockets, PlayAgain(s)
    PROVE  FeedHeld'
<1> DEFINE q == <<Do("fresh")>>
           fields == Seated \cup {"state"}
<1>1. /\ s \in Actors /\ Elsewhere /\ todo' = [todo EXCEPT ![s] = q]
      /\ OwedIn(todo[s]) = {} /\ ~Fresh(todo[s])
  BY Free DEF PlayAgain, Then, Ready, Idle, Actors, Feeding, TypesInv
<1>2. StillOpen /\ view' = view
  BY <1>1, OpenElsewhere
<1>3. /\ room' = [room EXCEPT !.state = "lobby", !.seats = Reset(@)]
      /\ Change(s, fields, room')
  BY DEF PlayAgain, Change
<1>4. fields \in SUBSET Fields
  BY SeatedFields, FeedingIs
<1>5. OwedIn(q) = {} /\ NoSend(q) /\ Fresh(q) /\ ~Records(q)
  BY OneWork DEF Do
<1> HIDE DEF q
<1>6. room'.host = room.host /\ Seated' = Seated
  BY <1>3, ResetNext, FeedingIs
<1>7. \A k \in Fields \ fields : SameRoom(Truth, Truth', k)
  BY <1>6, ResetSame, FeedingIs
<1> HIDE DEF fields
<1>8. Announced(OwedIn(q), Truth, Truth', fields, Fresh(q), contested')
  BY <1>5, <1>7 DEF Announced, Owing
<1> QED
  BY <1>1, <1>2, <1>3, <1>4, <1>5, <1>8, Wrote, FeedingIs

(* A room that has been deleted stays so. *)
LEMMA SeatsOnly ==
    ASSUME RoomTyped, NEW seats, room' = [room EXCEPT !.seats = seats]
    PROVE  room'.state = room.state
BY DEF RoomTyped, RoomOf, Rooms

LEMMA HandlerNone ==
    ASSUME FeedAssumption, TypesInv, room.state = "none", NEW s \in Sockets, Handler(s)
    PROVE  room'.state = "none"
<1>1. RoomTyped
  BY DEF TypesInv
<1>2. CASE Join(s)
  <2>1. \/ \E seats : room' = [room EXCEPT !.seats = seats]
        \/ room' = room
    BY <1>2 DEF Join, Refuse, Change, Same
  <2> QED
    BY <1>1, <2>1, SeatsOnly
<1>3. CASE MarkDisconnected(s)
  <2>1. \/ Owner[s] \in Seated /\ room' = [room EXCEPT !.seats[Owner[s]].connected = FALSE]
        \/ room' = room
    BY <1>3 DEF MarkDisconnected, Change, Same
  <2> QED
    BY <1>1, <2>1, SeatsOnly
<1>4. CASE Leave(s)
  <2>1. \/ room' = [room EXCEPT !.seats = Without(@, {Owner[s]})]
        \/ room' = room
    BY <1>4 DEF Leave, Change, Same
  <2> QED
    BY <1>1, <2>1, EmptiedNext
<1>5. CASE PatchTyped(s)
  <2>1. \/ room' = [room EXCEPT !.seats[Owner[s]].typed = Step(s).typed]
        \/ room' = room
    BY <1>5 DEF PatchTyped, Change, Same
  <2> QED
    BY <1>1, <2>1, SeatsOnly
<1>6. CASE RecordFinish(s)
  <2>1. \/ Owner[s] \in Seated /\ room' = [room EXCEPT !.seats[Owner[s]] = [@ EXCEPT !.finished = TRUE, !.typed = Length]]
        \/ room' = room
    BY <1>6 DEF RecordFinish, Change, Same
  <2> QED
    BY <1>1, <2>1, FinishedNext
<1>7. CASE \/ Connect(s) \/ ReadSnapshot(s) \/ SendSnapshot(s) \/ Drop(s) \/ Finish(s)
           \/ ReadFresh(s) \/ \E n \in 0..Length + 1 : SendProgress(s, n)
  BY <1>7 DEF Connect, ReadSnapshot, Refuse, SendSnapshot, Drop, Finish, ReadFresh, SendProgress, Same
<1>8. ~Start(s) /\ ~PlayAgain(s)
  BY DEF Start, PlayAgain
<1> QED
  BY <1>2, <1>3, <1>4, <1>5, <1>6, <1>7, <1>8 DEF Handler

LEMMA NoneStays ==
    ASSUME FeedAssumption, TypesInv, room.state = "none", [Next]_vars
    PROVE  room'.state = "none"
<1>1. CASE UNCHANGED vars
  BY <1>1 DEF vars
<1>2. ASSUME NEW s \in Sockets, Handler(s) PROVE room'.state = "none"
  BY <1>2, HandlerNone
<1>3. ASSUME NEW c \in Clocks, Clock(c) PROVE FALSE
  BY <1>3 DEF Clock, Sweep, Go, TimeUp
<1>4. ASSUME NEW a \in Actors, Continue(a) PROVE room'.state = "none"
  <2>1. CASE DeleteRoom(a)
    BY <2>1, DeleteRoomTyped
  <2>2. CASE Announce(a) \/ AfterRemoval(a) \/ HandOver(a) \/ MaybeEndRace(a)
    BY <2>2 DEF Announce, AfterRemoval, HandOver, MaybeEndRace, Same
  <2> QED
    BY <1>4, <2>1, <2>2 DEF Continue
<1> QED
  BY <1>1, <1>2, <1>3, <1>4 DEF Next

-----------------------------------------------------------------------------
(* All of it together. *)
LEMMA FeedNext ==
    ASSUME FeedAssumption, FeedInv, [Next]_vars
    PROVE  FeedInv'
<1>1. TypesInv'
  BY TypesNext DEF FeedInv
<1> SUFFICES ASSUME room'.state # "none" PROVE FeedHeld'
  BY <1>1 DEF FeedInv
<1>2. Feeding
  BY NoneStays DEF FeedInv, Feeding
<1>3. CASE UNCHANGED vars
  <2>1. Same /\ todo' = todo /\ view' = view /\ StillOpen
    BY <1>3 DEF vars, Same, StillOpen
  <2> QED
    BY <1>1, <1>2, <2>1, Unmoved
<1>4. ASSUME NEW s \in Sockets, Handler(s) PROVE FeedHeld'
  <2>1. ASSUME ReadSnapshot(s) PROVE FeedHeld'
    BY <1>1, <1>2, <2>1, ReadSnapshotHeld
  <2>2. ASSUME NEW n \in 0..Length + 1, SendProgress(s, n) PROVE FeedHeld'
    BY <1>1, <1>2, <2>2, SendProgressHeld
  <2> QED
    BY <1>1, <1>2, <1>4, <2>1, <2>2, ConnectHeld, JoinHeld, SendSnapshotHeld, DropHeld,
       MarkDisconnectedHeld, LeaveHeld, StartHeld, PatchTypedHeld, FinishHolds,
       RecordFinishHeld, PlayAgainHeld, ReadFreshHeld DEF Handler
<1>5. ASSUME NEW c \in Clocks, Clock(c) PROVE FeedHeld'
  BY <1>1, <1>2, <1>5, SweepHeld, GoHeld, TimeUpHeld DEF Clock
<1>6. ASSUME NEW a \in Actors, Continue(a) PROVE FeedHeld'
  <2>1. ASSUME DeleteRoom(a) PROVE FALSE
    BY <1>2, <2>1, DeleteRoomTyped DEF Feeding
  <2> QED
    BY <1>1, <1>2, <1>6, <2>1, AnnounceHeld, AfterRemovalHeld, HandOverHeld, MaybeEndRaceHeld
       DEF Continue
<1> QED
  BY <1>3, <1>4, <1>5, <1>6 DEF Next

LEMMA FeedInit == ASSUME FeedAssumption, Init PROVE FeedInv
<1>1. TypesInv
  BY TypesInit
<1>2. room.state = "lobby"
  BY DEF Init
<1>3. \A a \in Actors : todo[a] = <<>>
  BY DEF Init
<1>4. AllOwed = {} /\ ~Late /\ FinishHeld
  BY <1>3, NoWork DEF AllOwed, Late, FinishHeld
<1>5. RightFrames
  BY <1>4 DEF RightFrames
<1>6. Pages
  <2> SUFFICES ASSUME NEW s \in Sockets, NEW g \in View, NEW v \in View, Page(s, g, v),
                      NEW k \in Fields
               PROVE  Tracked(g, v, Truth, AllOwed, Late, k)
    BY DEF Pages
  <2>1. phase[s] # "open" /\ (phase[s] = "live" => s = First) /\ todo[s] = <<>>
    BY <1>3 DEF Init, Actors
  <2>2. s = First /\ g = view[Owner[s]]
    BY <2>1 DEF Page
  <2>3. g = ReduceRoom(InitialRoom, Snapshot)
    BY <2>2 DEF Init, FeedAssumption
  <2>4. g = Truth
    BY <1>1, <1>2, <2>3, SnapshotShows DEF TypesInv
  <2>5. Near(g, g, Truth, k)
    BY NearItself
  <2>6. Near(g, v, Truth, k)
    BY <2>4, <2>5, RightIsNear
  <2> QED
    BY <1>4, <2>6 DEF Tracked
<1> QED
  BY <1>1, <1>4, <1>5, <1>6 DEF FeedInv, FeedHeld

LEMMA FeedAlways == Spec => []FeedInv
<1>1. Init => FeedInv
  BY FeedAssumption, FeedInit
<1>2. FeedInv /\ [Next]_vars => FeedInv'
  BY FeedAssumption, FeedNext
<1> QED
  BY <1>1, <1>2, PTL DEF Spec

(* A page that is near the room, and started there, shows it. *)
LEMMA NearShows ==
    ASSUME NEW g \in View, NEW r \in View, NEW k \in Fields, Near(g, r, r, k)
    PROVE  Sees(g, k) = Sees(r, k)
<1>1. Fit(r, r, k)
  BY DEF Fit
<1>2. CASE k = "state"
  BY <1>1, <1>2 DEF Near, Sees
<1>3. CASE k = "host"
  BY <1>1, <1>3 DEF Near, Sees
<1>4. CASE k \in Players /\ k # "state" /\ k # "host"
  <2>1. k \in DOMAIN g.roster <=> k \in DOMAIN r.roster
    BY <1>1, <1>4 DEF Near, Fit
  <2>2. ASSUME k \in DOMAIN r.roster PROVE g.roster[k] = r.roster[k]
    <3> DEFINE x == g.roster[k]
               y == r.roster[k]
    <3>1. x \in Shown /\ y \in Shown
      BY <2>1, <2>2, ViewHas, RosterIs
    <3>2. Blend(x, y, y)
      BY <1>1, <1>4, <2>2 DEF Near
    <3> HIDE DEF x, y
    <3>3. x.connected = y.connected /\ x.typed = y.typed /\ x.finished = y.finished
      BY <3>2 DEF Blend
    <3>4. x = y
      BY <3>1, <3>3, SeatIs
    <3> QED
      BY <3>4 DEF x, y
  <2> QED
    BY <1>4, <2>1, <2>2 DEF Sees
<1> QED
  BY <1>2, <1>3, <1>4, FieldIs

(* Every page shows the room (room.ts, reduceRoom): in each field of which *)
(* nothing is still to be announced and which no two writers changed at    *)
(* once, the page of every player whose socket is live shows what the      *)
(* record holds, whatever order writes, announcements, snapshots and the   *)
(* frames queued during a snapshot came in.                                *)
THEOREM PagesShowTheRoom == Spec => []PagesAgree
<1>1. FeedInv => PagesAgree
  <2> SUFFICES ASSUME FeedInv, Quiet, NEW s \in Sockets, phase[s] = "live",
                      NEW k \in Fields \ contested
               PROVE  Sees(view[Owner[s]], k) = Sees(Snapshot, k)
    BY DEF PagesAgree
  <2>1. TypesInv /\ RoomTyped /\ room.state # "none" /\ Pages
    BY DEF FeedInv, FeedHeld, Quiet, TypesInv
  <2>2. AllOwed = {} /\ ~Late
    <3>1. \A a \in Actors : todo[a] = <<>>
      BY DEF Quiet, Busy
    <3> QED
      BY <3>1, NoWork DEF AllOwed, Late
  <2>3. view[Owner[s]] \in View /\ Truth \in View
    BY <2>1, OwnerIs, FeedAssumption, TruthNow DEF TypesInv, PagesTyped
  <2>4. Page(s, view[Owner[s]], Truth)
    BY DEF Page
  <2>5. Tracked(view[Owner[s]], Truth, Truth, AllOwed, Late, k)
    BY <2>1, <2>3, <2>4 DEF Pages
  <2>6. Near(view[Owner[s]], Truth, Truth, k)
    BY <2>2, <2>5 DEF Tracked, Owing
  <2>7. Sees(view[Owner[s]], k) = Sees(Truth, k)
    BY <2>3, <2>6, NearShows
  <2>8. Sees(Snapshot, k) = Sees(Truth, k)
    BY <2>1, SnapshotIs DEF Sees, Truth
  <2> QED
    BY <2>7, <2>8
<1> QED
  BY <1>1, FeedAlways, PTL
=============================================================================
