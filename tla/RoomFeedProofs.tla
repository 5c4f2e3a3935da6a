--------------------------- MODULE RoomFeedProofs ---------------------------
(***************************************************************************)
(* RoomFeed, for any number of players, sockets and clocks, any text and   *)
(* any order of what writers have still to do: a finish is never taken     *)
(* back, what frames do to a page, and what work a writer may have.        *)
(* RoomFeedPagesProofs builds on the latter two.                           *)
(***************************************************************************)
EXTENDS RoomFeed, TLAPS, FiniteSetTheorems, WellFoundedInduction

-----------------------------------------------------------------------------
(* Sequences of one and of two. *)
LEMMA SingleIs ==
    ASSUME NEW S, NEW t \in Seq(S), Len(t) = 1 PROVE t = <<t[1]>>
<1>1. t = [i \in 1..1 |-> t[i]]
  OBVIOUS
<1>2. <<t[1]>> = [i \in 1..1 |-> t[i]]
  OBVIOUS
<1> QED
  BY <1>1, <1>2, Zenon

LEMMA PairIs ==
    ASSUME NEW S, NEW t \in Seq(S), Len(t) = 2
    PROVE  t = <<t[1], t[2]>> /\ Tail(t) = <<t[2]>> /\ t[2] \in S
<1>1. t \in [1..2 -> S]
  OBVIOUS
<1>2. t[2] \in S
  BY <1>1
<1>3. t = [i \in 1..2 |-> t[i]]
  BY <1>1
<1>4. <<t[1], t[2]>> = [i \in 1..2 |-> t[i]]
  OBVIOUS
<1>5. Tail(t) \in Seq(S) /\ Len(Tail(t)) = 1 /\ Tail(t)[1] = t[2]
  <2>1. Len(Tail(t)) = 1
    OBVIOUS
  <2>2. Tail(t) \in Seq(S)
    OBVIOUS
  <2> QED
    BY <2>1, <2>2
<1>6. Tail(t) = <<Tail(t)[1]>>
  BY <1>5, SingleIs
<1>7. t = <<t[1], t[2]>>
  BY <1>3, <1>4, Zenon
<1> QED
  BY <1>2, <1>5, <1>6, <1>7

USE FeedAssumption

-----------------------------------------------------------------------------
(* The record has its fields, each seat has its own, and a finished seat is *)
(* a whole one.  Nothing is asked of todo: whatever a writer carries, from  *)
(* however long ago, may be what it writes next.                           *)
SeatOf(any) == [conn : any, connected : BOOLEAN, typed : any, finished : BOOLEAN]
WholeSeat(seat) ==
    /\ \E any : seat \in SeatOf(any)
    /\ seat.finished => seat.typed = Length

WholeSeats(seats) ==
    /\ seats = [p \in DOMAIN seats |-> seats[p]]
    /\ \A p \in DOMAIN seats : WholeSeat(seats[p])

SeatsInv ==
    /\ room = [state |-> room.state, host |-> room.host, race |-> room.race,
               seats |-> room.seats]
    /\ WholeSeats(room.seats)

LEMMA SeatMade ==
    ASSUME NEW conn, NEW connected \in BOOLEAN, NEW typed, NEW finished \in BOOLEAN,
           finished => typed = Length
    PROVE  WholeSeat([conn |-> conn, connected |-> connected,
                      typed |-> typed, finished |-> finished])
<1>1. [conn |-> conn, connected |-> connected, typed |-> typed, finished |-> finished]
        \in SeatOf({conn, typed})
  BY DEF SeatOf
<1> QED
  BY <1>1 DEF WholeSeat

(* What the scripts do to one seat. *)
LEMMA SeatChanged ==
    ASSUME NEW seat, WholeSeat(seat)
    PROVE  /\ WholeSeat([seat EXCEPT !.typed = 0, !.finished = FALSE])
           /\ WholeSeat([seat EXCEPT !.finished = TRUE, !.typed = Length])
           /\ WholeSeat([seat EXCEPT !.connected = FALSE])
           /\ \A s : WholeSeat([seat EXCEPT !.conn = s, !.connected = TRUE])
           /\ \A n : ~seat.finished => WholeSeat([seat EXCEPT !.typed = n])
<1>1. PICK any : seat \in SeatOf(any)
  BY DEF WholeSeat
<1>2. seat.finished => seat.typed = Length
  BY DEF WholeSeat
<1>3. WholeSeat([seat EXCEPT !.typed = 0, !.finished = FALSE])
  <2>1. [seat EXCEPT !.typed = 0, !.finished = FALSE] \in SeatOf(any \cup {0})
    BY <1>1 DEF SeatOf
  <2>2. [seat EXCEPT !.typed = 0, !.finished = FALSE].finished = FALSE
    BY <1>1 DEF SeatOf
  <2> QED
    BY <2>1, <2>2 DEF WholeSeat
<1>4. WholeSeat([seat EXCEPT !.finished = TRUE, !.typed = Length])
  <2>1. [seat EXCEPT !.finished = TRUE, !.typed = Length] \in SeatOf(any \cup {Length})
    BY <1>1 DEF SeatOf
  <2>2. [seat EXCEPT !.finished = TRUE, !.typed = Length].typed = Length
    BY <1>1 DEF SeatOf
  <2> QED
    BY <2>1, <2>2 DEF WholeSeat
<1>5. WholeSeat([seat EXCEPT !.connected = FALSE])
  <2>1. [seat EXCEPT !.connected = FALSE] \in SeatOf(any)
    BY <1>1 DEF SeatOf
  <2>2. /\ [seat EXCEPT !.connected = FALSE].finished = seat.finished
        /\ [seat EXCEPT !.connected = FALSE].typed = seat.typed
    BY <1>1 DEF SeatOf
  <2> QED
    BY <1>2, <2>1, <2>2 DEF WholeSeat
<1>6. ASSUME NEW s PROVE WholeSeat([seat EXCEPT !.conn = s, !.connected = TRUE])
  <2>1. [seat EXCEPT !.conn = s, !.connected = TRUE] \in SeatOf(any \cup {s})
    BY <1>1 DEF SeatOf
  <2>2. /\ [seat EXCEPT !.conn = s, !.connected = TRUE].finished = seat.finished
        /\ [seat EXCEPT !.conn = s, !.connected = TRUE].typed = seat.typed
    BY <1>1 DEF SeatOf
  <2> QED
    BY <1>2, <2>1, <2>2 DEF WholeSeat
<1>7. ASSUME NEW n, ~seat.finished PROVE WholeSeat([seat EXCEPT !.typed = n])
  <2>1. [seat EXCEPT !.typed = n] \in SeatOf(any \cup {n})
    BY <1>1 DEF SeatOf
  <2>2. [seat EXCEPT !.typed = n].finished = seat.finished
    BY <1>1 DEF SeatOf
  <2> QED
    BY <1>7, <2>1, <2>2 DEF WholeSeat
<1> QED
  BY <1>3, <1>4, <1>5, <1>6, <1>7

LEMMA NewSeatWhole == ASSUME NEW s PROVE WholeSeat(NewSeat(s))
BY SeatMade DEF NewSeat

LEMMA InitSeats == Init => SeatsInv
<1> SUFFICES ASSUME Init PROVE SeatsInv
  OBVIOUS
<1>1. room = [state |-> "lobby", host |-> Creator, race |-> 0,
              seats |-> [p \in {Creator} |-> NewSeat(First)]]
  BY DEF Init
<1>2. WholeSeats(room.seats)
  BY <1>1, NewSeatWhole DEF WholeSeats
<1> QED
  BY <1>1, <1>2 DEF SeatsInv

(* The three things a script does to the seats: it clears the progress of   *)
(* all, takes some away, and fills one.                                    *)
LEMMA ResetWhole ==
    ASSUME NEW seats, WholeSeats(seats) PROVE WholeSeats(Reset(seats))
<1>1. \A p \in DOMAIN seats :
         WholeSeat([seats[p] EXCEPT !.typed = 0, !.finished = FALSE])
  BY SeatChanged DEF WholeSeats
<1> QED
  BY <1>1 DEF Reset, WholeSeats

LEMMA WithoutWhole ==
    ASSUME NEW seats, WholeSeats(seats), NEW gone PROVE WholeSeats(Without(seats, gone))
BY DEF Without, WholeSeats

LEMMA SeatingWhole ==
    ASSUME NEW seats, WholeSeats(seats), NEW p, NEW seat, WholeSeat(seat)
    PROVE  WholeSeats(Seating(seats, p, seat))
BY DEF Seating, WholeSeats

LEMMA SetSeatWhole ==
    ASSUME NEW seats, WholeSeats(seats), NEW p \in DOMAIN seats, NEW seat, WholeSeat(seat)
    PROVE  WholeSeats([seats EXCEPT ![p] = seat])
BY DEF WholeSeats

(* A step that writes the record writes whole seats. *)
LEMMA Written ==
    ASSUME SeatsInv, NEW state, NEW host, NEW race, NEW seats, WholeSeats(seats),
           room' = [state |-> state, host |-> host, race |-> race, seats |-> seats]
    PROVE  SeatsInv'
<1>1. room'.seats = seats
  OBVIOUS
<1> QED
  BY <1>1 DEF SeatsInv

LEMMA SeatsWritten ==
    ASSUME SeatsInv, NEW seats, WholeSeats(seats), room' = [room EXCEPT !.seats = seats]
    PROVE  SeatsInv'
<1>1. room' = [state |-> room.state, host |-> room.host, race |-> room.race, seats |-> seats]
  BY DEF SeatsInv
<1> QED
  BY <1>1, Written

LEMMA ResetSeats ==
    ASSUME SeatsInv, NEW state,
           room' = [room EXCEPT !.state = state, !.seats = Reset(@)]
    PROVE  SeatsInv'
<1>1. room' = [state |-> state, host |-> room.host, race |-> room.race,
               seats |-> Reset(room.seats)]
  BY DEF SeatsInv
<1> QED
  BY <1>1, Written, ResetWhole DEF SeatsInv

LEMMA SeatRewritten ==
    ASSUME SeatsInv, NEW p \in Seated, NEW seat, WholeSeat(seat),
           room' = [room EXCEPT !.seats = [room.seats EXCEPT ![p] = seat]]
    PROVE  SeatsInv'
BY SetSeatWhole, SeatsWritten DEF SeatsInv, Seated

(* The steps that write one player's seat. *)
LEMMA PatchTypedSeats ==
    ASSUME SeatsInv, NEW s \in Sockets, PatchTyped(s) PROVE SeatsInv'
<1> DEFINE p == Owner[s]
           n == Step(s).typed
<1>1. CASE StillTyping(p)
  <2>1. room' = [room EXCEPT !.seats = [room.seats EXCEPT ![p] = [room.seats[p] EXCEPT !.typed = n]]]
    BY <1>1 DEF PatchTyped, Change, SeatsInv
  <2>2. p \in Seated /\ WholeSeat(room.seats[p]) /\ ~room.seats[p].finished
    BY <1>1 DEF StillTyping, Seated, SeatsInv, WholeSeats
  <2> HIDE DEF p, n
  <2> QED
    BY <2>1, <2>2, SeatChanged, SeatRewritten
<1>2. CASE ~StillTyping(p)
  BY <1>2 DEF PatchTyped, Same, SeatsInv
<1> QED
  BY <1>1, <1>2

LEMMA RecordFinishSeats ==
    ASSUME SeatsInv, NEW s \in Sockets, RecordFinish(s) PROVE SeatsInv'
<1> DEFINE p == Owner[s]
<1>1. CASE p \in Seated
  <2>1. room' = [room EXCEPT !.seats = [room.seats EXCEPT
                    ![p] = [room.seats[p] EXCEPT !.finished = TRUE, !.typed = Length]]]
    BY <1>1 DEF RecordFinish, Change, SeatsInv, Seated, WholeSeats
  <2>2. WholeSeat(room.seats[p])
    BY <1>1 DEF Seated, SeatsInv, WholeSeats
  <2> HIDE DEF p
  <2> QED
    BY <1>1, <2>1, <2>2, SeatChanged, SeatRewritten
<1>2. CASE p \notin Seated
  BY <1>2 DEF RecordFinish, Same, SeatsInv
<1> QED
  BY <1>1, <1>2

LEMMA JoinSeats ==
    ASSUME SeatsInv, NEW s \in Sockets, Join(s) PROVE SeatsInv'
<1> DEFINE p == Owner[s]
           again == p \in Seated
           seat == IF again THEN [room.seats[p] EXCEPT !.conn = s, !.connected = TRUE]
                   ELSE NewSeat(s)
<1>1. CASE again \/ room.state = "lobby"
  <2>1. room' = [room EXCEPT !.seats = Seating(room.seats, p, seat)]
    BY <1>1 DEF Join, Change, SeatsInv
  <2>2. WholeSeat(seat)
    <3>1. CASE again
      BY <3>1, SeatChanged DEF Seated, SeatsInv, WholeSeats
    <3>2. CASE ~again
      BY <3>2, NewSeatWhole
    <3> QED
      BY <3>1, <3>2
  <2> HIDE DEF p, seat
  <2> QED
    BY <2>1, <2>2, SeatingWhole, SeatsWritten DEF SeatsInv
<1>2. CASE ~(again \/ room.state = "lobby")
  BY <1>2 DEF Join, Refuse, Same, SeatsInv
<1> QED
  BY <1>1, <1>2

LEMMA HandlerSeats ==
    ASSUME SeatsInv, NEW s \in Sockets, Handler(s) PROVE SeatsInv'
<1>1. CASE room' = room
  BY <1>1 DEF SeatsInv
<1>2. CASE MarkDisconnected(s)
  <2> DEFINE p == Owner[s]
  <2>1. SUFFICES ASSUME p \in Seated, room' = [room EXCEPT !.seats[p].connected = FALSE]
                 PROVE  SeatsInv'
    BY <1>1, <1>2 DEF MarkDisconnected, Change, Same
  <2>2. WholeSeat(room.seats[p])
    BY <2>1 DEF Seated, SeatsInv, WholeSeats
  <2> HIDE DEF p
  <2>3. room' = [room EXCEPT !.seats = [room.seats EXCEPT
                    ![p] = [room.seats[p] EXCEPT !.connected = FALSE]]]
    BY <2>1 DEF SeatsInv
  <2> QED
    BY <2>1, <2>2, <2>3, SeatChanged, SeatRewritten
<1>3. CASE Leave(s)
  <2>1. SUFFICES ASSUME room' = [room EXCEPT !.seats = Without(@, {Owner[s]})]
                 PROVE  SeatsInv'
    BY <1>1, <1>3 DEF Leave, Change, Same
  <2>2. room' = [room EXCEPT !.seats = Without(room.seats, {Owner[s]})]
    BY <2>1 DEF SeatsInv
  <2> QED
    BY <2>2, WithoutWhole, SeatsWritten DEF SeatsInv
<1>4. CASE Start(s) \/ PlayAgain(s)
  BY <1>4, ResetSeats DEF Start, PlayAgain, Change
<1>5. CASE \/ Connect(s) \/ ReadSnapshot(s) \/ SendSnapshot(s) \/ Drop(s) \/ Finish(s)
           \/ ReadFresh(s) \/ \E n \in 0..Length + 1 : SendProgress(s, n)
  BY <1>1, <1>5 DEF Connect, ReadSnapshot, Refuse, SendSnapshot, Drop, Finish, ReadFresh,
     SendProgress, Same
<1> QED
  BY <1>2, <1>3, <1>4, <1>5, JoinSeats, PatchTypedSeats, RecordFinishSeats DEF Handler

LEMMA ClockSeats ==
    ASSUME SeatsInv, NEW c \in Clocks, Clock(c) PROVE SeatsInv'
<1>1. CASE Sweep(c)
  <2>1. PICK gone : room' = [room EXCEPT !.seats = Without(@, gone)]
    BY <1>1 DEF Sweep, Change
  <2>2. room' = [room EXCEPT !.seats = Without(room.seats, gone)]
    BY <2>1 DEF SeatsInv
  <2> QED
    BY <2>2, WithoutWhole, SeatsWritten DEF SeatsInv
<1>2. CASE Go(c)
  <2>1. room' = [state |-> "running", host |-> room.host, race |-> room.race + 1,
                 seats |-> room.seats]
    BY <1>2 DEF Go, Change, SeatsInv
  <2> QED
    BY <2>1, Written DEF SeatsInv
<1>3. CASE TimeUp(c)
  <2>1. room' = [state |-> "finished", host |-> room.host, race |-> room.race,
                 seats |-> room.seats]
    BY <1>3 DEF TimeUp, End, Change, SeatsInv
  <2> QED
    BY <2>1, Written DEF SeatsInv
<1> QED
  BY <1>1, <1>2, <1>3 DEF Clock

LEMMA ContinueSeats ==
    ASSUME SeatsInv, NEW a \in Actors, Continue(a) PROVE SeatsInv'
<1>1. CASE room' = room
  BY <1>1 DEF SeatsInv
<1>2. CASE Announce(a) \/ AfterRemoval(a)
  BY <1>1, <1>2 DEF Announce, AfterRemoval, Same
<1>3. CASE DeleteRoom(a)
  <2>1. room' = [state |-> "none", host |-> room.host, race |-> room.race,
                 seats |-> Without(room.seats, Seated)]
    BY <1>3 DEF DeleteRoom, Change, SeatsInv
  <2> QED
    BY <2>1, Written, WithoutWhole DEF SeatsInv
<1>4. CASE HandOver(a)
  <2>1. SUFFICES ASSUME room' = [room EXCEPT !.host = Step(a).to] PROVE SeatsInv'
    BY <1>1, <1>4 DEF HandOver, Change, Same
  <2>2. room' = [state |-> room.state, host |-> Step(a).to, race |-> room.race,
                 seats |-> room.seats]
    BY <2>1 DEF SeatsInv
  <2> QED
    BY <2>2, Written DEF SeatsInv
<1>5. CASE MaybeEndRace(a)
  <2>1. SUFFICES ASSUME room' = [room EXCEPT !.state = "finished"] PROVE SeatsInv'
    BY <1>1, <1>5 DEF MaybeEndRace, End, Change, Same
  <2>2. room' = [state |-> "finished", host |-> room.host, race |-> room.race,
                 seats |-> room.seats]
    BY <2>1 DEF SeatsInv
  <2> QED
    BY <2>2, Written DEF SeatsInv
<1> QED
  BY <1>2, <1>3, <1>4, <1>5 DEF Continue

LEMMA StepSeats == SeatsInv /\ [Next]_vars => SeatsInv'
<1>1. SeatsInv /\ UNCHANGED vars => SeatsInv'
  BY DEF vars, SeatsInv
<1> QED
  BY <1>1, HandlerSeats, ClockSeats, ContinueSeats DEF Next

(* A finish is never taken back (the 'unfinished' guard of                  *)
(* _PATCH_PLAYER_LUA): a player who has finished is recorded at the end of  *)
(* the text, whatever progress was clamped and checked before the finish    *)
(* and is written after it, by whichever socket of theirs, and however      *)
(* often they left, came back or were reset in between.                    *)
THEOREM FinishStays == Spec => []FinishedIsWhole
<1>1. SeatsInv => FinishedIsWhole
  BY DEF SeatsInv, WholeSeats, WholeSeat, FinishedIsWhole, Seated
<1> QED
  BY <1>1, InitSeats, StepSeats, PTL DEF Spec

-----------------------------------------------------------------------------
(* What the channel carries, and the views a page can have. *)
Rosters == UNION {[S -> Shown] : S \in SUBSET Players}
Frames ==
    [type : {"room"}, state : States, host : Players, text : BOOLEAN, roster : Rosters]
    \cup [type : {"player_joined"}, who : Players, seat : Shown]
    \cup [type : {"player_connection"}, who : Players, connected : BOOLEAN]
    \cup [type : {"progress"}, who : Players, typed : 0..Length]
    \cup [type : {"player_left", "player_finished"}, who : Players]
    \cup [type : {"host_changed"}, host : Players]
    \cup [type : {"countdown", "started", "race_over"}]

(* Rosters and views, by their parts. *)
LEMMA RosterIs ==
    ASSUME NEW r
    PROVE  r \in Rosters <=>
              /\ r = [p \in DOMAIN r |-> r[p]] /\ DOMAIN r \subseteq Players
              /\ \A p \in DOMAIN r : r[p] \in Shown
<1>1. ASSUME r \in Rosters
      PROVE  /\ r = [p \in DOMAIN r |-> r[p]] /\ DOMAIN r \subseteq Players
             /\ \A p \in DOMAIN r : r[p] \in Shown
  BY <1>1 DEF Rosters
<1>2. ASSUME r = [p \in DOMAIN r |-> r[p]], DOMAIN r \subseteq Players,
             \A p \in DOMAIN r : r[p] \in Shown
      PROVE  r \in Rosters
  <2>1. r \in [DOMAIN r -> Shown]
    BY <1>2
  <2> QED
    BY <1>2, <2>1 DEF Rosters
<1> QED
  BY <1>1, <1>2

LEMMA ViewIs ==
    ASSUME NEW state \in States, NEW host \in Players \cup {Nobody}, NEW text \in BOOLEAN,
           NEW roster \in Rosters
    PROVE  [state |-> state, host |-> host, text |-> text, roster |-> roster] \in View
BY DEF View, Rosters

LEMMA ViewHas ==
    ASSUME NEW v \in View
    PROVE  /\ v.state \in States /\ v.host \in Players \cup {Nobody} /\ v.text \in BOOLEAN
           /\ v.roster \in Rosters
           /\ v = [state |-> v.state, host |-> v.host, text |-> v.text, roster |-> v.roster]
BY DEF View, Rosters

(* What each frame does to a view. *)
LEMMA FrameHas ==
    ASSUME NEW f \in Frames
    PROVE  /\ f.type = "room" => /\ f.state \in States /\ f.host \in Players /\ f.text \in BOOLEAN
                                 /\ f.roster \in Rosters
           /\ f.type = "player_joined" => f.who \in Players /\ f.seat \in Shown
           /\ f.type = "player_connection" => f.who \in Players /\ f.connected \in BOOLEAN
           /\ f.type = "progress" => f.who \in Players /\ f.typed \in 0..Length
           /\ f.type \in {"player_left", "player_finished"} => f.who \in Players
           /\ f.type = "host_changed" => f.host \in Players
           /\ f.type \in {"room", "player_joined", "player_left", "player_connection", "progress",
                          "player_finished", "host_changed", "countdown", "started", "race_over"}
BY DEF Frames

(* The seat of p after frame f, in a page that shows seat and has the text  *)
(* or not.                                                                 *)
SeatAfter(seat, f, p, text) ==
    [connected |-> IF f.type = "player_connection" /\ f.who = p THEN f.connected
                   ELSE IF f.type = "player_joined" /\ f.who = p THEN f.seat.connected
                   ELSE IF f.type = "room" THEN f.roster[p].connected
                   ELSE seat.connected,
     typed |-> IF f.type = "progress" /\ f.who = p THEN f.typed
               ELSE IF f.type = "player_finished" /\ f.who = p THEN IF text THEN Length ELSE 0
               ELSE IF f.type = "player_joined" /\ f.who = p THEN f.seat.typed
               ELSE IF f.type = "room" THEN f.roster[p].typed
               ELSE IF f.type = "countdown" THEN 0
               ELSE seat.typed,
     finished |-> IF f.type = "player_finished" /\ f.who = p THEN TRUE
                  ELSE IF f.type = "player_joined" /\ f.who = p THEN f.seat.finished
                  ELSE IF f.type = "room" THEN f.roster[p].finished
                  ELSE IF f.type = "countdown" THEN FALSE
                  ELSE seat.finished]
HasAfter(has, f, p) ==
    IF f.type = "room" THEN p \in DOMAIN f.roster
    ELSE (has /\ ~(f.type = "player_left" /\ f.who = p)) \/ (f.type = "player_joined" /\ f.who = p)
TextAfter(text, f) ==
    IF f.type = "room" THEN f.text ELSE text \/ f.type = "countdown"
StateAfter(state, f) ==
    CASE f.type = "room" -> f.state
      [] f.type = "countdown" -> "countdown"
      [] f.type = "started" -> "running"
      [] f.type = "race_over" -> "finished"
      [] OTHER -> state
HostAfter(host, f) == IF f.type \in {"room", "host_changed"} THEN f.host ELSE host

LEMMA PatchIs ==
    ASSUME NEW v \in View, NEW p \in Players, NEW seat,
           p \in DOMAIN v.roster => seat \in Shown
    PROVE  /\ Patch(v, p, seat) \in View
           /\ Patch(v, p, seat).state = v.state /\ Patch(v, p, seat).host = v.host
           /\ Patch(v, p, seat).text = v.text
           /\ DOMAIN Patch(v, p, seat).roster = DOMAIN v.roster
           /\ \A q \in DOMAIN v.roster :
                 Patch(v, p, seat).roster[q] = IF q = p THEN seat ELSE v.roster[q]
<1>1. v.state \in States /\ v.host \in Players \cup {Nobody} /\ v.text \in BOOLEAN
      /\ v.roster \in Rosters
      /\ v = [state |-> v.state, host |-> v.host, text |-> v.text, roster |-> v.roster]
  BY ViewHas
<1>2. CASE p \notin DOMAIN v.roster
  BY <1>2 DEF Patch
<1>3. CASE p \in DOMAIN v.roster
  <2> DEFINE ro == [v.roster EXCEPT ![p] = seat]
  <2>1. Patch(v, p, seat) = [state |-> v.state, host |-> v.host, text |-> v.text, roster |-> ro]
    BY <1>1, <1>3 DEF Patch
  <2>2. /\ DOMAIN ro = DOMAIN v.roster /\ ro = [q \in DOMAIN ro |-> ro[q]]
        /\ \A q \in DOMAIN ro : ro[q] = IF q = p THEN seat ELSE v.roster[q]
    BY <1>1, RosterIs
  <2> HIDE DEF ro
  <2>3. DOMAIN v.roster \subseteq Players /\ \A q \in DOMAIN v.roster : v.roster[q] \in Shown
    BY <1>1, RosterIs
  <2>4. \A q \in DOMAIN ro : ro[q] \in Shown
    BY <1>3, <2>2, <2>3
  <2>5. ro \in Rosters
    BY <2>2, <2>3, <2>4, RosterIs
  <2> QED
    BY <1>1, <2>1, <2>2, <2>5, ViewIs
<1> QED
  BY <1>2, <1>3

-----------------------------------------------------------------------------
(* A frame makes view v into w: reduceRoom() of room.ts, field by field.   *)
(* This is the one lemma that opens ReduceRoom.                            *)
Effect(v, f, w) ==
    /\ w \in View
    /\ w.state = StateAfter(v.state, f) /\ w.host = HostAfter(v.host, f)
    /\ w.text = TextAfter(v.text, f)
    /\ \A p \in Players :
          /\ p \in DOMAIN w.roster <=> HasAfter(p \in DOMAIN v.roster, f, p)
          /\ p \in DOMAIN w.roster => w.roster[p] = SeatAfter(v.roster[p], f, p, v.text)

LEMMA SeatIs ==
    ASSUME NEW x \in Shown
    PROVE  /\ x.connected \in BOOLEAN /\ x.typed \in 0..Length /\ x.finished \in BOOLEAN
           /\ x = [connected |-> x.connected, typed |-> x.typed, finished |-> x.finished]
BY DEF Shown

LEMMA PatchEffect ==
    ASSUME NEW v \in View, NEW f \in Frames,
           f.type \in {"player_connection", "progress", "player_finished"},
           \A q \in Players : q \in DOMAIN v.roster =>
              SeatAfter(v.roster[q], f, q, v.text) \in Shown,
           NEW w, w = Patch(v, f.who, SeatAfter(v.roster[f.who], f, f.who, v.text))
    PROVE  Effect(v, f, w)
<1>1. f.who \in Players
  BY FrameHas
<1>2. f.who \in DOMAIN v.roster => SeatAfter(v.roster[f.who], f, f.who, v.text) \in Shown
  BY <1>1
<1>3. /\ w \in View
      /\ w.state = v.state /\ w.host = v.host
      /\ w.text = v.text
      /\ DOMAIN w.roster = DOMAIN v.roster
      /\ \A q \in DOMAIN v.roster :
            w.roster[q] = IF q = f.who THEN SeatAfter(v.roster[f.who], f, f.who, v.text)
                          ELSE v.roster[q]
  BY <1>1, <1>2, PatchIs
<1>4. w.state = StateAfter(v.state, f) /\ w.host = HostAfter(v.host, f)
      /\ w.text = TextAfter(v.text, f)
  BY <1>3, ViewHas DEF StateAfter, HostAfter, TextAfter
<1>5. ASSUME NEW p \in Players
      PROVE  /\ p \in DOMAIN w.roster <=> HasAfter(p \in DOMAIN v.roster, f, p)
             /\ p \in DOMAIN w.roster => w.roster[p] = SeatAfter(v.roster[p], f, p, v.text)
  <2>1. p \in DOMAIN w.roster <=> HasAfter(p \in DOMAIN v.roster, f, p)
    BY <1>3 DEF HasAfter
  <2>2. CASE p \in DOMAIN v.roster /\ p # f.who
    <3>1. v.roster[p] \in Shown
      BY <2>2, ViewHas, RosterIs
    <3>2. SeatAfter(v.roster[p], f, p, v.text)
             = [connected |-> v.roster[p].connected, typed |-> v.roster[p].typed,
                finished |-> v.roster[p].finished]
      BY <2>2 DEF SeatAfter
    <3>3. v.roster[p] = [connected |-> v.roster[p].connected, typed |-> v.roster[p].typed,
                finished |-> v.roster[p].finished]
      BY <3>1, SeatIs
    <3> QED
      BY <1>3, <2>1, <2>2, <3>2, <3>3
  <2> QED
    BY <1>3, <2>1, <2>2
<1> QED
  BY <1>3, <1>4, <1>5 DEF Effect

LEMMA RosterEffect ==
    ASSUME NEW v \in View, NEW f \in Frames, f.type # "room",
           \A p \in Players : HasAfter(p \in DOMAIN v.roster, f, p) =>
              SeatAfter(v.roster[p], f, p, v.text) \in Shown,
           NEW roster, roster = [p \in DOMAIN roster |-> roster[p]],
           DOMAIN roster \subseteq Players,
           \A p \in Players : p \in DOMAIN roster <=> HasAfter(p \in DOMAIN v.roster, f, p),
           \A p \in DOMAIN roster : roster[p] = SeatAfter(v.roster[p], f, p, v.text),
           NEW w,
           w = [state |-> StateAfter(v.state, f), host |-> HostAfter(v.host, f),
                text |-> TextAfter(v.text, f), roster |-> roster]
    PROVE  Effect(v, f, w)
<1>1. \A p \in DOMAIN roster : roster[p] \in Shown
  OBVIOUS
<1>2. roster \in Rosters
  BY <1>1, RosterIs
<1>3. StateAfter(v.state, f) \in States /\ HostAfter(v.host, f) \in Players \cup {Nobody}
      /\ TextAfter(v.text, f) \in BOOLEAN
  BY ViewHas, FrameHas DEF StateAfter, HostAfter, TextAfter, States
<1>4. w \in View
  BY <1>2, <1>3, ViewIs
<1> QED
  BY <1>4 DEF Effect

LEMMA SeatsAfter ==
    ASSUME NEW v \in View, NEW f \in Frames, NEW p \in Players,
           HasAfter(p \in DOMAIN v.roster, f, p)
    PROVE  SeatAfter(v.roster[p], f, p, v.text) \in Shown
<1>1. p \in DOMAIN v.roster => v.roster[p] \in Shown
  BY ViewHas, RosterIs
<1>2. f.type = "room" => f.roster \in Rosters
  BY FrameHas
<1>3. f.type = "room" /\ p \in DOMAIN f.roster => f.roster[p] \in Shown
  BY <1>2, RosterIs
<1>4. f.type = "player_joined" => f.seat \in Shown
  BY FrameHas
<1>5. Length \in 0..Length /\ 0 \in 0..Length
  OBVIOUS
<1> SUFFICES ASSUME NEW seat, seat = SeatAfter(v.roster[p], f, p, v.text)
             PROVE  seat \in Shown
  OBVIOUS
<1>6. seat.connected \in BOOLEAN
  BY <1>1, <1>3, <1>4, FrameHas, SeatIs DEF SeatAfter, HasAfter
<1>7. seat.finished \in BOOLEAN
  BY <1>1, <1>3, <1>4, FrameHas, SeatIs DEF SeatAfter, HasAfter
<1>8. seat.typed \in 0..Length
  BY <1>1, <1>3, <1>4, <1>5, FrameHas, SeatIs DEF SeatAfter, HasAfter
<1>9. seat = [connected |-> seat.connected, typed |-> seat.typed, finished |-> seat.finished]
  BY DEF SeatAfter
<1> QED
  BY <1>6, <1>7, <1>8, <1>9 DEF Shown

LEMMA ReduceEffect ==
    ASSUME NEW v \in View, NEW f \in Frames PROVE Effect(v, f, ReduceRoom(v, f))
<1> SUFFICES ASSUME NEW w, w = ReduceRoom(v, f) PROVE Effect(v, f, w)
  OBVIOUS
<1>0. v = [state |-> v.state, host |-> v.host, text |-> v.text, roster |-> v.roster]
      /\ v.roster \in Rosters /\ v.text \in BOOLEAN
  BY ViewHas
<1>1. /\ v.roster = [p \in DOMAIN v.roster |-> v.roster[p]] /\ DOMAIN v.roster \subseteq Players
      /\ \A p \in DOMAIN v.roster : v.roster[p] \in Shown
  BY <1>0, RosterIs
<1>2. \A p \in DOMAIN v.roster :
         v.roster[p] = [connected |-> v.roster[p].connected, typed |-> v.roster[p].typed,
                        finished |-> v.roster[p].finished]
  BY <1>1, SeatIs
<1>3. \A p \in Players : HasAfter(p \in DOMAIN v.roster, f, p) =>
         SeatAfter(v.roster[p], f, p, v.text) \in Shown
  BY SeatsAfter
<1>4. CASE f.type = "room"
  <2>1. w = [state |-> f.state, host |-> f.host, text |-> f.text, roster |-> f.roster]
    BY <1>4 DEF ReduceRoom
  <2>2. f.state \in States /\ f.host \in Players /\ f.text \in BOOLEAN /\ f.roster \in Rosters
    BY <1>4, FrameHas
  <2>3. w \in View
    BY <2>1, <2>2, ViewIs
  <2>4. /\ w.state = StateAfter(v.state, f) /\ w.host = HostAfter(v.host, f)
        /\ w.text = TextAfter(v.text, f)
    BY <1>4, <2>1 DEF StateAfter, HostAfter, TextAfter
  <2>5. ASSUME NEW p \in DOMAIN f.roster
        PROVE  f.roster[p] = SeatAfter(v.roster[p], f, p, v.text)
    <3>1. f.roster[p] \in Shown
      BY <2>2, RosterIs
    <3>2. SeatAfter(v.roster[p], f, p, v.text)
            = [connected |-> f.roster[p].connected, typed |-> f.roster[p].typed,
               finished |-> f.roster[p].finished]
      BY <1>4 DEF SeatAfter
    <3> QED
      BY <3>1, <3>2, SeatIs
  <2>6. \A p \in Players : p \in DOMAIN f.roster <=> HasAfter(p \in DOMAIN v.roster, f, p)
    BY <1>4 DEF HasAfter
  <2>7. w.roster = f.roster
    BY <2>1
  <2> QED
    BY <2>3, <2>4, <2>5, <2>6, <2>7 DEF Effect
<1>5. CASE f.type \in {"player_connection", "progress", "player_finished"}
  <2> DEFINE p == f.who
             seat == SeatAfter(v.roster[p], f, p, v.text)
  <2>1. CASE p \in DOMAIN v.roster
    <3>1. v.roster[p] = [connected |-> v.roster[p].connected, typed |-> v.roster[p].typed,
                         finished |-> v.roster[p].finished]
      BY <1>2, <2>1
    <3>2. ASSUME f.type = "player_connection" PROVE w = Patch(v, p, seat)
      <4>1. seat = [v.roster[p] EXCEPT !.connected = f.connected]
        BY <3>1, <3>2 DEF SeatAfter
      <4>2. w = Patch(v, p, [v.roster[p] EXCEPT !.connected = f.connected])
        BY <3>2 DEF ReduceRoom
      <4> HIDE DEF seat
      <4> QED
        BY <4>1, <4>2
    <3>3. ASSUME f.type = "progress" PROVE w = Patch(v, p, seat)
      <4>1. seat = [v.roster[p] EXCEPT !.typed = f.typed]
        BY <3>1, <3>3 DEF SeatAfter
      <4>2. w = Patch(v, p, [v.roster[p] EXCEPT !.typed = f.typed])
        BY <3>3 DEF ReduceRoom
      <4> HIDE DEF seat
      <4> QED
        BY <4>1, <4>2
    <3>4. ASSUME f.type = "player_finished" PROVE w = Patch(v, p, seat)
      <4>1. seat = [v.roster[p] EXCEPT !.finished = TRUE, !.typed = IF v.text THEN Length ELSE 0]
        <5> DEFINE n == IF v.text THEN Length ELSE 0
                   x == v.roster[p]
                   y == [x EXCEPT !.finished = TRUE, !.typed = n]
        <5>1. seat = [connected |-> x.connected, typed |-> n, finished |-> TRUE]
          BY <3>4 DEF SeatAfter
        <5>2. x \in Shown /\ n \in 0..Length
          BY <1>1, <2>1
        <5> HIDE DEF seat, n, x
        <5>3. y \in Shown /\ y.connected = x.connected /\ y.typed = n /\ y.finished = TRUE
          BY <5>2 DEF Shown
        <5> HIDE DEF y
        <5>4. y = [connected |-> y.connected, typed |-> y.typed, finished |-> y.finished]
          BY <5>3, SeatIs
        <5>5. y = [connected |-> x.connected, typed |-> n, finished |-> TRUE]
          BY <5>3, <5>4, Zenon
        <5> QED
          BY <5>1, <5>5 DEF n, x, y
      <4>2. w = Patch(v, p, [v.roster[p] EXCEPT !.finished = TRUE,
                                                !.typed = IF v.text THEN Length ELSE 0])
        BY <3>4 DEF ReduceRoom
      <4> HIDE DEF seat
      <4> QED
        BY <4>1, <4>2
    <3>5. w = Patch(v, p, seat)
      BY <1>5, <3>2, <3>3, <3>4
    <3> QED
      BY <1>3, <1>5, <3>5, PatchEffect DEF HasAfter
  <2>2. CASE p \notin DOMAIN v.roster
    <3>1. w = v
      BY <1>5, <2>2 DEF ReduceRoom, Patch
    <3>2. v = Patch(v, p, seat)
      BY <2>2 DEF Patch
    <3> QED
      BY <1>3, <1>5, <3>1, <3>2, PatchEffect DEF HasAfter
  <2> QED
    BY <2>1, <2>2
<1>6. CASE f.type = "player_joined"
  <2> DEFINE ro == Seating(v.roster, f.who, f.seat)
  <2>1. f.who \in Players /\ f.seat \in Shown
    BY <1>6, FrameHas
  <2>2. w = [state |-> v.state, host |-> v.host, text |-> v.text, roster |-> ro]
    BY <1>0, <1>6 DEF ReduceRoom
  <2>3. /\ DOMAIN ro = DOMAIN v.roster \cup {f.who} /\ ro = [p \in DOMAIN ro |-> ro[p]]
        /\ \A p \in DOMAIN ro : ro[p] = IF p = f.who THEN f.seat ELSE v.roster[p]
    BY DEF Seating
  <2> HIDE DEF ro
  <2>4. ASSUME NEW p \in DOMAIN ro PROVE ro[p] = SeatAfter(v.roster[p], f, p, v.text)
    <3>1. CASE p = f.who
      <4>1. SeatAfter(v.roster[p], f, p, v.text)
              = [connected |-> f.seat.connected, typed |-> f.seat.typed, finished |-> f.seat.finished]
        BY <1>6, <3>1 DEF SeatAfter
      <4> QED
        BY <2>1, <2>3, <3>1, <4>1, SeatIs
    <3>2. CASE p # f.who
      <4>1. SeatAfter(v.roster[p], f, p, v.text)
              = [connected |-> v.roster[p].connected, typed |-> v.roster[p].typed,
                 finished |-> v.roster[p].finished]
        BY <1>6, <3>2 DEF SeatAfter
      <4> QED
        BY <1>2, <2>3, <3>2, <4>1
    <3> QED
      BY <3>1, <3>2
  <2>5. \A p \in Players : p \in DOMAIN ro <=> HasAfter(p \in DOMAIN v.roster, f, p)
    BY <1>6, <2>3 DEF HasAfter
  <2>6. StateAfter(v.state, f) = v.state /\ HostAfter(v.host, f) = v.host
        /\ TextAfter(v.text, f) = v.text
    BY <1>0, <1>6 DEF StateAfter, HostAfter, TextAfter
  <2>7. DOMAIN ro \subseteq Players
    BY <1>1, <2>1, <2>3
  <2> QED
    BY <1>3, <1>6, <2>2, <2>3, <2>4, <2>5, <2>6, <2>7, RosterEffect
<1>7. CASE f.type = "player_left"
  <2> DEFINE ro == Without(v.roster, {f.who})
  <2>2. w = [state |-> v.state, host |-> v.host, text |-> v.text, roster |-> ro]
    BY <1>0, <1>7 DEF ReduceRoom
  <2>3. /\ DOMAIN ro = DOMAIN v.roster \ {f.who} /\ ro = [p \in DOMAIN ro |-> ro[p]]
        /\ \A p \in DOMAIN ro : ro[p] = v.roster[p]
    BY DEF Without
  <2> HIDE DEF ro
  <2>4. ASSUME NEW p \in DOMAIN ro PROVE ro[p] = SeatAfter(v.roster[p], f, p, v.text)
    <3>1. SeatAfter(v.roster[p], f, p, v.text)
            = [connected |-> v.roster[p].connected, typed |-> v.roster[p].typed,
               finished |-> v.roster[p].finished]
      BY <1>7 DEF SeatAfter
    <3> QED
      BY <1>2, <2>3, <3>1
  <2>5. \A p \in Players : p \in DOMAIN ro <=> HasAfter(p \in DOMAIN v.roster, f, p)
    BY <1>7, <2>3 DEF HasAfter
  <2>6. StateAfter(v.state, f) = v.state /\ HostAfter(v.host, f) = v.host
        /\ TextAfter(v.text, f) = v.text
    BY <1>0, <1>7 DEF StateAfter, HostAfter, TextAfter
  <2>7. DOMAIN ro \subseteq Players
    BY <1>1, <2>3
  <2> QED
    BY <1>3, <1>7, <2>2, <2>3, <2>4, <2>5, <2>6, <2>7, RosterEffect
<1>8. CASE f.type = "countdown"
  <2> DEFINE ro == Reset(v.roster)
  <2>2. w = [state |-> "countdown", host |-> v.host, text |-> TRUE, roster |-> ro]
    BY <1>0, <1>8 DEF ReduceRoom
  <2>3. /\ DOMAIN ro = DOMAIN v.roster /\ ro = [p \in DOMAIN ro |-> ro[p]]
        /\ \A p \in DOMAIN ro : ro[p] = [v.roster[p] EXCEPT !.typed = 0, !.finished = FALSE]
    BY DEF Reset
  <2> HIDE DEF ro
  <2>4. ASSUME NEW p \in DOMAIN ro PROVE ro[p] = SeatAfter(v.roster[p], f, p, v.text)
    <3>1. SeatAfter(v.roster[p], f, p, v.text)
            = [connected |-> v.roster[p].connected, typed |-> 0, finished |-> FALSE]
      BY <1>8 DEF SeatAfter
    <3>2. [v.roster[p] EXCEPT !.typed = 0, !.finished = FALSE]
            = [connected |-> v.roster[p].connected, typed |-> 0, finished |-> FALSE]
      BY <1>2, <2>3
    <3> QED
      BY <2>3, <3>1, <3>2
  <2>5. \A p \in Players : p \in DOMAIN ro <=> HasAfter(p \in DOMAIN v.roster, f, p)
    BY <1>8, <2>3 DEF HasAfter
  <2>6. StateAfter(v.state, f) = "countdown" /\ HostAfter(v.host, f) = v.host
        /\ TextAfter(v.text, f) = TRUE
    BY <1>0, <1>8 DEF StateAfter, HostAfter, TextAfter
  <2>7. DOMAIN ro \subseteq Players
    BY <1>1, <2>3
  <2> QED
    BY <1>3, <1>8, <2>2, <2>3, <2>4, <2>5, <2>6, <2>7, RosterEffect
<1>9. CASE f.type \in {"started", "race_over", "host_changed"}
  <2> DEFINE ro == v.roster
  <2>1. w = [state |-> StateAfter(v.state, f), host |-> HostAfter(v.host, f),
             text |-> v.text, roster |-> v.roster]
    <3>1. CASE f.type = "started"
      BY <1>0, <3>1 DEF ReduceRoom, StateAfter, HostAfter
    <3>2. CASE f.type = "race_over"
      BY <1>0, <3>2 DEF ReduceRoom, StateAfter, HostAfter
    <3>3. CASE f.type = "host_changed"
      BY <1>0, <3>3 DEF ReduceRoom, StateAfter, HostAfter
    <3> QED
      BY <1>9, <3>1, <3>2, <3>3
  <2>2. TextAfter(v.text, f) = v.text
    BY <1>0, <1>9 DEF TextAfter
  <2>4. ASSUME NEW p \in DOMAIN v.roster
        PROVE  v.roster[p] = SeatAfter(v.roster[p], f, p, v.text)
    <3>1. SeatAfter(v.roster[p], f, p, v.text)
            = [connected |-> v.roster[p].connected, typed |-> v.roster[p].typed,
               finished |-> v.roster[p].finished]
      BY <1>9 DEF SeatAfter
    <3> QED
      BY <1>2, <3>1
  <2>5. \A p \in Players : p \in DOMAIN v.roster <=> HasAfter(p \in DOMAIN v.roster, f, p)
    BY <1>9 DEF HasAfter
  <2> QED
    BY <1>1, <1>3, <1>9, <2>1, <2>2, <2>4, <2>5, RosterEffect
<1>10. f.type \in {"room", "player_joined", "player_left", "player_connection", "progress",
                   "player_finished", "host_changed", "countdown", "started", "race_over"}
  BY FrameHas
<1> QED
  BY <1>4, <1>5, <1>6, <1>7, <1>8, <1>9, <1>10

-----------------------------------------------------------------------------
(* Frames one by one. Reduced is a recursive function: it is shown to      *)
(* exist for every queue by the least length at which it might not.        *)
LEMMA LeastOfNaturals ==
    ASSUME NEW T \in SUBSET Nat, T # {}
    PROVE  \E n \in T : \A m \in T : n <= m
<1> DEFINE Less == {p \in Nat \X Nat : p[1] < p[2]}
<1>1. IsWellFoundedOn(Less, Nat)
  BY NatLessThanWellFounded DEF OpToRel
<1> HIDE DEF Less
<1>2. PICK n \in T : \A m \in T : ~ (<<m, n>> \in Less)
  BY <1>1, WFMin, Zenon
<1>3. \A m \in T : m < n => <<m, n>> \in Less
  BY DEF Less
<1>4. \A m \in T : ~(m < n)
  BY <1>2, <1>3, Zenon
<1>5. \A m \in T : m \in Nat /\ n \in Nat
  OBVIOUS
<1>6. \A m \in T : n <= m
  BY <1>4, <1>5
<1> QED
  BY <1>6

(* The views passed through, from v, after none, one, ... all of the       *)
(* frames in q.                                                            *)
Passes(v, q, after) ==
    after = [n \in 0..Len(q) |-> IF n = 0 THEN v ELSE ReduceRoom(after[n - 1], q[n])]

LEMMA OnePassage ==
    ASSUME NEW v, NEW q, Len(q) \in Nat, NEW f, NEW g, Passes(v, q, f), Passes(v, q, g)
    PROVE  f = g
<1>1. \A n \in 0..Len(q) : f[n] = IF n = 0 THEN v ELSE ReduceRoom(f[n - 1], q[n])
  <2>1. f = [n \in 0..Len(q) |-> IF n = 0 THEN v ELSE ReduceRoom(f[n - 1], q[n])]
    BY DEF Passes
  <2> QED
    BY ONLY <2>1, Zenon
<1>2. \A n \in 0..Len(q) : g[n] = IF n = 0 THEN v ELSE ReduceRoom(g[n - 1], q[n])
  <2>1. g = [n \in 0..Len(q) |-> IF n = 0 THEN v ELSE ReduceRoom(g[n - 1], q[n])]
    BY DEF Passes
  <2> QED
    BY ONLY <2>1, Zenon
<1>3. f = [n \in 0..Len(q) |-> f[n]] /\ g = [n \in 0..Len(q) |-> g[n]]
  BY <1>1, <1>2 DEF Passes
<1>4. \A n \in 0..Len(q) : f[n] = g[n]
  <2> DEFINE D == {n \in 0..Len(q) : f[n] # g[n]}
  <2>1. SUFFICES ASSUME D # {} PROVE FALSE
    OBVIOUS
  <2>2. PICK n \in D : \A m \in D : n <= m
    <3>1. D \in SUBSET Nat
      OBVIOUS
    <3> QED
      BY <2>1, <3>1, LeastOfNaturals
  <2>3. n # 0
    <3>1. n \in 0..Len(q) /\ f[n] # g[n]
      OBVIOUS
    <3> QED
      BY <1>1, <1>2, <3>1
  <2>4. n - 1 \in 0..Len(q) /\ n - 1 \notin D /\ n \in 0..Len(q)
    BY <2>2, <2>3
  <2>5. f[n - 1] = g[n - 1]
    BY <2>4
  <2> QED
    BY <1>1, <1>2, <2>2, <2>3, <2>4, <2>5
<1> QED
  BY <1>3, <1>4

LEMMA PassageEnds ==
    ASSUME NEW v, NEW q, Len(q) \in Nat, NEW g, Passes(v, q, g)
    PROVE  Reduced(v, q) = g[Len(q)]
<1> DEFINE f == CHOOSE f : Passes(v, q, f)
<1>1. Passes(v, q, f)
  OBVIOUS
<1>2. Reduced(v, q) = f[Len(q)]
  BY DEF Reduced, Passes
<1> HIDE DEF f
<1>3. f = g
  BY <1>1, OnePassage
<1> QED
  BY <1>2, <1>3

LEMMA PassedNone == ASSUME NEW v PROVE Passes(v, <<>>, [n \in 0..0 |-> v])
<1> DEFINE g == [n \in 0..0 |-> v]
<1>1. g = [n \in 0..Len(<<>>) |-> IF n = 0 THEN v ELSE ReduceRoom(g[n - 1], <<>>[n])]
  OBVIOUS
<1> QED
  BY <1>1 DEF Passes

LEMMA PassedOne ==
    ASSUME NEW v, NEW S, NEW q \in Seq(S), NEW x \in S, NEW f, Passes(v, q, f)
    PROVE  \E g : Passes(v, Append(q, x), g) /\ g[Len(q) + 1] = ReduceRoom(f[Len(q)], x)
<1> DEFINE L == Len(q)
           r == Append(q, x)
           g == [k \in 0..L + 1 |-> IF k = L + 1 THEN ReduceRoom(f[L], x) ELSE f[k]]
<1>1. L \in Nat /\ Len(r) = L + 1 /\ r[L + 1] = x /\ \A k \in 1..L : r[k] = q[k]
  OBVIOUS
<1>2. \A k \in 0..L : f[k] = IF k = 0 THEN v ELSE ReduceRoom(f[k - 1], q[k])
  BY Zenon DEF Passes
<1> HIDE DEF L, r
<1>3. \A k \in 0..L + 1 : g[k] = IF k = 0 THEN v ELSE ReduceRoom(g[k - 1], r[k])
  <2> TAKE k \in 0..L + 1
  <2>1. CASE k = L + 1
    <3>1. k # 0 /\ k - 1 = L /\ L \in 0..L + 1 /\ L # L + 1
      BY <1>1, <2>1
    <3>2. g[k - 1] = f[L]
      BY <3>1
    <3> QED
      BY <1>1, <2>1, <3>1, <3>2
  <2>2. CASE k # L + 1
    <3>1. k \in 0..L /\ (k # 0 => k \in 1..L /\ k - 1 \in 0..L + 1 /\ k - 1 # L + 1)
      BY <1>1, <2>2
    <3>2. g[k] = f[k] /\ (k # 0 => g[k - 1] = f[k - 1])
      BY <2>2, <3>1
    <3> QED
      BY <1>1, <1>2, <3>1, <3>2
  <2> QED
    BY <2>1, <2>2
<1>4. g = [k \in 0..L + 1 |-> g[k]] /\ g[L + 1] = ReduceRoom(f[L], x)
  BY <1>1
<1> HIDE DEF g
<1>5. g = [k \in 0..L + 1 |-> IF k = 0 THEN v ELSE ReduceRoom(g[k - 1], r[k])]
  BY <1>3, <1>4, Zenon
<1>6. Passes(v, r, g)
  BY <1>1, <1>5, Zenon DEF Passes
<1> QED
  BY <1>4, <1>6 DEF r, L

LEMMA BeginningPasses ==
    ASSUME NEW v, NEW S, NEW q \in Seq(S)
    PROVE  \E g : Passes(v, q, g)
<1> DEFINE Bad == {n \in 0..Len(q) : ~ \E g : Passes(v, SubSeq(q, 1, n), g)}
<1>1. Bad = {}
  <2>1. SUFFICES ASSUME Bad # {} PROVE FALSE
    OBVIOUS
  <2>2. PICK n \in Bad : \A m \in Bad : n <= m
    <3>1. Bad \in SUBSET Nat
      OBVIOUS
    <3> QED
      BY <2>1, <3>1, LeastOfNaturals
  <2>3. n \in 0..Len(q) /\ ~ \E g : Passes(v, SubSeq(q, 1, n), g)
    OBVIOUS
  <2>4. n # 0
    <3>1. SubSeq(q, 1, 0) = <<>>
      OBVIOUS
    <3>2. \E g : Passes(v, <<>>, g)
      BY PassedNone
    <3>3. \E g : Passes(v, SubSeq(q, 1, 0), g)
      BY <3>1, <3>2, Zenon
    <3> QED
      BY <2>3, <3>3
  <2>5. n - 1 \in 0..Len(q) /\ ~(n <= n - 1)
    BY <2>3, <2>4
  <2>6. PICK f : Passes(v, SubSeq(q, 1, n - 1), f)
    BY <2>2, <2>5
  <2>7. SubSeq(q, 1, n) = Append(SubSeq(q, 1, n - 1), q[n]) /\ q[n] \in S
        /\ SubSeq(q, 1, n - 1) \in Seq(S)
    BY <2>3, <2>4
  <2>8. \E g : Passes(v, Append(SubSeq(q, 1, n - 1), q[n]), g)
    BY <2>6, <2>7, PassedOne, Zenon
  <2> QED
    BY <2>3, <2>7, <2>8, Zenon
<1>2. Len(q) \in 0..Len(q) /\ SubSeq(q, 1, Len(q)) = q
  OBVIOUS
<1>3. \E g : Passes(v, SubSeq(q, 1, Len(q)), g)
  BY <1>1, <1>2
<1> QED
  BY <1>2, <1>3, Zenon

LEMMA ReducedNone == ASSUME NEW v PROVE Reduced(v, <<>>) = v
<1>1. Len(<<>>) = 0
  OBVIOUS
<1> QED
  BY <1>1, PassedNone, PassageEnds

LEMMA ReducedOne ==
    ASSUME NEW v, NEW S, NEW q \in Seq(S), NEW x \in S
    PROVE  Reduced(v, Append(q, x)) = ReduceRoom(Reduced(v, q), x)
<1>1. PICK f : Passes(v, q, f)
  BY BeginningPasses
<1>2. PICK g : Passes(v, Append(q, x), g) /\ g[Len(q) + 1] = ReduceRoom(f[Len(q)], x)
  BY <1>1, PassedOne
<1>3. Len(q) \in Nat /\ Len(Append(q, x)) = Len(q) + 1
  OBVIOUS
<1>4. Reduced(v, q) = f[Len(q)]
  BY <1>1, <1>3, PassageEnds
<1>5. Reduced(v, Append(q, x)) = g[Len(q) + 1]
  <2>1. Len(Append(q, x)) \in Nat
    BY <1>3
  <2>2. Reduced(v, Append(q, x)) = g[Len(Append(q, x))]
    BY <1>2, <2>1, PassageEnds, Zenon
  <2> QED
    BY <1>3, <2>2
<1> QED
  BY <1>2, <1>4, <1>5

LEMMA ReducedView ==
    ASSUME NEW v \in View, NEW q \in Seq(Frames) PROVE Reduced(v, q) \in View
<1> DEFINE Bad == {n \in 0..Len(q) : Reduced(v, SubSeq(q, 1, n)) \notin View}
<1>1. Bad = {}
  <2>1. SUFFICES ASSUME Bad # {} PROVE FALSE
    OBVIOUS
  <2>2. PICK n \in Bad : \A m \in Bad : n <= m
    <3>1. Bad \in SUBSET Nat
      OBVIOUS
    <3> QED
      BY <2>1, <3>1, LeastOfNaturals
  <2>3. n \in 0..Len(q) /\ Reduced(v, SubSeq(q, 1, n)) \notin View
    OBVIOUS
  <2>4. n # 0
    <3>1. SubSeq(q, 1, 0) = <<>>
      OBVIOUS
    <3> QED
      BY <2>3, <3>1, ReducedNone
  <2>5. n - 1 \in 0..Len(q) /\ ~(n <= n - 1)
    BY <2>3, <2>4
  <2>6. Reduced(v, SubSeq(q, 1, n - 1)) \in View
    BY <2>2, <2>5
  <2>7. SubSeq(q, 1, n) = Append(SubSeq(q, 1, n - 1), q[n]) /\ q[n] \in Frames
        /\ SubSeq(q, 1, n - 1) \in Seq(Frames)
    BY <2>3, <2>4
  <2>8. Reduced(v, SubSeq(q, 1, n)) = ReduceRoom(Reduced(v, SubSeq(q, 1, n - 1)), q[n])
    <3>1. \A part \in Seq(Frames) : \A f \in Frames :
             Reduced(v, Append(part, f)) = ReduceRoom(Reduced(v, part), f)
      BY ReducedOne
    <3> QED
      BY <2>7, <3>1, Zenon
  <2> QED
    BY <2>3, <2>6, <2>7, <2>8, ReduceEffect DEF Effect
<1>2. Len(q) \in 0..Len(q) /\ SubSeq(q, 1, Len(q)) = q
  OBVIOUS
<1> QED
  BY <1>1, <1>2

-----------------------------------------------------------------------------
(* How far a page is from the room. A page is near the room in a field     *)
(* when that field of it shows what the page started as, or the room; a    *)
(* frame brings a field when every near page shows the room in it          *)
(* afterwards.                                                             *)

(* A page w that started as v, next to the room r, as far as field k goes.  *)
Fit(v, r, k) ==
    k \in Players =>
        /\ k \in DOMAIN v.roster <=> k \in DOMAIN r.roster
        /\ k \in DOMAIN r.roster /\ r.text => v.text
(* Each part of a seat is the one or the other. *)
Blend(x, y, z) ==
    /\ x.connected \in {y.connected, z.connected}
    /\ x.typed \in {y.typed, z.typed}
    /\ x.finished \in {y.finished, z.finished}
Near(w, v, r, k) ==
    Fit(v, r, k) =>
        /\ Fit(w, r, k)
        /\ k = "state" => w.state \in {v.state, r.state} /\ w.text \in {v.text, r.text}
        /\ k = "host" => w.host \in {v.host, r.host}
        /\ k \in Players /\ k \in DOMAIN r.roster =>
              Blend(w.roster[k], v.roster[k], r.roster[k])

(* The fields a frame is to set right, in a room r.                         *)
Concerns(f, r, k) ==
    k \in About(f) /\ (f.type = "countdown" /\ k \in Players => k \in DOMAIN r.roster)
(* A frame after which no page has k. *)
Removes(f, k) ==
    (f.type = "player_left" /\ f.who = k) \/ (f.type = "room" /\ k \notin DOMAIN f.roster)
(* After frame f a page that was near the room as it was, r, is near it as *)
(* it is, r2.                                                              *)
Brings(f, r, r2, k) ==
    \A w, v \in View : Near(w, v, r, k) => Near(ReduceRoom(w, f), v, r2, k)
(* Two rooms that are one, as far as field k goes. *)
SameRoom(r, r2, k) ==
    /\ k = "state" => r.state = r2.state /\ r.text = r2.text
    /\ k = "host" => r.host = r2.host
    /\ k \in Players =>
          /\ k \in DOMAIN r.roster <=> k \in DOMAIN r2.roster
          /\ k \in DOMAIN r.roster => r.roster[k] = r2.roster[k] /\ r.text = r2.text

(* Something about k is still to be told, ... *)
Owing(F, r, late, k) == late \/ \E f \in F : Concerns(f, r, k)
(* ... or the page is near the room in k; and whatever is still to be told *)
(* of k will bring it there.                                               *)
Tracked(w, v, r, F, late, k) ==
    /\ Owing(F, r, late, k) \/ Near(w, v, r, k)
    /\ \A f \in F : Concerns(f, r, k) => Near(ReduceRoom(w, f), v, r, k)

(* The fields, and the frames about each. *)
LEMMA FieldIs ==
    ASSUME NEW k \in Fields
    PROVE  \/ k = "state" /\ k # "host" /\ k \notin Players
           \/ k = "host" /\ k # "state" /\ k \notin Players
           \/ k \in Players /\ k # "state" /\ k # "host"
BY DEF Fields

LEMMA AboutIs ==
    ASSUME NEW f \in Frames
    PROVE  About(f) = IF f.type = "room" THEN Fields
                      ELSE IF f.type = "countdown" THEN Players \cup {"state"}
                      ELSE IF f.type \in {"started", "race_over"} THEN {"state"}
                      ELSE IF f.type = "host_changed" THEN {"host"} ELSE {f.who}
<1>1. f.type \in {"room", "player_joined", "player_left", "player_connection", "progress",
                   "player_finished", "host_changed", "countdown", "started", "race_over"}
  BY FrameHas
<1> QED
  BY <1>1 DEF About

LEMMA WhoIs ==
    ASSUME NEW f \in Frames, f.type \notin {"room", "countdown", "started", "race_over", "host_changed"}
    PROVE  f.who \in Players
BY FrameHas

(* A frame that does not concern a field leaves it as it is.                *)
LEMMA PartKept ==
    ASSUME NEW w \in View, NEW f \in Frames, NEW k \in Fields, k \notin About(f)
    PROVE  LET u == ReduceRoom(w, f) IN
           /\ k = "state" => u.state = w.state /\ u.text = w.text
           /\ k = "host" => u.host = w.host
           /\ k \in Players =>
                 /\ u.text = w.text /\ (k \in DOMAIN u.roster <=> k \in DOMAIN w.roster)
                 /\ k \in DOMAIN w.roster =>
                       /\ u.roster[k].connected = w.roster[k].connected
                       /\ u.roster[k].typed = w.roster[k].typed
                       /\ u.roster[k].finished = w.roster[k].finished
<1> SUFFICES ASSUME NEW u, u = ReduceRoom(w, f)
             PROVE
           /\ k = "state" => u.state = w.state /\ u.text = w.text
           /\ k = "host" => u.host = w.host
           /\ k \in Players =>
                 /\ u.text = w.text /\ (k \in DOMAIN u.roster <=> k \in DOMAIN w.roster)
                 /\ k \in DOMAIN w.roster =>
                       /\ u.roster[k].connected = w.roster[k].connected
                       /\ u.roster[k].typed = w.roster[k].typed
                       /\ u.roster[k].finished = w.roster[k].finished
  OBVIOUS
<1>1. Effect(w, f, u)
  BY ReduceEffect
<1>2. f.type # "room"
  BY AboutIs
<1>3. w.text \in BOOLEAN /\ u.text \in BOOLEAN
  BY <1>1, ViewHas DEF Effect
<1>4. CASE k = "state"
  <2>1. f.type \notin {"countdown", "started", "race_over"}
    BY <1>4, AboutIs
  <2>2. u.state = w.state /\ u.text = w.text
    BY <1>1, <1>2, <1>3, <2>1 DEF Effect, StateAfter, TextAfter
  <2> QED
    BY <1>4, <2>2, FieldIs
<1>5. CASE k = "host"
  <2>1. f.type # "host_changed"
    BY <1>5, AboutIs
  <2>2. u.host = w.host
    BY <1>1, <1>2, <2>1 DEF Effect, HostAfter
  <2> QED
    BY <1>5, <2>2, FieldIs
<1>6. CASE k \in Players
  <2>1. f.type # "countdown" /\ ~(f.type \in {"player_joined", "player_left", "player_connection",
           "progress", "player_finished"} /\ f.who = k)
    BY <1>6, AboutIs
  <2>2. u.text = w.text
    BY <1>1, <1>2, <1>3, <2>1 DEF Effect, TextAfter
  <2>3. k \in DOMAIN u.roster <=> k \in DOMAIN w.roster
    BY <1>1, <1>2, <1>6, <2>1 DEF Effect, HasAfter
  <2>4. k \in DOMAIN w.roster => u.roster[k] = SeatAfter(w.roster[k], f, k, w.text)
    BY <1>1, <1>6, <2>3 DEF Effect
  <2>5. /\ SeatAfter(w.roster[k], f, k, w.text).connected = w.roster[k].connected
        /\ SeatAfter(w.roster[k], f, k, w.text).typed = w.roster[k].typed
        /\ SeatAfter(w.roster[k], f, k, w.text).finished = w.roster[k].finished
    BY <1>2, <2>1 DEF SeatAfter
  <2> QED
    BY <1>6, <2>2, <2>3, <2>4, <2>5, FieldIs
<1> QED
  BY <1>4, <1>5, <1>6, FieldIs

LEMMA Untouched ==
    ASSUME NEW w \in View, NEW v \in View, NEW r \in View, NEW f \in Frames, NEW k \in Fields,
           ~Concerns(f, r, k), Near(w, v, r, k)
    PROVE  Near(ReduceRoom(w, f), v, r, k)
<1> SUFFICES ASSUME NEW u, u = ReduceRoom(w, f), Fit(v, r, k)
             PROVE  Near(u, v, r, k)
  BY DEF Near
<1>1. CASE k \notin About(f)
  <2>1. /\ k = "state" => u.state = w.state /\ u.text = w.text
        /\ k = "host" => u.host = w.host
        /\ k \in Players =>
              /\ u.text = w.text /\ (k \in DOMAIN u.roster <=> k \in DOMAIN w.roster)
              /\ k \in DOMAIN w.roster =>
                    /\ u.roster[k].connected = w.roster[k].connected
                    /\ u.roster[k].typed = w.roster[k].typed
                    /\ u.roster[k].finished = w.roster[k].finished
    BY <1>1, PartKept
  <2> QED
    BY <2>1 DEF Near, Fit, Blend
<1>2. CASE k \in About(f)
  <2>1. f.type = "countdown" /\ k \in Players /\ k \notin DOMAIN r.roster
    BY <1>2 DEF Concerns
  <2>2. Effect(w, f, u)
    BY ReduceEffect
  <2>3. k \in DOMAIN u.roster <=> k \in DOMAIN w.roster
    BY <2>1, <2>2 DEF Effect, HasAfter
  <2> QED
    BY <2>1, <2>3, FieldIs DEF Near, Fit
<1> QED
  BY <1>1, <1>2

(* Nor does it disturb what a later frame will do to it.                    *)
LEMMA Congruent ==
    ASSUME NEW w \in View, NEW u \in View, NEW v \in View, NEW r \in View,
           NEW g \in Frames, NEW k \in Fields,
           k = "state" => u.state = w.state /\ u.text = w.text,
           k = "host" => u.host = w.host,
           k \in Players =>
              /\ u.text = w.text /\ (k \in DOMAIN u.roster <=> k \in DOMAIN w.roster)
              /\ k \in DOMAIN w.roster =>
                    /\ u.roster[k].connected = w.roster[k].connected
                    /\ u.roster[k].typed = w.roster[k].typed
                    /\ u.roster[k].finished = w.roster[k].finished,
           Near(ReduceRoom(w, g), v, r, k)
    PROVE  Near(ReduceRoom(u, g), v, r, k)
<1> SUFFICES ASSUME NEW x, x = ReduceRoom(w, g), NEW y, y = ReduceRoom(u, g), Fit(v, r, k)
             PROVE  Near(y, v, r, k)
  BY DEF Near
<1>1. Effect(w, g, x) /\ Effect(u, g, y)
  BY ReduceEffect
<1>2. CASE k = "state"
  <2>1. x.state = y.state /\ x.text = y.text
    BY <1>1, <1>2 DEF Effect
  <2> QED
    BY <1>2, <2>1, FieldIs DEF Near, Fit
<1>3. CASE k = "host"
  <2>1. x.host = y.host
    BY <1>1, <1>3 DEF Effect
  <2> QED
    BY <1>3, <2>1, FieldIs DEF Near, Fit
<1>4. CASE k \in Players
  <2>1. x.text = y.text
    BY <1>1, <1>4 DEF Effect
  <2>2. k \in DOMAIN x.roster <=> k \in DOMAIN y.roster
    BY <1>1, <1>4 DEF Effect, HasAfter
  <2>3. k \in DOMAIN x.roster =>
           /\ x.roster[k] = SeatAfter(w.roster[k], g, k, w.text)
           /\ y.roster[k] = SeatAfter(u.roster[k], g, k, w.text)
    BY <1>1, <1>4, <2>2 DEF Effect
  <2>4. k \in DOMAIN x.roster => SeatAfter(w.roster[k], g, k, w.text) = SeatAfter(u.roster[k], g, k, w.text)
    <3>1. CASE k \in DOMAIN w.roster
      BY <1>4, <3>1 DEF SeatAfter
    <3>2. CASE k \notin DOMAIN w.roster
      <4>1. k \in DOMAIN x.roster => g.type = "room" \/ (g.type = "player_joined" /\ g.who = k)
        BY <1>1, <1>4, <3>2 DEF Effect, HasAfter
      <4> QED
        BY <4>1 DEF SeatAfter
    <3> QED
      BY <3>1, <3>2
  <2>5. k \in DOMAIN x.roster => x.roster[k] = y.roster[k]
    BY <2>3, <2>4
  <2>6. Fit(x, r, k) /\ (k \in DOMAIN r.roster => Blend(x.roster[k], v.roster[k], r.roster[k]))
    BY <1>4 DEF Near
  <2> QED
    BY <1>4, <2>1, <2>2, <2>5, <2>6, FieldIs DEF Near, Fit
<1> QED
  BY <1>2, <1>3, <1>4, FieldIs

LEMMA UntouchedThen ==
    ASSUME NEW w \in View, NEW v \in View, NEW r \in View, NEW f \in Frames, NEW g \in Frames,
           NEW k \in Fields, ~Concerns(f, r, k),
           k \in Players /\ k \notin DOMAIN r.roster => Removes(g, k),
           Near(ReduceRoom(w, g), v, r, k)
    PROVE  Near(ReduceRoom(ReduceRoom(w, f), g), v, r, k)
<1> SUFFICES ASSUME NEW u, u = ReduceRoom(w, f) PROVE Near(ReduceRoom(u, g), v, r, k)
  OBVIOUS
<1>1. Effect(w, f, u)
  BY ReduceEffect
<1>2. u \in View
  BY <1>1 DEF Effect
<1>3. CASE k \notin About(f)
  <2>1. /\ k = "state" => u.state = w.state /\ u.text = w.text
        /\ k = "host" => u.host = w.host
        /\ k \in Players =>
              /\ u.text = w.text /\ (k \in DOMAIN u.roster <=> k \in DOMAIN w.roster)
              /\ k \in DOMAIN w.roster =>
                    /\ u.roster[k].connected = w.roster[k].connected
                    /\ u.roster[k].typed = w.roster[k].typed
                    /\ u.roster[k].finished = w.roster[k].finished
    BY <1>3, PartKept
  <2> QED
    BY <1>2, <2>1, Congruent
<1>4. CASE k \in About(f)
  <2>1. k \in Players /\ k \notin DOMAIN r.roster /\ Removes(g, k)
    BY <1>4 DEF Concerns
  <2>2. Effect(u, g, ReduceRoom(u, g))
    BY <1>2, ReduceEffect
  <2>3. k \notin DOMAIN ReduceRoom(u, g).roster
    BY <2>1, <2>2 DEF Effect, HasAfter, Removes
  <2> QED
    BY <2>1, <2>3, FieldIs DEF Near, Fit
<1> QED
  BY <1>3, <1>4

(* A page told one of the frames it is owed stays tracked. *)
LEMMA Published ==
    ASSUME NEW w \in View, NEW v \in View, NEW r \in View, NEW k \in Fields,
           NEW F \in SUBSET Frames, NEW G \in SUBSET F, NEW late \in BOOLEAN, NEW f \in F,
           F \ {f} \subseteq G, Tracked(w, v, r, F, late, k),
           \A g \in F : Concerns(g, r, k) =>
              /\ Brings(g, r, r, k)
              /\ k \in Players /\ k \notin DOMAIN r.roster => Removes(g, k)
    PROVE  Tracked(ReduceRoom(w, f), v, r, G, late, k)
<1> SUFFICES ASSUME NEW u, u = ReduceRoom(w, f) PROVE Tracked(u, v, r, G, late, k)
  OBVIOUS
<1>1. u \in View /\ f \in Frames
  BY ReduceEffect DEF Effect
<1>2. CASE Concerns(f, r, k)
  <2>1. Near(u, v, r, k)
    BY <1>2 DEF Tracked
  <2>2. \A g \in G : Concerns(g, r, k) => Near(ReduceRoom(u, g), v, r, k)
    BY <1>1, <2>1 DEF Brings
  <2> QED
    BY <2>1, <2>2 DEF Tracked
<1>3. CASE ~Concerns(f, r, k)
  <2>1. Owing(F, r, late, k) => Owing(G, r, late, k)
    BY <1>3 DEF Owing
  <2>2. Near(w, v, r, k) => Near(u, v, r, k)
    BY <1>1, <1>3, Untouched
  <2>3. ASSUME NEW g \in G, Concerns(g, r, k) PROVE Near(ReduceRoom(u, g), v, r, k)
    <3>1. Near(ReduceRoom(w, g), v, r, k) /\ g \in Frames
          /\ (k \in Players /\ k \notin DOMAIN r.roster => Removes(g, k))
      BY <2>3 DEF Tracked
    <3> QED
      BY <1>1, <1>3, <3>1, UntouchedThen
  <2> QED
    BY <2>1, <2>2, <2>3 DEF Tracked
<1> QED
  BY <1>2, <1>3

(* What the room looked like to a page when it started matters less and    *)
(* less.                                                                   *)
LEMMA RightIsNear ==
    ASSUME NEW w, NEW v, NEW r, NEW k, Near(w, r, r, k)
    PROVE  Near(w, v, r, k)
BY DEF Near, Fit, Blend

LEMMA SameNear ==
    ASSUME NEW w, NEW v, NEW r, NEW r2, NEW k \in Fields, SameRoom(r, r2, k)
    PROVE  Near(w, v, r, k) <=> Near(w, v, r2, k)
<1>1. CASE k = "state"
  BY <1>1, FieldIs DEF Near, Fit, SameRoom
<1>2. CASE k = "host"
  BY <1>2, FieldIs DEF Near, Fit, SameRoom
<1>3. CASE k \in Players
  BY <1>3, FieldIs DEF Near, Fit, SameRoom
<1> QED
  BY <1>1, <1>2, <1>3, FieldIs

(* Nothing changes for a field in which the room does not. *)
LEMMA SameConcerns ==
    ASSUME NEW f, NEW r, NEW r2, NEW k \in Fields, SameRoom(r, r2, k)
    PROVE  Concerns(f, r, k) <=> Concerns(f, r2, k)
BY DEF Concerns, SameRoom

LEMMA TrackedRight ==
    ASSUME NEW w, NEW v, NEW r, NEW F, NEW late, NEW k, Tracked(w, r, r, F, late, k)
    PROVE  Tracked(w, v, r, F, late, k)
BY RightIsNear DEF Tracked

LEMMA TrackedSame ==
    ASSUME NEW w, NEW v, NEW r, NEW r2, NEW k \in Fields, SameRoom(r, r2, k),
           NEW F, NEW G, NEW late, NEW late2, Tracked(w, v, r, F, late, k),
           \A g \in G : Concerns(g, r2, k) => g \in F,
           Owing(F, r, late, k) => Owing(G, r2, late2, k)
    PROVE  Tracked(w, v, r2, G, late2, k)
<1>1. Owing(G, r2, late2, k) \/ Near(w, v, r2, k)
  BY SameNear DEF Tracked
<1>2. ASSUME NEW g \in G, Concerns(g, r2, k) PROVE Near(ReduceRoom(w, g), v, r2, k)
  <2>1. g \in F /\ Concerns(g, r, k)
    BY <1>2, SameConcerns
  <2>2. Near(ReduceRoom(w, g), v, r, k)
    BY <2>1 DEF Tracked
  <2> QED
    BY <2>2, SameNear
<1> QED
  BY <1>1, <1>2 DEF Tracked

(* A write to a field nothing was owed about, and its announcement. *)
LEMMA TrackedWrite ==
    ASSUME NEW w \in View, NEW v \in View, NEW r, NEW r2, NEW k \in Fields,
           NEW F, NEW G, NEW late, NEW late2, Tracked(w, v, r, F, late, k),
           ~Owing(F, r, late, k), Owing(G, r2, late2, k),
           \A g \in G : Concerns(g, r2, k) => Brings(g, r, r2, k)
    PROVE  Tracked(w, v, r2, G, late2, k)
BY DEF Tracked, Brings

-----------------------------------------------------------------------------
(* What each announcement brings, if the record is as the code leaves it. *)
LEMMA RoomFrameBrings ==
    ASSUME NEW r \in View, NEW f \in Frames, f.type = "room", f.state = r.state, f.host = r.host,
           f.text = r.text, f.roster = r.roster, NEW w \in View, NEW v \in View, NEW k \in Fields
    PROVE  Near(ReduceRoom(w, f), v, r, k)
<1>1. ReduceRoom(w, f) = [state |-> f.state, host |-> f.host, text |-> f.text, roster |-> f.roster]
  BY DEF ReduceRoom
<1>2. ReduceRoom(w, f) = r
  BY <1>1, ViewHas
<1> QED
  BY <1>2 DEF Near, Fit, Blend

LEMMA JoinedBrings ==
    ASSUME NEW r \in View, NEW r2 \in View, NEW f \in Frames, f.type = "player_joined",
           NEW k \in Players, f.who = k, k \in DOMAIN r2.roster, r2.roster[k] = f.seat, ~r2.text
    PROVE  Brings(f, r, r2, k)
<1> SUFFICES ASSUME NEW w \in View, NEW v \in View, NEW u, u = ReduceRoom(w, f)
             PROVE  Near(u, v, r2, k)
  BY DEF Brings
<1>1. Effect(w, f, u)
  BY ReduceEffect
<1>2. k \in DOMAIN u.roster /\ u.roster[k] = SeatAfter(w.roster[k], f, k, w.text)
  BY <1>1 DEF Effect, HasAfter
<1>3. /\ u.roster[k].connected = f.seat.connected /\ u.roster[k].typed = f.seat.typed
      /\ u.roster[k].finished = f.seat.finished
  BY <1>2 DEF SeatAfter
<1> QED
  BY <1>2, <1>3 DEF Near, Fit, Blend

LEMMA LeftBrings ==
    ASSUME NEW r \in View, NEW r2 \in View, NEW f \in Frames, f.type = "player_left",
           NEW k \in Players, f.who = k, k \notin DOMAIN r2.roster
    PROVE  Brings(f, r, r2, k)
<1> SUFFICES ASSUME NEW w \in View, NEW v \in View, NEW u, u = ReduceRoom(w, f)
             PROVE  Near(u, v, r2, k)
  BY DEF Brings
<1>1. Effect(w, f, u)
  BY ReduceEffect
<1>2. k \notin DOMAIN u.roster
  BY <1>1 DEF Effect, HasAfter
<1> QED
  BY <1>2 DEF Near, Fit

(* A frame that sets some of a seat's parts, the others as they were.       *)
LEMMA PatchBrings ==
    ASSUME NEW r \in View, NEW r2 \in View, NEW f \in Frames,
           NEW k \in Players, f.who = k, k \in DOMAIN r.roster, k \in DOMAIN r2.roster,
           r.text = r2.text,
           f.type \in {"player_connection", "progress", "player_finished"},
           r2.roster[k].connected = IF f.type = "player_connection" THEN f.connected
                                    ELSE r.roster[k].connected,
           r2.roster[k].typed = IF f.type = "progress" THEN f.typed
                                ELSE IF f.type = "player_finished" THEN Length
                                ELSE r.roster[k].typed,
           r2.roster[k].finished = IF f.type = "player_finished" THEN TRUE
                                   ELSE r.roster[k].finished,
           f.type = "player_finished" => r2.text
    PROVE  Brings(f, r, r2, k)
<1> SUFFICES ASSUME NEW w \in View, NEW v \in View, NEW u, u = ReduceRoom(w, f),
                    Near(w, v, r, k), Fit(v, r2, k)
             PROVE  Near(u, v, r2, k)
  BY DEF Brings, Near
<1>1. Effect(w, f, u)
  BY ReduceEffect
<1>2. /\ k \in DOMAIN w.roster /\ (r2.text => w.text)
      /\ Blend(w.roster[k], v.roster[k], r.roster[k])
  BY DEF Near, Fit
<1>3. k \in DOMAIN u.roster /\ u.roster[k] = SeatAfter(w.roster[k], f, k, w.text)
  BY <1>1, <1>2 DEF Effect, HasAfter
<1>4. r2.text => u.text
  BY <1>1, <1>2 DEF Effect, TextAfter
<1>5. u.roster[k].connected \in {v.roster[k].connected, r2.roster[k].connected}
  BY <1>2, <1>3 DEF Blend, SeatAfter
<1>6. u.roster[k].typed \in {v.roster[k].typed, r2.roster[k].typed}
  BY <1>2, <1>3 DEF Blend, SeatAfter
<1>7. u.roster[k].finished \in {v.roster[k].finished, r2.roster[k].finished}
  <2>1. CASE f.type = "player_finished"
    <3>1. SeatAfter(w.roster[k], f, k, w.text).finished = TRUE
      BY <2>1 DEF SeatAfter
    <3> QED
      BY <1>3, <2>1, <3>1
  <2>2. CASE f.type # "player_finished"
    <3>1. SeatAfter(w.roster[k], f, k, w.text).finished = w.roster[k].finished
      BY <2>2 DEF SeatAfter
    <3> QED
      BY <1>2, <1>3, <2>2, <3>1 DEF Blend
  <2> QED
    BY <2>1, <2>2
<1> QED
  BY <1>3, <1>4, <1>5, <1>6, <1>7, FieldIs DEF Near, Fit, Blend, Fields

LEMMA HostBrings ==
    ASSUME NEW r \in View, NEW r2 \in View, NEW f \in Frames, f.type = "host_changed",
           f.host = r2.host
    PROVE  Brings(f, r, r2, "host")
<1> SUFFICES ASSUME NEW w \in View, NEW v \in View, NEW u, u = ReduceRoom(w, f)
             PROVE  Near(u, v, r2, "host")
  BY DEF Brings
<1>1. Effect(w, f, u)
  BY ReduceEffect
<1>2. u.host = r2.host
  BY <1>1 DEF Effect, HostAfter
<1> QED
  BY <1>2 DEF Near, Fit

LEMMA CountdownBrings ==
    ASSUME NEW r \in View, NEW r2 \in View, NEW f \in Frames, f.type = "countdown",
           NEW k \in Fields, r2.text,
           k = "state" => r2.state = "countdown",
           k \in Players =>
              /\ k \in DOMAIN r.roster /\ k \in DOMAIN r2.roster
              /\ r2.roster[k].connected = r.roster[k].connected
              /\ r2.roster[k].typed = 0 /\ r2.roster[k].finished = FALSE,
           k # "host"
    PROVE  Brings(f, r, r2, k)
<1> SUFFICES ASSUME NEW w \in View, NEW v \in View, NEW u, u = ReduceRoom(w, f),
                    Near(w, v, r, k), Fit(v, r2, k)
             PROVE  Near(u, v, r2, k)
  BY DEF Brings, Near
<1>1. Effect(w, f, u)
  BY ReduceEffect
<1>2. u.text = TRUE /\ r2.text = TRUE
  BY <1>1, ViewHas DEF Effect, TextAfter
<1>3. CASE k = "state"
  <2>1. u.state = "countdown"
    BY <1>1 DEF Effect, StateAfter
  <2> QED
    BY <1>2, <1>3, <2>1, FieldIs DEF Near, Fit
<1>4. CASE k \in Players
  <2>1. k \in DOMAIN w.roster /\ Blend(w.roster[k], v.roster[k], r.roster[k])
    BY <1>2, <1>4 DEF Near, Fit
  <2>2. k \in DOMAIN u.roster /\ u.roster[k] = SeatAfter(w.roster[k], f, k, w.text)
    BY <1>1, <1>4, <2>1 DEF Effect, HasAfter
  <2>3. /\ SeatAfter(w.roster[k], f, k, w.text).connected = w.roster[k].connected
        /\ SeatAfter(w.roster[k], f, k, w.text).typed = 0
    BY DEF SeatAfter
  <2>4. SeatAfter(w.roster[k], f, k, w.text).finished = FALSE
    BY DEF SeatAfter
  <2>5. u.roster[k].connected \in {v.roster[k].connected, r2.roster[k].connected}
    BY <1>4, <2>1, <2>2, <2>3 DEF Blend
  <2>6. u.roster[k].typed = r2.roster[k].typed
    BY <1>4, <2>2, <2>3
  <2>7. u.roster[k].finished = r2.roster[k].finished
    BY <1>4, <2>2, <2>4
  <2> QED
    BY <1>2, <1>4, <2>2, <2>5, <2>6, <2>7, FieldIs DEF Near, Fit, Blend
<1> QED
  BY <1>3, <1>4, FieldIs

LEMMA StateBrings ==
    ASSUME NEW r \in View, NEW r2 \in View, NEW f \in Frames, f.type \in {"started", "race_over"},
           r.text = r2.text,
           r2.state = IF f.type = "started" THEN "running" ELSE "finished"
    PROVE  Brings(f, r, r2, "state")
<1> SUFFICES ASSUME NEW w \in View, NEW v \in View, NEW u, u = ReduceRoom(w, f),
                    Near(w, v, r, "state")
             PROVE  Near(u, v, r2, "state")
  BY DEF Brings, Near
<1>1. Effect(w, f, u)
  BY ReduceEffect
<1>2. u.state = r2.state
  BY <1>1 DEF Effect, StateAfter
<1>3. u.text = w.text
  BY <1>1, ViewHas DEF Effect, TextAfter
<1>4. w.text \in {v.text, r.text}
  BY DEF Near, Fit
<1> QED
  BY <1>2, <1>3, <1>4 DEF Near, Fit

-----------------------------------------------------------------------------
(* Types. What writers have still to do is a list of steps of a few        *)
(* shapes.                                                                 *)
Seats == [conn : Sockets, connected : BOOLEAN, typed : 0..Length, finished : BOOLEAN]
RoomFrames ==
    [type : {"room"}, state : States, host : Players, text : BOOLEAN, roster : Rosters]
Steps ==
    [do : {"publish"}, frame : Frames] \cup [do : {"send"}, frame : RoomFrames]
    \cup [do : {"typed"}, typed : 0..Length] \cup [do : {"settle"}, gone : SUBSET Players]
    \cup [do : {"handoff"}, from : Players, to : Players]
    \cup [do : {"join", "read", "fresh", "record", "check", "delete"}]

(* A room as the writers keep it, and what its snapshot shows of it.        *)
SeatMaps == UNION {[S -> Seats] : S \in SUBSET Players}
Rooms ==
    [state : States \cup {"none"}, host : Players, race : 0..MaxRaces, seats : SeatMaps]
RoomOf(r) == r \in Rooms /\ (r.state = "countdown" => r.race < MaxRaces)
TruthOf(r) ==
    [state |-> r.state, host |-> r.host, text |-> r.state \notin {"none", "lobby"},
     roster |-> [p \in DOMAIN r.seats |-> Public(r.seats[p])]]

(* What ends a writer's work stands last, what it begins with first.        *)
Orderly(steps) ==
    \A i \in DOMAIN steps :
        /\ steps[i].do \notin {"publish", "read", "record"} => i = Len(steps)
        /\ steps[i].do \in {"read", "record"} => i = 1
(* A finish under way, and the work a writer may have; waits: its socket   *)
(* is open and not yet live.                                               *)
Recording(a) == <<Do("record"), Publish(PlayerFinished(Owner[a])), Do("check")>>
WorkOf(a, q, waits) ==
    /\ q \in Seq(Steps) /\ Orderly(q)
    /\ \A i \in DOMAIN q :
          /\ q[i].do = "record" => a \in Sockets /\ q = Recording(a)
          /\ q[i].do = "read" => Len(q) = 2 /\ q[2].do = "publish"
          /\ q[i].do \in {"join", "read", "send"} => waits
Awaits(a) == a \in Sockets /\ phase[a] = "open"

RoomTyped == RoomOf(room)
WorkTyped ==
    /\ todo = [a \in Actors |-> todo[a]]
    /\ \A a \in Actors : WorkOf(a, todo[a], Awaits(a))
PagesTyped ==
    /\ queue \in [Sockets -> Seq(Frames)] /\ phase \in [Sockets -> Phases]
    /\ view \in [Players -> View] /\ contested \subseteq Fields
    /\ \A s \in Sockets : phase[s] # "open" => queue[s] = <<>>
TypesInv == RoomTyped /\ WorkTyped /\ PagesTyped

(* Steps and frames, by their parts. *)
LEMMA StepHas ==
    ASSUME NEW x \in Steps
    PROVE  /\ x.do = "publish" => x.frame \in Frames
           /\ x.do = "send" => x.frame \in RoomFrames
           /\ x.do = "typed" => x.typed \in 0..Length
           /\ x.do = "settle" => x.gone \in SUBSET Players
           /\ x.do = "handoff" => x.from \in Players /\ x.to \in Players
           /\ x.do \in {"publish", "send", "typed", "settle", "handoff",
                        "join", "read", "fresh", "record", "check", "delete"}
BY DEF Steps

LEMMA StepsAre ==
    /\ \A f \in Frames : Publish(f) \in Steps
    /\ \A f \in RoomFrames : Send(f) \in Steps
    /\ \A n \in 0..Length : SetTyped(n) \in Steps
    /\ \A S \in SUBSET Players : Settle(S) \in Steps
    /\ \A p, q \in Players : HandOff(p, q) \in Steps
    /\ \A x \in {"join", "read", "fresh", "record", "check", "delete"} : Do(x) \in Steps
BY DEF Steps, Publish, Send, SetTyped, Settle, HandOff, Do

LEMMA FramesAre ==
    /\ RoomFrames \subseteq Frames
    /\ \A s \in Sockets : PlayerJoined(s) \in Frames
    /\ \A p \in Players : /\ PlayerLeft(p) \in Frames /\ PlayerFinished(p) \in Frames
                          /\ HostChanged(p) \in Frames
                          /\ \A on \in BOOLEAN : Presence(p, on) \in Frames
                          /\ \A n \in 0..Length : Progress(p, n) \in Frames
    /\ \A x \in {"countdown", "started", "race_over"} : Plain(x) \in Frames
<1>1. RoomFrames \subseteq Frames
  BY DEF RoomFrames, Frames
<1>2. ASSUME NEW s \in Sockets PROVE PlayerJoined(s) \in Frames
  <2>1. Public(NewSeat(s)) \in Shown /\ Owner[s] \in Players
    BY DEF Public, NewSeat, Shown
  <2> QED
    BY <2>1 DEF PlayerJoined, Frames
<1>3. ASSUME NEW p \in Players
      PROVE  /\ PlayerLeft(p) \in Frames /\ PlayerFinished(p) \in Frames
             /\ HostChanged(p) \in Frames
  BY DEF PlayerLeft, PlayerFinished, HostChanged, Frames
<1>4. ASSUME NEW p \in Players, NEW on \in BOOLEAN PROVE Presence(p, on) \in Frames
  BY DEF Presence, Frames
<1>5. ASSUME NEW p \in Players, NEW n \in 0..Length PROVE Progress(p, n) \in Frames
  BY DEF Progress, Frames
<1>6. ASSUME NEW x \in {"countdown", "started", "race_over"} PROVE Plain(x) \in Frames
  BY DEF Plain, Frames
<1> QED
  BY <1>1, <1>2, <1>3, <1>4, <1>5, <1>6

LEMMA PublicIs ==
    ASSUME NEW seat \in Seats PROVE Public(seat) \in Shown
BY DEF Seats, Public, Shown

(* Rooms, by their parts. *)
LEMMA SeatMapIs ==
    ASSUME NEW m
    PROVE  m \in SeatMaps <=>
              /\ m = [p \in DOMAIN m |-> m[p]] /\ DOMAIN m \subseteq Players
              /\ \A p \in DOMAIN m : m[p] \in Seats
<1>1. ASSUME m \in SeatMaps
      PROVE  /\ m = [p \in DOMAIN m |-> m[p]] /\ DOMAIN m \subseteq Players
             /\ \A p \in DOMAIN m : m[p] \in Seats
  BY <1>1 DEF SeatMaps
<1>2. ASSUME m = [p \in DOMAIN m |-> m[p]], DOMAIN m \subseteq Players,
             \A p \in DOMAIN m : m[p] \in Seats
      PROVE  m \in SeatMaps
  <2>1. m \in [DOMAIN m -> Seats]
    BY <1>2
  <2> QED
    BY <1>2, <2>1 DEF SeatMaps
<1> QED
  BY <1>1, <1>2

LEMMA RoomHas ==
    ASSUME NEW r, RoomOf(r)
    PROVE  /\ r.state \in States \cup {"none"} /\ r.host \in Players
           /\ r.race \in 0..MaxRaces /\ (r.state = "countdown" => r.race < MaxRaces)
           /\ r.seats \in SeatMaps /\ DOMAIN r.seats \subseteq Players
           /\ r.seats = [p \in DOMAIN r.seats |-> r.seats[p]]
           /\ \A p \in DOMAIN r.seats : r.seats[p] \in Seats
BY SeatMapIs DEF RoomOf, Rooms

LEMMA TruthIs ==
    ASSUME NEW r, RoomOf(r), r.state # "none"
    PROVE  /\ TruthOf(r) \in View
           /\ TruthOf(r).state = r.state /\ TruthOf(r).host = r.host
           /\ TruthOf(r).text = (r.state \notin {"none", "lobby"})
           /\ DOMAIN TruthOf(r).roster = DOMAIN r.seats
           /\ \A p \in DOMAIN r.seats : /\ TruthOf(r).roster[p] = Public(r.seats[p])
                                          /\ TruthOf(r).roster[p] \in Shown
           /\ TruthOf(r).roster \in Rosters
<1> DEFINE ro == [p \in DOMAIN r.seats |-> Public(r.seats[p])]
           t == (r.state \notin {"none", "lobby"})
<1>1. DOMAIN ro = DOMAIN r.seats /\ \A p \in DOMAIN r.seats : ro[p] = Public(r.seats[p])
  OBVIOUS
<1>2. \A p \in DOMAIN r.seats : ro[p] \in Shown
  BY <1>1, PublicIs, RoomHas
<1>3. ro = [p \in DOMAIN ro |-> ro[p]]
  OBVIOUS
<1>4. TruthOf(r) = [state |-> r.state, host |-> r.host, text |-> t, roster |-> ro]
  BY DEF TruthOf
<1>5. r.state \in States /\ r.host \in Players /\ t \in BOOLEAN
  BY RoomHas
<1> HIDE DEF ro, t
<1>6. ro \in Rosters
  BY <1>1, <1>2, <1>3, RosterIs, RoomHas
<1>7. TruthOf(r) \in View
  BY <1>4, <1>5, <1>6, ViewIs
<1>8. TruthOf(r).text = t /\ TruthOf(r).roster = ro /\ TruthOf(r).state = r.state
      /\ TruthOf(r).host = r.host
  BY <1>4
<1>9. TruthOf(r).text = (r.state \notin {"none", "lobby"})
  BY <1>8 DEF t
<1> QED
  BY <1>1, <1>2, <1>6, <1>7, <1>8, <1>9

LEMMA SnapshotIs ==
    ASSUME RoomTyped, room.state # "none"
    PROVE  /\ Snapshot \in RoomFrames /\ Snapshot \in Frames /\ Snapshot.type = "room"
           /\ Snapshot.state = TruthOf(room).state /\ Snapshot.host = TruthOf(room).host
           /\ Snapshot.text = TruthOf(room).text /\ Snapshot.roster = TruthOf(room).roster
<1> DEFINE T == TruthOf(room)
<1>1. /\ T \in View /\ T.host \in Players /\ T.roster \in Rosters
      /\ T = [state |-> room.state, host |-> room.host, text |-> HasText,
              roster |-> [p \in Seated |-> Public(room.seats[p])]]
  BY TruthIs, RoomHas DEF RoomTyped, TruthOf, HasText, Seated
<1>2. /\ Snapshot.type = "room" /\ Snapshot.state = T.state /\ Snapshot.host = T.host
      /\ Snapshot.text = T.text /\ Snapshot.roster = T.roster
  BY <1>1 DEF Snapshot
<1>3. Snapshot = [type |-> "room", state |-> T.state, host |-> T.host, text |-> T.text,
                  roster |-> T.roster]
  BY <1>1 DEF Snapshot
<1> HIDE DEF T
<1>4. Snapshot \in RoomFrames
  BY <1>1, <1>3, ViewHas DEF RoomFrames
<1> QED
  BY <1>2, <1>4, FramesAre DEF T

(* Writers' work, changed in one place. *)
LEMMA HeadWork ==
    ASSUME NEW q \in Seq(Steps), q # <<>>, Orderly(q)
    PROVE  /\ Head(q) = q[1] /\ q[1] \in Steps /\ 1 \in DOMAIN q
           /\ Tail(q) \in Seq(Steps) /\ Orderly(Tail(q))
           /\ \A i \in DOMAIN Tail(q) : i + 1 \in DOMAIN q /\ Tail(q)[i] = q[i + 1]
                                        /\ q[i + 1].do \notin {"read", "record"}
           /\ \A i \in DOMAIN q : i # 1 => i - 1 \in DOMAIN Tail(q) /\ Tail(q)[i - 1] = q[i]
           /\ q[1].do \notin {"publish", "read", "record"} => q = <<q[1]>> /\ Tail(q) = <<>>
<1>1. Head(q) = q[1] /\ q[1] \in Steps /\ 1 \in DOMAIN q /\ Tail(q) \in Seq(Steps)
  OBVIOUS
<1>2. Len(Tail(q)) = Len(q) - 1 /\ Len(q) \in Nat
  OBVIOUS
<1>3. \A i \in DOMAIN Tail(q) : i \in Nat /\ i + 1 \in DOMAIN q /\ i + 1 # 1 /\ Tail(q)[i] = q[i + 1]
  BY <1>2
<1>4. \A i \in DOMAIN Tail(q) : q[i + 1].do \notin {"read", "record"}
  BY <1>3 DEF Orderly
<1>5. Orderly(Tail(q))
  <2> SUFFICES ASSUME NEW i \in DOMAIN Tail(q)
               PROVE  /\ Tail(q)[i].do \notin {"publish", "read", "record"} => i = Len(Tail(q))
                      /\ Tail(q)[i].do \in {"read", "record"} => i = 1
    BY DEF Orderly
  <2>1. i \in Nat /\ i + 1 \in DOMAIN q /\ Tail(q)[i] = q[i + 1]
    BY <1>3
  <2>2. q[i + 1].do \notin {"publish", "read", "record"} => i + 1 = Len(q)
    BY <2>1 DEF Orderly
  <2>3. q[i + 1].do \notin {"read", "record"}
    BY <1>4
  <2>4. i + 1 = Len(q) => i = Len(Tail(q))
    <3>1. \A l, m \in Nat : m + 1 = l => m = l - 1
      OBVIOUS
    <3> QED
      BY <1>2, <2>1, <3>1, Zenon
  <2>5. Tail(q)[i].do = q[i + 1].do
    BY <2>1
  <2> QED
    BY <2>2, <2>3, <2>4, <2>5, Zenon
<1>6. \A i \in DOMAIN q : i # 1 => i - 1 \in DOMAIN Tail(q) /\ Tail(q)[i - 1] = q[i]
  BY <1>2
<1>7. ASSUME q[1].do \notin {"publish", "read", "record"} PROVE q = <<q[1]>> /\ Tail(q) = <<>>
  <2>1. Len(q) = 1
    BY <1>1, <1>7 DEF Orderly
  <2>2. Tail(q) = <<>>
    <3>1. \A t \in Seq(Steps) : Len(t) = 0 => t = <<>>
      OBVIOUS
    <3>2. Len(Tail(q)) = 0
      BY <1>2, <2>1
    <3> QED
      BY <1>1, <3>1, <3>2, Zenon
  <2>3. q = [i \in 1..1 |-> q[i]]
    BY <2>1
  <2>4. <<q[1]>> = [i \in 1..1 |-> q[i]]
    OBVIOUS
  <2> QED
    BY <2>2, <2>3, <2>4, Zenon
<1> QED
  BY <1>1, <1>3, <1>4, <1>5, <1>6, <1>7

(* Work of one, two or three steps, and what is left of it.                 *)
LEMMA WorkNone == ASSUME NEW a, NEW waits \in BOOLEAN PROVE WorkOf(a, <<>>, waits)
<1>1. <<>> \in Seq(Steps) /\ DOMAIN <<>> = {}
  OBVIOUS
<1> QED
  BY <1>1 DEF WorkOf, Orderly

LEMMA WorkLast ==
    ASSUME NEW a, NEW waits \in BOOLEAN, NEW x \in Steps, x.do \notin {"read", "record"},
           x.do \in {"join", "send"} => waits
    PROVE  WorkOf(a, <<x>>, waits)
<1> DEFINE q == <<x>>
<1>1. q \in Seq(Steps) /\ DOMAIN q = {1} /\ q[1] = x /\ Len(q) = 1
  OBVIOUS
<1> HIDE DEF q
<1>2. WorkOf(a, q, waits)
  BY <1>1 DEF WorkOf, Orderly
<1> QED
  BY <1>2 DEF q

LEMMA WorkTwo ==
    ASSUME NEW a, NEW waits \in BOOLEAN, NEW x \in Steps, NEW y \in Steps,
           x.do = "publish" \/ (x.do = "read" /\ y.do = "publish" /\ waits),
           y.do \notin {"read", "record", "join"}, y.do = "send" => waits
    PROVE  WorkOf(a, <<x, y>>, waits)
<1> DEFINE q == <<x, y>>
<1>1. q \in Seq(Steps) /\ DOMAIN q = {1, 2} /\ q[1] = x /\ q[2] = y /\ Len(q) = 2
  OBVIOUS
<1> HIDE DEF q
<1>2. WorkOf(a, q, waits)
  BY <1>1 DEF WorkOf, Orderly
<1> QED
  BY <1>2 DEF q

LEMMA WorkRecording ==
    ASSUME NEW s \in Sockets, NEW waits \in BOOLEAN PROVE WorkOf(s, Recording(s), waits)
<1> DEFINE x == Do("record")
           y == Publish(PlayerFinished(Owner[s]))
           z == Do("check")
           q == <<x, y, z>>
<1>1. x \in Steps /\ y \in Steps /\ z \in Steps
  BY FramesAre, StepsAre
<1>2. x.do = "record" /\ y.do = "publish" /\ z.do = "check"
  BY DEF Do, Publish
<1>3. q = Recording(s)
  BY DEF Recording
<1> HIDE DEF x, y, z
<1>4. q \in Seq(Steps) /\ DOMAIN q = {1, 2, 3} /\ q[1] = x /\ q[2] = y /\ q[3] = z /\ Len(q) = 3
  BY <1>1
<1> HIDE DEF q
<1>5. WorkOf(s, q, waits)
  BY <1>2, <1>3, <1>4 DEF WorkOf, Orderly
<1> QED
  BY <1>3, <1>5

(* The first step of a writer's work, and the rest. *)
LEMMA WorkHead ==
    ASSUME NEW a, NEW q, NEW waits, WorkOf(a, q, waits), q # <<>>
    PROVE  /\ q \in Seq(Steps) /\ Orderly(q) /\ Head(q) = q[1] /\ q[1] \in Steps /\ 1 \in DOMAIN q
           /\ q[1].do \notin {"publish", "read", "record"} => q = <<q[1]>> /\ Tail(q) = <<>>
           /\ q[1].do \in {"join", "read", "send"} => waits
           /\ q[1].do = "record" => a \in Sockets /\ q = Recording(a)
           /\ q[1].do = "read" => q = <<q[1], q[2]>> /\ Tail(q) = <<q[2]>>
                                  /\ q[2] \in Steps /\ q[2].do = "publish"
<1>1. q \in Seq(Steps) /\ Orderly(q)
  BY DEF WorkOf
<1>2. Head(q) = q[1] /\ q[1] \in Steps /\ 1 \in DOMAIN q
      /\ (q[1].do \notin {"publish", "read", "record"} => q = <<q[1]>> /\ Tail(q) = <<>>)
  BY <1>1, HeadWork
<1>3. (q[1].do \in {"join", "read", "send"} => waits)
      /\ (q[1].do = "record" => a \in Sockets /\ q = Recording(a))
  BY <1>2 DEF WorkOf
<1>4. ASSUME q[1].do = "read"
      PROVE  q = <<q[1], q[2]>> /\ Tail(q) = <<q[2]>> /\ q[2] \in Steps /\ q[2].do = "publish"
  <2>1. Len(q) = 2 /\ q[2].do = "publish"
    BY <1>2, <1>4 DEF WorkOf
  <2>2. \A t \in Seq(Steps) : Len(t) = 2 =>
           t = <<t[1], t[2]>> /\ Tail(t) = <<t[2]>> /\ t[2] \in Steps
    BY PairIs
  <2> QED
    BY <1>1, <2>1, <2>2, Zenon
<1> QED
  BY <1>1, <1>2, <1>3, <1>4

LEMMA WorkTail ==
    ASSUME NEW a, NEW q, NEW waits, WorkOf(a, q, waits), q # <<>>,
           NEW waits2 \in BOOLEAN, waits => waits2
    PROVE  WorkOf(a, Tail(q), waits2)
<1>1. /\ Tail(q) \in Seq(Steps) /\ Orderly(Tail(q))
      /\ \A i \in DOMAIN Tail(q) : i + 1 \in DOMAIN q /\ Tail(q)[i] = q[i + 1]
                                   /\ q[i + 1].do \notin {"read", "record"}
  BY HeadWork DEF WorkOf
<1>2. \A i \in DOMAIN Tail(q) :
         /\ Tail(q)[i].do \notin {"read", "record"}
         /\ Tail(q)[i].do \in {"join", "read", "send"} => waits
  BY <1>1, Zenon DEF WorkOf
<1>3. \A i \in DOMAIN Tail(q) :
          /\ Tail(q)[i].do = "record" => a \in Sockets /\ Tail(q) = Recording(a)
          /\ Tail(q)[i].do = "read" => Len(Tail(q)) = 2 /\ Tail(q)[2].do = "publish"
          /\ Tail(q)[i].do \in {"join", "read", "send"} => waits2
  BY <1>2
<1> QED
  BY <1>1, <1>3 DEF WorkOf

LEMMA WorkSame ==
    ASSUME NEW a, NEW q, NEW waits, WorkOf(a, q, waits), NEW waits2, waits => waits2
    PROVE  WorkOf(a, q, waits2)
BY DEF WorkOf

(* One writer's work changes, and no other's socket.                        *)
LEMMA WorkMoves ==
    ASSUME WorkTyped, NEW a \in Actors, NEW q, todo' = [todo EXCEPT ![a] = q],
           WorkOf(a, q, Awaits(a)'), \A s \in Sockets \ {a} : phase'[s] = phase[s]
    PROVE  /\ WorkTyped' /\ todo'[a] = q /\ \A b \in Actors \ {a} : todo'[b] = todo[b]
<1>1. todo = [b \in Actors |-> todo[b]] /\ \A b \in Actors : WorkOf(b, todo[b], Awaits(b))
  BY DEF WorkTyped
<1>2. todo' = [b \in Actors |-> IF b = a THEN q ELSE todo[b]]
  BY <1>1
<1>3. todo'[a] = q /\ \A b \in Actors \ {a} : todo'[b] = todo[b]
  BY <1>2
<1>4. ASSUME NEW b \in Actors PROVE WorkOf(b, todo'[b], Awaits(b)')
  <2>1. CASE b = a
    BY <1>3, <2>1
  <2>2. CASE b # a
    <3>1. Awaits(b)' <=> Awaits(b)
      BY <2>2 DEF Awaits
    <3> QED
      BY <1>1, <1>3, <2>2, <3>1, WorkSame
  <2> QED
    BY <2>1, <2>2
<1>5. todo' = [b \in Actors |-> todo'[b]]
  BY <1>2
<1> QED
  BY <1>3, <1>4, <1>5 DEF WorkTyped
=============================================================================
