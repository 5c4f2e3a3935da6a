------------------------------ MODULE RoomFeed ------------------------------
(***************************************************************************)
(* What the players of a room see of it: the writers of backend/app/       *)
(* services/rooms.py that change the record in one await and announce the  *)
(* change in a later one, the channel each socket subscribes to, the       *)
(* snapshot it is sent first (backend/app/api/rooms.py), and the page that *)
(* reduces those frames to a view and reconnects when its socket drops     *)
(* (frontend/src/features/race/room.ts, socket.ts).                        *)
(*                                                                         *)
(* A writer's step runs from one await to the next; what it has still to   *)
(* do is in todo.  Deadlines, places, the seat limit, database rows and    *)
(* results are RaceRoom's; here a clock may find a transition due whenever *)
(* it looks, and a script is fused with the reads that lead up to it.      *)
(***************************************************************************)
EXTENDS Naturals, SequencesExt

CONSTANTS
    Players,   \* user accounts, each with one page open on the room
    Sockets,   \* WebSocket connections, each used once
    Owner,     \* Owner[s]: the account of socket s
    Clocks,    \* whoever calls tick(): relays, timers, the other handlers
    Creator,   \* the account that created the room
    First,     \* the socket its page has opened
    Length,    \* characters of the race text
    Does,      \* Does[s]: the frames socket s sends here, and whether it drops
    MaxBusy,   \* bound: writers in the middle of something at once
    MaxRaces   \* bound: races run in the room

Kinds == {"start", "progress", "finish", "play_again", "leave", "drop"}

ASSUME FeedAssumption ==
    /\ IsFiniteSet(Players) /\ Players \cap {"state", "host"} = {}
    /\ Owner \in [Sockets -> Players] /\ Creator \in Players
    /\ First \in Sockets /\ Owner[First] = Creator
    /\ Sockets \cap Clocks = {}
    /\ Length \in Nat \ {0} /\ MaxRaces \in Nat /\ MaxBusy \in Nat
    /\ Does \in [Sockets -> SUBSET Kinds]

VARIABLES
    room,       \* the Redis record and its players
    todo,       \* what each handler or clock has still to do, in order
    queue,      \* events published to a socket before its snapshot is sent
    phase,      \* the life of each socket
    view,       \* RoomView of each player's page
    contested   \* history: what changed while an earlier announcement of it was due

vars == <<room, todo, queue, phase, view, contested>>

Actors == Sockets \cup Clocks
Nobody == "nobody"
States == {"lobby", "countdown", "running", "finished"}
Fields == Players \cup {"state", "host"}

(* A seat of the room, and what Player.public() shows of it. *)
Shown == [connected: BOOLEAN, typed: 0..Length, finished: BOOLEAN]
NewSeat(s) == [conn |-> s, connected |-> TRUE, typed |-> 0, finished |-> FALSE]
Public(seat) == [connected |-> seat.connected, typed |-> seat.typed, finished |-> seat.finished]

Seated == DOMAIN room.seats
HasText == room.state \notin {"none", "lobby"}
Seating(seats, p, seat) ==
    [q \in DOMAIN seats \cup {p} |-> IF q = p THEN seat ELSE seats[q]]
Without(f, gone) == [k \in DOMAIN f \ gone |-> f[k]]
Reset(roster) ==
    [p \in DOMAIN roster |-> [roster[p] EXCEPT !.typed = 0, !.finished = FALSE]]

-----------------------------------------------------------------------------
(* Frames, and the page's reducer.  The results race_over carries are left  *)
(* to RaceRoom.                                                            *)

View == [state: States, host: Players \cup {Nobody}, text: BOOLEAN,
         roster: UNION {[S -> Shown] : S \in SUBSET Players}]
InitialRoom == [state |-> "lobby", host |-> Nobody, text |-> FALSE,
                roster |-> [p \in {} |-> {}]]

Snapshot ==
    [type |-> "room", state |-> room.state, host |-> room.host, text |-> HasText,
     roster |-> [p \in Seated |-> Public(room.seats[p])]]
PlayerJoined(s) ==
    [type |-> "player_joined", who |-> Owner[s], seat |-> Public(NewSeat(s))]
PlayerLeft(p) == [type |-> "player_left", who |-> p]
Presence(p, on) == [type |-> "player_connection", who |-> p, connected |-> on]
Progress(p, n) == [type |-> "progress", who |-> p, typed |-> n]
PlayerFinished(p) == [type |-> "player_finished", who |-> p]
HostChanged(p) == [type |-> "host_changed", host |-> p]
Plain(kind) == [type |-> kind]

Patch(v, p, seat) == IF p \in DOMAIN v.roster THEN [v EXCEPT !.roster[p] = seat] ELSE v

ReduceRoom(v, f) ==
    CASE f.type = "room" ->
           [state |-> f.state, host |-> f.host, text |-> f.text, roster |-> f.roster]
      [] f.type = "player_joined" -> [v EXCEPT !.roster = Seating(@, f.who, f.seat)]
      [] f.type = "player_left" -> [v EXCEPT !.roster = Without(@, {f.who})]
      [] f.type = "player_connection" ->
           Patch(v, f.who, [v.roster[f.who] EXCEPT !.connected = f.connected])
      [] f.type = "progress" ->
           Patch(v, f.who, [v.roster[f.who] EXCEPT !.typed = f.typed])
      [] f.type = "player_finished" ->
           Patch(v, f.who, [v.roster[f.who] EXCEPT !.finished = TRUE,
                                                   !.typed = IF v.text THEN Length ELSE 0])
      [] f.type = "host_changed" -> [v EXCEPT !.host = f.host]
      [] f.type = "countdown" ->
           [v EXCEPT !.state = "countdown", !.text = TRUE, !.roster = Reset(@)]
      [] f.type = "started" -> [v EXCEPT !.state = "running"]
      [] f.type = "race_over" -> [v EXCEPT !.state = "finished"]

(* A view after frames, one by one. *)
Reduced(v, frames) ==
    LET after[n \in 0..Len(frames)] ==
            IF n = 0 THEN v ELSE ReduceRoom(after[n - 1], frames[n])
    IN after[Len(frames)]

(* What a frame says something about. *)
About(f) ==
    CASE f.type = "room" -> Fields
      [] f.type = "countdown" -> Players \cup {"state"}
      [] f.type \in {"started", "race_over"} -> {"state"}
      [] f.type = "host_changed" -> {"host"}
      [] OTHER -> {f.who}

-----------------------------------------------------------------------------
(* What a writer has still to do. *)

Publish(f) == [do |-> "publish", frame |-> f]
Send(f)    == [do |-> "send", frame |-> f]
Do(what)   == [do |-> what]
SetTyped(n) == [do |-> "typed", typed |-> n]
Settle(gone) == [do |-> "settle", gone |-> gone]
HandOff(from, to) == [do |-> "handoff", from |-> from, to |-> to]

Busy(a) == todo[a] # <<>>
Idle(a) == ~Busy(a) /\ Cardinality({b \in Actors : Busy(b)}) < MaxBusy
Step(a) == Head(todo[a])
Doing(a, what) == Busy(a) /\ Step(a).do = what
Then(a, steps) == todo' = [todo EXCEPT ![a] = steps]
Carry(a, steps) == Then(a, steps \o Tail(todo[a]))

(* The announcements writer b still has to make. *)
Due(b) ==
    UNION {LET step == todo[b][i] IN
           CASE step.do = "publish" -> About(step.frame)
             [] step.do = "fresh" -> Fields
             [] OTHER -> {} : i \in DOMAIN todo[b]}
Change(a, fields, r) ==
    /\ room' = r
    /\ contested' = contested \cup {k \in fields : \E b \in Actors \ {a} : k \in Due(b)}

Same == UNCHANGED <<room, contested>>
Elsewhere == UNCHANGED <<queue, phase, view>>

(* The creator's page has gone from POST /rooms to the room and is connected. *)
Init ==
    /\ room = [state |-> "lobby", host |-> Creator, race |-> 0,
               seats |-> [p \in {Creator} |-> NewSeat(First)]]
    /\ todo = [a \in Actors |-> <<>>]
    /\ queue = [s \in Sockets |-> <<>>]
    /\ phase = [s \in Sockets |-> IF s = First THEN "live" ELSE "unused"]
    /\ view = [p \in Players |->
                 IF p = Creator THEN ReduceRoom(InitialRoom, Snapshot) ELSE InitialRoom]
    /\ contested = {}

-----------------------------------------------------------------------------
(* The life of a socket.  "open": accepted, authenticated and subscribed;   *)
(* "live": the snapshot is sent and events are relayed; "lost": the page    *)
(* has seen it close, the handler not yet.                                 *)

Phases == {"unused", "open", "live", "lost", "left", "refused", "closed"}

(* Slip: the handler subscribes when it starts to relay. *)
WaitsNot(s) == FALSE
Waits(s) == phase[s] = "open"

(* RoomSocket opens one connection at a time, and another one when it drops,*)
(* until the server refuses or the player leaves.                          *)
Connect(s) ==
    /\ phase[s] = "unused" /\ Idle(s)
    /\ \A t \in Sockets \ {s} :
          Owner[t] = Owner[s] => phase[t] \in {"unused", "lost", "closed"}
    /\ phase' = [phase EXCEPT ![s] = "open"]
    /\ todo' = [todo EXCEPT ![s] = <<Do("join")>>]
    /\ UNCHANGED <<room, queue, view, contested>>

Refuse(s) ==
    /\ phase' = [phase EXCEPT ![s] = "refused"]
    /\ queue' = [queue EXCEPT ![s] = <<>>]
    /\ Then(s, <<>>)
    /\ Same /\ UNCHANGED view

Join(s) ==
    LET p == Owner[s]
        again == p \in Seated
        seat == IF again THEN [room.seats[p] EXCEPT !.conn = s, !.connected = TRUE]
                ELSE NewSeat(s)
        event == IF again THEN Presence(p, TRUE) ELSE PlayerJoined(s)
    IN
    /\ Doing(s, "join")
    /\ IF again \/ room.state = "lobby"
       THEN /\ Change(s, {p}, [room EXCEPT !.seats = Seating(@, p, seat)])
            /\ Then(s, <<Do("read"), Publish(event)>>)
            /\ Elsewhere
       ELSE Refuse(s)

(* join() reads the room, publishes, and hands the read to the handler. *)
ReadSnapshot(s) ==
    /\ Doing(s, "read")
    /\ IF room.state = "none" THEN Refuse(s)
       ELSE Then(s, Append(Tail(todo[s]), Send(Snapshot))) /\ Same /\ Elsewhere

(* The reply to `auth`, then whatever was published since the subscription. *)
SendSnapshot(s) ==
    /\ Doing(s, "send")
    /\ view' = [view EXCEPT ![Owner[s]] =
                   Reduced(ReduceRoom(@, Step(s).frame), queue[s])]
    /\ phase' = [phase EXCEPT ![s] = "live"]
    /\ queue' = [queue EXCEPT ![s] = <<>>]
    /\ Then(s, <<>>)
    /\ Same

Drop(s) ==
    /\ phase[s] = "live" /\ "drop" \in Does[s]
    /\ phase' = [phase EXCEPT ![s] = "lost"]
    /\ Same /\ UNCHANGED <<todo, queue, view>>

MarkDisconnected(s) ==
    LET p == Owner[s] IN
    /\ phase[s] = "lost" /\ Idle(s)
    /\ phase' = [phase EXCEPT ![s] = "closed"]
    /\ IF p \in Seated /\ room.seats[p].conn = s
       THEN /\ Change(s, {p}, [room EXCEPT !.seats[p].connected = FALSE])
            /\ Then(s, <<Publish(Presence(p, FALSE)), Do("check")>>)
       ELSE Same /\ UNCHANGED todo
    /\ UNCHANGED <<queue, view>>

(* Redis delivers to every subscriber, in publication order.  A relay       *)
(* forwards at once: its delay would only put off what the page shows,     *)
(* which is looked at when all is quiet.                                   *)
Announce(a) ==
    LET f == Step(a).frame
        told == {Owner[s] : s \in {t \in Sockets : phase[t] = "live"}}
    IN
    /\ Doing(a, "publish")
    /\ view' = [p \in Players |-> IF p \in told THEN ReduceRoom(view[p], f) ELSE view[p]]
    /\ queue' = [s \in Sockets |-> IF Waits(s) THEN Append(queue[s], f) ELSE queue[s]]
    /\ Carry(a, <<>>)
    /\ Same /\ UNCHANGED phase

-----------------------------------------------------------------------------
(* Leaving, the sweep, and what follows a departure. *)

Ready(s, frame) == frame \in Does[s] /\ phase[s] = "live" /\ Idle(s)

Leave(s) ==
    LET p == Owner[s] IN
    /\ Ready(s, "leave")
    /\ phase' = [phase EXCEPT ![s] = "left"]
    /\ IF p \in Seated
       THEN /\ Change(s, {p}, [room EXCEPT !.seats = Without(@, {p})])
            /\ Then(s, <<Publish(PlayerLeft(p)), Settle({p})>>)
       ELSE Same /\ UNCHANGED todo
    /\ UNCHANGED <<queue, view>>

(* Those of the disconnected whose grace has passed: it may be any of them. *)
Sweep(c) ==
    \E gone \in SUBSET {p \in Seated : ~room.seats[p].connected} \ {{}} :
        LET news == [i \in 1..Cardinality(gone) |-> Publish(PlayerLeft(SetToSeq(gone)[i]))] IN
        /\ Idle(c) /\ room.state \in {"lobby", "finished"}
        /\ Change(c, gone, [room EXCEPT !.seats = Without(@, gone)])
        /\ Then(c, Append(news, Settle(gone)))
        /\ Elsewhere

AfterRemoval(a) ==
    LET present == {p \in Seated : room.seats[p].connected}
        heirs == IF present # {} THEN present ELSE Seated
    IN
    /\ Doing(a, "settle")
    /\ IF room.state # "none" /\ Seated = {} THEN Then(a, <<Do("delete")>>)
       ELSE IF room.host \in Step(a).gone /\ Seated # {}
       THEN \E heir \in heirs : Then(a, <<HandOff(room.host, heir)>>)
       ELSE Then(a, <<>>)
    /\ Same /\ Elsewhere

DeleteRoom(a) ==
    /\ Doing(a, "delete")
    /\ Change(a, Fields, [room EXCEPT !.state = "none", !.seats = Without(@, Seated)])
    /\ Then(a, <<>>)
    /\ Elsewhere

HandOver(a) ==
    /\ Doing(a, "handoff")
    /\ IF room.host = Step(a).from /\ room.state # "none"
       THEN /\ Change(a, {"host"}, [room EXCEPT !.host = Step(a).to])
            /\ Carry(a, <<Publish(HostChanged(Step(a).to))>>)
       ELSE Same /\ Carry(a, <<>>)
    /\ Elsewhere

-----------------------------------------------------------------------------
(* The race. *)

Start(s) ==
    /\ Ready(s, "start")
    /\ room.state = "lobby" /\ room.host = Owner[s] /\ room.race < MaxRaces
    /\ Change(s, Seated \cup {"state"}, [room EXCEPT !.state = "countdown", !.seats = Reset(@)])
    /\ Then(s, <<Publish(Plain("countdown"))>>)
    /\ Elsewhere

Go(c) ==
    /\ Idle(c) /\ room.state = "countdown"
    /\ Change(c, {"state"}, [room EXCEPT !.state = "running", !.race = @ + 1])
    /\ Then(c, <<Publish(Plain("started"))>>)
    /\ Elsewhere

(* Slip: the number the page sent is shown as it came. *)
ClampNot(n) == n
Clamp(n) == IF n > Length THEN Length ELSE n

SendProgress(s, n) ==
    /\ Ready(s, "progress") /\ room.state = "running"
    /\ Then(s, <<SetTyped(Clamp(n))>>)
    /\ Same /\ Elsewhere

(* Slip: progress is stored for whoever is seated. *)
StillTypingOrNot(p) == p \in Seated
StillTyping(p) == p \in Seated /\ ~room.seats[p].finished

PatchTyped(s) ==
    LET p == Owner[s]
        n == Step(s).typed
    IN
    /\ Doing(s, "typed")
    /\ IF StillTyping(p)
       THEN /\ Change(s, {p}, [room EXCEPT !.seats[p].typed = n])
            /\ Carry(s, <<Publish(Progress(p, n))>>)
       ELSE Same /\ Carry(s, <<>>)
    /\ Elsewhere

Finish(s) ==
    /\ Ready(s, "finish")
    /\ room.state = "running" /\ StillTyping(Owner[s])
    /\ Then(s, <<Do("record"), Publish(PlayerFinished(Owner[s])), Do("check")>>)
    /\ Same /\ Elsewhere

RecordFinish(s) ==
    LET p == Owner[s] IN
    /\ Doing(s, "record")
    /\ IF p \in Seated
       THEN Change(s, {p}, [room EXCEPT !.seats[p] =
                                [@ EXCEPT !.finished = TRUE, !.typed = Length]])
       ELSE Same
    /\ Carry(s, <<>>)
    /\ Elsewhere

(* _end_race(), called after the check or when a clock finds time is up.    *)
End(a) ==
    /\ Change(a, {"state"}, [room EXCEPT !.state = "finished"])
    /\ Then(a, <<Publish(Plain("race_over"))>>)
    /\ Elsewhere

MaybeEndRace(a) ==
    LET over == /\ room.state = "running"
                /\ \E p \in Seated : room.seats[p].finished
                /\ \A p \in Seated : room.seats[p].connected => room.seats[p].finished
    IN
    /\ Doing(a, "check")
    /\ IF over THEN End(a) ELSE Then(a, <<>>) /\ Same /\ Elsewhere

TimeUp(c) == Idle(c) /\ room.state = "running" /\ End(c)

PlayAgain(s) ==
    /\ Ready(s, "play_again")
    /\ room.state = "finished" /\ room.host = Owner[s]
    /\ Change(s, Seated \cup {"state"}, [room EXCEPT !.state = "lobby", !.seats = Reset(@)])
    /\ Then(s, <<Do("fresh")>>)
    /\ Elsewhere

ReadFresh(s) ==
    /\ Doing(s, "fresh")
    /\ Then(s, IF room.state = "none" THEN <<>> ELSE <<Publish(Snapshot)>>)
    /\ Same /\ Elsewhere

-----------------------------------------------------------------------------
Handler(s) ==
    \/ Connect(s) \/ Join(s) \/ ReadSnapshot(s) \/ SendSnapshot(s)
    \/ Drop(s) \/ MarkDisconnected(s) \/ Leave(s)
    \/ Start(s) \/ PatchTyped(s) \/ Finish(s) \/ RecordFinish(s)
    \/ PlayAgain(s) \/ ReadFresh(s)
    \/ \E n \in 0..Length + 1 : SendProgress(s, n)
Clock(c) == Sweep(c) \/ Go(c) \/ TimeUp(c)
Continue(a) ==
    Announce(a) \/ AfterRemoval(a) \/ DeleteRoom(a) \/ HandOver(a) \/ MaybeEndRace(a)

Next ==
    \/ \E s \in Sockets : Handler(s)
    \/ \E c \in Clocks : Clock(c)
    \/ \E a \in Actors : Continue(a)

Spec == Init /\ [][Next]_vars

-----------------------------------------------------------------------------
(* Properties. *)

(* The record, the sockets and the views keep their types; in particular no *)
(* page is shown more typed characters than the text has (progress()).     *)
TypeOK ==
    /\ room.state \in States \cup {"none"} /\ room.host \in Players
    /\ room.race \in 0..MaxRaces
    /\ Seated \subseteq Players
    /\ \A p \in Seated : room.seats[p].conn \in Sockets /\ Public(room.seats[p]) \in Shown
    /\ phase \in [Sockets -> Phases]
    /\ view \in [Players -> View]
    /\ contested \subseteq Fields

Quiet ==
    /\ room.state # "none"
    /\ \A a \in Actors : ~Busy(a)

(* What a view v shows of a field. *)
Sees(v, k) ==
    CASE k = "state" -> <<v.state, v.text>>
      [] k = "host" -> v.host
      [] OTHER -> {v.roster[p] : p \in {k} \cap DOMAIN v.roster}

(* Once nothing is under way, every connected page shows the room as it is: *)
(* each change was announced, the reducer does to the view what the scripts *)
(* did to the record, and a page that connected or came back in the middle, *)
(* its snapshot read at any point between subscribing and relaying, has     *)
(* missed nothing.  Only what was changed while an earlier announcement of *)
(* it was still due may be shown wrong: the two go out in either order      *)
(* (RoomService.publish is a call of its own, after the script).           *)
PagesAgree ==
    Quiet => \A s \in Sockets : phase[s] = "live" =>
        \A k \in Fields \ contested : Sees(view[Owner[s]], k) = Sees(Snapshot, k)

(* A player who has finished is shown at the end of the text: a progress    *)
(* frame that was under way, on this socket or the one before it, does not *)
(* take characters back (the 'unfinished' guard of _PATCH_PLAYER_LUA).     *)
FinishedIsWhole ==
    \A p \in Seated : room.seats[p].finished => room.seats[p].typed = Length

=============================================================================
