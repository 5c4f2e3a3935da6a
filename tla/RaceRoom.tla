------------------------------ MODULE RaceRoom ------------------------------
(***************************************************************************)
(* One race room: the Redis record and its players hash, the Lua scripts   *)
(* that move them, the WebSocket handlers, relays and timers that call     *)
(* those scripts from several replicas at once, and the Postgres rows they *)
(* leave behind (backend/app/services/rooms.py, backend/app/api/rooms.py). *)
(*                                                                         *)
(* A step runs from one await to the next: the local code up to an await   *)
(* is fused with the one Redis command, Lua script or database transaction *)
(* it issues.  Whatever a coroutine read before an await it carries in its *)
(* own state (mind, duty), stale by the time it is used.                   *)
(*                                                                         *)
(* Wall-clock instants are kept as the time left until them.               *)
(***************************************************************************)
EXTENDS Naturals, FiniteSets

CONSTANTS
    Players,      \* user accounts
    Sockets,      \* WebSocket connections, each used once (conn = uuid4)
    Owner,        \* Owner[s]: the account socket s authenticates as
    Relay,        \* Relay[s]: the relay task of socket s, a worker of its own
    Timers,       \* in-process timer tasks and GET /rooms/{code} previews
    Replicas,     \* API processes
    Home,         \* Home[w]: the replica a socket or a timer lives on
    Creator,      \* the account that created the room
    MaxPlayers,   \* MAX_PLAYERS
    Countdown,    \* race_countdown_seconds
    RaceMax,      \* race_max_seconds
    FinishGrace,  \* race_finish_grace_seconds
    LobbyGrace,   \* lobby_disconnect_grace_seconds
    Ticking,      \* bound: the sockets whose relay gets to tick
    Frames,       \* the kinds of frame the clients of this instance send
    Faults,       \* which of "error", "crash", "early_close" may happen
    MaxFaults,    \* bound: how many of them
    MaxRaces      \* bound: races run in the room

FrameKinds == {"start", "play_again", "leave", "finish"}
FaultKinds == {"error", "crash", "early_close"}

ASSUME RosterAssumption ==
    /\ Owner \in [Sockets -> Players]
    /\ Creator \in Players
    /\ IsFiniteSet(Players)
ASSUME PlacementAssumption == Home \in [Sockets \cup Timers -> Replicas]
ASSUME WorkersAssumption ==
    /\ DOMAIN Relay = Sockets
    /\ Sockets \cap Timers = {}
    /\ \A s, t \in Sockets : Relay[s] = Relay[t] => s = t
    /\ \A s \in Sockets : Relay[s] \notin Sockets \cup Timers
ASSUME LimitsAssumption ==
    /\ MaxPlayers \in Nat \ {0}
    /\ Countdown \in Nat /\ LobbyGrace \in Nat
    /\ RaceMax \in Nat /\ FinishGrace \in Nat
    /\ FinishGrace <= RaceMax
    /\ MaxRaces \in Nat
    /\ MaxFaults \in Nat
ASSUME ScenarioAssumption ==
    /\ Ticking \subseteq Sockets
    /\ Frames \subseteq FrameKinds
    /\ Faults \subseteq FaultKinds

VARIABLES
    room,      \* hash room:{code}
    seats,     \* hash room:{code}:players, a function on the players in it
    races,     \* table races
    sessions,  \* table typing_sessions: rows per race and player
    results,   \* table race_results: the rows of each race
    pc,        \* where each socket's handler is
    mind,      \* what a handler in finish() remembers across its awaits
    duty,      \* what is left to do for a worker whose script won a transition
    begun,     \* how many race ids have been given out
    field,     \* history: who was seated when each race began
    said,      \* history: how often started and race_over were published
    overtaken, \* history: what play_again has found unfinished (LooseEnds)
    faults     \* history: how many faults have happened

redis == <<room, seats>>
db    == <<races, sessions, results>>
local == <<pc, mind, duty>>
story == <<begun, field, said, overtaken>>
vars  == <<redis, db, local, story, faults>>

-----------------------------------------------------------------------------
(* Types. *)

Races   == 1..MaxRaces
NoRace  == 0
Nobody  == "nobody"
RoomStates == {"none", "lobby", "countdown", "running", "finished"}

(* state = "none" is the absent key; startsIn and endsIn are the time left  *)
(* until starts_at_ms and deadline_ms; places is the HINCRBY counter.      *)
Room == [state: RoomStates, host: Players \cup {Nobody}, startsIn: 0..Countdown,
         endsIn: 0..RaceMax, race: Races \cup {NoRace}, places: Nat,
         firstFinish: BOOLEAN]

FreshRoom(state, host) ==
    [state |-> state, host |-> host, startsIn |-> Countdown, endsIn |-> RaceMax,
     race |-> NoRace, places |-> 0, firstFinish |-> FALSE]
NoRoom == FreshRoom("none", Nobody)

(* What finish() patches into a player: the session it points to is the one *)
(* recorded for race `race`; place 0 is null.                              *)
Run   == [race: Races \cup {NoRace}, place: Nat]
NoRun == [race |-> NoRace, place |-> 0]

(* goneFor is the time left until the sweep may remove a disconnected seat. *)
Seat == [conn: Sockets, connected: BOOLEAN, goneFor: 0..LobbyGrace, run: Run]

(* A Redis hash, or the rows of a race, keyed by some of the players. *)
Hash(h, S) == DOMAIN h \subseteq Players /\ h \in [DOMAIN h -> S]
EmptyHash == [p \in {} |-> NoRun]
HSet(h, key, value) == [k \in DOMAIN h \cup {key} |-> IF k = key THEN value ELSE h[k]]
HDel(h, keys) == [k \in DOMAIN h \ keys |-> h[k]]

(* insert ... on conflict do nothing: the rows that are there stay. *)
InsertMissing(rows, who, values) ==
    [p \in DOMAIN rows \cup who |-> IF p \in DOMAIN rows THEN rows[p] ELSE values[p]]

Seated == DOMAIN seats
Finished(p) == seats[p].run.race # NoRace
(* Slip: presence per account instead of per connection. *)
CurrentByAccount(s) == Owner[s] \in Seated
Current(s) == Owner[s] \in Seated /\ seats[Owner[s]].conn = s

Relays == {Relay[s] : s \in Sockets}
Workers == Sockets \cup Relays \cup Timers

Idle == [step |-> "idle"]
Check == [step |-> "check"]
Duty == {Idle, Check}
        \cup [step: {"begun", "started", "ended", "over", "force"}, race: Races]
        \cup [step: {"row"}, race: Races, seen: Races \cup {NoRace}]
        \cup [step: {"results"}, race: Races, seen: Races \cup {NoRace},
              who: SUBSET Players, runs: [Players -> Run]]
        \cup [step: {"departed"}, gone: SUBSET Players]
        \cup [step: {"delete"}]
        \cup [step: {"handoff"}, from: Players, to: Players]

Stages == {"new", "joining", "snapshot", "open", "start", "play_again", "leave", "finish",
           "record", "place", "patch", "first", "deadline", "shorten", "leaving",
           "dropped", "closed"}
Mind == [race: Races \cup {NoRace}, place: Nat, valid: BOOLEAN, deadline: 0..RaceMax]
Blank == [race |-> NoRace, place |-> 0, valid |-> FALSE, deadline |-> 0]

Goto(s, stage) == pc' = [pc EXCEPT ![s] = stage]
Do(w, d) == duty' = [duty EXCEPT ![w] = d]
Forget(s) == mind' = [mind EXCEPT ![s] = Blank]
Free(w) == duty[w].step = "idle"

(* The stages between the snapshot and the handler's finally block: the     *)
(* relay task runs exactly then.                                           *)
Relaying(s) == pc[s] \notin {"new", "joining", "snapshot", "dropped", "closed"}

-----------------------------------------------------------------------------
Init ==
    /\ room = FreshRoom("lobby", Creator)
    /\ seats = EmptyHash
    /\ races = [r \in Races |-> "absent"]
    /\ sessions = [r \in Races |-> [p \in Players |-> 0]]
    /\ results = [r \in Races |-> EmptyHash]
    /\ pc = [s \in Sockets |-> "new"]
    /\ mind = [s \in Sockets |-> Blank]
    /\ duty = [w \in Workers |-> Idle]
    /\ begun = 0
    /\ field = [r \in Races |-> {}]
    /\ said = [r \in Races |-> [started |-> 0, over |-> 0]]
    /\ overtaken = {}
    /\ faults = 0

-----------------------------------------------------------------------------
(* tick(): the transitions that are due.  The HMGET before each script only *)
(* chooses which script to run, and the script checks again, so the pair is *)
(* one step: the winning script, or nothing.                               *)

CountdownDue == room.state = "countdown" /\ room.startsIn = 0
DeadlineDue  == room.state = "running" /\ room.endsIn = 0

(* _SWEEP_LUA: those gone from the lobby or the results past the grace.    *)
Overdue == IF room.state \in {"lobby", "finished"}
           THEN {p \in Seated : ~seats[p].connected /\ seats[p].goneFor = 0}
           ELSE {}

(* Slip: the deadline counts the finish grace on top of the race limit. *)
GoWithGraceOnTop(w) ==
    /\ CountdownDue
    /\ room' = [room EXCEPT !.state = "running", !.race = begun + 1,
                            !.endsIn = RaceMax + FinishGrace]
    /\ begun' = begun + 1
    /\ field' = [field EXCEPT ![begun + 1] = Seated]
    /\ Do(w, [step |-> "begun", race |-> begun + 1])
    /\ UNCHANGED <<seats, said, overtaken>>

(* _GO_LUA: the winner chose the race id and goes on to announce it.       *)
Go(w) ==
    LET r == begun + 1 IN
    /\ CountdownDue
    /\ room' = [room EXCEPT !.state = "running", !.race = r, !.endsIn = RaceMax]
    /\ begun' = r
    /\ field' = [field EXCEPT ![r] = Seated]
    /\ Do(w, [step |-> "begun", race |-> r])
    /\ UNCHANGED <<seats, said, overtaken>>

(* _END_LUA for race r: running -> finished, once. *)
End(w, r) ==
    /\ room' = [room EXCEPT !.state = "finished"]
    /\ Do(w, [step |-> "ended", race |-> r])
    /\ UNCHANGED <<seats, story>>

TimeUp(w) == DeadlineDue /\ End(w, room.race)

Sweep(w) ==
    /\ Overdue # {}
    /\ seats' = HDel(seats, Overdue)
    /\ Do(w, [step |-> "departed", gone |-> Overdue])
    /\ UNCHANGED <<room, story>>

(* Slip: the start of a race is left to the timer that start() armed. *)
DueScriptWithoutGo(w) == TimeUp(w) \/ Sweep(w)

DueScript(w) == Go(w) \/ TimeUp(w) \/ Sweep(w)

Tick(w) ==
    \/ DueScript(w)
    \/ /\ ~CountdownDue /\ ~DeadlineDue /\ Overdue = {}
       /\ UNCHANGED <<redis, duty, story>>

(* A relay ticks about once a second, a timer or a preview at any time.    *)
RelayTick(s) ==
    /\ s \in Ticking /\ Relaying(s) /\ Free(Relay[s])
    /\ DueScript(Relay[s])
    /\ UNCHANGED <<db, pc, mind, faults>>

TimerTick(t) ==
    /\ Free(t)
    /\ DueScript(t)
    /\ UNCHANGED <<db, pc, mind, faults>>

-----------------------------------------------------------------------------
(* What the winner of a transition does next, whoever it is. *)

(* A RoomError raised under tick(): the handler answers with an error frame *)
(* and drops the frame it was about to serve; a joining socket is rejected; *)
(* a relay or a timer logs it.                                             *)
StageAfterRefusal(s) ==
    CASE pc[s] = "snapshot"         -> "closed"
      [] pc[s] \in FrameKinds -> "open"
      [] OTHER                     -> pc[s]

AbandonDuty(w) ==
    /\ Do(w, Idle)
    /\ pc' = IF w \in Sockets THEN [pc EXCEPT ![w] = StageAfterRefusal(w)] ELSE pc

(* Slip: only the winner of the start writes the races row, if at all. *)
WithoutRaceRow(rows, seen) == rows

(* _ensure_race: insert ... on conflict do nothing, unless the room that was *)
(* read has no race.                                                       *)
WithRaceRow(rows, seen) ==
    IF seen # NoRace /\ rows[seen] = "absent" THEN [rows EXCEPT ![seen] = "open"] ELSE rows

(* _begin_race after the script: require_room, ... *)
ReadBegun(w) ==
    /\ duty[w].step = "begun"
    /\ \/ /\ room.state = "none" /\ AbandonDuty(w)
       \/ /\ room.state # "none"
          /\ Do(w, [step |-> "row", race |-> duty[w].race, seen |-> room.race])
          /\ UNCHANGED pc
    /\ UNCHANGED <<redis, db, mind, story, faults>>

(* ... the races row, ... *)
InsertRace(w) ==
    /\ duty[w].step = "row"
    /\ races' = WithRaceRow(races, duty[w].seen)
    /\ Do(w, [step |-> "started", race |-> duty[w].race])
    /\ UNCHANGED <<redis, sessions, results, pc, mind, story, faults>>

(* ... and `started` for everyone. *)
PublishStarted(w) ==
    /\ duty[w].step = "started"
    /\ said' = [said EXCEPT ![duty[w].race].started = @ + 1]
    /\ Do(w, Idle)
    /\ UNCHANGED <<redis, db, pc, mind, begun, field, overtaken, faults>>

(* _end_race after the script: read the room for the results, ... *)
ReadEnded(w) ==
    /\ duty[w].step = "ended"
    /\ \/ /\ room.state = "none" /\ AbandonDuty(w)
       \/ /\ room.state # "none"
          /\ Do(w, [step |-> "results", race |-> duty[w].race, seen |-> room.race,
                    who |-> Seated,
                    runs |-> [p \in Players |->
                                IF p \in Seated THEN seats[p].run ELSE NoRun]])
          /\ UNCHANGED pc
    /\ UNCHANGED <<redis, db, mind, story, faults>>

(* ... the races row if it is missing, then its finished_at and one         *)
(* race_results row per player read, none of them twice, ...               *)
InsertResults(w) ==
    LET r == duty[w].race
        rows == WithRaceRow(races, duty[w].seen)
    IN
    /\ duty[w].step = "results"
    /\ IF rows[r] = "absent"
       THEN races' = rows /\ UNCHANGED results
       ELSE /\ races' = [rows EXCEPT ![r] = "closed"]
            /\ results' = [results EXCEPT ![r] =
                                InsertMissing(@, duty[w].who, duty[w].runs)]
    /\ Do(w, [step |-> "over", race |-> r])
    /\ UNCHANGED <<redis, sessions, pc, mind, story, faults>>

(* ... and `race_over`. *)
PublishOver(w) ==
    /\ duty[w].step = "over"
    /\ said' = [said EXCEPT ![duty[w].race].over = @ + 1]
    /\ Do(w, Idle)
    /\ UNCHANGED <<redis, db, pc, mind, begun, field, overtaken, faults>>

(* _after_removal: what to do is decided on one read of the room.  The heir *)
(* is the earliest-joined connected player, else the earliest-joined; join  *)
(* order is not kept, so any of them may be it.                            *)
Heirs == LET connected == {p \in Seated : seats[p].connected}
         IN  IF connected = {} THEN Seated ELSE connected

ReadAfterRemoval(w) ==
    /\ duty[w].step = "departed"
    /\ \/ /\ room.state = "none"
          /\ Do(w, Idle)
       \/ /\ room.state # "none" /\ Seated = {}
          /\ Do(w, [step |-> "delete"])
       \/ /\ room.state # "none" /\ Seated # {} /\ room.host \in duty[w].gone
          /\ \E heir \in Heirs :
                Do(w, [step |-> "handoff", from |-> room.host, to |-> heir])
       \/ /\ room.state # "none" /\ Seated # {} /\ room.host \notin duty[w].gone
          /\ Do(w, Idle)
    /\ UNCHANGED <<redis, db, pc, mind, story, faults>>

DeleteRoom(w) ==
    /\ duty[w].step = "delete"
    /\ room' = NoRoom
    /\ seats' = EmptyHash
    /\ Do(w, Idle)
    /\ UNCHANGED <<db, pc, mind, story, faults>>

(* _HANDOFF_LUA: only if the host is still the one who left. *)
HandOff(w) ==
    /\ duty[w].step = "handoff"
    /\ room' = IF room.host = duty[w].from THEN [room EXCEPT !.host = duty[w].to] ELSE room
    /\ Do(w, Idle)
    /\ UNCHANGED <<seats, db, pc, mind, story, faults>>

(* Slip: a room everyone dropped out of is done. *)
NobodyStillTyping == \A p \in Seated : seats[p].connected => Finished(p)

(* _maybe_end_race: decide on one read, then end that race whatever the     *)
(* deadline says.                                                          *)
EveryoneDone ==
    /\ \E p \in Seated : Finished(p)
    /\ \A p \in Seated : seats[p].connected => Finished(p)

ReadMaybeEnd(w) ==
    /\ duty[w] = Check
    /\ Do(w, IF room.state = "running" /\ EveryoneDone
             THEN [step |-> "force", race |-> room.race] ELSE Idle)
    /\ UNCHANGED <<redis, db, pc, mind, story, faults>>

(* Slips: one of the two guards of _END_LUA is missing. *)
MayEndAnyRace(r) == room.state = "running"
MayEndTwice(r) == room.race = r

MayEnd(r) == room.state = "running" /\ room.race = r

ForceEnd(w) ==
    /\ duty[w].step = "force"
    /\ \/ MayEnd(duty[w].race) /\ End(w, duty[w].race)
       \/ ~MayEnd(duty[w].race) /\ Do(w, Idle) /\ UNCHANGED <<redis, story>>
    /\ UNCHANGED <<db, pc, mind, faults>>

DutyStep(w) ==
    \/ ReadBegun(w) \/ InsertRace(w) \/ PublishStarted(w)
    \/ ReadEnded(w) \/ InsertResults(w) \/ PublishOver(w)
    \/ ReadAfterRemoval(w) \/ DeleteRoom(w) \/ HandOff(w)
    \/ ReadMaybeEnd(w) \/ ForceEnd(w)

-----------------------------------------------------------------------------
(* The handler of one socket: room_socket(). *)

(* _JOIN_LUA: a known player is reconnected in any state, a new one enters  *)
(* a lobby that has room; either way this socket is now the current one.   *)
MayReconnect(p) == room.state # "none" /\ p \in Seated
(* Slip: the results screen lets newcomers in. *)
MayEnterBetweenRaces(p) ==
    /\ room.state \in {"lobby", "finished"}
    /\ p \notin Seated
    /\ Cardinality(Seated) < MaxPlayers

(* Slip: the cap is off by one. *)
MayEnterOneTooMany(p) ==
    /\ room.state = "lobby"
    /\ p \notin Seated
    /\ Cardinality(Seated) <= MaxPlayers

MayEnter(p) ==
    /\ room.state = "lobby"
    /\ p \notin Seated
    /\ Cardinality(Seated) < MaxPlayers

NewSeat(s) == [conn |-> s, connected |-> TRUE, goneFor |-> LobbyGrace, run |-> NoRun]

Join(s) ==
    LET p == Owner[s] IN
    /\ pc[s] = "new"
    /\ \/ /\ MayReconnect(p)
          /\ seats' = HSet(seats, p, [NewSeat(s) EXCEPT !.run = seats[p].run])
          /\ Goto(s, "joining")
       \/ /\ MayEnter(p)
          /\ seats' = HSet(seats, p, NewSeat(s))
          /\ Goto(s, "joining")
       \/ /\ ~MayReconnect(p) /\ ~MayEnter(p)
          /\ Goto(s, "closed")
          /\ UNCHANGED seats
    /\ UNCHANGED <<room, db, mind, duty, story, faults>>

(* join() ticks before it reads the room for the snapshot. *)
JoinTick(s) ==
    /\ pc[s] = "joining"
    /\ Tick(s)
    /\ Goto(s, "snapshot")
    /\ UNCHANGED <<db, mind, faults>>

(* The snapshot is read and sent and the relay starts, or the room is gone. *)
SendSnapshot(s) ==
    /\ pc[s] = "snapshot" /\ Free(s)
    /\ Goto(s, IF room.state = "none" THEN "closed" ELSE "open")
    /\ UNCHANGED <<redis, db, mind, duty, story, faults>>

(* A frame arrives; the room is ticked before the frame is served. *)
Receive(s, kind) ==
    /\ pc[s] = "open" /\ Free(s)
    /\ Tick(s)
    /\ Goto(s, kind)
    /\ UNCHANGED <<db, mind, faults>>

(* _RESET_PLAYERS: who they are and how they are connected stays. *)
Reset(p) == [seats[p] EXCEPT !.run = NoRun]

(* start(): the text is chosen first (there may be none), then _START_LUA   *)
(* moves the lobby, for its host.  The check before the text query only     *)
(* picks an error message, so it is the same step.                         *)
MayStart(p) == room.state = "lobby" /\ room.host = p

Start(s) ==
    /\ pc[s] = "start" /\ Free(s)
    /\ Goto(s, "open")
    /\ \/ /\ MayStart(Owner[s]) /\ begun < MaxRaces
          /\ room' = FreshRoom("countdown", room.host)
          /\ seats' = [p \in Seated |-> Reset(p)]
       \/ UNCHANGED redis
    /\ UNCHANGED <<db, mind, duty, story, faults>>

(* What can still be under way when a race is over: a finish() past its     *)
(* checks, an _end_race() that has not written its results.  Nothing makes  *)
(* play_again wait for them.                                               *)
LooseEnds == {"finish", "end"}
Finishing(s) == pc[s] \in {"record", "place", "patch", "first", "deadline", "shorten"}
Ending(w) == duty[w].step \in {"ended", "results"}
InFlight(loose) ==
    \/ loose = "finish" /\ \E s \in Sockets : Finishing(s)
    \/ loose = "end" /\ \E w \in Workers : Ending(w)

(* _PLAY_AGAIN_LUA. *)
MayPlayAgain(p) == room.state = "finished" /\ room.host = p

PlayAgain(s) ==
    /\ pc[s] = "play_again" /\ Free(s)
    /\ Goto(s, "open")
    /\ \/ /\ MayPlayAgain(Owner[s])
          /\ room' = FreshRoom("lobby", room.host)
          /\ seats' = [p \in Seated |-> Reset(p)]
          /\ overtaken' = overtaken \cup {loose \in LooseEnds : InFlight(loose)}
       \/ ~MayPlayAgain(Owner[s]) /\ UNCHANGED <<redis, overtaken>>
    /\ UNCHANGED <<db, mind, duty, begun, field, said, faults>>

(* leave(): HDEL at once, in any state, then the socket is closed. *)
Leave(s) ==
    LET p == Owner[s] IN
    /\ pc[s] = "leave" /\ Free(s)
    /\ Goto(s, "leaving")
    /\ IF p \in Seated
       THEN /\ seats' = HDel(seats, {p})
            /\ Do(s, [step |-> "departed", gone |-> {p}])
       ELSE UNCHANGED <<seats, duty>>
    /\ UNCHANGED <<room, db, mind, story, faults>>

(* The finally block: the relay task is cancelled in the middle of whatever *)
(* it was doing, then _DISCONNECT_LUA marks the player gone if this socket  *)
(* is still the current one.                                               *)
HangUp(s) ==
    /\ pc[s] \in {"open", "leaving"} /\ Free(s)
    /\ Do(Relay[s], Idle)
    /\ IF Current(s)
       THEN /\ seats' = [seats EXCEPT ![Owner[s]].connected = FALSE,
                                      ![Owner[s]].goneFor = LobbyGrace]
            /\ Goto(s, "dropped")
       ELSE Goto(s, "closed") /\ UNCHANGED seats
    /\ UNCHANGED <<room, db, mind, story, faults>>

(* mark_disconnected() reads the state: a running race may be over now. *)
Dropped(s) ==
    /\ pc[s] = "dropped"
    /\ Goto(s, "closed")
    /\ Do(s, IF room.state = "running" THEN Check ELSE Idle)
    /\ UNCHANGED <<redis, db, mind, story, faults>>

-----------------------------------------------------------------------------
(* finish(), one action per await. *)

MayFinish(p) ==
    /\ room.state = "running"
    /\ p \in Seated
    /\ ~Finished(p)

FinishCheck(s) ==
    /\ pc[s] = "finish" /\ Free(s)
    /\ \/ /\ MayFinish(Owner[s])
          /\ mind' = [mind EXCEPT ![s] = [Blank EXCEPT !.race = room.race]]
          /\ Goto(s, "record")
       \/ /\ ~MayFinish(Owner[s])
          /\ Goto(s, "open")
          /\ UNCHANGED mind
    /\ UNCHANGED <<redis, db, duty, story, faults>>

(* The races row, then the scored session; a log that cannot be scored at   *)
(* all is refused without a row.  Only a valid run goes on to take a place. *)
FinishRecord(s) ==
    LET r == mind[s].race IN
    /\ pc[s] = "record"
    /\ races' = WithRaceRow(races, r)
    /\ \/ \E valid \in BOOLEAN :
             /\ sessions' = [sessions EXCEPT ![r][Owner[s]] = @ + 1]
             /\ mind' = [mind EXCEPT ![s].valid = valid]
             /\ Goto(s, IF valid THEN "place" ELSE "patch")
       \/ /\ Goto(s, "open") /\ Forget(s)
          /\ UNCHANGED sessions
    /\ UNCHANGED <<redis, results, duty, story, faults>>

(* Slip: the place is counted from the players already placed. *)
FinishPlaceByCounting(s) ==
    /\ pc[s] = "place"
    /\ mind' = [mind EXCEPT ![s].place =
                   1 + Cardinality({p \in Seated : seats[p].run.place > 0})]
    /\ Goto(s, "patch")
    /\ UNCHANGED <<redis, db, duty, story, faults>>

(* HINCRBY places. *)
FinishPlace(s) ==
    /\ pc[s] = "place"
    /\ room' = [room EXCEPT !.places = @ + 1]
    /\ mind' = [mind EXCEPT ![s].place = room.places + 1]
    /\ Goto(s, "patch")
    /\ UNCHANGED <<seats, db, duty, story, faults>>

(* _PATCH_PLAYER_LUA, without the 'unfinished' guard. *)
FinishPatch(s) ==
    LET p == Owner[s]
        run == [race |-> mind[s].race, place |-> mind[s].place]
    IN
    /\ pc[s] = "patch"
    /\ seats' = IF p \in Seated THEN [seats EXCEPT ![p].run = run] ELSE seats
    /\ Goto(s, "first") /\ Forget(s)
    /\ UNCHANGED <<room, db, duty, story, faults>>

(* Slip: HEXISTS and HSET, so that two finishers may both be the first.    *)
FinishFirstUnset(s) ==
    /\ pc[s] = "first"
    /\ room' = [room EXCEPT !.firstFinish = TRUE]
    /\ Goto(s, "deadline")
    /\ UNCHANGED <<seats, db, mind, duty, story, faults>>

(* HSETNX first_finish_at: the first to get here, valid or not, goes on to  *)
(* bring the deadline forward.                                             *)
FinishFirst(s) ==
    /\ pc[s] = "first"
    /\ room' = [room EXCEPT !.firstFinish = TRUE]
    /\ IF room.firstFinish
       THEN Goto(s, "open") /\ Do(s, Check)
       ELSE Goto(s, "deadline") /\ UNCHANGED duty
    /\ UNCHANGED <<seats, db, mind, story, faults>>

(* HGET deadline_ms.  Where there is none the grace alone counts, and the   *)
(* full RaceMax kept for an absent deadline never comes before it.         *)
FinishDeadline(s) ==
    /\ pc[s] = "deadline"
    /\ mind' = [mind EXCEPT ![s].deadline = room.endsIn]
    /\ Goto(s, "shorten")
    /\ UNCHANGED <<redis, db, duty, story, faults>>

(* HSET deadline_ms, whatever has become of the room since: the earlier of  *)
(* the deadline read and grace_end.  That counts from `now`, taken before   *)
(* the session was recorded, so some of the grace may have passed.         *)
Earlier(m, n) == IF m < n THEN m ELSE n

FinishShorten(s) ==
    /\ pc[s] = "shorten"
    /\ \E grace \in 0..FinishGrace :
          room' = [room EXCEPT !.endsIn = Earlier(grace, mind[s].deadline)]
    /\ Goto(s, "open") /\ Forget(s)
    /\ Do(s, Check)
    /\ UNCHANGED <<seats, db, story, faults>>

HandlerStep(s) ==
    \/ JoinTick(s) \/ SendSnapshot(s)
    \/ Start(s) \/ PlayAgain(s) \/ Leave(s)
    \/ FinishCheck(s) \/ FinishRecord(s) \/ FinishPlace(s) \/ FinishPatch(s)
    \/ FinishFirst(s) \/ FinishDeadline(s) \/ FinishShorten(s)
    \/ Dropped(s)
    \/ pc[s] = "leaving" /\ HangUp(s)

(* The page shows `Play again` under the results that a race_over brought;  *)
(* by the time the frame is served they may be those of an earlier race.   *)
Offered(kind) == kind = "play_again" => \E r \in Races : said[r].over > 0

ClientStep(s) ==
    \/ Join(s)
    \/ \E kind \in Frames : Offered(kind) /\ Receive(s, kind)
    \/ pc[s] = "open" /\ HangUp(s)

-----------------------------------------------------------------------------
(* The clock, and what can go wrong. *)

(* One unit of wall-clock time passes. *)
Elapse(n) == IF n > 0 THEN n - 1 ELSE 0

Waiting ==
    \/ room.state = "countdown" /\ room.startsIn > 0
    \/ room.state = "running" /\ room.endsIn > 0
    \/ \E p \in Seated : ~seats[p].connected /\ seats[p].goneFor > 0
    \/ \E s \in Sockets : pc[s] = "shorten" /\ mind[s].deadline > 0

TimePasses ==
    /\ Waiting
    /\ room' = [room EXCEPT
                  !.startsIn = IF room.state = "countdown" THEN Elapse(@) ELSE @,
                  !.endsIn = IF room.state = "running" THEN Elapse(@) ELSE @]
    /\ seats' = [p \in Seated |->
                   IF seats[p].connected THEN seats[p]
                   ELSE [seats[p] EXCEPT !.goneFor = Elapse(@)]]
    /\ mind' = [s \in Sockets |->
                  IF pc[s] = "shorten" THEN [mind[s] EXCEPT !.deadline = Elapse(@)]
                  ELSE mind[s]]
    /\ UNCHANGED <<db, pc, duty, story, faults>>

Fault(kind) == kind \in Faults /\ faults < MaxFaults /\ faults' = faults + 1

(* A Redis or database call of worker w raises.  A relay or a timer logs it *)
(* and goes on; a handler runs its finally block, except that in join() it  *)
(* is not inside the try yet, and in mark_disconnected() the error is       *)
(* swallowed.                                                              *)
StageAfterError(s) ==
    IF pc[s] \in {"joining", "snapshot", "dropped", "closed"} THEN "closed" ELSE "leaving"

Error(w) ==
    /\ Fault("error")
    /\ ~Free(w) \/ (w \in Sockets /\ pc[w] \notin {"new", "open", "leaving", "closed"})
    /\ Do(w, Idle)
    /\ IF w \in Sockets THEN Goto(w, StageAfterError(w)) /\ Forget(w)
                       ELSE UNCHANGED <<pc, mind>>
    /\ UNCHANGED <<redis, db, story>>

(* The same for the call of _DISCONNECT_LUA: nobody marks the player gone.  *)
CleanupError(s) ==
    /\ Fault("error")
    /\ pc[s] \in {"open", "leaving"} /\ Free(s)
    /\ Do(Relay[s], Idle)
    /\ Goto(s, "closed")
    /\ UNCHANGED <<redis, db, mind, story>>

(* The client is gone before its snapshot is sent: send_json raises before  *)
(* the handler's try block, and nobody marks the player disconnected.      *)
EarlyClose(s) ==
    /\ Fault("early_close")
    /\ pc[s] = "snapshot" /\ Free(s)
    /\ Goto(s, "closed")
    /\ UNCHANGED <<redis, db, mind, duty, story>>

(* A replica dies: its sockets close without cleanup and its workers are    *)
(* gone.  A timer of another life of the replica may tick again.           *)
On(replica) == {s \in Sockets : Home[s] = replica /\ pc[s] # "new"}

Crash(replica) ==
    /\ Fault("crash")
    /\ On(replica) # {}
    /\ pc' = [s \in Sockets |-> IF s \in On(replica) THEN "closed" ELSE pc[s]]
    /\ duty' = [w \in Workers |->
                  IF \/ w \in On(replica)
                     \/ \E s \in On(replica) : w = Relay[s]
                     \/ w \in Timers /\ Home[w] = replica
                  THEN Idle ELSE duty[w]]
    /\ mind' = [s \in Sockets |-> IF s \in On(replica) THEN Blank ELSE mind[s]]
    /\ UNCHANGED <<redis, db, story>>

-----------------------------------------------------------------------------
Next ==
    \/ \E s \in Sockets : HandlerStep(s) \/ ClientStep(s) \/ RelayTick(s)
    \/ \E s \in Sockets : CleanupError(s) \/ EarlyClose(s)
    \/ \E t \in Timers : TimerTick(t)
    \/ \E w \in Workers : DutyStep(w) \/ Error(w)
    \/ \E replica \in Replicas : Crash(replica)
    \/ TimePasses

Spec == Init /\ [][Next]_vars

(* The coroutines of an open socket run on, a relay that finds something due *)
(* ticks, and time passes.  Nothing obliges a client to send anything or to *)
(* hang up, and nothing is asked of a timer: a restart may lose it.        *)
Fairness ==
    /\ \A s \in Sockets :
          /\ WF_vars(HandlerStep(s) \/ DutyStep(s))
          /\ WF_vars(RelayTick(s) \/ DutyStep(Relay[s]))
    /\ WF_vars(TimePasses)

FairSpec == Spec /\ Fairness

-----------------------------------------------------------------------------
(* Properties. *)

(* The record, the rows and what each worker holds keep their types; in     *)
(* particular no deadline is ever further off than a race may last.         *)
TypeOK ==
    /\ room \in Room
    /\ Hash(seats, Seat)
    /\ races \in [Races -> {"absent", "open", "closed"}]
    /\ sessions \in [Races -> [Players -> Nat]]
    /\ DOMAIN results = Races /\ \A r \in Races : Hash(results[r], Run)
    /\ pc \in [Sockets -> Stages]
    /\ mind \in [Sockets -> Mind]
    /\ duty \in [Workers -> Duty]
    /\ begun \in 0..MaxRaces
    /\ field \in [Races -> SUBSET Players]
    /\ said \in [Races -> [started: Nat, over: Nat]]
    /\ overtaken \subseteq LooseEnds
    /\ faults \in 0..MaxFaults

(* The sockets whose handler is between its join and its cleanup. *)
Attached(s) == pc[s] \notin {"new", "dropped", "closed"}

(* Presence is per connection: a player whose current socket is being       *)
(* served shows as connected, whatever fails, so closing an old tab never   *)
(* marks them gone; and as long as nothing has failed nobody else does, so  *)
(* a closed last tab never leaves them in.                                 *)
PresenceFollowsSocket ==
    \A p \in Seated :
        /\ Owner[seats[p].conn] = p
        /\ Attached(seats[p].conn) => seats[p].connected
        /\ faults = 0 => (seats[p].connected => Attached(seats[p].conn))

(* However many callers try, `started` and `race_over` go out at most once  *)
(* for a race.                                                             *)
AnnouncedOnce == \A r \in Races : said[r].started <= 1 /\ said[r].over <= 1

(* No row refers to a races row or a session that is not there, and a race  *)
(* with results is one whose row was completed.                            *)
NothingDangling ==
    \A r \in Races :
        /\ \A p \in Players : sessions[r][p] > 0 => races[r] # "absent"
        /\ DOMAIN results[r] # {} => races[r] = "closed"
        /\ \A p \in DOMAIN results[r] :
              LET q == results[r][p].race IN q # NoRace => sessions[q][p] > 0

(* Only who was seated when a race began can be in the room while it is run *)
(* or shown or have a session scored for it; and they alone have a row in   *)
(* its results, unless play_again overtook an _end_race() that had yet to   *)
(* read or write them.                                                     *)
OnlyTheField ==
    /\ Cardinality(Seated) <= MaxPlayers
    /\ room.state \in {"running", "finished"} => Seated \subseteq field[room.race]
    /\ \A r \in Races :
          /\ \A p \in Players : sessions[r][p] > 0 => p \in field[r]
          /\ "end" \notin overtaken => DOMAIN results[r] \subseteq field[r]

Placed(runs) == {p \in DOMAIN runs : runs[p].place > 0}
DistinctPlaces(runs) ==
    \A p, q \in Placed(runs) : runs[p].place = runs[q].place => p = q

(* The runs shown in the room and the results of a race never give one      *)
(* place to two players.  The code says so without reserve (`two replicas   *)
(* can never hand out the same place'); a room raced in again breaks it.    *)
NoPlaceTwice ==
    /\ DistinctPlaces([p \in Seated |-> seats[p].run])
    /\ \A r \in Races : DistinctPlaces(results[r])

(* It holds, and every run shown or written is one of that very race, as    *)
(* long as no play_again has overtaken a finish() or an _end_race(): in one *)
(* race, and in any number of them with nothing left in flight in between. *)
PlacesHold ==
    overtaken = {} =>
        /\ NoPlaceTwice
        /\ \A p \in Seated : Finished(p) => seats[p].run.race = room.race
        /\ \A r \in Races : \A p \in DOMAIN results[r] : results[r][p].race \in {NoRace, r}

(* From the HGET of the deadline to the HSET of the earlier one nobody else *)
(* brings it forward and no new race starts, so the write that was decided  *)
(* on a read long past never gives a running race more time; unless a      *)
(* play_again overtook the finish.                                         *)
DeadlineOnlyCloser ==
    [][("finish" \notin overtaken /\ room.state = "running" /\ room'.state = "running"
          /\ room'.race = room.race)
         => room'.endsIn <= room.endsIn]_vars

(* A finish is scored once per player and race. *)
FinishOnce == \A r \in Races, p \in Players : sessions[r][p] <= 1

EndedEarly == room.state = "running" /\ room.endsIn > 0 /\ room'.state = "finished"

(* A race that ended before its deadline was ended by a finish: somebody    *)
(* who was in it has a session scored for it.  Players dropping out,        *)
(* decisions taken in an earlier race and stale reads never end a race by   *)
(* themselves; what may is a run of an earlier race that is patched in      *)
(* after a play_again has overtaken it.                                    *)
EndsOnAFinish ==
    [][(EndedEarly /\ overtaken = {}) =>
         \E p \in field[room.race] : sessions[room.race][p] > 0]_vars

(* Once the results are out, the last finisher is in them: a player shown   *)
(* with a place has it in race_results too.                                *)
LastFinisherIncluded ==
    (room.state = "finished" /\ said[room.race].over > 0) =>
        \A p \in Seated : Finished(p) =>
            p \in DOMAIN results[room.race] /\ results[room.race][p] = seats[p].run

(* As long as somebody is connected, a countdown that started becomes a race *)
(* and the race comes to an end, with no timer left in any process.        *)
Watched == \E s \in Sockets : Relaying(s)
Racing == room.state \in {"countdown", "running"}
RoomMovesOn == Racing ~> (~Racing \/ ~Watched)

(* A race that has ended gets its race_over. *)
EndedIsAnnounced ==
    \A r \in Races :
        (room.state = "finished" /\ room.race = r) ~> said[r].over > 0 \/ ~Watched


(* The room keeps the promises of RaceLifecycle. *)
Lifecycle == INSTANCE RaceLifecycle WITH
    phase <- room.state,
    race <- room.race,
    entrants <- Seated,
    started <- [r \in Races |-> said[r].started],
    over <- [r \in Races |-> said[r].over]

ImplementsLifecycle == Lifecycle!Spec
=============================================================================
