----------------------- MODULE RaceRoomResultsProofs -----------------------
(***************************************************************************)
(* What the races leave behind, for any number of players, sockets,        *)
(* replicas, races and faults: no database row refers to a row that is not *)
(* there, a race is about those seated when it began, each place is given  *)
(* once, and no race is cut short without a finish.                        *)
(*                                                                         *)
(* What a finish writes passes through five places: the handler's memory,  *)
(* the player's seat, the copy _end_race() takes of the seats, and the two *)
(* tables.  Most steps touch none of them.  The first part of this module  *)
(* says which do: every step is Calm or one of twelve events.              *)
(*                                                                         *)
(* Nothing makes play_again wait for a finish() or an _end_race() of the   *)
(* race before, and overtaken says which it has left behind: what the      *)
(* results, the places and the ends of races promise holds until then.     *)
(***************************************************************************)
EXTENDS RaceRoomLifecycleProofs, FiniteSetTheorems

USE RosterAssumption, PlacementAssumption, WorkersAssumption,
    LimitsAssumption, ScenarioAssumption

-----------------------------------------------------------------------------
(* What a step leaves alone: the finishes under way, ... *)
MindsKept ==
    \A s \in Sockets :
        pc'[s] \in {"record", "place", "patch"} => pc'[s] = pc[s] /\ mind'[s] = mind[s]

(* ... the ends of races decided on or under way, ... *)
DecisionsKept ==
    \A w \in Workers :
        duty'[w].step \in {"ended", "results", "force"} => duty'[w] = duty[w]

(* ... the runs of the players (or there are none any more), ... *)
RunsKept ==
    \A p \in DOMAIN seats' :
        \/ seats'[p].run = NoRun
        \/ p \in Seated /\ seats'[p].run = seats[p].run

(* ... the tables, but for a races row that was missing, ... *)
TablesKept ==
    /\ UNCHANGED <<sessions, results>>
    /\ \A r \in Races : \/ races'[r] = races[r]
                        \/ races[r] = "absent" /\ races'[r] = "open"

(* ... and the phase of the room, to which nobody is added. *)
PhaseKept ==
    /\ room'.state = room.state /\ room'.race = room.race /\ room'.places = room.places
    /\ UNCHANGED <<begun, field>>
    /\ DOMAIN seats' \subseteq Seated

Calm == MindsKept /\ DecisionsKept /\ RunsKept /\ TablesKept /\ PhaseKept

(* The events. *)
Went ==
    /\ MindsKept /\ DecisionsKept /\ TablesKept /\ UNCHANGED seats
    /\ room.state = "countdown" /\ begun + 1 \in Races
    /\ begun' = begun + 1
    /\ field' = [field EXCEPT ![begun + 1] = Seated]
    /\ room'.state = "running" /\ room'.race = begun + 1 /\ room'.places = room.places

Ended(w, r) ==
    /\ MindsKept /\ TablesKept /\ UNCHANGED <<seats, begun, field>>
    /\ room.state = "running" /\ room.race = r /\ r \in Races
    /\ room'.state = "finished" /\ room'.race = r /\ room'.places = room.places
    /\ duty' = [duty EXCEPT ![w] = [step |-> "ended", race |-> r]]

Renewed ==
    /\ MindsKept /\ DecisionsKept /\ TablesKept /\ UNCHANGED <<begun, field, duty, mind>>
    /\ \/ room.state = "lobby" /\ room'.state = "countdown"
       \/ /\ room.state = "finished" /\ room'.state = "lobby"
          /\ overtaken' = overtaken \cup {loose \in LooseEnds : InFlight(loose)}
    /\ room'.race = NoRace /\ room'.places = 0
    /\ DOMAIN seats' = Seated /\ \A p \in Seated : seats'[p].run = NoRun

Vanished ==
    /\ MindsKept /\ DecisionsKept /\ TablesKept /\ UNCHANGED <<begun, field>>
    /\ room'.state = "none" /\ room'.race = NoRace
    /\ DOMAIN seats' = {}

Entered(p) ==
    /\ MindsKept /\ DecisionsKept /\ TablesKept /\ RunsKept
    /\ UNCHANGED <<room, begun, field, mind, duty>>
    /\ MayEnter(p) /\ DOMAIN seats' = Seated \cup {p}

Event ==
    \/ Calm \/ Went \/ Renewed \/ Vanished
    \/ \E w \in Workers :
          \/ \E r \in Races : Ended(w, r)
          \/ ReadEnded(w) \/ InsertResults(w) \/ ReadMaybeEnd(w)
    \/ \E s \in Sockets :
          \/ Entered(Owner[s])
          \/ FinishCheck(s) \/ FinishRecord(s) \/ FinishPlace(s) \/ FinishPatch(s)

-----------------------------------------------------------------------------
(* How the parts of Calm are come by. *)

LEMMA SameMinds ==
    ASSUME UNCHANGED <<pc, mind>>
    PROVE  MindsKept
BY DEF MindsKept

LEMMA GotoKeepsMinds ==
    ASSUME pc \in [Sockets -> Stages], NEW s \in Sockets, NEW stage, Goto(s, stage),
           stage \notin {"record", "place", "patch"}, UNCHANGED mind
    PROVE  MindsKept
BY DEF MindsKept, Goto

LEMMA SameDecisions ==
    ASSUME UNCHANGED duty
    PROVE  DecisionsKept
BY DEF DecisionsKept

LEMMA DoKeepsDecisions ==
    ASSUME duty \in [Workers -> Duty], NEW w \in Workers, NEW d, Do(w, d),
           d.step \notin {"ended", "results", "force"}
    PROVE  DecisionsKept
BY DEF DecisionsKept, Do

LEMMA SameRuns ==
    ASSUME UNCHANGED seats
    PROVE  RunsKept /\ DOMAIN seats' \subseteq Seated
BY DEF RunsKept, Seated

LEMMA SameTables ==
    ASSUME UNCHANGED db
    PROVE  TablesKept
BY DEF TablesKept, db

LEMMA SamePhase ==
    ASSUME UNCHANGED <<room, begun, field>>, DOMAIN seats' \subseteq Seated
    PROVE  PhaseKept
BY DEF PhaseKept

LEMMA HDelRuns ==
    ASSUME NEW keys, seats' = HDel(seats, keys)
    PROVE  RunsKept /\ DOMAIN seats' \subseteq Seated
BY DEF RunsKept, HDel, Seated

-----------------------------------------------------------------------------
(* Each action, in the order of RaceRoom. *)

LEMMA GoWent ==
    ASSUME TInv, NEW w \in Workers, Go(w), MindsKept, UNCHANGED db
    PROVE  Went
<1>1. room.state = "countdown" /\ begun + 1 \in Races
  BY DEF TInv, TypeOK, Go, CountdownDue, CountdownHasRace, Races
<1>2. room'.state = "running" /\ room'.race = begun + 1 /\ room'.places = room.places
  BY DEF TInv, TypeOK, Go, Room
<1>3. DecisionsKept
  BY DoKeepsDecisions DEF TInv, TypeOK, Go
<1> QED
  BY <1>1, <1>2, <1>3, SameTables DEF Went, Go

LEMMA EndEnded ==
    ASSUME TInv, NEW w \in Workers, NEW r \in Races, End(w, r),
           room.state = "running", room.race = r, MindsKept, UNCHANGED db
    PROVE  Ended(w, r)
<1>1. room'.state = "finished" /\ room'.race = r /\ room'.places = room.places
  BY DEF TInv, TypeOK, End, Room
<1> QED
  BY <1>1, SameTables DEF Ended, End, Do, story

LEMMA SweepCalm ==
    ASSUME TInv, NEW w \in Workers, Sweep(w), MindsKept, UNCHANGED db
    PROVE  Calm
<1>1. DecisionsKept
  BY DoKeepsDecisions DEF TInv, TypeOK, Sweep
<1>2. RunsKept /\ PhaseKept
  BY HDelRuns, SamePhase DEF Sweep, story
<1> QED
  BY <1>1, <1>2, SameTables DEF Calm

LEMMA TickEvent ==
    ASSUME TInv, NEW w \in Workers, Tick(w), MindsKept, UNCHANGED db
    PROVE  Event
<1>1. CASE Go(w)
  BY <1>1, GoWent DEF Event
<1>2. CASE TimeUp(w)
  <2>1. room.state = "running" /\ room.race \in Races /\ End(w, room.race)
    BY <1>2 DEF TimeUp, DeadlineDue, TInv, RaceKnown
  <2>2. Ended(w, room.race)
    BY <2>1, EndEnded
  <2> QED
    BY <2>1, <2>2 DEF Event
<1>3. CASE Sweep(w)
  BY <1>3, SweepCalm DEF Event
<1>4. CASE UNCHANGED <<redis, duty, story>>
  BY <1>4, SameDecisions, SameRuns, SamePhase, SameTables DEF Event, Calm, redis, story
<1> QED
  BY <1>1, <1>2, <1>3, <1>4 DEF Tick, DueScript

LEMMA RefusalStage ==
    ASSUME pc \in [Sockets -> Stages], NEW w \in Workers, AbandonDuty(w), UNCHANGED mind
    PROVE  MindsKept
<1>1. \A s \in Sockets : StageAfterRefusal(s) \notin {"record", "place", "patch"}
                         \/ StageAfterRefusal(s) = pc[s]
  BY DEF StageAfterRefusal
<1>2. \A s \in Sockets : pc'[s] = pc[s] \/ pc'[s] = StageAfterRefusal(s)
  BY DEF AbandonDuty
<1> QED
  BY <1>1, <1>2 DEF MindsKept

LEMMA AbandonCalm ==
    ASSUME TInv, NEW w \in Workers, AbandonDuty(w), UNCHANGED <<redis, db, mind, story>>
    PROVE  Calm
<1>1. MindsKept
  BY RefusalStage DEF TInv, TypeOK
<1>2. DecisionsKept
  BY DoKeepsDecisions DEF TInv, TypeOK, AbandonDuty, Idle
<1>3. RunsKept /\ PhaseKept
  BY SameRuns, SamePhase DEF redis, story
<1> QED
  BY <1>1, <1>2, <1>3, SameTables DEF Calm

LEMMA ReadBegunCalm ==
    ASSUME TInv, NEW w \in Workers, ReadBegun(w)
    PROVE  Calm
<1>1. CASE AbandonDuty(w)
  BY <1>1, AbandonCalm DEF ReadBegun
<1>2. CASE /\ UNCHANGED pc
           /\ Do(w, [step |-> "row", race |-> duty[w].race, seen |-> room.race])
  <2>1. DecisionsKept
    BY <1>2, DoKeepsDecisions DEF TInv, TypeOK
  <2> QED
    BY <1>2, <2>1, SameMinds, SameRuns, SamePhase, SameTables DEF ReadBegun, Calm, redis, story
<1> QED
  BY <1>1, <1>2 DEF ReadBegun

LEMMA InsertRaceCalm ==
    ASSUME TInv, NEW w \in Workers, InsertRace(w)
    PROVE  Calm
<1>1. DecisionsKept
  BY DoKeepsDecisions DEF TInv, TypeOK, InsertRace
<1>2. TablesKept
  BY DEF TInv, TypeOK, InsertRace, TablesKept, WithRaceRow
<1> QED
  BY <1>1, <1>2, SameMinds, SameRuns, SamePhase DEF InsertRace, Calm, redis, story

LEMMA PublishCalm ==
    ASSUME TInv, NEW w \in Workers, PublishStarted(w) \/ PublishOver(w)
    PROVE  Calm
<1>1. DecisionsKept
  BY DoKeepsDecisions DEF TInv, TypeOK, PublishStarted, PublishOver, Idle
<1>2. UNCHANGED <<redis, db, pc, mind, begun, field>>
  BY DEF PublishStarted, PublishOver
<1> QED
  BY <1>1, <1>2, SameMinds, SameRuns, SamePhase, SameTables DEF Calm, redis

LEMMA ReadAfterRemovalCalm ==
    ASSUME TInv, NEW w \in Workers, ReadAfterRemoval(w)
    PROVE  Calm
<1>1. DecisionsKept
  <2>1. \/ Do(w, Idle)
        \/ Do(w, [step |-> "delete"])
        \/ \E heir \in Heirs : Do(w, [step |-> "handoff", from |-> room.host, to |-> heir])
    BY DEF ReadAfterRemoval
  <2>2. ASSUME NEW heir, Do(w, [step |-> "handoff", from |-> room.host, to |-> heir])
        PROVE  DecisionsKept
    BY <2>2, DoKeepsDecisions DEF TInv, TypeOK
  <2>3. CASE Do(w, Idle) \/ Do(w, [step |-> "delete"])
    BY <2>3, DoKeepsDecisions DEF TInv, TypeOK, Idle
  <2> QED
    BY <2>1, <2>2, <2>3
<1> QED
  BY <1>1, SameMinds, SameRuns, SamePhase, SameTables DEF ReadAfterRemoval, Calm, redis, story

LEMMA DeleteRoomVanished ==
    ASSUME TInv, NEW w \in Workers, DeleteRoom(w)
    PROVE  Vanished
<1>1. DecisionsKept
  BY DoKeepsDecisions DEF TInv, TypeOK, DeleteRoom, Idle
<1>2. room'.state = "none" /\ room'.race = NoRace /\ DOMAIN seats' = {}
  BY DEF DeleteRoom, NoRoom, FreshRoom, EmptyHash
<1> QED
  BY <1>1, <1>2, SameMinds, SameTables DEF DeleteRoom, Vanished, story

LEMMA HandOffCalm ==
    ASSUME TInv, NEW w \in Workers, HandOff(w)
    PROVE  Calm
<1>1. DecisionsKept
  BY DoKeepsDecisions DEF TInv, TypeOK, HandOff, Idle
<1>2. PhaseKept
  BY DEF TInv, TypeOK, HandOff, Room, PhaseKept, story, Seated
<1> QED
  BY <1>1, <1>2, SameMinds, SameRuns, SameTables DEF HandOff, Calm

LEMMA ForceEndEvent ==
    ASSUME TInv, NEW w \in Workers, ForceEnd(w)
    PROVE  Event
<1>1. CASE Do(w, Idle) /\ UNCHANGED <<redis, story>>
  <2>1. DecisionsKept
    BY <1>1, DoKeepsDecisions DEF TInv, TypeOK, Idle
  <2>2. Calm
    BY <1>1, <2>1, SameMinds, SameRuns, SamePhase, SameTables DEF ForceEnd, Calm, redis, story
  <2> QED
    BY <2>2 DEF Event
<1>2. CASE MayEnd(duty[w].race) /\ End(w, duty[w].race)
  <2>1. duty[w].race \in Races
    BY DutyUsed DEF TInv, TypeOK, ForceEnd
  <2>2. Ended(w, duty[w].race)
    BY <1>2, <2>1, EndEnded, SameMinds DEF MayEnd, ForceEnd
  <2> QED
    BY <2>1, <2>2 DEF Event
<1> QED
  BY <1>1, <1>2 DEF ForceEnd

LEMMA DutyStepEvent ==
    ASSUME TInv, NEW w \in Workers, DutyStep(w)
    PROVE  Event
<1>1. CASE ReadEnded(w) \/ InsertResults(w) \/ ReadMaybeEnd(w)
  BY <1>1 DEF Event
<1>2. CASE DeleteRoom(w)
  BY <1>2, DeleteRoomVanished DEF Event
<1>3. CASE \/ ReadBegun(w) \/ InsertRace(w) \/ PublishStarted(w) \/ PublishOver(w)
           \/ ReadAfterRemoval(w) \/ HandOff(w)
  <2>1. Calm
    BY <1>3, ReadBegunCalm, InsertRaceCalm, PublishCalm, ReadAfterRemovalCalm, HandOffCalm
  <2> QED
    BY <2>1 DEF Event
<1> QED
  BY <1>1, <1>2, <1>3, ForceEndEvent DEF DutyStep

LEMMA JoinEvent ==
    ASSUME TInv, NEW s \in Sockets, Join(s)
    PROVE  Event
<1> DEFINE p == Owner[s]
<1>1. MindsKept
  BY GotoKeepsMinds DEF TInv, TypeOK, Join
<1>2. UNCHANGED <<room, db, mind, duty, begun, field>>
  BY DEF Join, story
<1>3. CASE seats' = seats
  BY <1>1, <1>2, <1>3, SameDecisions, SameRuns, SamePhase, SameTables DEF Calm, Event
<1>4. CASE MayReconnect(p) /\ seats' = HSet(seats, p, [NewSeat(s) EXCEPT !.run = seats[p].run])
  <2>1. DOMAIN seats' = Seated /\ RunsKept
    BY <1>4 DEF MayReconnect, HSet, NewSeat, RunsKept, Seated
  <2> QED
    BY <1>1, <1>2, <2>1, SameDecisions, SamePhase, SameTables DEF Calm, Event
<1>5. CASE MayEnter(p) /\ seats' = HSet(seats, p, NewSeat(s))
  <2>1. DOMAIN seats' = Seated \cup {p} /\ RunsKept
    BY <1>5 DEF HSet, NewSeat, RunsKept, Seated
  <2> QED
    BY <1>1, <1>2, <1>5, <2>1, SameDecisions, SameTables DEF Entered, Event
<1> QED
  BY <1>3, <1>4, <1>5 DEF Join

LEMMA JoinTickEvent ==
    ASSUME TInv, NEW s \in Sockets, JoinTick(s)
    PROVE  Event
<1>1. MindsKept
  BY GotoKeepsMinds DEF TInv, TypeOK, JoinTick
<1> QED
  BY <1>1, TickEvent, SocketsAndRelaysWork DEF JoinTick

LEMMA ReceiveEvent ==
    ASSUME TInv, NEW s \in Sockets, NEW kind \in Frames, Receive(s, kind)
    PROVE  Event
<1>1. kind \notin {"record", "place", "patch"}
  BY DEF FrameKinds
<1>2. MindsKept
  BY <1>1, GotoKeepsMinds DEF TInv, TypeOK, Receive
<1> QED
  BY <1>2, TickEvent, SocketsAndRelaysWork DEF Receive

LEMMA FreeTickEvent ==
    ASSUME TInv, NEW w \in Workers, DueScript(w), UNCHANGED <<db, pc, mind>>
    PROVE  Event
BY SameMinds, TickEvent DEF Tick

LEMMA SendSnapshotCalm ==
    ASSUME TInv, NEW s \in Sockets, SendSnapshot(s)
    PROVE  Calm
<1>1. MindsKept
  <2>1. Goto(s, "closed") \/ Goto(s, "open")
    BY DEF SendSnapshot
  <2> QED
    BY <2>1, GotoKeepsMinds DEF TInv, TypeOK, SendSnapshot
<1> QED
  BY <1>1, SameDecisions, SameRuns, SamePhase, SameTables DEF SendSnapshot, Calm, redis, story

LEMMA ResetRuns ==
    ASSUME Hash(seats, Seat), seats' = [p \in Seated |-> Reset(p)]
    PROVE  DOMAIN seats' = Seated /\ \A p \in Seated : seats'[p].run = NoRun
BY DEF Reset, Seated, Hash, Seat

LEMMA StartEvent ==
    ASSUME TInv, NEW s \in Sockets, Start(s)
    PROVE  Event
<1>1. MindsKept
  BY GotoKeepsMinds DEF TInv, TypeOK, Start
<1>2. UNCHANGED <<db, mind, duty, begun, field>>
  BY DEF Start, story
<1>3. CASE UNCHANGED redis
  BY <1>1, <1>2, <1>3, SameDecisions, SameRuns, SamePhase, SameTables DEF Calm, Event, redis
<1>4. CASE /\ room.state = "lobby" /\ room' = FreshRoom("countdown", room.host)
           /\ seats' = [p \in Seated |-> Reset(p)]
  <2>1. room'.state = "countdown" /\ room'.race = NoRace /\ room'.places = 0
    BY <1>4 DEF FreshRoom
  <2>2. DOMAIN seats' = Seated /\ \A p \in Seated : seats'[p].run = NoRun
    BY <1>4, ResetRuns DEF TInv, TypeOK
  <2> QED
    BY <1>1, <1>2, <1>4, <2>1, <2>2, SameDecisions, SameTables DEF Renewed, Event
<1> QED
  BY <1>3, <1>4 DEF Start, MayStart

LEMMA PlayAgainEvent ==
    ASSUME TInv, NEW s \in Sockets, PlayAgain(s)
    PROVE  Event
<1>1. MindsKept
  BY GotoKeepsMinds DEF TInv, TypeOK, PlayAgain
<1>2. UNCHANGED <<db, mind, duty, begun, field>>
  BY DEF PlayAgain
<1>3. CASE UNCHANGED redis
  BY <1>1, <1>2, <1>3, SameDecisions, SameRuns, SamePhase, SameTables DEF Calm, Event, redis
<1>4. CASE /\ room.state = "finished" /\ room' = FreshRoom("lobby", room.host)
           /\ seats' = [p \in Seated |-> Reset(p)]
           /\ overtaken' = overtaken \cup {loose \in LooseEnds : InFlight(loose)}
  <2>1. room'.state = "lobby" /\ room'.race = NoRace /\ room'.places = 0
    BY <1>4 DEF FreshRoom
  <2>2. DOMAIN seats' = Seated /\ \A p \in Seated : seats'[p].run = NoRun
    BY <1>4, ResetRuns DEF TInv, TypeOK
  <2> QED
    BY <1>1, <1>2, <1>4, <2>1, <2>2, SameDecisions, SameTables DEF Renewed, Event
<1> QED
  BY <1>3, <1>4 DEF PlayAgain, MayPlayAgain

LEMMA LeaveCalm ==
    ASSUME TInv, NEW s \in Sockets, Leave(s)
    PROVE  Calm
<1>1. MindsKept
  BY GotoKeepsMinds DEF TInv, TypeOK, Leave
<1>2. DecisionsKept
  BY SameDecisions, DoKeepsDecisions, SocketsAndRelaysWork DEF TInv, TypeOK, Leave
<1>3. RunsKept /\ DOMAIN seats' \subseteq Seated
  BY SameRuns, HDelRuns DEF Leave
<1> QED
  BY <1>1, <1>2, <1>3, SamePhase, SameTables DEF Leave, Calm, story

LEMMA HangUpCalm ==
    ASSUME TInv, NEW s \in Sockets, HangUp(s)
    PROVE  Calm
<1>1. MindsKept
  <2>1. Goto(s, "dropped") \/ Goto(s, "closed")
    BY DEF HangUp
  <2> QED
    BY <2>1, GotoKeepsMinds DEF TInv, TypeOK, HangUp
<1>2. DecisionsKept
  BY DoKeepsDecisions, SocketsAndRelaysWork DEF TInv, TypeOK, HangUp, Idle
<1>3. RunsKept /\ DOMAIN seats' \subseteq Seated
  <2>1. CASE seats' = seats
    BY <2>1, SameRuns
  <2>2. CASE seats' = [seats EXCEPT ![Owner[s]].connected = FALSE,
                                    ![Owner[s]].goneFor = LobbyGrace]
    BY <2>2 DEF TInv, TypeOK, Hash, Seat, Seated, RunsKept
  <2> QED
    BY <2>1, <2>2 DEF HangUp
<1> QED
  BY <1>1, <1>2, <1>3, SamePhase, SameTables DEF HangUp, Calm, story

LEMMA DroppedCalm ==
    ASSUME TInv, NEW s \in Sockets, Dropped(s)
    PROVE  Calm
<1>1. MindsKept
  BY GotoKeepsMinds DEF TInv, TypeOK, Dropped
<1>2. DecisionsKept
  <2>1. Do(s, Check) \/ Do(s, Idle)
    BY DEF Dropped
  <2> QED
    BY <2>1, DoKeepsDecisions, SocketsAndRelaysWork DEF TInv, TypeOK, Idle, Check
<1> QED
  BY <1>1, <1>2, SameRuns, SamePhase, SameTables DEF Dropped, Calm, redis, story

LEMMA FinishFirstCalm ==
    ASSUME TInv, NEW s \in Sockets, FinishFirst(s)
    PROVE  Calm
<1>1. MindsKept
  BY GotoKeepsMinds DEF TInv, TypeOK, FinishFirst
<1>2. DecisionsKept
  BY SameDecisions, DoKeepsDecisions, SocketsAndRelaysWork DEF TInv, TypeOK, FinishFirst, Check
<1>3. PhaseKept
  BY DEF TInv, TypeOK, FinishFirst, Room, PhaseKept, story, Seated
<1> QED
  BY <1>1, <1>2, <1>3, SameRuns, SameTables DEF FinishFirst, Calm

LEMMA FinishDeadlineCalm ==
    ASSUME TInv, NEW s \in Sockets, FinishDeadline(s)
    PROVE  Calm
<1>1. MindsKept
  BY DEF TInv, TypeOK, FinishDeadline, Goto, MindsKept
<1> QED
  BY <1>1, SameDecisions, SameRuns, SamePhase, SameTables DEF FinishDeadline, Calm, redis, story

LEMMA FinishShortenCalm ==
    ASSUME TInv, NEW s \in Sockets, FinishShorten(s)
    PROVE  Calm
<1>1. MindsKept
  BY DEF TInv, TypeOK, FinishShorten, Goto, Forget, MindsKept
<1>2. DecisionsKept
  BY DoKeepsDecisions, SocketsAndRelaysWork DEF TInv, TypeOK, FinishShorten, Check
<1>3. PhaseKept
  BY DEF TInv, TypeOK, FinishShorten, Room, PhaseKept, story, Seated
<1> QED
  BY <1>1, <1>2, <1>3, SameRuns, SameTables DEF FinishShorten, Calm

LEMMA TimePassesCalm ==
    ASSUME TInv, TimePasses
    PROVE  Calm
<1>1. RunsKept /\ DOMAIN seats' = Seated
  BY DEF TInv, TypeOK, TimePasses, Hash, Seat, Seated, RunsKept
<1>2. PhaseKept
  BY <1>1 DEF TInv, TypeOK, TimePasses, Room, PhaseKept, story
<1>3. MindsKept
  BY DEF TimePasses, MindsKept
<1> QED
  BY <1>1, <1>2, <1>3, SameDecisions, SameTables DEF TimePasses, Calm

LEMMA ErrorCalm ==
    ASSUME TInv, NEW w \in Workers, Error(w)
    PROVE  Calm
<1>1. MindsKept
  <2>1. CASE UNCHANGED <<pc, mind>>
    BY <2>1, SameMinds
  <2>2. CASE w \in Sockets /\ Goto(w, StageAfterError(w)) /\ Forget(w)
    <3>1. StageAfterError(w) \notin {"record", "place", "patch"}
      BY DEF StageAfterError
    <3> QED
      BY <2>2, <3>1 DEF TInv, TypeOK, Goto, Forget, MindsKept
  <2> QED
    BY <2>1, <2>2 DEF Error
<1>2. DecisionsKept
  BY DoKeepsDecisions DEF TInv, TypeOK, Error, Idle
<1> QED
  BY <1>1, <1>2, SameRuns, SamePhase, SameTables DEF Error, Calm, redis, story

LEMMA LostSocketCalm ==
    ASSUME TInv, NEW s \in Sockets, CleanupError(s) \/ EarlyClose(s)
    PROVE  Calm
<1>1. MindsKept
  BY GotoKeepsMinds DEF TInv, TypeOK, CleanupError, EarlyClose
<1>2. DecisionsKept
  BY SameDecisions, DoKeepsDecisions, SocketsAndRelaysWork
     DEF TInv, TypeOK, CleanupError, EarlyClose, Idle
<1> QED
  BY <1>1, <1>2, SameRuns, SamePhase, SameTables DEF CleanupError, EarlyClose, Calm, redis, story

LEMMA CrashCalm ==
    ASSUME TInv, NEW replica \in Replicas, Crash(replica)
    PROVE  Calm
<1>1. MindsKept
  BY DEF Crash, MindsKept
<1>2. DecisionsKept
  BY DEF Crash, DecisionsKept, Idle
<1> QED
  BY <1>1, <1>2, SameRuns, SamePhase, SameTables DEF Crash, Calm, redis, story

(* Every step is calm or an event. *)
LEMMA StepEvent ==
    ASSUME TInv, [Next]_vars
    PROVE  Event
<1>1. CASE UNCHANGED vars
  BY <1>1, SameMinds, SameDecisions, SameRuns, SamePhase, SameTables
     DEF Calm, Event, vars, redis, local, story
<1>2. ASSUME NEW s \in Sockets, HandlerStep(s) PROVE Event
  <2>1. CASE FinishCheck(s) \/ FinishRecord(s) \/ FinishPlace(s) \/ FinishPatch(s)
    BY <2>1 DEF Event
  <2>2. CASE SendSnapshot(s) \/ Leave(s) \/ FinishFirst(s) \/ FinishDeadline(s)
             \/ FinishShorten(s) \/ Dropped(s) \/ HangUp(s)
    <3>1. Calm
      BY <2>2, SendSnapshotCalm, LeaveCalm, FinishFirstCalm, FinishDeadlineCalm,
         FinishShortenCalm, DroppedCalm, HangUpCalm
    <3> QED
      BY <3>1 DEF Event
  <2> QED
    BY <1>2, <2>1, <2>2, JoinTickEvent, StartEvent, PlayAgainEvent DEF HandlerStep
<1>3. ASSUME NEW s \in Sockets, ClientStep(s) PROVE Event
  <2>1. CASE HangUp(s)
    BY <2>1, HangUpCalm DEF Event
  <2> QED
    BY <1>3, <2>1, JoinEvent, ReceiveEvent DEF ClientStep
<1>4. ASSUME NEW s \in Sockets, RelayTick(s) PROVE Event
  BY <1>4, FreeTickEvent, SocketsAndRelaysWork DEF RelayTick
<1>5. ASSUME NEW t \in Timers, TimerTick(t) PROVE Event
  BY <1>5, FreeTickEvent DEF TimerTick, Workers
<1>6. CASE \/ TimePasses
           \/ \E s \in Sockets : CleanupError(s) \/ EarlyClose(s)
           \/ \E w \in Workers : Error(w)
           \/ \E replica \in Replicas : Crash(replica)
  <2>1. Calm
    BY <1>6, TimePassesCalm, LostSocketCalm, ErrorCalm, CrashCalm
  <2> QED
    BY <2>1 DEF Event
<1> QED
  BY <1>1, <1>2, <1>3, <1>4, <1>5, <1>6, DutyStepEvent DEF Next

-----------------------------------------------------------------------------
(* NothingDangling is not inductive: InsertResults writes what a worker     *)
(* copied from the seats, and the seats hold what a handler remembered.     *)
(* Wherever a run is on its way, its session is already recorded.          *)
Recorded(rows, p, q) == q # NoRace => rows[q][p] > 0

SeatsRecorded == \A p \in Seated : Recorded(sessions, p, seats[p].run.race)
CopiesRecorded ==
    \A w \in Workers : duty[w].step = "results" =>
        \A p \in Players : Recorded(sessions, p, duty[w].runs[p].race)
FinishesRecorded ==
    \A s \in Sockets : pc[s] \in {"place", "patch"} => Recorded(sessions, Owner[s], mind[s].race)

RowsInv == NothingDangling /\ SeatsRecorded /\ CopiesRecorded /\ FinishesRecorded

CopiesKept == \A w \in Workers : duty'[w].step = "results" => duty'[w] = duty[w]
FinishesKept ==
    \A s \in Sockets : pc'[s] \in {"place", "patch"} =>
        pc[s] \in {"place", "patch"} /\ mind'[s].race = mind[s].race

LEMMA TypesOfRuns ==
    ASSUME TInv
    PROVE  /\ Seated \subseteq Players
           /\ \A p \in Seated : seats[p].run \in Run
           /\ \A s \in Sockets : mind[s] \in Mind
           /\ \A w \in Workers : duty[w] \in Duty
           /\ \A r \in Races, p \in Players : sessions[r][p] \in Nat
           /\ \A r \in Races : DOMAIN results[r] \subseteq Players
           /\ \A r \in Races : \A p \in DOMAIN results[r] : results[r][p] \in Run
BY DEF TInv, TypeOK, Hash, Seated, Seat

LEMMA TablesKeepRows ==
    ASSUME NothingDangling, TablesKept
    PROVE  NothingDangling'
BY DEF NothingDangling, TablesKept

LEMMA KeepRows ==
    ASSUME TInv, RowsInv, FinishesKept, CopiesKept, RunsKept, TablesKept
    PROVE  RowsInv'
<1>1. sessions' = sessions
  BY DEF TablesKept
<1>2. SeatsRecorded'
  BY <1>1 DEF RowsInv, SeatsRecorded, RunsKept, NoRun, Recorded, Seated
<1>3. CopiesRecorded'
  BY <1>1 DEF RowsInv, CopiesRecorded, CopiesKept
<1>4. FinishesRecorded'
  BY <1>1 DEF RowsInv, FinishesRecorded, FinishesKept
<1> QED
  BY <1>2, <1>3, <1>4, TablesKeepRows DEF RowsInv

LEMMA MindsKeptFinishes ==
    ASSUME MindsKept
    PROVE  FinishesKept
BY DEF MindsKept, FinishesKept

LEMMA DecisionsKeptCopies ==
    ASSUME DecisionsKept
    PROVE  CopiesKept
BY DEF DecisionsKept, CopiesKept

LEMMA OneMoreSession ==
    ASSUME sessions \in [Races -> [Players -> Nat]], NEW r \in Races \cup {NoRace},
           NEW p \in Players, sessions' = [sessions EXCEPT ![r][p] = @ + 1]
    PROVE  \A q \in Races, x \in Players :
              sessions'[q][x] = IF q = r /\ x = p THEN sessions[q][x] + 1 ELSE sessions[q][x]
<1>1. CASE r \in Races
  BY <1>1
<1>2. CASE r \notin Races
  BY <1>2
<1> QED
  BY <1>1, <1>2

LEMMA FinishRecordRows ==
    ASSUME TInv, RowsInv, NEW s \in Sockets, FinishRecord(s)
    PROVE  RowsInv'
<1> DEFINE r == mind[s].race
           p == Owner[s]
<1>1. /\ r \in Races \cup {NoRace} /\ p \in Players
      /\ sessions \in [Races -> [Players -> Nat]]
      /\ races \in [Races -> {"absent", "open", "closed"}]
      /\ mind \in [Sockets -> Mind] /\ pc \in [Sockets -> Stages]
  BY TypesOfRuns DEF Mind, TInv, TypeOK
<1>2. UNCHANGED <<seats, results, duty>> /\ races' = WithRaceRow(races, r)
  BY DEF FinishRecord, redis
<1>3. \/ sessions' = sessions
      \/ sessions' = [sessions EXCEPT ![r][p] = @ + 1]
  BY DEF FinishRecord
<1>3a. \A q \in Races, x \in Players :
          \/ sessions'[q][x] = sessions[q][x]
          \/ q = r /\ x = p /\ sessions'[q][x] = sessions[q][x] + 1
  <2> HIDE DEF r, p
  <2> QED
    BY <1>1, <1>3, OneMoreSession
<1>4. \A q \in Races, x \in Players : sessions[q][x] > 0 => sessions'[q][x] > 0
  BY <1>1, <1>3a
<1>5. \A q \in Races, x \in Players :
          sessions'[q][x] > 0 => sessions[q][x] > 0 \/ (q = r /\ x = p)
  BY <1>1, <1>3a
<1>6. \A q \in Races : /\ races[q] # "absent" => races'[q] = races[q]
                       /\ q = r => races'[q] # "absent"
  BY <1>1, <1>2 DEF WithRaceRow, NoRace, Races
<1>7. \A x \in Players, q \in Races \cup {NoRace} : Recorded(sessions, x, q) => Recorded(sessions', x, q)
  BY <1>4 DEF Recorded
<1>8. NothingDangling'
  <2> SUFFICES ASSUME NEW q \in Races
               PROVE  /\ \A x \in Players : sessions'[q][x] > 0 => races'[q] # "absent"
                      /\ DOMAIN results'[q] # {} => races'[q] = "closed"
                      /\ \A x \in DOMAIN results'[q] : Recorded(sessions', x, results'[q][x].race)
    BY DEF NothingDangling, Recorded
  <2>1. /\ \A x \in Players : sessions[q][x] > 0 => races[q] # "absent"
        /\ DOMAIN results[q] # {} => races[q] = "closed"
        /\ \A x \in DOMAIN results[q] : Recorded(sessions, x, results[q][x].race)
    BY DEF RowsInv, NothingDangling, Recorded
  <2>2. \A x \in Players : sessions'[q][x] > 0 => races'[q] # "absent"
    BY <1>5, <1>6, <2>1
  <2>3. DOMAIN results'[q] # {} => races'[q] = "closed"
    BY <1>2, <1>6, <2>1
  <2>4. \A x \in DOMAIN results[q] : x \in Players /\ results[q][x].race \in Races \cup {NoRace}
    BY TypesOfRuns DEF Run
  <2> QED
    BY <1>2, <1>7, <2>1, <2>2, <2>3, <2>4
<1>9. SeatsRecorded'
  <2>1. \A x \in Seated : x \in Players /\ seats[x].run.race \in Races \cup {NoRace}
    BY TypesOfRuns DEF Run
  <2> QED
    BY <1>2, <1>7, <2>1 DEF RowsInv, SeatsRecorded, Seated
<1>10. CopiesRecorded'
  <2>1. \A w \in Workers : duty[w].step = "results" =>
            \A x \in Players : duty[w].runs[x].race \in Races \cup {NoRace}
    BY TypesOfRuns, DutyUsed DEF Run
  <2> QED
    BY <1>2, <1>7, <2>1 DEF RowsInv, CopiesRecorded
<1>11. FinishesRecorded'
  <2> SUFFICES ASSUME NEW t \in Sockets, pc'[t] \in {"place", "patch"}
               PROVE  Recorded(sessions', Owner[t], mind'[t].race)
    BY DEF FinishesRecorded
  <2>1. CASE t # s
    <3>1. pc'[t] = pc[t] /\ mind'[t] = mind[t]
      BY <1>1, <2>1 DEF FinishRecord, Goto, Forget
    <3>2. mind[t].race \in Races \cup {NoRace} /\ Owner[t] \in Players
      BY <1>1 DEF Mind
    <3> QED
      BY <1>7, <3>1, <3>2 DEF RowsInv, FinishesRecorded
  <2>2. CASE t = s
    <3>1. /\ sessions' = [sessions EXCEPT ![r][p] = @ + 1]
          /\ \E valid \in BOOLEAN : mind' = [mind EXCEPT ![s].valid = valid]
      BY <1>1, <2>2 DEF FinishRecord, Goto
    <3>2. mind'[s].race = r
      BY <1>1, <3>1 DEF Mind
    <3>3. r # NoRace => sessions'[r][p] = sessions[r][p] + 1 /\ sessions[r][p] \in Nat
      BY <1>1, <3>1
    <3> QED
      BY <2>2, <3>2, <3>3 DEF Recorded
  <2> QED
    BY <2>1, <2>2
<1> QED
  BY <1>8, <1>9, <1>10, <1>11 DEF RowsInv

LEMMA FinishPatchRows ==
    ASSUME TInv, RowsInv, NEW s \in Sockets, FinishPatch(s)
    PROVE  RowsInv'
<1>1. /\ mind[s].race \in Races \cup {NoRace} /\ pc \in [Sockets -> Stages]
      /\ mind \in [Sockets -> Mind] /\ Seated \subseteq Players
      /\ Recorded(sessions, Owner[s], mind[s].race)
  BY TypesOfRuns DEF Mind, TInv, TypeOK, RowsInv, FinishesRecorded, FinishPatch
<1>2. UNCHANGED <<races, sessions, results, duty>>
  BY DEF FinishPatch, db
<1>3. NothingDangling' /\ CopiesRecorded'
  BY <1>2 DEF RowsInv, NothingDangling, CopiesRecorded
<1>4. FinishesRecorded'
  <2>1. \A t \in Sockets : pc'[t] \in {"place", "patch"} => pc'[t] = pc[t] /\ mind'[t] = mind[t]
    BY <1>1 DEF FinishPatch, Goto, Forget
  <2> QED
    BY <1>2, <2>1 DEF RowsInv, FinishesRecorded
<1>5. SeatsRecorded'
  <2>1. CASE seats' = seats
    BY <1>2, <2>1 DEF RowsInv, SeatsRecorded, Seated
  <2>2. CASE /\ Owner[s] \in Seated
             /\ seats' = [seats EXCEPT ![Owner[s]].run =
                             [race |-> mind[s].race, place |-> mind[s].place]]
    <3>1. DOMAIN seats' = Seated
      BY <2>2 DEF Seated
    <3>2. \A x \in Seated : x # Owner[s] => seats'[x] = seats[x]
      BY <2>2 DEF Seated
    <3>3. seats'[Owner[s]].run.race = mind[s].race
      BY <2>2 DEF TInv, TypeOK, Hash, Seat, Seated
    <3> QED
      BY <1>1, <1>2, <3>1, <3>2, <3>3 DEF RowsInv, SeatsRecorded, Seated
  <2> QED
    BY <2>1, <2>2 DEF FinishPatch
<1> QED
  BY <1>3, <1>4, <1>5 DEF RowsInv

LEMMA CalmRows ==
    ASSUME TInv, RowsInv, Calm
    PROVE  RowsInv'
BY KeepRows, MindsKeptFinishes, DecisionsKeptCopies DEF Calm

LEMMA ReadEndedRows ==
    ASSUME TInv, RowsInv, NEW w \in Workers, ReadEnded(w)
    PROVE  RowsInv'
<1>1. CASE AbandonDuty(w)
  BY <1>1, AbandonCalm, CalmRows DEF ReadEnded
<1>2. CASE /\ UNCHANGED pc
           /\ Do(w, [step |-> "results", race |-> duty[w].race, seen |-> room.race,
                     who |-> Seated,
                     runs |-> [p \in Players |->
                                 IF p \in Seated THEN seats[p].run ELSE NoRun]])
  <2>1. UNCHANGED <<seats, races, sessions, results, pc, mind>>
    BY <1>2 DEF ReadEnded, redis, db
  <2>2. NothingDangling' /\ SeatsRecorded' /\ FinishesRecorded'
    BY <2>1 DEF RowsInv, NothingDangling, SeatsRecorded, FinishesRecorded, Seated
  <2>3. \A v \in Workers : v # w => duty'[v] = duty[v]
    BY <1>2 DEF TInv, TypeOK, Do
  <2>4. \A p \in Players : duty'[w].runs[p] = IF p \in Seated THEN seats[p].run ELSE NoRun
    BY <1>2 DEF TInv, TypeOK, Do
  <2>5. \A p \in Players : Recorded(sessions, p, duty'[w].runs[p].race)
    BY <2>4 DEF RowsInv, SeatsRecorded, Recorded, NoRun
  <2>6. CopiesRecorded'
    BY <2>1, <2>3, <2>5 DEF RowsInv, CopiesRecorded
  <2> QED
    BY <2>2, <2>6 DEF RowsInv
<1> QED
  BY <1>1, <1>2 DEF ReadEnded

LEMMA InsertResultsRows ==
    ASSUME TInv, RowsInv, NEW w \in Workers, InsertResults(w)
    PROVE  RowsInv'
<1> DEFINE r == duty[w].race
           rows == WithRaceRow(races, duty[w].seen)
<1>1. /\ duty \in [Workers -> Duty] /\ races \in [Races -> {"absent", "open", "closed"}]
      /\ DOMAIN results = Races /\ r \in Races /\ duty[w].step = "results"
      /\ duty[w].seen \in Races \cup {NoRace} /\ duty[w].who \subseteq Players
  BY DutyUsed DEF TInv, TypeOK, InsertResults
<1>2. UNCHANGED <<seats, sessions, pc, mind>> /\ Do(w, [step |-> "over", race |-> r])
  BY DEF InsertResults, redis
<1>3. SeatsRecorded' /\ FinishesRecorded'
  BY <1>2 DEF RowsInv, SeatsRecorded, FinishesRecorded, Seated
<1>4. CopiesRecorded'
  BY <1>1, <1>2 DEF Do, RowsInv, CopiesRecorded
<1>5. \A q \in Races : \/ rows[q] = races[q]
                       \/ races[q] = "absent" /\ rows[q] = "open"
  BY <1>1 DEF WithRaceRow
<1>6. rows \in [Races -> {"absent", "open", "closed"}]
  BY <1>1, WithRaceRowType
<1>7. NothingDangling'
  <2>1. CASE races' = rows /\ UNCHANGED results
    <3>1. TablesKept
      BY <1>2, <1>5, <2>1 DEF TablesKept
    <3> QED
      BY <3>1, TablesKeepRows DEF RowsInv
  <2>2. CASE /\ races' = [rows EXCEPT ![r] = "closed"]
             /\ results' = [results EXCEPT ![r] = InsertMissing(@, duty[w].who, duty[w].runs)]
    <3> HIDE DEF rows, r
    <3>1. races'[r] = "closed" /\ \A q \in Races : races[q] # "absent" => races'[q] # "absent"
      BY <1>1, <1>5, <1>6, <2>2
    <3>2. \A q \in Races : q # r => results'[q] = results[q] /\ (races[q] = "closed" => races'[q] = "closed")
      BY <1>1, <1>5, <1>6, <2>2
    <3>3. results'[r] = InsertMissing(results[r], duty[w].who, duty[w].runs)
      BY <1>1, <2>2
    <3>4. \A p \in DOMAIN results'[r] :
             \/ p \in DOMAIN results[r] /\ results'[r][p] = results[r][p]
             \/ p \in duty[w].who /\ results'[r][p] = duty[w].runs[p]
      BY <3>3 DEF InsertMissing
    <3>5. \A p \in DOMAIN results'[r] : Recorded(sessions, p, results'[r][p].race)
      <4>1. \A p \in DOMAIN results[r] : Recorded(sessions, p, results[r][p].race)
        BY <1>1 DEF RowsInv, NothingDangling, Recorded
      <4>2. \A p \in Players : Recorded(sessions, p, duty[w].runs[p].race)
        BY <1>1 DEF RowsInv, CopiesRecorded
      <4> QED
        BY <1>1, <3>4, <4>1, <4>2
    <3> SUFFICES ASSUME NEW q \in Races
                 PROVE  /\ \A p \in Players : sessions[q][p] > 0 => races'[q] # "absent"
                        /\ DOMAIN results'[q] # {} => races'[q] = "closed"
                        /\ \A p \in DOMAIN results'[q] : Recorded(sessions, p, results'[q][p].race)
      BY <1>2 DEF NothingDangling, Recorded
    <3>6. \A p \in Players : sessions[q][p] > 0 => races'[q] # "absent"
      BY <3>1 DEF RowsInv, NothingDangling
    <3>7. CASE q = r
      BY <3>1, <3>5, <3>6, <3>7
    <3>8. CASE q # r
      BY <3>2, <3>6, <3>8 DEF RowsInv, NothingDangling, Recorded
    <3> QED
      BY <3>7, <3>8
  <2> QED
    BY <2>1, <2>2 DEF InsertResults
<1> QED
  BY <1>3, <1>4, <1>7 DEF RowsInv

LEMMA InitRows == Init => RowsInv
<1> SUFFICES ASSUME Init PROVE RowsInv
    OBVIOUS
<1>1. NothingDangling
  BY DEF Init, NothingDangling, EmptyHash
<1>2. SeatsRecorded
  BY DEF Init, SeatsRecorded, EmptyHash, Seated
<1>3. CopiesRecorded /\ FinishesRecorded
  BY DEF Init, CopiesRecorded, FinishesRecorded, Idle
<1> QED
  BY <1>1, <1>2, <1>3 DEF RowsInv

LEMMA StepRows == TInv /\ RowsInv /\ [Next]_vars => RowsInv'
<1> SUFFICES ASSUME TInv, RowsInv, [Next]_vars PROVE RowsInv'
    OBVIOUS
<1>1. Event
  BY StepEvent
<1>2. CASE Went
  BY <1>2, KeepRows, MindsKeptFinishes, DecisionsKeptCopies, SameRuns DEF Went
<1>3. CASE Renewed
  <2>1. RunsKept
    BY <1>3 DEF Renewed, RunsKept
  <2> QED
    BY <1>3, <2>1, KeepRows, MindsKeptFinishes, DecisionsKeptCopies DEF Renewed
<1>4. CASE Vanished
  <2>1. RunsKept
    BY <1>4 DEF Vanished, RunsKept
  <2> QED
    BY <1>4, <2>1, KeepRows, MindsKeptFinishes, DecisionsKeptCopies DEF Vanished
<1>5. ASSUME NEW s \in Sockets, Entered(Owner[s]) PROVE RowsInv'
  BY <1>5, KeepRows, MindsKeptFinishes, DecisionsKeptCopies DEF Entered
<1>6. ASSUME NEW w \in Workers, NEW r \in Races, Ended(w, r) PROVE RowsInv'
  <2>1. CopiesKept
    BY <1>6 DEF Ended, CopiesKept, TInv, TypeOK
  <2> QED
    BY <1>6, <2>1, KeepRows, MindsKeptFinishes, SameRuns DEF Ended
<1>7. ASSUME NEW w \in Workers, ReadMaybeEnd(w) PROVE RowsInv'
  <2>1. CopiesKept
    BY <1>7 DEF ReadMaybeEnd, Do, Idle, CopiesKept, TInv, TypeOK
  <2> QED
    BY <1>7, <2>1, KeepRows, SameMinds, MindsKeptFinishes, SameRuns, SameTables
       DEF ReadMaybeEnd, redis
<1>8. ASSUME NEW s \in Sockets, FinishCheck(s) PROVE RowsInv'
  <2>1. FinishesKept
    BY <1>8 DEF FinishCheck, Goto, FinishesKept, TInv, TypeOK
  <2> QED
    BY <1>8, <2>1, KeepRows, SameDecisions, DecisionsKeptCopies, SameRuns, SameTables
       DEF FinishCheck, redis
<1>9. ASSUME NEW s \in Sockets, FinishPlace(s) PROVE RowsInv'
  <2>1. FinishesKept
    BY <1>9 DEF FinishPlace, Goto, FinishesKept, TInv, TypeOK, Mind
  <2> QED
    BY <1>9, <2>1, KeepRows, SameDecisions, DecisionsKeptCopies, SameRuns, SameTables
       DEF FinishPlace
<1> QED
  BY <1>1, <1>2, <1>3, <1>4, <1>5, <1>6, <1>7, <1>8, <1>9, CalmRows,
     FinishRecordRows, FinishPatchRows, ReadEndedRows, InsertResultsRows DEF Event

LEMMA AlwaysRows == Spec => []RowsInv
BY InitRows, StepRows, AlwaysTInv, PTL DEF Spec

(* However finishes, ends of races, errors and crashes interleave, no       *)
(* typing_sessions or race_results row refers to a row that is not there,   *)
(* and only a race whose row was completed has results.                    *)
THEOREM RowsRefer == Spec => []NothingDangling
<1>1. RowsInv => NothingDangling
  BY DEF RowsInv
<1> QED
  BY <1>1, AlwaysRows, PTL

-----------------------------------------------------------------------------
(* What play_again has overtaken stays overtaken. *)
LEMMA StepOvertaken == [Next]_vars => overtaken \subseteq overtaken'
<1>1. CASE UNCHANGED overtaken
  BY <1>1
<1>2. ASSUME NEW w, Tick(w) PROVE UNCHANGED overtaken
  BY <1>2 DEF Tick, DueScript, Go, TimeUp, End, Sweep, story
<1>3. ASSUME NEW w \in Workers, DutyStep(w) PROVE UNCHANGED overtaken
  <2>1. CASE ForceEnd(w)
    BY <2>1 DEF ForceEnd, End, story
  <2>2. CASE PublishStarted(w) \/ PublishOver(w)
    BY <2>2 DEF PublishStarted, PublishOver
  <2>3. CASE UNCHANGED story
    BY <2>3 DEF story
  <2> QED
    BY <1>3, <2>1, <2>2, <2>3 DEF DutyStep, ReadBegun, InsertRace, ReadEnded, InsertResults,
       ReadAfterRemoval, DeleteRoom, HandOff, ReadMaybeEnd
<1>4. ASSUME NEW s \in Sockets, HandlerStep(s) PROVE overtaken \subseteq overtaken'
  <2>1. CASE PlayAgain(s)
    BY <2>1 DEF PlayAgain
  <2>2. CASE JoinTick(s)
    BY <1>2, <2>2 DEF JoinTick
  <2>3. CASE UNCHANGED story
    BY <2>3 DEF story
  <2> QED
    BY <1>4, <2>1, <2>2, <2>3 DEF HandlerStep, SendSnapshot, Start, Leave, FinishCheck,
       FinishRecord, FinishPlace, FinishPatch, FinishFirst, FinishDeadline, FinishShorten, Dropped,
       HangUp
<1>5. ASSUME NEW s \in Sockets, ClientStep(s) PROVE UNCHANGED overtaken
  <2>1. CASE Join(s) \/ HangUp(s)
    BY <2>1 DEF Join, HangUp, story
  <2>2. ASSUME NEW kind, Receive(s, kind) PROVE UNCHANGED overtaken
    BY <1>2, <2>2 DEF Receive
  <2> QED
    BY <1>5, <2>1, <2>2 DEF ClientStep
<1>6. ASSUME NEW s \in Sockets, RelayTick(s) PROVE UNCHANGED overtaken
  BY <1>2, <1>6 DEF RelayTick, Tick
<1>7. ASSUME NEW t \in Timers, TimerTick(t) PROVE UNCHANGED overtaken
  BY <1>2, <1>7 DEF TimerTick, Tick
<1>8. CASE \/ \E s \in Sockets : CleanupError(s) \/ EarlyClose(s)
           \/ \E w \in Workers : Error(w)
           \/ \E replica \in Replicas : Crash(replica)
           \/ TimePasses
           \/ UNCHANGED vars
  BY <1>1, <1>8 DEF CleanupError, EarlyClose, Error, Crash, TimePasses, story, vars
<1> QED
  BY <1>1, <1>3, <1>4, <1>5, <1>6, <1>7, <1>8 DEF Next

-----------------------------------------------------------------------------
(* The race the room shows, ... *)
Shown == room.state \in {"running", "finished"}
RoomRace ==
    /\ ~Shown => room.race = NoRace
    /\ Shown => room.race \in Races /\ room.race <= begun

(* ... the fields of the races that have not begun, ... *)
FieldsAhead == \A r \in Races : r > begun => field[r] = {}

(* ... who is in the room, ... *)
SeatsOfField ==
    /\ Cardinality(Seated) <= MaxPlayers
    /\ Shown => Seated \subseteq field[room.race]

(* ... who has a session, ... *)
SessionsOfField == \A r \in Races, p \in Players : sessions[r][p] > 0 => p \in field[r]

(* ... and who is about to have one recorded. *)
FinishersEntered ==
    \A s \in Sockets : pc[s] = "record" =>
        mind[s].race \in Races /\ Owner[s] \in field[mind[s].race]

FieldInv == RoomRace /\ FieldsAhead /\ SeatsOfField /\ SessionsOfField /\ FinishersEntered

(* What a worker that ends a race may still read, and who has results: true *)
(* until a play_again overtakes such a worker.                             *)
Settled(r) == room.state = "none" \/ (room.state = "finished" /\ room.race = r)
EndsSettled ==
    \A w \in Workers :
        /\ duty[w].step \in {"ended", "results"} => Settled(duty[w].race)
        /\ duty[w].step = "results" => duty[w].who \subseteq field[duty[w].race]
ResultsOfField == \A r \in Races : DOMAIN results[r] \subseteq field[r]

EndsInv == EndsSettled /\ ResultsOfField

-----------------------------------------------------------------------------
(* What the events have in common. *)

FieldsGrow == \A r \in Races : field[r] \subseteq field'[r]

LEMMA PhaseEvents ==
    ASSUME TInv, FieldsAhead, Event
    PROVE  /\ FieldsGrow
           /\ FieldsAhead'
<1>1. CASE Went
  <2>1. begun \in Nat /\ field \in [Races -> SUBSET Players]
    BY DEF TInv, TypeOK
  <2>2. /\ begun' = begun + 1 /\ begun + 1 \in Races
        /\ field' = [field EXCEPT ![begun + 1] = Seated]
    BY <1>1 DEF Went
  <2>3. \A r \in Races : r # begun + 1 => field'[r] = field[r]
    BY <2>1, <2>2
  <2>4. field[begun + 1] = {}
    BY <2>1, <2>2 DEF FieldsAhead, Races
  <2> QED
    BY <2>1, <2>2, <2>3, <2>4 DEF FieldsGrow, FieldsAhead, Races
<1>2. CASE UNCHANGED <<begun, field>>
  BY <1>2 DEF FieldsGrow, FieldsAhead
<1> QED
  BY <1>1, <1>2 DEF Event, Calm, PhaseKept, Ended, Renewed, Vanished, Entered, ReadEnded,
     InsertResults, ReadMaybeEnd, FinishCheck, FinishRecord, FinishPlace, FinishPatch, story

(* A step that keeps the phase keeps what only depends on it. *)
SamePlace == room'.state = room.state /\ room'.race = room.race /\ UNCHANGED <<begun, field>>

LEMMA FewerSeats ==
    ASSUME TInv, SeatsOfField, DOMAIN seats' \subseteq Seated,
           Shown' => Shown /\ room'.race = room.race, FieldsGrow, RoomRace
    PROVE  SeatsOfField'
<1>1. IsFiniteSet(Seated) /\ Cardinality(Seated) <= MaxPlayers
  BY FS_Subset, TypesOfRuns DEF SeatsOfField
<1>2. Cardinality(DOMAIN seats') <= Cardinality(Seated)
  BY <1>1, FS_Subset
<1>3. Cardinality(DOMAIN seats') \in Nat /\ Cardinality(Seated) \in Nat
  BY <1>1, FS_Subset, FS_CardinalityType
<1>4. Cardinality(DOMAIN seats') <= MaxPlayers
  BY <1>1, <1>2, <1>3
<1>5. Shown' => DOMAIN seats' \subseteq field'[room'.race]
  BY DEF SeatsOfField, FieldsGrow, RoomRace
<1> QED
  BY <1>4, <1>5 DEF SeatsOfField, Seated

LEMMA SameSessionsOfField ==
    ASSUME SessionsOfField, FieldsGrow, UNCHANGED sessions
    PROVE  SessionsOfField'
BY DEF SessionsOfField, FieldsGrow

LEMMA SameResultsOfField ==
    ASSUME ResultsOfField, FieldsGrow, UNCHANGED results
    PROVE  ResultsOfField'
BY DEF ResultsOfField, FieldsGrow

LEMMA KeptEnds ==
    ASSUME TInv, EndsInv, FieldsGrow, DecisionsKept, UNCHANGED results,
           \A r \in Races : Settled(r) => Settled(r)'
    PROVE  EndsInv'
<1>1. EndsSettled'
  BY TypesOfRuns, DutyUsed DEF EndsInv, EndsSettled, FieldsGrow, DecisionsKept
<1> QED
  BY <1>1, SameResultsOfField DEF EndsInv

LEMMA KeptFinishers ==
    ASSUME FinishersEntered, FieldsGrow, MindsKept
    PROVE  FinishersEntered'
BY DEF FinishersEntered, FieldsGrow, MindsKept

-----------------------------------------------------------------------------
(* Event by event. *)

LEMMA SamePhaseField ==
    ASSUME TInv, FieldInv, MindsKept, DecisionsKept, UNCHANGED <<sessions, results>>, PhaseKept
    PROVE  FieldInv' /\ (EndsInv => EndsInv')
<1>1. UNCHANGED <<begun, field>> /\ DOMAIN seats' \subseteq Seated
      /\ room'.state = room.state /\ room'.race = room.race
  BY DEF PhaseKept
<1>2. FieldsGrow /\ FieldsAhead'
  BY <1>1 DEF FieldInv, FieldsGrow, FieldsAhead
<1>3. RoomRace' /\ (Shown' => Shown) /\ \A r \in Races : Settled(r) => Settled(r)'
  BY <1>1 DEF FieldInv, RoomRace, Shown, Settled
<1>4. SeatsOfField'
  BY <1>1, <1>2, <1>3, FewerSeats DEF FieldInv
<1> QED
  BY <1>2, <1>3, <1>4, SameSessionsOfField, KeptEnds, KeptFinishers DEF FieldInv

LEMMA WentField ==
    ASSUME TInv, FieldInv, Went, Event
    PROVE  FieldInv' /\ (EndsInv => EndsInv')
<1>1. FieldsGrow /\ FieldsAhead'
  BY PhaseEvents DEF FieldInv
<1>2. /\ room.state = "countdown" /\ begun + 1 \in Races /\ begun' = begun + 1
      /\ field' = [field EXCEPT ![begun + 1] = Seated]
      /\ room'.state = "running" /\ room'.race = begun + 1 /\ UNCHANGED seats
      /\ MindsKept /\ DecisionsKept /\ TablesKept
  BY DEF Went
<1>3. RoomRace'
  BY <1>2 DEF RoomRace, Shown, TInv, TypeOK
<1>4. SeatsOfField'
  BY <1>2 DEF TInv, TypeOK, FieldInv, SeatsOfField, Seated
<1>5. EndsInv => EndsInv'
  <2> SUFFICES ASSUME EndsInv PROVE EndsInv'
      OBVIOUS
  <2>1. \A w \in Workers : duty[w].step \notin {"ended", "results"}
    BY <1>2 DEF EndsInv, EndsSettled, Settled
  <2>2. EndsSettled'
    BY <1>2, <2>1 DEF DecisionsKept, EndsSettled
  <2> QED
    BY <1>1, <1>2, <2>2, SameResultsOfField DEF TablesKept, EndsInv
<1> QED
  BY <1>1, <1>2, <1>3, <1>4, <1>5, SameSessionsOfField, KeptFinishers DEF TablesKept, FieldInv

LEMMA EndedField ==
    ASSUME TInv, FieldInv, NEW w \in Workers, NEW r \in Races, Ended(w, r), Event
    PROVE  FieldInv' /\ (EndsInv => EndsInv')
<1>1. FieldsGrow /\ FieldsAhead'
  BY PhaseEvents DEF FieldInv
<1>2. /\ UNCHANGED <<seats, begun, field>> /\ MindsKept /\ TablesKept
      /\ room.state = "running" /\ room.race = r
      /\ room'.state = "finished" /\ room'.race = r
      /\ duty' = [duty EXCEPT ![w] = [step |-> "ended", race |-> r]]
  BY DEF Ended
<1>3. RoomRace' /\ SeatsOfField'
  BY <1>2 DEF FieldInv, RoomRace, SeatsOfField, Shown, Seated
<1>4. EndsInv => EndsInv'
  <2> SUFFICES ASSUME EndsInv PROVE EndsInv'
      OBVIOUS
  <2>1. \A v \in Workers : duty[v].step \notin {"ended", "results"}
    BY <1>2 DEF EndsInv, EndsSettled, Settled
  <2>2. \A v \in Workers : v # w => duty'[v] = duty[v]
    BY <1>2 DEF TInv, TypeOK
  <2>3. duty'[w] = [step |-> "ended", race |-> r]
    BY <1>2 DEF TInv, TypeOK
  <2>4. EndsSettled'
    BY <1>2, <2>1, <2>2, <2>3 DEF EndsSettled, Settled
  <2> QED
    BY <1>1, <1>2, <2>4, SameResultsOfField DEF TablesKept, EndsInv
<1> QED
  BY <1>1, <1>2, <1>3, <1>4, SameSessionsOfField, KeptFinishers DEF TablesKept, FieldInv

(* Unless play_again overtook it, nothing decided or under way for a race  *)
(* outlives its room.                                                      *)
LEMMA RenewedField ==
    ASSUME TInv, FieldInv, Renewed, Event
    PROVE  FieldInv' /\ (EndsInv /\ "end" \notin overtaken' => EndsInv')
<1>1. FieldsGrow /\ FieldsAhead'
  BY PhaseEvents DEF FieldInv
<1>2. /\ UNCHANGED <<begun, field, duty>> /\ MindsKept /\ TablesKept
      /\ room'.state \in {"lobby", "countdown"} /\ room'.race = NoRace
      /\ DOMAIN seats' = Seated
  BY DEF Renewed
<1>3. RoomRace' /\ SeatsOfField'
  BY <1>2 DEF FieldInv, RoomRace, SeatsOfField, Shown, Seated
<1>4. EndsInv /\ "end" \notin overtaken' => EndsInv'
  <2> SUFFICES ASSUME EndsInv, "end" \notin overtaken' PROVE EndsInv'
      OBVIOUS
  <2>1. \A w \in Workers : duty[w].step \notin {"ended", "results"}
    <3>1. CASE room.state = "lobby"
      BY <3>1 DEF EndsInv, EndsSettled, Settled
    <3>2. CASE overtaken' = overtaken \cup {loose \in LooseEnds : InFlight(loose)}
      BY <3>2 DEF LooseEnds, InFlight, Ending
    <3> QED
      BY <3>1, <3>2 DEF Renewed
  <2>2. EndsSettled'
    BY <1>2, <2>1 DEF EndsSettled
  <2> QED
    BY <1>1, <1>2, <2>2, SameResultsOfField DEF TablesKept, EndsInv
<1> QED
  BY <1>1, <1>2, <1>3, <1>4, SameSessionsOfField, KeptFinishers DEF TablesKept, FieldInv

LEMMA VanishedField ==
    ASSUME TInv, FieldInv, Vanished, Event
    PROVE  FieldInv' /\ (EndsInv => EndsInv')
<1>1. FieldsGrow /\ FieldsAhead'
  BY PhaseEvents DEF FieldInv
<1>2. /\ UNCHANGED <<begun, field>> /\ MindsKept /\ DecisionsKept /\ TablesKept
      /\ room'.state = "none" /\ room'.race = NoRace /\ DOMAIN seats' = {}
  BY DEF Vanished
<1>3. RoomRace' /\ \A r \in Races : Settled(r)'
  BY <1>2 DEF RoomRace, Shown, Settled
<1>4. SeatsOfField'
  BY <1>2, FS_EmptySet DEF SeatsOfField, Shown, Seated
<1> QED
  BY <1>1, <1>2, <1>3, <1>4, SameSessionsOfField, KeptEnds, KeptFinishers DEF TablesKept, FieldInv

LEMMA EnteredField ==
    ASSUME TInv, FieldInv, NEW p \in Players, Entered(p), Event
    PROVE  FieldInv' /\ (EndsInv => EndsInv')
<1>1. FieldsGrow /\ FieldsAhead'
  BY PhaseEvents DEF FieldInv
<1>2. /\ UNCHANGED <<room, begun, field, mind, duty>> /\ MindsKept /\ DecisionsKept /\ TablesKept
      /\ room.state = "lobby" /\ p \notin Seated /\ Cardinality(Seated) < MaxPlayers
      /\ DOMAIN seats' = Seated \cup {p}
  BY DEF Entered, MayEnter
<1>3. RoomRace' /\ \A r \in Races : Settled(r) => Settled(r)'
  BY <1>2 DEF FieldInv, RoomRace, Shown, Settled
<1>4. SeatsOfField'
  <2>1. IsFiniteSet(Seated)
    BY FS_Subset, TypesOfRuns
  <2>2. Cardinality(Seated) \in Nat /\ Cardinality(Seated \cup {p}) = Cardinality(Seated) + 1
    BY <1>2, <2>1, FS_AddElement, FS_CardinalityType
  <2> QED
    BY <1>2, <2>2 DEF SeatsOfField, Shown, Seated
<1> QED
  BY <1>1, <1>2, <1>3, <1>4, SameSessionsOfField, KeptEnds, KeptFinishers DEF TablesKept, FieldInv


LEMMA ReadEndedField ==
    ASSUME TInv, FieldInv, NEW w \in Workers, ReadEnded(w)
    PROVE  FieldInv' /\ (EndsInv => EndsInv')
<1>1. CASE AbandonDuty(w)
  <2>1. Calm
    BY <1>1, AbandonCalm DEF ReadEnded
  <2> QED
    BY <1>1, <2>1, SamePhaseField DEF Calm, TablesKept
<1>2. CASE /\ UNCHANGED pc /\ room.state # "none"
           /\ Do(w, [step |-> "results", race |-> duty[w].race, seen |-> room.race,
                     who |-> Seated,
                     runs |-> [p \in Players |->
                                 IF p \in Seated THEN seats[p].run ELSE NoRun]])
  <2>1. UNCHANGED <<room, seats, sessions, results, pc, mind, begun, field>>
    BY <1>2 DEF ReadEnded, redis, db, story
  <2>2. RoomRace' /\ FieldsAhead' /\ SeatsOfField' /\ SessionsOfField' /\ FinishersEntered'
    BY <2>1 DEF FieldInv, RoomRace, FieldsAhead, SeatsOfField, SessionsOfField, FinishersEntered,
                Shown, Seated
  <2>3. \A v \in Workers : v # w => duty'[v] = duty[v]
    BY <1>2 DEF TInv, TypeOK, Do
  <2>4. duty'[w].race = duty[w].race /\ duty'[w].who = Seated
    BY <1>2 DEF TInv, TypeOK, Do
  <2>5. ASSUME EndsInv PROVE EndsInv'
    <3>1. room.state = "finished" /\ room.race = duty[w].race
      BY <1>2, <2>5 DEF ReadEnded, EndsInv, EndsSettled, Settled
    <3> QED
      BY <2>1, <2>3, <2>4, <2>5, <3>1
         DEF FieldInv, EndsInv, EndsSettled, ResultsOfField, SeatsOfField, Settled, Shown
  <2> QED
    BY <2>2, <2>5 DEF FieldInv
<1> QED
  BY <1>1, <1>2 DEF ReadEnded

LEMMA InsertResultsField ==
    ASSUME TInv, FieldInv, NEW w \in Workers, InsertResults(w)
    PROVE  FieldInv' /\ (EndsInv => EndsInv')
<1>1. UNCHANGED <<room, seats, sessions, pc, mind, begun, field>>
      /\ Do(w, [step |-> "over", race |-> duty[w].race])
  BY DEF InsertResults, redis, story
<1>2. FieldInv'
  BY <1>1 DEF FieldInv, RoomRace, FieldsAhead, SeatsOfField, SessionsOfField, FinishersEntered,
              Shown, Seated
<1> SUFFICES ASSUME EndsInv PROVE EndsInv'
  BY <1>2
<1>3. EndsSettled'
  BY <1>1 DEF TInv, TypeOK, Do, EndsInv, EndsSettled, Settled
<1>4. ResultsOfField'
  <2>1. CASE results' = results
    BY <1>1, <2>1 DEF EndsInv, ResultsOfField
  <2>2. CASE results' = [results EXCEPT ![duty[w].race] =
                            InsertMissing(@, duty[w].who, duty[w].runs)]
    <3>1. duty[w].race \in Races /\ duty[w].who \subseteq field[duty[w].race]
      BY TypesOfRuns, DutyUsed DEF InsertResults, EndsInv, EndsSettled
    <3>2. DOMAIN results'[duty[w].race] = DOMAIN results[duty[w].race] \cup duty[w].who
      BY <2>2, <3>1 DEF TInv, TypeOK, InsertMissing
    <3>3. \A r \in Races : r # duty[w].race => results'[r] = results[r]
      BY <2>2 DEF TInv, TypeOK
    <3> QED
      BY <1>1, <3>1, <3>2, <3>3 DEF EndsInv, ResultsOfField
  <2> QED
    BY <2>1, <2>2 DEF InsertResults
<1> QED
  BY <1>3, <1>4 DEF EndsInv

LEMMA ReadMaybeEndField ==
    ASSUME TInv, FieldInv, NEW w \in Workers, ReadMaybeEnd(w)
    PROVE  FieldInv' /\ (EndsInv => EndsInv')
<1>1. UNCHANGED <<room, seats, sessions, results, pc, mind, begun, field>>
  BY DEF ReadMaybeEnd, redis, db, story
<1>2. FieldInv'
  BY <1>1 DEF FieldInv, RoomRace, FieldsAhead, SeatsOfField, SessionsOfField, FinishersEntered,
              Shown, Seated
<1>3. \A v \in Workers : duty'[v].step \in {"ended", "results"} => duty'[v] = duty[v]
  BY DEF ReadMaybeEnd, Do, Idle, TInv, TypeOK
<1>4. EndsInv => EndsInv'
  BY <1>1, <1>3 DEF EndsInv, EndsSettled, ResultsOfField, Settled
<1> QED
  BY <1>2, <1>4

LEMMA FinishField ==
    ASSUME TInv, FieldInv, NEW s \in Sockets,
           FinishCheck(s) \/ FinishRecord(s) \/ FinishPlace(s) \/ FinishPatch(s)
    PROVE  FieldInv' /\ (EndsInv => EndsInv')
<1>1. UNCHANGED <<results, duty, begun, field>>
      /\ room'.state = room.state /\ room'.race = room.race
  BY DEF FinishCheck, FinishRecord, FinishPlace, FinishPatch, redis, db, story,
         TInv, TypeOK, Room
<1>2. DOMAIN seats' = Seated
  BY DEF FinishCheck, FinishRecord, FinishPlace, FinishPatch, redis, Seated
<1>3. RoomRace' /\ FieldsAhead' /\ SeatsOfField' /\ (EndsInv => EndsInv')
  BY <1>1, <1>2 DEF FieldInv, RoomRace, FieldsAhead, SeatsOfField, EndsInv, EndsSettled,
                    ResultsOfField, Settled, Shown, Seated
<1>4. \A t \in Sockets : t # s => pc'[t] = pc[t] /\ mind'[t] = mind[t]
  BY DEF FinishCheck, FinishRecord, FinishPlace, FinishPatch, Goto, Forget, TInv, TypeOK
<1>5. pc'[s] = "record" =>
          mind'[s].race \in Races /\ Owner[s] \in field[mind'[s].race]
  <2>1. CASE FinishCheck(s) /\ MayFinish(Owner[s])
    <3>1. mind'[s].race = room.race /\ room.race \in Races
      BY <2>1 DEF FinishCheck, MayFinish, TInv, TypeOK, RaceKnown, Blank
    <3> QED
      BY <2>1, <3>1 DEF MayFinish, FieldInv, SeatsOfField, Shown
  <2>2. CASE pc'[s] # "record"
    BY <2>2
  <2> QED
    BY <2>1, <2>2 DEF FinishCheck, FinishRecord, FinishPlace, FinishPatch, Goto, TInv, TypeOK
<1>6. FinishersEntered'
  BY <1>1, <1>4, <1>5 DEF FieldInv, FinishersEntered
<1>7. SessionsOfField'
  <2>1. CASE sessions' = sessions
    BY <1>1, <2>1 DEF FieldInv, SessionsOfField
  <2>2. CASE /\ pc[s] = "record"
             /\ sessions' = [sessions EXCEPT ![mind[s].race][Owner[s]] = @ + 1]
    <3> DEFINE r == mind[s].race
               p == Owner[s]
    <3>1. r \in Races /\ p \in Players /\ p \in field[r]
      BY <2>2 DEF FieldInv, FinishersEntered
    <3>2. \A q \in Races, x \in Players :
              sessions'[q][x] > 0 => sessions[q][x] > 0 \/ (q = r /\ x = p)
      BY <2>2, <3>1 DEF TInv, TypeOK
    <3> HIDE DEF r, p
    <3> QED
      BY <1>1, <3>1, <3>2 DEF FieldInv, SessionsOfField
  <2> QED
    BY <2>1, <2>2 DEF FinishCheck, FinishRecord, FinishPlace, FinishPatch, db
<1> QED
  BY <1>3, <1>6, <1>7 DEF FieldInv

LEMMA InitField == Init => FieldInv /\ EndsInv
<1> SUFFICES ASSUME Init PROVE FieldInv /\ EndsInv
    OBVIOUS
<1>1. room.state = "lobby" /\ room.race = NoRace /\ Seated = {}
  BY DEF Init, FreshRoom, EmptyHash, Seated
<1>2. Cardinality(Seated) <= MaxPlayers
  BY <1>1, FS_EmptySet
<1>3. RoomRace /\ FieldsAhead /\ SeatsOfField
  BY <1>1, <1>2 DEF Init, RoomRace, FieldsAhead, SeatsOfField, Shown
<1>4. SessionsOfField /\ FinishersEntered
  BY DEF Init, SessionsOfField, FinishersEntered
<1>5. EndsInv
  BY DEF Init, EndsInv, EndsSettled, ResultsOfField, EmptyHash, Idle
<1> QED
  BY <1>3, <1>4, <1>5 DEF FieldInv

LEMMA StepField ==
    TInv /\ FieldInv /\ [Next]_vars
        => FieldInv' /\ (EndsInv /\ "end" \notin overtaken' => EndsInv')
<1> DEFINE Next_ == FieldInv' /\ (EndsInv /\ "end" \notin overtaken' => EndsInv')
<1> SUFFICES ASSUME TInv, FieldInv, [Next]_vars PROVE Next_
    OBVIOUS
<1>1. Event
  BY StepEvent
<1>2. CASE Calm
  BY <1>2, SamePhaseField DEF Calm, TablesKept
<1>3. ASSUME NEW s \in Sockets, Entered(Owner[s]) PROVE Next_
  BY <1>1, <1>3, EnteredField
<1>4. ASSUME NEW w \in Workers, NEW r \in Races, Ended(w, r) PROVE Next_
  BY <1>1, <1>4, EndedField
<1>5. ASSUME NEW w \in Workers, ReadEnded(w) \/ InsertResults(w) \/ ReadMaybeEnd(w) PROVE Next_
  BY <1>5, ReadEndedField, InsertResultsField, ReadMaybeEndField
<1>6. ASSUME NEW s \in Sockets,
             FinishCheck(s) \/ FinishRecord(s) \/ FinishPlace(s) \/ FinishPatch(s)
      PROVE  Next_
  BY <1>6, FinishField
<1>7. CASE Went \/ Vanished
  BY <1>1, <1>7, WentField, VanishedField
<1>8. CASE Renewed
  BY <1>1, <1>8, RenewedField
<1> HIDE DEF Next_
<1> QED
  BY <1>1, <1>2, <1>3, <1>4, <1>5, <1>6, <1>7, <1>8 DEF Event

LEMMA AlwaysField == Spec => [](FieldInv /\ ("end" \notin overtaken => EndsInv))
<1> DEFINE Inv == FieldInv /\ ("end" \notin overtaken => EndsInv)
<1>1. Init => Inv
  BY InitField
<1>2. TInv /\ Inv /\ [Next]_vars => Inv'
  BY StepField, StepOvertaken
<1> QED
  BY <1>1, <1>2, AlwaysTInv, PTL DEF Spec

(* Only who was seated when a race began is in the room while it is run or  *)
(* shown or has a session for it, and alone has a row in its results unless *)
(* play_again overtook its end; and the room never holds more than         *)
(* MAX_PLAYERS, however many join at once.                                 *)
THEOREM FieldFixed == Spec => []OnlyTheField
<1>1. FieldInv /\ ("end" \notin overtaken => EndsInv) => OnlyTheField
  BY DEF FieldInv, EndsInv, SeatsOfField, SessionsOfField, ResultsOfField, Shown, OnlyTheField
<1> QED
  BY <1>1, AlwaysField, PTL


-----------------------------------------------------------------------------
(* The places.  A place is taken from the counter first and shown later, so *)
(* the invariant covers the places on their way: in a handler's memory      *)
(* between HINCRBY and the patch, and in the copy _end_race() takes.  It is *)
(* an invariant until a play_again overtakes a finish() or an _end_race(). *)

(* A finish past its checks is for the race the room shows. *)
FinishesOfRace ==
    \A s \in Sockets : pc[s] \in {"record", "place", "patch"} =>
        room.state = "none" \/ (Shown /\ room.race = mind[s].race)

Unplaced == \A s \in Sockets : pc[s] \in {"record", "place"} => mind[s].place = 0

(* Places have been given out, once each, up to room.places. *)
PlacesGiven ==
    room.state # "none" =>
        /\ \A p \in Seated : /\ seats[p].run.place <= room.places
                             /\ seats[p].run.race \in {NoRace, room.race}
        /\ \A s \in Sockets : pc[s] = "patch" => mind[s].place <= room.places
        /\ \A p, q \in Seated :
              seats[p].run.place > 0 /\ seats[p].run.place = seats[q].run.place => p = q
        /\ \A p \in Seated, s \in Sockets :
              pc[s] = "patch" /\ mind[s].place > 0 => mind[s].place # seats[p].run.place
        /\ \A s, t \in Sockets :
              pc[s] = "patch" /\ pc[t] = "patch" /\ mind[s].place > 0
                /\ mind[s].place = mind[t].place => s = t

(* The results about to be written, those written, and when. *)
OfRace(runs, r) == DistinctPlaces(runs) /\ \A p \in DOMAIN runs : runs[p].race \in {NoRace, r}

CopiesPlaced ==
    \A w \in Workers :
        /\ duty[w].step = "results" => OfRace(duty[w].runs, duty[w].race)
        /\ duty[w].step \in {"ended", "results"} => DOMAIN results[duty[w].race] = {}
ResultsPlaced ==
    \A r \in Races : OfRace(results[r], r) /\ (DOMAIN results[r] # {} => Past(r))

PlacesInv == FinishesOfRace /\ Unplaced /\ PlacesGiven /\ CopiesPlaced /\ ResultsPlaced

-----------------------------------------------------------------------------
(* A race that is past stays so. *)
LEMMA PastStays ==
    ASSUME TInv, FieldInv, Event
    PROVE  \A r \in Races : Past(r) => Past(r)'
<1>1. begun \in Nat
  BY DEF TInv, TypeOK
<1>2. CASE Went
  BY <1>1, <1>2 DEF Went, Past, Races
<1>3. CASE UNCHANGED begun /\ (room'.state = "running" => room.state = "running" /\ room'.race = room.race)
  BY <1>3 DEF Past
<1>4. CASE \/ Calm \/ Renewed \/ Vanished
           \/ \E s \in Sockets : Entered(Owner[s])
           \/ \E w \in Workers : \E r \in Races : Ended(w, r)
  BY <1>3, <1>4 DEF Calm, PhaseKept, Renewed, Vanished, Entered, Ended
<1>5. CASE \E w \in Workers : ReadEnded(w) \/ InsertResults(w) \/ ReadMaybeEnd(w)
  BY <1>3, <1>5 DEF ReadEnded, InsertResults, ReadMaybeEnd, redis, story
<1>6. CASE \E s \in Sockets : FinishCheck(s) \/ FinishRecord(s) \/ FinishPlace(s) \/ FinishPatch(s)
  BY <1>3, <1>6 DEF FinishCheck, FinishRecord, FinishPlace, FinishPatch, redis, story,
                    TInv, TypeOK, Room
<1> QED
  BY <1>2, <1>4, <1>5, <1>6 DEF Event

LEMMA SameResultsPlaced ==
    ASSUME TInv, FieldInv, Event, ResultsPlaced, UNCHANGED results
    PROVE  ResultsPlaced'
BY PastStays DEF ResultsPlaced

LEMMA KeptCopies ==
    ASSUME CopiesPlaced, DecisionsKept, UNCHANGED results
    PROVE  CopiesPlaced'
BY DEF CopiesPlaced, DecisionsKept

LEMMA KeptFinishes ==
    ASSUME Unplaced, MindsKept
    PROVE  Unplaced'
BY DEF Unplaced, MindsKept

LEMMA KeptPlaces ==
    ASSUME TInv, PlacesInv, MindsKept, RunsKept, room'.state # "none" => room.state # "none",
           room'.places = room.places,
           room.race = NoRace \/ room'.race = room.race
    PROVE  PlacesGiven'
<1> SUFFICES ASSUME room'.state # "none" PROVE PlacesGiven'
    BY DEF PlacesGiven
<1> USE DEF PlacesInv, PlacesGiven
<1>1. \A p \in DOMAIN seats' : seats'[p].run.place > 0 =>
          p \in Seated /\ seats'[p].run = seats[p].run
  BY DEF RunsKept, NoRun
<1>2. \A p \in DOMAIN seats' : /\ seats'[p].run.place <= room'.places
                               /\ seats'[p].run.race \in {NoRace, room'.race}
  <2>1. room.places \in Nat
    BY DEF TInv, TypeOK, Room
  <2>2. ASSUME NEW p \in DOMAIN seats', seats'[p].run # NoRun
        PROVE  p \in Seated /\ seats'[p].run = seats[p].run
    BY <2>2 DEF RunsKept
  <2>3. \A p \in Seated : /\ seats[p].run.place <= room'.places
                          /\ seats[p].run.race \in {NoRace, room'.race}
    OBVIOUS
  <2>4. NoRun.place = 0 /\ NoRun.race = NoRace
    BY DEF NoRun
  <2> QED
    BY <2>1, <2>2, <2>3, <2>4
<1>3. \A s \in Sockets : pc'[s] = "patch" => pc[s] = "patch" /\ mind'[s] = mind[s]
  BY DEF MindsKept
<1>4. \A p \in Seated : seats[p].run.place \in Nat
  BY TypesOfRuns DEF Run
<1>5. \A s \in Sockets : mind[s].place \in Nat
  BY TypesOfRuns DEF Mind
<1>6. \A p \in DOMAIN seats' : seats'[p].run.place = 0 \/ (p \in Seated /\ seats'[p].run = seats[p].run)
  BY DEF RunsKept, NoRun
<1>7. \A p \in DOMAIN seats', s \in Sockets :
          pc'[s] = "patch" /\ mind'[s].place > 0 => mind'[s].place # seats'[p].run.place
  BY <1>3, <1>5, <1>6
<1> QED
  BY <1>1, <1>2, <1>3, <1>7 DEF Seated


LEMMA CalmPlaces ==
    ASSUME TInv, FieldInv, PlacesInv, Calm, Event
    PROVE  PlacesInv'
<1>1. /\ MindsKept /\ DecisionsKept /\ RunsKept /\ UNCHANGED results
      /\ room'.state = room.state /\ room'.race = room.race /\ room'.places = room.places
  BY DEF Calm, TablesKept, PhaseKept
<1>2. FinishesOfRace'
  BY <1>1 DEF PlacesInv, FinishesOfRace, MindsKept, Shown
<1> QED
  BY <1>1, <1>2, KeptPlaces, KeptFinishes, KeptCopies, SameResultsPlaced DEF PlacesInv

LEMMA WentPlaces ==
    ASSUME TInv, FieldInv, PlacesInv, Went, Event
    PROVE  PlacesInv'
<1>1. /\ MindsKept /\ DecisionsKept /\ UNCHANGED <<seats, results>>
      /\ room.state = "countdown" /\ room'.state = "running" /\ room'.places = room.places
  BY DEF Went, TablesKept
<1>2. room.race = NoRace
  BY <1>1 DEF FieldInv, RoomRace, Shown
<1>3. FinishesOfRace'
  BY <1>1 DEF PlacesInv, FinishesOfRace, MindsKept, Shown
<1> QED
  BY <1>1, <1>2, <1>3, SameRuns, KeptPlaces, KeptFinishes, KeptCopies, SameResultsPlaced
     DEF PlacesInv

LEMMA EndedPlaces ==
    ASSUME TInv, FieldInv, PlacesInv, NEW w \in Workers, NEW r \in Races, Ended(w, r), Event
    PROVE  PlacesInv'
<1>1. /\ MindsKept /\ UNCHANGED <<seats, results, begun>>
      /\ room.state = "running" /\ room.race = r
      /\ room'.state = "finished" /\ room'.race = r /\ room'.places = room.places
      /\ duty' = [duty EXCEPT ![w] = [step |-> "ended", race |-> r]]
  BY DEF Ended, TablesKept
<1>2. FinishesOfRace'
  BY <1>1 DEF PlacesInv, FinishesOfRace, MindsKept, Shown
<1>3. CopiesPlaced'
  <2>1. DOMAIN results[r] = {}
    BY <1>1 DEF PlacesInv, ResultsPlaced, Past
  <2>2. \A v \in Workers : v # w => duty'[v] = duty[v]
    BY <1>1 DEF TInv, TypeOK
  <2>3. duty'[w] = [step |-> "ended", race |-> r]
    BY <1>1 DEF TInv, TypeOK
  <2> QED
    BY <1>1, <2>1, <2>2, <2>3 DEF PlacesInv, CopiesPlaced
<1> QED
  BY <1>1, <1>2, <1>3, SameRuns, KeptPlaces, KeptFinishes, SameResultsPlaced DEF PlacesInv

LEMMA RenewedPlaces ==
    ASSUME TInv, FieldInv, PlacesInv, Renewed, Event, overtaken' = {}
    PROVE  PlacesInv'
<1>1. /\ MindsKept /\ DecisionsKept /\ UNCHANGED results
      /\ room'.places = 0 /\ DOMAIN seats' = Seated /\ \A p \in Seated : seats'[p].run = NoRun
  BY DEF Renewed, TablesKept
<1>2. \A s \in Sockets : pc[s] \notin {"record", "place", "patch"}
  <2>1. CASE room.state = "lobby"
    BY <2>1 DEF PlacesInv, FinishesOfRace, Shown
  <2>2. CASE overtaken' = overtaken \cup {loose \in LooseEnds : InFlight(loose)}
    BY <2>2 DEF LooseEnds, InFlight, Finishing
  <2> QED
    BY <2>1, <2>2 DEF Renewed
<1>3. \A s \in Sockets : pc'[s] \notin {"record", "place", "patch"}
  BY <1>1, <1>2 DEF MindsKept
<1>4. FinishesOfRace' /\ Unplaced'
  BY <1>3 DEF FinishesOfRace, Unplaced
<1>5. PlacesGiven'
  BY <1>1, <1>3 DEF PlacesGiven, NoRun, Seated
<1> QED
  BY <1>1, <1>4, <1>5, KeptCopies, SameResultsPlaced DEF PlacesInv

LEMMA VanishedPlaces ==
    ASSUME TInv, FieldInv, PlacesInv, Vanished, Event
    PROVE  PlacesInv'
<1>1. MindsKept /\ DecisionsKept /\ UNCHANGED results /\ room'.state = "none"
  BY DEF Vanished, TablesKept
<1> QED
  BY <1>1, KeptFinishes, KeptCopies, SameResultsPlaced
     DEF PlacesInv, FinishesOfRace, PlacesGiven

LEMMA EnteredPlaces ==
    ASSUME TInv, FieldInv, PlacesInv, NEW p \in Players, Entered(p), Event
    PROVE  PlacesInv'
<1>1. MindsKept /\ DecisionsKept /\ RunsKept /\ UNCHANGED <<room, results>>
  BY DEF Entered, TablesKept
<1>2. FinishesOfRace'
  BY <1>1 DEF PlacesInv, FinishesOfRace, MindsKept, Shown
<1> QED
  BY <1>1, <1>2, KeptPlaces, KeptFinishes, KeptCopies, SameResultsPlaced DEF PlacesInv

LEMMA ReadEndedPlaces ==
    ASSUME TInv, FieldInv, EndsInv, PlacesInv, NEW w \in Workers, ReadEnded(w), Event
    PROVE  PlacesInv'
<1>1. CASE AbandonDuty(w)
  <2>1. Calm
    BY <1>1, AbandonCalm DEF ReadEnded
  <2> QED
    BY <2>1, CalmPlaces
<1>2. CASE /\ UNCHANGED pc /\ room.state # "none"
           /\ Do(w, [step |-> "results", race |-> duty[w].race, seen |-> room.race,
                     who |-> Seated,
                     runs |-> [p \in Players |->
                                 IF p \in Seated THEN seats[p].run ELSE NoRun]])
  <2> DEFINE runs == [p \in Players |-> IF p \in Seated THEN seats[p].run ELSE NoRun]
  <2>1. UNCHANGED <<room, seats, results, pc, mind>> /\ duty[w].step = "ended"
    BY <1>2 DEF ReadEnded, redis, db
  <2>2. FinishesOfRace' /\ Unplaced' /\ PlacesGiven' /\ ResultsPlaced'
    BY <2>1, SameResultsPlaced
       DEF PlacesInv, FinishesOfRace, Unplaced, PlacesGiven, Seated, Shown
  <2>3. \A v \in Workers : v # w => duty'[v] = duty[v]
    BY <1>2 DEF TInv, TypeOK, Do
  <2>4. duty'[w].race = duty[w].race /\ duty'[w].runs = runs
    BY <1>2 DEF TInv, TypeOK, Do
  <2>5. room.state = "finished" /\ room.race = duty[w].race
    BY <1>2, <2>1 DEF EndsInv, EndsSettled, Settled
  <2>6. OfRace(runs, duty[w].race)
    <3>1. \A p \in Players : runs[p] = IF p \in Seated THEN seats[p].run ELSE NoRun
      OBVIOUS
    <3>2. DOMAIN runs = Players
      OBVIOUS
    <3>3. \A p \in Seated : seats[p].run.race \in {NoRace, duty[w].race}
      BY <1>2, <2>5 DEF PlacesInv, PlacesGiven
    <3>4. \A p, q \in Seated :
              seats[p].run.place > 0 /\ seats[p].run.place = seats[q].run.place => p = q
      BY <1>2 DEF PlacesInv, PlacesGiven
    <3> HIDE DEF runs
    <3>5. \A p \in Players : runs[p].place > 0 => p \in Seated /\ runs[p] = seats[p].run
      BY <3>1 DEF NoRun
    <3> QED
      BY <3>1, <3>2, <3>3, <3>4, <3>5 DEF OfRace, DistinctPlaces, Placed, NoRun
  <2>7. CopiesPlaced'
    <3> HIDE DEF runs
    <3> QED
      BY <2>1, <2>3, <2>4, <2>6 DEF PlacesInv, CopiesPlaced
  <2> QED
    BY <2>2, <2>7 DEF PlacesInv
<1> QED
  BY <1>1, <1>2 DEF ReadEnded

(* The rows of a race are written by one worker, and there were none.      *)
LEMMA InsertResultsPlaces ==
    ASSUME TInv, Once, FieldInv, PlacesInv, NEW w \in Workers, InsertResults(w), Event
    PROVE  PlacesInv'
<1> DEFINE r == duty[w].race
<1>1. /\ UNCHANGED <<room, seats, pc, mind, begun>> /\ duty[w].step = "results"
      /\ Do(w, [step |-> "over", race |-> r])
  BY DEF InsertResults, redis, story
<1>2. FinishesOfRace' /\ Unplaced' /\ PlacesGiven'
  BY <1>1 DEF PlacesInv, FinishesOfRace, Unplaced, PlacesGiven, Seated, Shown
<1>3. /\ r \in Races /\ duty[w].who \subseteq Players /\ DOMAIN duty[w].runs = Players
      /\ OfRace(duty[w].runs, r) /\ DOMAIN results[r] = {}
  BY <1>1, TypesOfRuns, DutyUsed DEF PlacesInv, CopiesPlaced
<1>4. Past(r)
  BY <1>1, <1>3 DEF Once, OverOnce, ToEnd
<1>5. \A v \in Workers : v # w /\ duty[v].step \in {"ended", "results"} => duty[v].race # r
  BY <1>1, <1>3 DEF Once, OverOnce, ToEnd
<1>6. \A q \in Races : Past(q)' <=> Past(q)
  BY <1>1 DEF Past
<1>7. \A v \in Workers : /\ v # w => duty'[v] = duty[v]
                         /\ v = w => duty'[v].step = "over"
  BY <1>1 DEF Do, TInv, TypeOK
<1>8. CASE results' = results
  BY <1>1, <1>2, <1>6, <1>7, <1>8 DEF PlacesInv, CopiesPlaced, ResultsPlaced
<1>9. CASE results' = [results EXCEPT ![r] = InsertMissing(@, duty[w].who, duty[w].runs)]
  <2> HIDE DEF r
  <2>1. \A q \in Races : q # r => results'[q] = results[q]
    BY <1>9 DEF TInv, TypeOK
  <2>2. results'[r] = InsertMissing(results[r], duty[w].who, duty[w].runs)
    BY <1>3, <1>9 DEF TInv, TypeOK
  <2>3. DOMAIN results'[r] = duty[w].who /\ \A p \in duty[w].who : results'[r][p] = duty[w].runs[p]
    BY <1>3, <2>2 DEF InsertMissing
  <2>4. OfRace(results'[r], r)
    BY <1>3, <2>3 DEF OfRace, DistinctPlaces, Placed
  <2>5. ResultsPlaced'
    BY <1>4, <1>6, <2>1, <2>4 DEF PlacesInv, ResultsPlaced
  <2>6. \A v \in Workers : v # w /\ duty[v].step \in {"ended", "results"} => duty[v].race \in Races
    BY TypesOfRuns, DutyUsed
  <2>7. CopiesPlaced'
    BY <1>5, <1>7, <2>1, <2>6 DEF PlacesInv, CopiesPlaced
  <2> QED
    BY <1>2, <2>5, <2>7 DEF PlacesInv
<1> QED
  BY <1>8, <1>9 DEF InsertResults


LEMMA ReadMaybeEndPlaces ==
    ASSUME TInv, FieldInv, PlacesInv, NEW w \in Workers, ReadMaybeEnd(w), Event
    PROVE  PlacesInv'
<1>1. UNCHANGED <<room, seats, results, pc, mind>>
  BY DEF ReadMaybeEnd, redis, db
<1>2. FinishesOfRace' /\ Unplaced' /\ PlacesGiven'
  BY <1>1 DEF PlacesInv, FinishesOfRace, Unplaced, PlacesGiven, Seated, Shown
<1>3. \A v \in Workers : duty'[v].step \in {"ended", "results"} => duty'[v] = duty[v]
  BY DEF ReadMaybeEnd, Do, Idle, TInv, TypeOK
<1>4. CopiesPlaced'
  BY <1>1, <1>3 DEF PlacesInv, CopiesPlaced
<1> QED
  BY <1>1, <1>2, <1>4, SameResultsPlaced DEF PlacesInv

(* A finish changes the memory of one handler and at most one seat.        *)
LEMMA FinishStep ==
    ASSUME TInv, NEW s \in Sockets,
           FinishCheck(s) \/ FinishRecord(s) \/ FinishPlace(s) \/ FinishPatch(s)
    PROVE  /\ \A t \in Sockets : t # s => pc'[t] = pc[t] /\ mind'[t] = mind[t]
           /\ UNCHANGED <<results, duty>>
           /\ room'.state = room.state /\ room'.race = room.race
BY DEF FinishCheck, FinishRecord, FinishPlace, FinishPatch, Goto, Forget, redis, db,
       TInv, TypeOK, Room

LEMMA FinishOthers ==
    ASSUME TInv, FieldInv, PlacesInv, Event, NEW s \in Sockets,
           FinishCheck(s) \/ FinishRecord(s) \/ FinishPlace(s) \/ FinishPatch(s),
           pc'[s] \in {"record", "place", "patch"} =>
               room.state = "none" \/ (Shown /\ room.race = mind'[s].race),
           pc'[s] \in {"record", "place"} => mind'[s].place = 0
    PROVE  FinishesOfRace' /\ Unplaced' /\ CopiesPlaced' /\ ResultsPlaced'
<1>1. FinishesOfRace' /\ Unplaced'
  BY FinishStep DEF PlacesInv, FinishesOfRace, Unplaced, Shown
<1> QED
  BY <1>1, FinishStep, SameResultsPlaced DEF PlacesInv, CopiesPlaced

LEMMA FinishCheckPlaces ==
    ASSUME TInv, FieldInv, PlacesInv, NEW s \in Sockets, FinishCheck(s), Event
    PROVE  PlacesInv'
<1>1. UNCHANGED redis /\ pc'[s] \in {"record", "open"}
      /\ (pc'[s] = "record" => MayFinish(Owner[s]) /\ mind'[s] = [Blank EXCEPT !.race = room.race])
  BY DEF FinishCheck, Goto, TInv, TypeOK
<1>2. pc'[s] = "record" => Shown /\ mind'[s].race = room.race /\ mind'[s].place = 0
  BY <1>1 DEF MayFinish, Shown, Blank
<1>3. PlacesGiven'
  BY <1>1, FinishStep DEF PlacesInv, PlacesGiven, redis, Seated
<1> QED
  BY <1>1, <1>2, <1>3, FinishOthers DEF PlacesInv

LEMMA FinishRecordPlaces ==
    ASSUME TInv, FieldInv, PlacesInv, NEW s \in Sockets, FinishRecord(s), Event
    PROVE  PlacesInv'
<1>1. UNCHANGED redis /\ pc[s] = "record" /\ pc'[s] \in {"place", "patch", "open"}
  BY DEF FinishRecord, Goto, TInv, TypeOK
<1>2. pc'[s] # "open" => \E valid \in BOOLEAN : mind' = [mind EXCEPT ![s].valid = valid]
  BY DEF FinishRecord, Goto, TInv, TypeOK
<1>3. pc'[s] # "open" => mind'[s].race = mind[s].race /\ mind'[s].place = 0
  BY <1>1, <1>2, TypesOfRuns DEF PlacesInv, Unplaced, Mind, TInv, TypeOK
<1>4. room.state = "none" \/ (Shown /\ room.race = mind[s].race)
  BY <1>1 DEF PlacesInv, FinishesOfRace
<1>5. PlacesGiven'
  <2>1. room.places \in Nat
    BY DEF TInv, TypeOK, Room
  <2>2. \A t \in Sockets : pc'[t] = "patch" =>
            mind'[t].place = 0 \/ (pc[t] = "patch" /\ mind'[t] = mind[t])
    BY <1>1, <1>3, FinishStep
  <2> QED
    BY <1>1, <2>1, <2>2 DEF PlacesInv, PlacesGiven, redis, Seated
<1> QED
  BY <1>1, <1>3, <1>4, <1>5, FinishOthers DEF PlacesInv

(* HINCRBY: the new place is above every place seated or on its way.       *)
LEMMA FinishPlacePlaces ==
    ASSUME TInv, FieldInv, PlacesInv, NEW s \in Sockets, FinishPlace(s), Event
    PROVE  PlacesInv'
<1>1. UNCHANGED seats /\ pc[s] = "place" /\ pc'[s] = "patch"
  BY DEF FinishPlace, Goto, TInv, TypeOK
<1>2. room.places \in Nat /\ room'.places = room.places + 1
  BY DEF FinishPlace, TInv, TypeOK, Room
<1>3. mind'[s].place = room.places + 1 /\ mind'[s].race = mind[s].race
  BY TypesOfRuns DEF FinishPlace, TInv, TypeOK, Mind
<1>4. room.state = "none" \/ (Shown /\ room.race = mind[s].race)
  BY <1>1 DEF PlacesInv, FinishesOfRace
<1>5. PlacesGiven'
  <2>1. \A p \in Seated : seats[p].run.place \in Nat
    BY TypesOfRuns DEF Run
  <2>2. \A t \in Sockets : mind[t].place \in Nat
    BY TypesOfRuns DEF Mind
  <2> SUFFICES ASSUME room.state # "none" PROVE PlacesGiven'
    BY FinishStep DEF PlacesGiven
  <2>3. \A p \in Seated : /\ seats[p].run.place <= room.places
                          /\ seats[p].run.race \in {NoRace, room.race}
    BY DEF PlacesInv, PlacesGiven
  <2>4. \A t \in Sockets : pc'[t] = "patch" =>
            \/ t = s
            \/ pc[t] = "patch" /\ mind'[t] = mind[t] /\ mind[t].place <= room.places
    BY FinishStep DEF PlacesInv, PlacesGiven
  <2>5. \A p \in Seated : /\ seats[p].run.place <= room'.places
                          /\ seats[p].run.race \in {NoRace, room'.race}
    BY <1>2, <2>1, <2>3, FinishStep
  <2>6. \A t \in Sockets : pc'[t] = "patch" => mind'[t].place <= room'.places
    BY <1>2, <1>3, <2>2, <2>4
  <2>7. \A p \in Seated, t \in Sockets :
            pc'[t] = "patch" /\ mind'[t].place > 0 => mind'[t].place # seats[p].run.place
    BY <1>2, <1>3, <2>1, <2>3, <2>4 DEF PlacesInv, PlacesGiven
  <2>8. \A t, u \in Sockets :
            pc'[t] = "patch" /\ pc'[u] = "patch" /\ mind'[t].place > 0
              /\ mind'[t].place = mind'[u].place => t = u
    BY <1>2, <1>3, <2>2, <2>4 DEF PlacesInv, PlacesGiven
  <2> QED
    BY <1>1, <2>5, <2>6, <2>7, <2>8 DEF PlacesInv, PlacesGiven, Seated
<1> QED
  BY <1>1, <1>3, <1>4, <1>5, FinishOthers DEF PlacesInv

LEMMA FinishPatchPlaces ==
    ASSUME TInv, FieldInv, PlacesInv, NEW s \in Sockets, FinishPatch(s), Event
    PROVE  PlacesInv'
<1>1. UNCHANGED room /\ pc[s] = "patch" /\ pc'[s] = "first"
  BY DEF FinishPatch, Goto, TInv, TypeOK
<1>2. \A t \in Sockets : pc'[t] = "patch" => t # s /\ pc[t] = "patch" /\ mind'[t] = mind[t]
  BY <1>1, FinishStep
<1>3. PlacesGiven'
  <2> SUFFICES ASSUME room.state # "none" PROVE PlacesGiven'
    BY <1>1 DEF PlacesGiven
  <2>1. CASE seats' = seats
    BY <1>1, <1>2, <2>1 DEF PlacesInv, PlacesGiven, Seated
  <2>2. CASE /\ Owner[s] \in Seated
             /\ seats' = [seats EXCEPT ![Owner[s]].run =
                             [race |-> mind[s].race, place |-> mind[s].place]]
    <3>1. DOMAIN seats' = Seated /\ \A p \in Seated : p # Owner[s] => seats'[p] = seats[p]
      BY <2>2 DEF Seated
    <3>2. seats'[Owner[s]].run.race = mind[s].race /\ seats'[Owner[s]].run.place = mind[s].place
      BY <2>2 DEF TInv, TypeOK, Hash, Seat, Seated
    <3>3. mind[s].race = room.race /\ mind[s].place <= room.places
      BY <1>1 DEF PlacesInv, FinishesOfRace, PlacesGiven
    <3>4. \A p \in Seated : /\ seats'[p].run.place <= room.places
                            /\ seats'[p].run.race \in {NoRace, room.race}
      BY <3>1, <3>2, <3>3 DEF PlacesInv, PlacesGiven
    <3>5. \A p, q \in Seated :
              seats'[p].run.place > 0 /\ seats'[p].run.place = seats'[q].run.place => p = q
      <4>1. \A p \in Seated : mind[s].place > 0 => mind[s].place # seats[p].run.place
        BY <1>1 DEF PlacesInv, PlacesGiven
      <4>2. \A p, q \in Seated :
                seats[p].run.place > 0 /\ seats[p].run.place = seats[q].run.place => p = q
        BY DEF PlacesInv, PlacesGiven
      <4> QED
        BY <3>1, <3>2, <4>1, <4>2
    <3>6. \A p \in Seated, t \in Sockets :
              pc'[t] = "patch" /\ mind'[t].place > 0 => mind'[t].place # seats'[p].run.place
      <4>1. \A t \in Sockets : pc'[t] = "patch" /\ mind'[t].place > 0 => mind'[t].place # mind[s].place
        BY <1>1, <1>2 DEF PlacesInv, PlacesGiven
      <4>2. \A p \in Seated, t \in Sockets :
                pc[t] = "patch" /\ mind[t].place > 0 => mind[t].place # seats[p].run.place
        BY DEF PlacesInv, PlacesGiven
      <4> QED
        BY <1>2, <3>1, <3>2, <4>1, <4>2
    <3> QED
      BY <1>1, <1>2, <3>1, <3>4, <3>5, <3>6 DEF PlacesInv, PlacesGiven, Seated
  <2> QED
    BY <2>1, <2>2 DEF FinishPatch
<1> QED
  BY <1>1, <1>3, FinishOthers DEF PlacesInv

LEMMA InitPlaces == Init => PlacesInv
<1> SUFFICES ASSUME Init PROVE PlacesInv
    OBVIOUS
<1>1. Seated = {} /\ \A s \in Sockets : pc[s] = "new"
  BY DEF Init, EmptyHash, Seated
<1>2. FinishesOfRace /\ Unplaced /\ PlacesGiven
  BY <1>1 DEF FinishesOfRace, Unplaced, PlacesGiven
<1>3. CopiesPlaced
  BY DEF Init, CopiesPlaced, Idle
<1>4. ResultsPlaced
  BY DEF Init, ResultsPlaced, OfRace, DistinctPlaces, Placed, EmptyHash
<1> QED
  BY <1>2, <1>3, <1>4 DEF PlacesInv

LEMMA StepPlaces ==
    TInv /\ Once /\ FieldInv /\ EndsInv /\ PlacesInv /\ [Next]_vars /\ overtaken' = {}
        => PlacesInv'
<1> SUFFICES ASSUME TInv, Once, FieldInv, EndsInv, PlacesInv, [Next]_vars, overtaken' = {}
             PROVE  PlacesInv'
    OBVIOUS
<1>1. Event
  BY StepEvent
<1>2. ASSUME NEW s \in Sockets, Entered(Owner[s]) PROVE PlacesInv'
  BY <1>1, <1>2, EnteredPlaces
<1>3. ASSUME NEW w \in Workers, NEW r \in Races, Ended(w, r) PROVE PlacesInv'
  BY <1>1, <1>3, EndedPlaces
<1> QED
  BY <1>1, <1>2, <1>3, CalmPlaces, WentPlaces, RenewedPlaces, VanishedPlaces, ReadEndedPlaces,
     InsertResultsPlaces, ReadMaybeEndPlaces, FinishCheckPlaces, FinishRecordPlaces,
     FinishPlacePlaces, FinishPatchPlaces DEF Event

LEMMA AlwaysPlaces == Spec => [](overtaken = {} => PlacesInv)
<1> DEFINE Fields == FieldInv /\ ("end" \notin overtaken => EndsInv)
           Inv == overtaken = {} => PlacesInv
<1>1. Init => Inv
  BY InitPlaces
<1>2. TInv /\ Once /\ Fields /\ Inv /\ [Next]_vars => Inv'
  BY StepPlaces, StepOvertaken
<1>3. Spec => []Fields
  BY AlwaysField
<1> HIDE DEF Fields
<1> QED
  BY <1>1, <1>2, <1>3, AlwaysTInv, AlwaysOnce, PTL DEF Spec

(* As long as no play_again has overtaken a finish() or an _end_race(), no  *)
(* place is given to two players, in the room or in the results, and every *)
(* run shown or kept is of the very race, however many finishes and ends of *)
(* the race are under way at once.                                         *)
THEOREM PlacesUnique == Spec => []PlacesHold
<1>1. TInv /\ Presence /\ (overtaken = {} => PlacesInv) => PlacesHold
  <2> SUFFICES ASSUME TInv, Presence, PlacesInv PROVE PlacesHold
      BY DEF PlacesHold
  <2>1. room.state = "none" => Seated = {}
    BY DEF Presence, GoneIsEmpty
  <2>2. DistinctPlaces([p \in Seated |-> seats[p].run])
    BY <2>1 DEF PlacesInv, PlacesGiven, DistinctPlaces, Placed
  <2>3. \A p \in Seated : Finished(p) => seats[p].run.race = room.race
    BY <2>1 DEF PlacesInv, PlacesGiven, Finished
  <2> QED
    BY <2>2, <2>3 DEF PlacesInv, ResultsPlaced, OfRace, NoPlaceTwice, PlacesHold
<1> QED
  BY <1>1, AlwaysTInv, AlwaysPresence, AlwaysPlaces, PTL


-----------------------------------------------------------------------------
(* The early end.  Whoever decided to end a race ahead of its deadline saw  *)
(* a finished player of that race, and their session stays.                *)
FinishedBy(r) == \E p \in field[r] : sessions[r][p] > 0
ForcedByFinish == \A w \in Workers : duty[w].step = "force" => FinishedBy(duty[w].race)

LEMMA SessionsGrow ==
    ASSUME TInv, FieldInv, Event
    PROVE  \A r \in Races, p \in Players : sessions[r][p] > 0 => sessions'[r][p] > 0
<1>1. CASE UNCHANGED sessions
  BY <1>1
<1>2. ASSUME NEW s \in Sockets, FinishRecord(s)
      PROVE  \A r \in Races, p \in Players : sessions[r][p] > 0 => sessions'[r][p] > 0
  <2>1. mind[s].race \in Races /\ sessions \in [Races -> [Players -> Nat]]
    BY <1>2 DEF FinishRecord, FieldInv, FinishersEntered, TInv, TypeOK
  <2>2. CASE sessions' = [sessions EXCEPT ![mind[s].race][Owner[s]] = @ + 1]
    BY <2>1, <2>2
  <2> QED
    BY <1>2, <2>2 DEF FinishRecord
<1> QED
  BY <1>1, <1>2 DEF Event, Calm, Went, Renewed, Vanished, Entered, Ended, TablesKept, ReadEnded,
     InsertResults, ReadMaybeEnd, FinishCheck, FinishPlace, FinishPatch, db

LEMMA FinishedStays ==
    ASSUME TInv, FieldInv, Event
    PROVE  \A r \in Races : FinishedBy(r) => FinishedBy(r)'
<1>1. FieldsGrow
  BY PhaseEvents DEF FieldInv
<1>2. \A r \in Races : field[r] \subseteq Players
  BY DEF TInv, TypeOK
<1> QED
  BY <1>1, <1>2, SessionsGrow DEF FieldsGrow, FinishedBy

LEMMA StepForced ==
    TInv /\ RowsInv /\ FieldInv /\ PlacesInv /\ ForcedByFinish /\ [Next]_vars
        => ForcedByFinish'
<1> SUFFICES ASSUME TInv, RowsInv, FieldInv, PlacesInv, ForcedByFinish, [Next]_vars
             PROVE  ForcedByFinish'
    OBVIOUS
<1>1. Event
  BY StepEvent
<1>2. \A w \in Workers : duty[w].step = "force" => duty[w].race \in Races
  BY TypesOfRuns, DutyUsed
<1>3. CASE \A w \in Workers : duty'[w].step = "force" => duty'[w] = duty[w]
  BY <1>1, <1>2, <1>3, FinishedStays DEF ForcedByFinish, FinishedBy
<1>4. ASSUME NEW w \in Workers, ReadMaybeEnd(w) PROVE ForcedByFinish'
  <2>1. \A v \in Workers : v # w => duty'[v] = duty[v]
    BY <1>4 DEF ReadMaybeEnd, Do, TInv, TypeOK
  <2>2. CASE duty'[w] = Idle
    BY <1>3, <2>1, <2>2 DEF Idle
  <2>3. CASE room.state = "running" /\ EveryoneDone
             /\ duty'[w] = [step |-> "force", race |-> room.race]
    <3>1. PICK p \in Seated : seats[p].run.race # NoRace
      BY <2>3 DEF EveryoneDone, Finished
    <3>2. seats[p].run.race = room.race /\ p \in field[room.race] /\ p \in Players
          /\ room.race \in Races
      BY <2>3, <3>1, TypesOfRuns DEF PlacesInv, PlacesGiven, FieldInv, SeatsOfField, Shown,
         RoomRace
    <3>3. sessions[room.race][p] > 0
      BY <3>1, <3>2 DEF RowsInv, SeatsRecorded, Recorded
    <3>4. FinishedBy(room.race)
      BY <3>2, <3>3 DEF FinishedBy
    <3>5. \A v \in Workers : duty'[v].step = "force" =>
              duty'[v].race \in Races /\ FinishedBy(duty'[v].race)
      BY <1>2, <2>1, <2>3, <3>2, <3>4 DEF ForcedByFinish
    <3> QED
      BY <1>1, <3>5, FinishedStays DEF ForcedByFinish, FinishedBy
  <2> QED
    BY <1>4, <2>2, <2>3 DEF ReadMaybeEnd, Do, TInv, TypeOK
<1>5. ASSUME NEW w \in Workers, ReadEnded(w) \/ InsertResults(w)
      PROVE  \A v \in Workers : duty'[v].step = "force" => duty'[v] = duty[v]
  BY <1>5 DEF ReadEnded, InsertResults, AbandonDuty, Do, Idle, TInv, TypeOK
<1>6. ASSUME NEW w \in Workers, NEW r \in Races, Ended(w, r)
      PROVE  \A v \in Workers : duty'[v].step = "force" => duty'[v] = duty[v]
  BY <1>6 DEF Ended, TInv, TypeOK
<1>7. CASE DecisionsKept \/ UNCHANGED duty
  BY <1>3, <1>7 DEF DecisionsKept
<1> QED
  BY <1>1, <1>3, <1>4, <1>5, <1>6, <1>7 DEF Event, Calm, Went, Renewed, Vanished, Entered,
     FinishCheck, FinishRecord, FinishPlace, FinishPatch

LEMMA AlwaysForced == Spec => [](overtaken = {} => ForcedByFinish)
<1> DEFINE Inv == overtaken = {} => ForcedByFinish
           Fields == FieldInv /\ ("end" \notin overtaken => EndsInv)
           Places == overtaken = {} => PlacesInv
<1>1. Init => Inv
  BY DEF Init, ForcedByFinish, Idle
<1>2. TInv /\ RowsInv /\ Fields /\ Places /\ Inv /\ [Next]_vars => Inv'
  BY StepForced, StepOvertaken
<1>3. Spec => []Fields /\ []Places
  BY AlwaysField, AlwaysPlaces, PTL
<1> HIDE DEF Fields, Places
<1> QED
  BY <1>1, <1>2, <1>3, AlwaysTInv, AlwaysRows, PTL DEF Spec

(* Only _END_LUA moves a room to `finished`, and ahead of the deadline only *)
(* the forced one does.                                                    *)
Forced == EndedEarly => \E w \in Workers : duty[w].step = "force" /\ duty[w].race = room.race

LEMMA TickNotEarly ==
    ASSUME TInv, NEW w, Tick(w)
    PROVE  ~EndedEarly
BY DEF Tick, DueScript, Go, CountdownDue, TimeUp, DeadlineDue, Sweep, EndedEarly, redis,
       TInv, TypeOK, Room

LEMMA StepOfEarly ==
    ASSUME TInv, [Next]_vars
    PROVE  Forced
<1> USE DEF Forced
<1>1. CASE UNCHANGED vars
  BY <1>1 DEF EndedEarly, vars, redis
<1>2. ASSUME NEW w \in Workers, DutyStep(w) PROVE Forced
  <2>1. CASE ForceEnd(w)
    BY <2>1 DEF ForceEnd, MayEnd, EndedEarly, redis
  <2>2. CASE HandOff(w)
    BY <2>2 DEF HandOff, EndedEarly, TInv, TypeOK, Room
  <2>3. CASE UNCHANGED room \/ DeleteRoom(w)
    BY <2>3 DEF DeleteRoom, NoRoom, FreshRoom, EndedEarly
  <2> QED
    BY <1>2, <2>1, <2>2, <2>3 DEF DutyStep, ReadBegun, InsertRace, PublishStarted, ReadEnded,
       InsertResults, PublishOver, ReadAfterRemoval, ReadMaybeEnd, redis
<1>3. ASSUME NEW s \in Sockets, HandlerStep(s) PROVE Forced
  <2>1. CASE JoinTick(s)
    BY <2>1, TickNotEarly DEF JoinTick
  <2>2. CASE Start(s) \/ PlayAgain(s)
    BY <2>2 DEF Start, PlayAgain, FreshRoom, EndedEarly, redis
  <2>3. CASE FinishPlace(s) \/ FinishFirst(s) \/ FinishShorten(s)
    BY <2>3 DEF FinishPlace, FinishFirst, FinishShorten, EndedEarly, TInv, TypeOK, Room
  <2>4. CASE UNCHANGED room
    BY <2>4 DEF EndedEarly
  <2> QED
    BY <1>3, <2>1, <2>2, <2>3, <2>4 DEF HandlerStep, SendSnapshot, Leave, FinishCheck,
       FinishRecord, FinishPatch, FinishDeadline, Dropped, HangUp, redis
<1>4. ASSUME NEW s \in Sockets, ClientStep(s) PROVE Forced
  BY <1>4, TickNotEarly DEF ClientStep, Join, Receive, HangUp, EndedEarly
<1>5. ASSUME NEW s \in Sockets, RelayTick(s) PROVE Forced
  BY <1>5, TickNotEarly DEF RelayTick, Tick
<1>6. ASSUME NEW t \in Timers, TimerTick(t) PROVE Forced
  BY <1>6, TickNotEarly DEF TimerTick, Tick
<1>7. CASE \/ \E s \in Sockets : CleanupError(s) \/ EarlyClose(s)
           \/ \E w \in Workers : Error(w)
           \/ \E replica \in Replicas : Crash(replica)
  BY <1>7 DEF CleanupError, EarlyClose, Error, Crash, EndedEarly, redis
<1>8. CASE TimePasses
  BY <1>8 DEF TimePasses, EndedEarly, TInv, TypeOK, Room
<1> QED
  BY <1>1, <1>2, <1>3, <1>4, <1>5, <1>6, <1>7, <1>8 DEF Next

(* As long as no play_again has overtaken a finish() or an _end_race(), a   *)
(* race that ends before its deadline is ended by a finish: somebody who    *)
(* was in it has a session scored for it.                                  *)
THEOREM EarlyEndHasFinish == Spec => EndsOnAFinish
<1>1. TInv /\ (overtaken = {} => ForcedByFinish) /\ [Next]_vars
        => [EndedEarly /\ overtaken = {}
              => \E p \in field[room.race] : sessions[room.race][p] > 0]_vars
  BY StepOfEarly DEF Forced, ForcedByFinish, FinishedBy
<1> QED
  BY <1>1, AlwaysTInv, AlwaysForced, PTL DEF Spec, EndsOnAFinish
=============================================================================
