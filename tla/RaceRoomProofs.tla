--------------------------- MODULE RaceRoomProofs ---------------------------
(***************************************************************************)
(* Theorems about RaceRoom, for any number of players, sockets, replicas,  *)
(* races and faults.                                                       *)
(***************************************************************************)
EXTENDS RaceRoom, TLAPS

USE RosterAssumption, PlacementAssumption, WorkersAssumption,
    LimitsAssumption, ScenarioAssumption

-----------------------------------------------------------------------------
(* Type correctness needs two facts about the room beside the types: a      *)
(* countdown still has a race id to give out, and a room whose race is run  *)
(* knows which race that is.                                               *)
CountdownHasRace == room.state = "countdown" => begun < MaxRaces
RaceKnown == room.state = "running" => room.race \in Races /\ room.race <= begun

TInv == TypeOK /\ CountdownHasRace /\ RaceKnown

LEMMA InitTInv == Init => TInv
<1> SUFFICES ASSUME Init PROVE TInv
    OBVIOUS
<1> USE DEF Init
<1>1. room \in Room
  BY DEF Room, FreshRoom, RoomStates, NoRace, Nobody
<1>2. Hash(seats, Seat)
  BY DEF Hash, EmptyHash
<1>3. DOMAIN results = Races /\ \A r \in Races : Hash(results[r], Run)
  BY DEF Hash, EmptyHash
<1>4. pc \in [Sockets -> Stages] /\ mind \in [Sockets -> Mind]
  BY DEF Stages, Mind, Blank, NoRace
<1>5. duty \in [Workers -> Duty]
  BY DEF Duty, Idle
<1>6. races \in [Races -> {"absent", "open", "closed"}]
  OBVIOUS
<1>7. sessions \in [Races -> [Players -> Nat]]
  OBVIOUS
<1>8. /\ begun \in 0..MaxRaces /\ field \in [Races -> SUBSET Players]
      /\ faults \in 0..MaxFaults
  OBVIOUS
<1>9. said \in [Races -> [started: Nat, over: Nat]]
  OBVIOUS
<1>10. CountdownHasRace /\ RaceKnown
  BY DEF CountdownHasRace, RaceKnown, FreshRoom
<1>11. overtaken \subseteq LooseEnds
  OBVIOUS
<1> QED
  BY <1>1, <1>2, <1>3, <1>4, <1>5, <1>6, <1>7, <1>8, <1>9, <1>10, <1>11 DEF TInv, TypeOK

(* The duties there are, and what each of them carries. *)
LEMMA DutyMade ==
    /\ Idle \in Duty /\ Check \in Duty /\ [step |-> "delete"] \in Duty
    /\ \A r \in Races : \A k \in {"begun", "started", "ended", "over", "force"} :
          [step |-> k, race |-> r] \in Duty
    /\ \A r \in Races : \A seen \in Races \cup {NoRace} :
          [step |-> "row", race |-> r, seen |-> seen] \in Duty
    /\ \A r \in Races : \A seen \in Races \cup {NoRace} : \A who \in SUBSET Players :
          \A runs \in [Players -> Run] :
          [step |-> "results", race |-> r, seen |-> seen, who |-> who, runs |-> runs] \in Duty
    /\ \A gone \in SUBSET Players : [step |-> "departed", gone |-> gone] \in Duty
    /\ \A p, q \in Players : [step |-> "handoff", from |-> p, to |-> q] \in Duty
BY DEF Duty

LEMMA DutyUsed ==
    ASSUME NEW d \in Duty
    PROVE  /\ d.step \in {"begun", "started", "ended", "over", "force", "row", "results"}
                => d.race \in Races
           /\ d.step \in {"row", "results"} => d.seen \in Races \cup {NoRace}
           /\ d.step = "results" => d.who \in SUBSET Players /\ d.runs \in [Players -> Run]
           /\ d.step = "departed" => d.gone \in SUBSET Players
           /\ d.step = "handoff" => d.from \in Players /\ d.to \in Players
BY DEF Duty, Idle, Check

LEMMA DoType ==
    ASSUME duty \in [Workers -> Duty], NEW w \in Workers, NEW d \in Duty, Do(w, d)
    PROVE  duty' \in [Workers -> Duty]
BY DEF Do

LEMMA GotoType ==
    ASSUME pc \in [Sockets -> Stages], NEW s \in Sockets, NEW stage \in Stages,
           Goto(s, stage)
    PROVE  pc' \in [Sockets -> Stages]
BY DEF Goto

LEMMA ForgetType ==
    ASSUME mind \in [Sockets -> Mind], NEW s \in Sockets, Forget(s)
    PROVE  mind' \in [Sockets -> Mind]
BY DEF Forget, Mind, Blank

LEMMA HSetType ==
    ASSUME NEW S, NEW h, Hash(h, S), NEW p \in Players, NEW v \in S
    PROVE  Hash(HSet(h, p, v), S)
BY DEF Hash, HSet

LEMMA HDelType ==
    ASSUME NEW S, NEW h, Hash(h, S), NEW keys
    PROVE  Hash(HDel(h, keys), S)
BY DEF Hash, HDel

LEMMA InsertMissingType ==
    ASSUME NEW S, NEW rows, Hash(rows, S), NEW who \in SUBSET Players,
           NEW values \in [Players -> S]
    PROVE  Hash(InsertMissing(rows, who, values), S)
BY DEF Hash, InsertMissing

LEMMA WithRaceRowType ==
    ASSUME NEW rows \in [Races -> {"absent", "open", "closed"}], NEW seen
    PROVE  WithRaceRow(rows, seen) \in [Races -> {"absent", "open", "closed"}]
BY DEF WithRaceRow

LEMMA SocketsAndRelaysWork == Sockets \subseteq Workers /\ \A s \in Sockets : Relay[s] \in Workers
BY DEF Workers, Relays

LEMMA ResetType ==
    ASSUME Hash(seats, Seat)
    PROVE  Hash([p \in Seated |-> Reset(p)], Seat)
BY DEF Hash, Seated, Reset, Seat, Run, NoRun, NoRace

LEMMA GoType ==
    ASSUME TInv, NEW w \in Workers, Go(w),
           UNCHANGED <<db, mind, faults>>, pc' \in [Sockets -> Stages]
    PROVE  TInv'
<1>1. UNCHANGED <<seats, races, sessions, results, mind, said, overtaken, faults>>
  BY DEF Go, db
<1>2. begun < MaxRaces /\ begun + 1 \in Races /\ begun + 1 \in 0..MaxRaces
  BY DEF TInv, TypeOK, Go, CountdownDue, CountdownHasRace, Races
<1>3. begun' = begun + 1 /\ room'.state = "running" /\ room'.race = begun + 1
  BY DEF TInv, TypeOK, Go, Room
<1>4. room' \in Room
  <2>1. room' = [room EXCEPT !.state = "running", !.race = begun + 1, !.endsIn = RaceMax]
    BY DEF Go
  <2>2. room \in Room /\ "running" \in RoomStates /\ RaceMax \in 0..RaceMax
    BY DEF TInv, TypeOK, RoomStates
  <2> QED
    BY <1>2, <2>1, <2>2 DEF Room
<1>5. duty' \in [Workers -> Duty]
  BY <1>2, DutyMade DEF TInv, TypeOK, Go, Do
<1>6. field' \in [Races -> SUBSET Players]
  BY <1>2 DEF TInv, TypeOK, Go, Hash, Seated
<1> QED
  BY <1>1, <1>2, <1>3, <1>4, <1>5, <1>6 DEF TInv, TypeOK, CountdownHasRace, RaceKnown

LEMMA TimeUpType ==
    ASSUME TInv, NEW w \in Workers, TimeUp(w),
           UNCHANGED <<db, mind, faults>>, pc' \in [Sockets -> Stages]
    PROVE  TInv'
<1>1. UNCHANGED <<seats, races, sessions, results, mind, begun, field, said, overtaken, faults>>
  BY DEF TimeUp, End, db, story
<1>2. room.race \in Races /\ room' = [room EXCEPT !.state = "finished"]
  BY DEF TInv, TimeUp, End, DeadlineDue, RaceKnown
<1>3. room' \in Room /\ room'.state = "finished"
  BY <1>2 DEF TInv, TypeOK, Room, RoomStates
<1>4. duty' \in [Workers -> Duty]
  BY <1>2, DutyMade DEF TInv, TypeOK, TimeUp, End, Do
<1> QED
  BY <1>1, <1>2, <1>3, <1>4 DEF TInv, TypeOK, CountdownHasRace, RaceKnown

LEMMA SweepType ==
    ASSUME TInv, NEW w \in Workers, Sweep(w),
           UNCHANGED <<db, mind, faults>>, pc' \in [Sockets -> Stages]
    PROVE  TInv'
<1>1. UNCHANGED <<room, races, sessions, results, mind, begun, field, said, overtaken, faults>>
  BY DEF Sweep, db, story
<1>2. Hash(seats', Seat)
  BY HDelType DEF TInv, TypeOK, Sweep
<1>3. Overdue \in SUBSET Players
  BY DEF TInv, TypeOK, Hash, Overdue, Seated
<1>4. duty' \in [Workers -> Duty]
  BY <1>3, DutyMade DEF TInv, TypeOK, Sweep, Do
<1> QED
  BY <1>1, <1>2, <1>3, <1>4 DEF TInv, TypeOK, CountdownHasRace, RaceKnown

LEMMA AbandonDutyType ==
    ASSUME TInv, NEW w \in Workers, AbandonDuty(w), UNCHANGED <<redis, db, mind, story, faults>>
    PROVE  TInv'
<1>1. UNCHANGED <<room, seats, races, sessions, results, mind, begun, field, said, overtaken, faults>>
  BY DEF redis, db, story
<1>2. duty' \in [Workers -> Duty]
  BY DutyMade DEF TInv, TypeOK, AbandonDuty, Do
<1>3. pc' \in [Sockets -> Stages]
  <2>1. pc \in [Sockets -> Stages]
    BY DEF TInv, TypeOK
  <2>2. \A s \in Sockets : StageAfterRefusal(s) \in Stages
    BY <2>1 DEF StageAfterRefusal, Stages, FrameKinds
  <2> QED
    BY <2>1, <2>2 DEF AbandonDuty
<1> QED
  BY <1>1, <1>2, <1>3 DEF TInv, TypeOK, CountdownHasRace, RaceKnown

LEMMA ReadBegunType ==
    ASSUME TInv, NEW w \in Workers, ReadBegun(w)
    PROVE  TInv'
<1>1. UNCHANGED <<room, seats, races, sessions, results, mind, begun, field, said, overtaken, faults>>
  BY DEF ReadBegun, redis, db, story
<1>2. ASSUME AbandonDuty(w) PROVE TInv'
  BY <1>1, <1>2, AbandonDutyType DEF redis, db, story
<1>3. ASSUME UNCHANGED pc, Do(w, [step |-> "row", race |-> duty[w].race, seen |-> room.race]) PROVE TInv'
  <2>1. duty[w].race \in Races /\ room.race \in Races \cup {NoRace}
    BY DutyUsed DEF TInv, TypeOK, ReadBegun, Room
  <2>2. duty' \in [Workers -> Duty]
    BY <1>3, <2>1, DutyMade DEF TInv, TypeOK, Do
  <2> QED
    BY <1>1, <1>3, <2>2 DEF TInv, TypeOK, CountdownHasRace, RaceKnown
<1>4. \/ AbandonDuty(w)
      \/ /\ UNCHANGED pc
         /\ Do(w, [step |-> "row", race |-> duty[w].race, seen |-> room.race])
  BY DEF ReadBegun
<1> QED
  BY <1>1, <1>2, <1>3, <1>4 DEF TInv, TypeOK, CountdownHasRace, RaceKnown

LEMMA InsertRaceType ==
    ASSUME TInv, NEW w \in Workers, InsertRace(w)
    PROVE  TInv'
<1>1. UNCHANGED <<room, seats, sessions, results, pc, mind, begun, field, said, overtaken, faults>>
  BY DEF InsertRace, redis, story
<1>2. races' \in [Races -> {"absent", "open", "closed"}]
  BY WithRaceRowType DEF TInv, TypeOK, InsertRace
<1>3. duty' \in [Workers -> Duty]
  BY DutyMade, DutyUsed DEF TInv, TypeOK, InsertRace, Do
<1> QED
  BY <1>1, <1>2, <1>3 DEF TInv, TypeOK, CountdownHasRace, RaceKnown

LEMMA PublishStartedType ==
    ASSUME TInv, NEW w \in Workers, PublishStarted(w)
    PROVE  TInv'
<1>1. UNCHANGED <<room, seats, races, sessions, results, pc, mind, begun, field, overtaken, faults>>
  BY DEF PublishStarted, redis, db
<1>2. said' \in [Races -> [started: Nat, over: Nat]]
  <2>1. duty[w].race \in Races
    BY DutyUsed DEF TInv, TypeOK, PublishStarted
  <2>2. /\ said \in [Races -> [started: Nat, over: Nat]]
        /\ said' = [said EXCEPT ![duty[w].race].started = @ + 1]
    BY DEF TInv, TypeOK, PublishStarted
  <2> QED
    BY <2>1, <2>2
<1>3. duty' \in [Workers -> Duty]
  BY DutyMade DEF TInv, TypeOK, PublishStarted, Do
<1> QED
  BY <1>1, <1>2, <1>3 DEF TInv, TypeOK, CountdownHasRace, RaceKnown

LEMMA InsertResultsType ==
    ASSUME TInv, NEW w \in Workers, InsertResults(w)
    PROVE  TInv'
<1>1. UNCHANGED <<room, seats, sessions, pc, mind, begun, field, said, overtaken, faults>>
  BY DEF InsertResults, redis, story
<1>2. duty[w] \in Duty /\ duty[w].step = "results"
  BY DEF TInv, TypeOK, InsertResults
<1>3. duty[w].race \in Races /\ duty[w].who \in SUBSET Players /\ duty[w].runs \in [Players -> Run]
  BY <1>2, DutyUsed
<1>4. races' \in [Races -> {"absent", "open", "closed"}]
  <2>1. WithRaceRow(races, duty[w].seen) \in [Races -> {"absent", "open", "closed"}]
    BY WithRaceRowType DEF TInv, TypeOK
  <2>2. \/ races' = WithRaceRow(races, duty[w].seen)
        \/ races' = [WithRaceRow(races, duty[w].seen) EXCEPT ![duty[w].race] = "closed"]
    BY DEF InsertResults
  <2> QED
    BY <2>1, <2>2
<1>5. DOMAIN results' = Races /\ \A r \in Races : Hash(results'[r], Run)
  <2>1. DOMAIN results = Races /\ \A r \in Races : Hash(results[r], Run)
    BY DEF TInv, TypeOK
  <2>2. Hash(InsertMissing(results[duty[w].race], duty[w].who, duty[w].runs), Run)
    BY <1>3, <2>1, InsertMissingType
  <2>3. \/ results' = results
        \/ results' = [results EXCEPT ![duty[w].race] =
                         InsertMissing(@, duty[w].who, duty[w].runs)]
    BY DEF InsertResults
  <2> QED
    BY <1>3, <2>1, <2>2, <2>3
<1>6. duty' \in [Workers -> Duty]
  BY <1>3, DutyMade DEF TInv, TypeOK, InsertResults, Do
<1> QED
  BY <1>1, <1>2, <1>3, <1>4, <1>5, <1>6 DEF TInv, TypeOK, CountdownHasRace, RaceKnown

LEMMA ReadEndedType ==
    ASSUME TInv, NEW w \in Workers, ReadEnded(w)
    PROVE  TInv'
<1>1. UNCHANGED <<room, seats, races, sessions, results, mind, begun, field, said, overtaken, faults>>
  BY DEF ReadEnded, redis, db, story
<1>2. ASSUME AbandonDuty(w) PROVE TInv'
  BY <1>1, <1>2, AbandonDutyType DEF redis, db, story
<1>3. ASSUME UNCHANGED pc,
             Do(w, [step |-> "results", race |-> duty[w].race, seen |-> room.race,
                    who |-> Seated,
                    runs |-> [p \in Players |->
                                IF p \in Seated THEN seats[p].run ELSE NoRun]])
      PROVE  TInv'
  <2>1. duty[w].race \in Races /\ room.race \in Races \cup {NoRace}
    BY DutyUsed DEF TInv, TypeOK, ReadEnded, Room
  <2>2. Seated \in SUBSET Players
    BY DEF TInv, TypeOK, Hash, Seated
  <2>3. [p \in Players |-> IF p \in Seated THEN seats[p].run ELSE NoRun] \in [Players -> Run]
    BY DEF TInv, TypeOK, Hash, Seated, Seat, Run, NoRun, NoRace
  <2>4. duty' \in [Workers -> Duty]
    BY <1>3, <2>1, <2>2, <2>3, DutyMade DEF TInv, TypeOK, Do
  <2> QED
    BY <1>1, <1>3, <2>4 DEF TInv, TypeOK, CountdownHasRace, RaceKnown
<1>4. \/ AbandonDuty(w)
      \/ /\ UNCHANGED pc
         /\ Do(w, [step |-> "results", race |-> duty[w].race, seen |-> room.race,
                    who |-> Seated,
                    runs |-> [p \in Players |->
                                IF p \in Seated THEN seats[p].run ELSE NoRun]])
  BY DEF ReadEnded
<1> QED
  BY <1>1, <1>2, <1>3, <1>4 DEF TInv, TypeOK, CountdownHasRace, RaceKnown

LEMMA PublishOverType ==
    ASSUME TInv, NEW w \in Workers, PublishOver(w)
    PROVE  TInv'
<1>1. UNCHANGED <<room, seats, races, sessions, results, pc, mind, begun, field, overtaken, faults>>
  BY DEF PublishOver, redis, db
<1>2. said' \in [Races -> [started: Nat, over: Nat]]
  <2>1. duty[w].race \in Races
    BY DutyUsed DEF TInv, TypeOK, PublishOver
  <2>2. /\ said \in [Races -> [started: Nat, over: Nat]]
        /\ said' = [said EXCEPT ![duty[w].race].over = @ + 1]
    BY DEF TInv, TypeOK, PublishOver
  <2> QED
    BY <2>1, <2>2
<1>3. duty' \in [Workers -> Duty]
  BY DutyMade DEF TInv, TypeOK, PublishOver, Do
<1> QED
  BY <1>1, <1>2, <1>3 DEF TInv, TypeOK, CountdownHasRace, RaceKnown

LEMMA ReadAfterRemovalType ==
    ASSUME TInv, NEW w \in Workers, ReadAfterRemoval(w)
    PROVE  TInv'
<1>1. UNCHANGED <<room, seats, races, sessions, results, pc, mind, begun, field, said, overtaken, faults>>
  BY DEF ReadAfterRemoval, redis, db, story
<1>2. Heirs \subseteq Players
  BY DEF TInv, TypeOK, Hash, Heirs, Seated
<1>3. duty[w].gone \in SUBSET Players
  BY DutyUsed DEF TInv, TypeOK, ReadAfterRemoval
<1>4. duty' \in [Workers -> Duty]
  <2>1. \/ Do(w, Idle)
        \/ Do(w, [step |-> "delete"])
        \/ \E heir \in Heirs : /\ room.host \in duty[w].gone
                               /\ Do(w, [step |-> "handoff", from |-> room.host, to |-> heir])
    BY DEF ReadAfterRemoval
  <2>2. \E d \in Duty : Do(w, d)
    BY <1>2, <1>3, <2>1, DutyMade
  <2> QED
    BY <2>2, DoType DEF TInv, TypeOK
<1> QED
  BY <1>1, <1>2, <1>3, <1>4 DEF TInv, TypeOK, CountdownHasRace, RaceKnown

LEMMA DeleteRoomType ==
    ASSUME TInv, NEW w \in Workers, DeleteRoom(w)
    PROVE  TInv'
<1>1. UNCHANGED <<races, sessions, results, pc, mind, begun, field, said, overtaken, faults>>
  BY DEF DeleteRoom, db, story
<1>2. room' \in Room /\ room'.state = "none"
  BY DEF DeleteRoom, NoRoom, FreshRoom, Room, RoomStates, NoRace, Nobody
<1>3. Hash(seats', Seat)
  BY DEF DeleteRoom, EmptyHash, Hash
<1>4. duty' \in [Workers -> Duty]
  BY DutyMade DEF TInv, TypeOK, DeleteRoom, Do
<1> QED
  BY <1>1, <1>2, <1>3, <1>4 DEF TInv, TypeOK, CountdownHasRace, RaceKnown

LEMMA HandOffType ==
    ASSUME TInv, NEW w \in Workers, HandOff(w)
    PROVE  TInv'
<1>1. UNCHANGED <<seats, races, sessions, results, pc, mind, begun, field, said, overtaken, faults>>
  BY DEF HandOff, db, story
<1>2. duty[w].to \in Players
  BY DutyUsed DEF TInv, TypeOK, HandOff
<1>3. room' \in Room /\ room'.state = room.state /\ room'.race = room.race
  BY <1>2 DEF TInv, TypeOK, HandOff, Room
<1>4. duty' \in [Workers -> Duty]
  BY DutyMade DEF TInv, TypeOK, HandOff, Do
<1> QED
  BY <1>1, <1>2, <1>3, <1>4 DEF TInv, TypeOK, CountdownHasRace, RaceKnown

LEMMA ReadMaybeEndType ==
    ASSUME TInv, NEW w \in Workers, ReadMaybeEnd(w)
    PROVE  TInv'
<1>1. UNCHANGED <<room, seats, races, sessions, results, pc, mind, begun, field, said, overtaken, faults>>
  BY DEF ReadMaybeEnd, redis, db, story
<1>2. room.state = "running" => room.race \in Races
  BY DEF TInv, RaceKnown
<1>3. duty' \in [Workers -> Duty]
  BY <1>2, DutyMade DEF TInv, TypeOK, ReadMaybeEnd, Do
<1> QED
  BY <1>1, <1>2, <1>3 DEF TInv, TypeOK, CountdownHasRace, RaceKnown

LEMMA ForceEndType ==
    ASSUME TInv, NEW w \in Workers, ForceEnd(w)
    PROVE  TInv'
<1>1. UNCHANGED <<seats, races, sessions, results, pc, mind, begun, field, said, overtaken, faults>>
  BY DEF ForceEnd, End, redis, db, story
<1>2. duty[w].race \in Races
  BY DutyUsed DEF TInv, TypeOK, ForceEnd
<1>3. room' = room \/ room' = [room EXCEPT !.state = "finished"]
  BY DEF ForceEnd, End, redis
<1>4. room' \in Room /\ (room' = room \/ room'.state = "finished")
  BY <1>3 DEF TInv, TypeOK, Room, RoomStates
<1>5. duty' \in [Workers -> Duty]
  <2>1. Do(w, Idle) \/ Do(w, [step |-> "ended", race |-> duty[w].race])
    BY DEF ForceEnd, End
  <2>2. \E d \in Duty : Do(w, d)
    BY <1>2, <2>1, DutyMade
  <2> QED
    BY <2>2, DoType DEF TInv, TypeOK
<1> QED
  BY <1>1, <1>2, <1>3, <1>4, <1>5 DEF TInv, TypeOK, CountdownHasRace, RaceKnown

LEMMA JoinType ==
    ASSUME TInv, NEW s \in Sockets, Join(s)
    PROVE  TInv'
<1>1. UNCHANGED <<room, races, sessions, results, mind, duty, begun, field, said, overtaken, faults>>
  BY DEF Join, db, story
<1>2. Owner[s] \in Players /\ NewSeat(s) \in Seat
  BY DEF NewSeat, Seat, NoRun, Run, NoRace
<1>3. Hash(seats', Seat)
  <2>1. Hash(seats, Seat)
    BY DEF TInv, TypeOK
  <2>2. CASE /\ MayReconnect(Owner[s])
             /\ seats' = HSet(seats, Owner[s], [NewSeat(s) EXCEPT !.run = seats[Owner[s]].run])
    <3>1. seats[Owner[s]].run \in Run
      BY <2>1, <2>2 DEF MayReconnect, Seated, Hash, Seat
    <3>2. [NewSeat(s) EXCEPT !.run = seats[Owner[s]].run] \in Seat
      BY <1>2, <3>1 DEF Seat
    <3> QED
      BY <1>2, <2>1, <2>2, <3>2, HSetType
  <2>3. CASE seats' = HSet(seats, Owner[s], NewSeat(s))
    BY <1>2, <2>1, <2>3, HSetType
  <2>4. CASE seats' = seats
    BY <2>1, <2>4
  <2> QED
    BY <2>2, <2>3, <2>4 DEF Join
<1>4. pc' \in [Sockets -> Stages]
  BY DEF TInv, TypeOK, Join, Goto, Stages
<1> QED
  BY <1>1, <1>2, <1>3, <1>4 DEF TInv, TypeOK, CountdownHasRace, RaceKnown

LEMMA StartType ==
    ASSUME TInv, NEW s \in Sockets, Start(s)
    PROVE  TInv'
<1>1. UNCHANGED <<races, sessions, results, mind, duty, begun, field, said, overtaken, faults>>
  BY DEF Start, db, story
<1>2. pc' \in [Sockets -> Stages]
  BY DEF TInv, TypeOK, Start, Goto, Stages
<1>3. CASE UNCHANGED redis
  BY <1>1, <1>2, <1>3 DEF TInv, TypeOK, CountdownHasRace, RaceKnown, redis
<1>4. CASE /\ begun < MaxRaces /\ MayStart(Owner[s])
           /\ room' = FreshRoom("countdown", room.host)
           /\ seats' = [p \in Seated |-> Reset(p)]
  <2>1. room' \in Room /\ room'.state = "countdown"
    BY <1>4 DEF TInv, TypeOK, FreshRoom, Room, RoomStates, NoRace
  <2>2. Hash(seats', Seat)
    BY <1>4, ResetType DEF TInv, TypeOK
  <2> QED
    BY <1>1, <1>2, <1>4, <2>1, <2>2 DEF TInv, TypeOK, CountdownHasRace, RaceKnown
<1>5. \/ UNCHANGED redis
      \/ /\ begun < MaxRaces /\ MayStart(Owner[s])
         /\ room' = FreshRoom("countdown", room.host)
         /\ seats' = [p \in Seated |-> Reset(p)]
  BY DEF Start
<1> QED
  BY <1>1, <1>2, <1>3, <1>4, <1>5 DEF TInv, TypeOK, CountdownHasRace, RaceKnown

LEMMA PlayAgainType ==
    ASSUME TInv, NEW s \in Sockets, PlayAgain(s)
    PROVE  TInv'
<1>1. UNCHANGED <<races, sessions, results, mind, duty, begun, field, said, faults>>
  BY DEF PlayAgain, db
<1>2. pc' \in [Sockets -> Stages]
  BY DEF TInv, TypeOK, PlayAgain, Goto, Stages
<1>0. overtaken' \subseteq LooseEnds
  BY DEF TInv, TypeOK, PlayAgain
<1>3. CASE UNCHANGED redis
  BY <1>0, <1>1, <1>2, <1>3 DEF TInv, TypeOK, CountdownHasRace, RaceKnown, redis
<1>4. CASE /\ MayPlayAgain(Owner[s])
           /\ room' = FreshRoom("lobby", room.host)
           /\ seats' = [p \in Seated |-> Reset(p)]
  <2>1. room' \in Room /\ room'.state = "lobby"
    BY <1>4 DEF TInv, TypeOK, FreshRoom, Room, RoomStates, NoRace
  <2>2. Hash(seats', Seat)
    BY <1>4, ResetType DEF TInv, TypeOK
  <2> QED
    BY <1>0, <1>1, <1>2, <1>4, <2>1, <2>2 DEF TInv, TypeOK, CountdownHasRace, RaceKnown
<1>5. \/ UNCHANGED redis
      \/ /\ MayPlayAgain(Owner[s])
         /\ room' = FreshRoom("lobby", room.host)
         /\ seats' = [p \in Seated |-> Reset(p)]
  BY DEF PlayAgain
<1> QED
  BY <1>0, <1>1, <1>2, <1>3, <1>4, <1>5 DEF TInv, TypeOK, CountdownHasRace, RaceKnown

LEMMA LeaveType ==
    ASSUME TInv, NEW s \in Sockets, Leave(s)
    PROVE  TInv'
<1>1. UNCHANGED <<room, races, sessions, results, mind, begun, field, said, overtaken, faults>>
  BY DEF Leave, db, story
<1>2. pc' \in [Sockets -> Stages]
  BY DEF TInv, TypeOK, Leave, Goto, Stages
<1>3. Hash(seats', Seat)
  BY HDelType DEF TInv, TypeOK, Leave
<1>4. duty' \in [Workers -> Duty]
  <2>1. {Owner[s]} \in SUBSET Players /\ s \in Workers
    BY SocketsAndRelaysWork
  <2>2. duty' = duty \/ \E d \in Duty : Do(s, d)
    BY <2>1, DutyMade DEF Leave
  <2> QED
    BY <2>1, <2>2, DoType DEF TInv, TypeOK
<1> QED
  BY <1>1, <1>2, <1>3, <1>4 DEF TInv, TypeOK, CountdownHasRace, RaceKnown

LEMMA HangUpType ==
    ASSUME TInv, NEW s \in Sockets, HangUp(s)
    PROVE  TInv'
<1>1. UNCHANGED <<room, races, sessions, results, mind, begun, field, said, overtaken, faults>>
  BY DEF HangUp, db, story
<1>2. pc' \in [Sockets -> Stages]
  <2>1. \E stage \in Stages : Goto(s, stage)
    BY DEF HangUp, Stages
  <2> QED
    BY <2>1, GotoType DEF TInv, TypeOK
<1>3. Hash(seats', Seat)
  <2>1. Hash(seats, Seat)
    BY DEF TInv, TypeOK
  <2>2. CASE /\ Owner[s] \in Seated
             /\ seats' = [seats EXCEPT ![Owner[s]].connected = FALSE,
                                       ![Owner[s]].goneFor = LobbyGrace]
    <3>1. seats[Owner[s]] \in Seat
      BY <2>1, <2>2 DEF Seated, Hash
    <3>2. [seats[Owner[s]] EXCEPT !.connected = FALSE, !.goneFor = LobbyGrace] \in Seat
      <4>1. LobbyGrace \in 0..LobbyGrace /\ FALSE \in BOOLEAN
        OBVIOUS
      <4> QED
        BY ONLY <3>1, <4>1 DEF Seat
    <3>3. seats' = [seats EXCEPT ![Owner[s]] =
                      [@ EXCEPT !.connected = FALSE, !.goneFor = LobbyGrace]]
      BY <2>1, <2>2, <3>1 DEF Seated, Hash, Seat
    <3> QED
      BY <2>1, <3>2, <3>3 DEF Hash
  <2>3. CASE seats' = seats
    BY <2>1, <2>3
  <2> QED
    BY <2>2, <2>3 DEF HangUp, Current
<1>4. duty' \in [Workers -> Duty]
  BY DutyMade, SocketsAndRelaysWork DEF TInv, TypeOK, HangUp, Do
<1> QED
  BY <1>1, <1>2, <1>3, <1>4 DEF TInv, TypeOK, CountdownHasRace, RaceKnown

LEMMA DroppedType ==
    ASSUME TInv, NEW s \in Sockets, Dropped(s)
    PROVE  TInv'
<1>1. UNCHANGED <<room, seats, races, sessions, results, mind, begun, field, said, overtaken, faults>>
  BY DEF Dropped, redis, db, story
<1>2. pc' \in [Sockets -> Stages]
  BY DEF TInv, TypeOK, Dropped, Goto, Stages
<1>3. duty' \in [Workers -> Duty]
  BY DutyMade, SocketsAndRelaysWork DEF TInv, TypeOK, Dropped, Do
<1> QED
  BY <1>1, <1>2, <1>3 DEF TInv, TypeOK, CountdownHasRace, RaceKnown

LEMMA FinishCheckType ==
    ASSUME TInv, NEW s \in Sockets, FinishCheck(s)
    PROVE  TInv'
<1>1. UNCHANGED <<room, seats, races, sessions, results, duty, begun, field, said, overtaken, faults>>
  BY DEF FinishCheck, redis, db, story
<1>2. pc' \in [Sockets -> Stages]
  BY DEF TInv, TypeOK, FinishCheck, Goto, Stages
<1>3. mind' \in [Sockets -> Mind]
  <2>1. [Blank EXCEPT !.race = room.race] \in Mind
    <3>1. room.race \in Races \cup {NoRace} /\ 0 \in 0..RaceMax
      BY DEF TInv, TypeOK, Room
    <3> QED
      BY ONLY <3>1 DEF Blank, Mind
  <2>2. mind \in [Sockets -> Mind]
    BY DEF TInv, TypeOK
  <2>3. mind' = mind \/ mind' = [mind EXCEPT ![s] = [Blank EXCEPT !.race = room.race]]
    BY DEF FinishCheck
  <2> QED
    BY <2>1, <2>2, <2>3
<1> QED
  BY <1>1, <1>2, <1>3 DEF TInv, TypeOK, CountdownHasRace, RaceKnown

LEMMA FinishRecordType ==
    ASSUME TInv, NEW s \in Sockets, FinishRecord(s)
    PROVE  TInv'
<1>1. UNCHANGED <<room, seats, results, duty, begun, field, said, overtaken, faults>>
  BY DEF FinishRecord, redis, story
<1>2. pc' \in [Sockets -> Stages]
  BY DEF TInv, TypeOK, FinishRecord, Goto, Stages
<1>3. mind' \in [Sockets -> Mind]
  <2>1. mind \in [Sockets -> Mind]
    BY DEF TInv, TypeOK
  <2>2. Forget(s) \/ \E valid \in BOOLEAN : mind' = [mind EXCEPT ![s].valid = valid]
    BY DEF FinishRecord
  <2> QED
    BY <2>1, <2>2, ForgetType DEF Mind
<1>4. races' \in [Races -> {"absent", "open", "closed"}]
  BY WithRaceRowType DEF TInv, TypeOK, FinishRecord
<1>5. sessions' \in [Races -> [Players -> Nat]]
  <2>1. sessions \in [Races -> [Players -> Nat]]
    BY DEF TInv, TypeOK
  <2>2. \/ sessions' = sessions
        \/ sessions' = [sessions EXCEPT ![mind[s].race][Owner[s]] = @ + 1]
    BY DEF FinishRecord
  <2>3. ASSUME NEW r \in Races, NEW p \in Players
        PROVE  [sessions EXCEPT ![r][p] = @ + 1] \in [Races -> [Players -> Nat]]
    <3>1. [sessions[r] EXCEPT ![p] = @ + 1] \in [Players -> Nat]
      BY <2>1
    <3> QED
      BY <2>1, <3>1
  <2>4. mind[s].race \notin Races =>
          [sessions EXCEPT ![mind[s].race][Owner[s]] = @ + 1] = sessions
    BY <2>1
  <2>5. Owner[s] \in Players
    OBVIOUS
  <2>6. CASE mind[s].race \in Races
    <3>1. [sessions EXCEPT ![mind[s].race][Owner[s]] = @ + 1] \in [Races -> [Players -> Nat]]
      BY ONLY <2>3, <2>5, <2>6, Zenon
    <3> QED
      BY ONLY <2>1, <2>2, <3>1
  <2>7. CASE mind[s].race \notin Races
    BY <2>1, <2>2, <2>4, <2>7
  <2> QED
    BY <2>6, <2>7
<1> QED
  BY <1>1, <1>2, <1>3, <1>4, <1>5 DEF TInv, TypeOK, CountdownHasRace, RaceKnown

LEMMA FinishPlaceType ==
    ASSUME TInv, NEW s \in Sockets, FinishPlace(s)
    PROVE  TInv'
<1>1. UNCHANGED <<seats, races, sessions, results, duty, begun, field, said, overtaken, faults>>
  BY DEF FinishPlace, db, story
<1>2. pc' \in [Sockets -> Stages]
  BY DEF TInv, TypeOK, FinishPlace, Goto, Stages
<1>3. room.places \in Nat /\ room \in Room
  BY DEF TInv, TypeOK, Room
<1>4. room' \in Room /\ room'.state = room.state /\ room'.race = room.race
  BY <1>3 DEF FinishPlace, Room
<1>5. mind' \in [Sockets -> Mind]
  <2>1. [mind[s] EXCEPT !.place = room.places + 1] \in Mind
    <3>1. mind[s] \in Mind /\ room.places + 1 \in Nat
      BY <1>3 DEF TInv, TypeOK
    <3> QED
      BY ONLY <3>1 DEF Mind
  <2>2. mind' = [mind EXCEPT ![s] = [@ EXCEPT !.place = room.places + 1]]
    BY DEF TInv, TypeOK, FinishPlace, Mind
  <2> QED
    BY <2>1, <2>2 DEF TInv, TypeOK
<1> QED
  BY <1>1, <1>2, <1>3, <1>4, <1>5 DEF TInv, TypeOK, CountdownHasRace, RaceKnown

LEMMA FinishPatchType ==
    ASSUME TInv, NEW s \in Sockets, FinishPatch(s)
    PROVE  TInv'
<1>1. UNCHANGED <<room, races, sessions, results, duty, begun, field, said, overtaken, faults>>
  BY DEF FinishPatch, db, story
<1>2. pc' \in [Sockets -> Stages]
  BY DEF TInv, TypeOK, FinishPatch, Goto, Stages
<1>3. mind' \in [Sockets -> Mind]
  BY ForgetType DEF TInv, TypeOK, FinishPatch
<1>4. Hash(seats', Seat)
  <2>1. Hash(seats, Seat) /\ [race |-> mind[s].race, place |-> mind[s].place] \in Run
    BY DEF TInv, TypeOK, Mind, Run
  <2> QED
    BY <2>1 DEF FinishPatch, Seated, Hash, Seat
<1> QED
  BY <1>1, <1>2, <1>3, <1>4 DEF TInv, TypeOK, CountdownHasRace, RaceKnown

LEMMA FinishFirstType ==
    ASSUME TInv, NEW s \in Sockets, FinishFirst(s)
    PROVE  TInv'
<1>1. UNCHANGED <<seats, races, sessions, results, mind, begun, field, said, overtaken, faults>>
  BY DEF FinishFirst, db, story
<1>2. pc' \in [Sockets -> Stages]
  <2>1. \E stage \in Stages : Goto(s, stage)
    BY DEF FinishFirst, Stages
  <2> QED
    BY <2>1, GotoType DEF TInv, TypeOK
<1>3. room' \in Room /\ room'.state = room.state /\ room'.race = room.race
  BY DEF TInv, TypeOK, FinishFirst, Room
<1>4. duty' \in [Workers -> Duty]
  <2>1. duty' = duty \/ Do(s, Check)
    BY DEF FinishFirst
  <2> QED
    BY <2>1, DutyMade, SocketsAndRelaysWork, DoType DEF TInv, TypeOK
<1> QED
  BY <1>1, <1>2, <1>3, <1>4 DEF TInv, TypeOK, CountdownHasRace, RaceKnown

LEMMA FinishDeadlineType ==
    ASSUME TInv, NEW s \in Sockets, FinishDeadline(s)
    PROVE  TInv'
<1>1. UNCHANGED <<room, seats, races, sessions, results, duty, begun, field, said, overtaken,
                  faults>>
  BY DEF FinishDeadline, redis, db, story
<1>2. pc' \in [Sockets -> Stages]
  BY DEF TInv, TypeOK, FinishDeadline, Goto, Stages
<1>3. mind' \in [Sockets -> Mind]
  <2>1. mind \in [Sockets -> Mind] /\ room.endsIn \in 0..RaceMax
    BY DEF TInv, TypeOK, Room
  <2> QED
    BY <2>1 DEF FinishDeadline, Mind
<1> QED
  BY <1>1, <1>2, <1>3 DEF TInv, TypeOK, CountdownHasRace, RaceKnown

LEMMA FinishShortenType ==
    ASSUME TInv, NEW s \in Sockets, FinishShorten(s)
    PROVE  TInv'
<1>1. UNCHANGED <<seats, races, sessions, results, begun, field, said, overtaken, faults>>
  BY DEF FinishShorten, db, story
<1>2. pc' \in [Sockets -> Stages]
  BY DEF TInv, TypeOK, FinishShorten, Goto, Stages
<1>3. \E n \in 0..RaceMax : room' = [room EXCEPT !.endsIn = n]
  <2>1. mind[s].deadline \in 0..RaceMax
    BY DEF TInv, TypeOK, Mind
  <2>2. \A grace \in 0..FinishGrace : Earlier(grace, mind[s].deadline) \in 0..RaceMax
    BY <2>1 DEF Earlier
  <2> QED
    BY <2>2 DEF FinishShorten
<1>4. room' \in Room /\ room'.state = room.state /\ room'.race = room.race
  BY <1>3 DEF TInv, TypeOK, Room
<1>5. duty' \in [Workers -> Duty]
  BY DutyMade, SocketsAndRelaysWork DEF TInv, TypeOK, FinishShorten, Do
<1>6. mind' \in [Sockets -> Mind]
  BY ForgetType DEF TInv, TypeOK, FinishShorten
<1> QED
  BY <1>1, <1>2, <1>3, <1>4, <1>5, <1>6 DEF TInv, TypeOK, CountdownHasRace, RaceKnown

LEMMA TimePassesType ==
    ASSUME TInv, TimePasses
    PROVE  TInv'
<1>1. UNCHANGED <<races, sessions, results, pc, duty, begun, field, said, overtaken, faults>>
  BY DEF TimePasses, db, story
<1>2. \E m \in 0..Countdown, n \in 0..RaceMax :
          room' = [room EXCEPT !.startsIn = m, !.endsIn = n]
  <2>1. room \in Room
    BY DEF TInv, TypeOK
  <2>2. /\ Elapse(room.startsIn) \in 0..Countdown /\ room.startsIn \in 0..Countdown
        /\ Elapse(room.endsIn) \in 0..RaceMax /\ room.endsIn \in 0..RaceMax
    BY <2>1 DEF Room, Elapse
  <2>3. room' = [room EXCEPT
                   !.startsIn = IF room.state = "countdown" THEN Elapse(room.startsIn) ELSE room.startsIn,
                   !.endsIn = IF room.state = "running" THEN Elapse(room.endsIn) ELSE room.endsIn]
    BY <2>1 DEF TimePasses, Room
  <2> QED
    BY <2>2, <2>3
<1>3. room' \in Room /\ room'.state = room.state /\ room'.race = room.race
  BY <1>2 DEF TInv, TypeOK, Room
<1>4. Hash(seats', Seat)
  <2>1. Hash(seats, Seat)
    BY DEF TInv, TypeOK
  <2>2. \A p \in Seated : Elapse(seats[p].goneFor) \in 0..LobbyGrace
    BY <2>1 DEF Hash, Seat, Seated, Elapse
  <2>3. seats' = [p \in Seated |->
                    IF seats[p].connected THEN seats[p]
                    ELSE [seats[p] EXCEPT !.goneFor = Elapse(seats[p].goneFor)]]
    BY <2>1 DEF TimePasses
  <2> QED
    BY <2>1, <2>2, <2>3 DEF Hash, Seat, Seated
<1>5. mind' \in [Sockets -> Mind]
  <2>1. mind \in [Sockets -> Mind]
    BY DEF TInv, TypeOK
  <2>2. \A s \in Sockets : Elapse(mind[s].deadline) \in 0..RaceMax
    BY <2>1 DEF Mind, Elapse
  <2> QED
    BY <2>1, <2>2 DEF TimePasses, Mind
<1> QED
  BY <1>1, <1>2, <1>3, <1>4, <1>5 DEF TInv, TypeOK, CountdownHasRace, RaceKnown

LEMMA ErrorType ==
    ASSUME TInv, NEW w \in Workers, Error(w)
    PROVE  TInv'
<1>1. UNCHANGED <<room, seats, races, sessions, results, begun, field, said, overtaken>>
  BY DEF Error, redis, db, story
<1>2. faults' \in 0..MaxFaults
  BY DEF TInv, TypeOK, Error, Fault
<1>3. duty' \in [Workers -> Duty]
  BY DutyMade DEF TInv, TypeOK, Error, Do
<1>4. pc' \in [Sockets -> Stages]
  BY DEF TInv, TypeOK, Error, Goto, StageAfterError, Stages
<1>5. mind' \in [Sockets -> Mind]
  BY ForgetType DEF TInv, TypeOK, Error
<1> QED
  BY <1>1, <1>2, <1>3, <1>4, <1>5 DEF TInv, TypeOK, CountdownHasRace, RaceKnown

LEMMA CleanupErrorType ==
    ASSUME TInv, NEW s \in Sockets, CleanupError(s)
    PROVE  TInv'
<1>1. UNCHANGED <<room, seats, races, sessions, results, mind, begun, field, said, overtaken>>
  BY DEF CleanupError, redis, db, story
<1>2. faults' \in 0..MaxFaults
  BY DEF TInv, TypeOK, CleanupError, Fault
<1>3. duty' \in [Workers -> Duty]
  BY DutyMade, SocketsAndRelaysWork DEF TInv, TypeOK, CleanupError, Do
<1>4. pc' \in [Sockets -> Stages]
  BY DEF TInv, TypeOK, CleanupError, Goto, Stages
<1> QED
  BY <1>1, <1>2, <1>3, <1>4 DEF TInv, TypeOK, CountdownHasRace, RaceKnown

LEMMA CrashType ==
    ASSUME TInv, NEW replica \in Replicas, Crash(replica)
    PROVE  TInv'
<1>1. UNCHANGED <<room, seats, races, sessions, results, begun, field, said, overtaken>>
  BY DEF Crash, redis, db, story
<1>2. faults' \in 0..MaxFaults
  BY DEF TInv, TypeOK, Crash, Fault
<1>3. duty' \in [Workers -> Duty]
  BY DutyMade DEF TInv, TypeOK, Crash
<1>4. pc' \in [Sockets -> Stages] /\ mind' \in [Sockets -> Mind]
  BY DEF TInv, TypeOK, Crash, Stages, Mind, Blank, NoRace
<1> QED
  BY <1>1, <1>2, <1>3, <1>4 DEF TInv, TypeOK, CountdownHasRace, RaceKnown

LEMMA TickType ==
    ASSUME TInv, NEW w \in Workers, Tick(w),
           UNCHANGED <<db, mind, faults>>, pc' \in [Sockets -> Stages]
    PROVE  TInv'
<1>1. CASE UNCHANGED <<redis, duty, story>>
  BY <1>1 DEF TInv, TypeOK, CountdownHasRace, RaceKnown, redis, db, story
<1> QED
  BY <1>1, GoType, TimeUpType, SweepType DEF Tick, DueScript

LEMMA DutyStepType ==
    ASSUME TInv, NEW w \in Workers, DutyStep(w)
    PROVE  TInv'
BY ReadBegunType, InsertRaceType, PublishStartedType, ReadEndedType, InsertResultsType,
   PublishOverType, ReadAfterRemovalType, DeleteRoomType, HandOffType, ReadMaybeEndType,
   ForceEndType DEF DutyStep

LEMMA HandlerStepType ==
    ASSUME TInv, NEW s \in Sockets, HandlerStep(s)
    PROVE  TInv'
<1>1. s \in Workers
  BY SocketsAndRelaysWork
<1>2. CASE JoinTick(s)
  <2>1. pc' \in [Sockets -> Stages]
    BY <1>2 DEF TInv, TypeOK, JoinTick, Goto, Stages
  <2> QED
    BY <1>1, <1>2, <2>1, TickType DEF JoinTick, db
<1>3. CASE SendSnapshot(s)
  BY <1>3 DEF TInv, TypeOK, CountdownHasRace, RaceKnown, SendSnapshot, Goto, Stages,
              redis, db, story
<1> QED
  BY <1>2, <1>3, StartType, PlayAgainType, LeaveType, FinishCheckType, FinishRecordType,
     FinishPlaceType, FinishPatchType, FinishFirstType, FinishDeadlineType, FinishShortenType,
     DroppedType, HangUpType DEF HandlerStep

LEMMA ClientStepType ==
    ASSUME TInv, NEW s \in Sockets, ClientStep(s)
    PROVE  TInv'
<1>1. ASSUME NEW kind \in Frames, Receive(s, kind)
      PROVE  TInv'
  <2>1. s \in Workers /\ kind \in Stages
    BY SocketsAndRelaysWork DEF Stages, FrameKinds
  <2>2. pc' \in [Sockets -> Stages]
    BY <1>1, <2>1, GotoType DEF TInv, TypeOK, Receive
  <2> QED
    BY <1>1, <2>1, <2>2, TickType DEF Receive, db
<1> QED
  BY <1>1, JoinType, HangUpType DEF ClientStep

LEMMA FreeTickType ==
    ASSUME TInv, NEW w \in Workers, DueScript(w), UNCHANGED <<db, pc, mind, faults>>
    PROVE  TInv'
<1>1. pc' \in [Sockets -> Stages]
  BY DEF TInv, TypeOK
<1> QED
  BY <1>1, TickType DEF Tick

(* TypeOK and what it rests on survive every step of the system. *)
LEMMA StepTInv == TInv /\ [Next]_vars => TInv'
<1> SUFFICES ASSUME TInv, [Next]_vars PROVE TInv'
    OBVIOUS
<1>1. CASE UNCHANGED vars
  BY <1>1 DEF TInv, TypeOK, CountdownHasRace, RaceKnown, vars, redis, db, local, story
<1>2. ASSUME NEW s \in Sockets, RelayTick(s) PROVE TInv'
  BY <1>2, FreeTickType, SocketsAndRelaysWork DEF RelayTick
<1>3. ASSUME NEW t \in Timers, TimerTick(t) PROVE TInv'
  BY <1>3, FreeTickType DEF TimerTick, Workers
<1>4. ASSUME NEW s \in Sockets, EarlyClose(s) PROVE TInv'
  <2>1. pc' \in [Sockets -> Stages] /\ faults' \in 0..MaxFaults
    BY <1>4 DEF TInv, TypeOK, EarlyClose, Fault, Goto, Stages
  <2> QED
    BY <1>4, <2>1 DEF TInv, TypeOK, CountdownHasRace, RaceKnown, EarlyClose, redis, db, story
<1> QED
  BY <1>1, <1>2, <1>3, <1>4, HandlerStepType, ClientStepType, CleanupErrorType,
     DutyStepType, ErrorType, CrashType, TimePassesType DEF Next

LEMMA AlwaysTInv == Spec => []TInv
BY InitTInv, StepTInv, PTL DEF Spec

(* Every variable keeps its type in every reachable state: every hash only  *)
(* holds accounts, every coroutine is where the code has a line for it, and *)
(* no race id is given out beyond the bound.                               *)
THEOREM TypeCorrect == Spec => []TypeOK
<1>1. TInv => TypeOK
  BY DEF TInv
<1> QED
  BY <1>1, AlwaysTInv, PTL

-----------------------------------------------------------------------------
(* The deadline.  What a finisher holds between HGET and HSET is the        *)
(* deadline still, because HSETNX lets one finisher of a race through and a *)
(* finish that no play_again has overtaken only meets its own race.        *)
Untouched == "finish" \notin overtaken
Shortening(s) == pc[s] \in {"deadline", "shorten"}

DeadlineInv ==
    Untouched =>
        /\ \A s \in Sockets : Finishing(s) => room.state \in {"running", "finished", "none"}
        /\ \A s \in Sockets : Shortening(s) => room.state = "none" \/ room.firstFinish
        /\ \A s, t \in Sockets :
              Shortening(s) /\ Shortening(t) => room.state = "none" \/ s = t
        /\ \A s \in Sockets : pc[s] = "shorten" =>
              room.state # "running" \/ mind[s].deadline = room.endsIn

(* A step that puts nobody on the way to the deadline ... *)
PathsKept ==
    \A s \in Sockets :
        /\ Finishing(s)' => Finishing(s)
        /\ Shortening(s)' => Shortening(s)
        /\ pc'[s] = "shorten" => pc[s] = "shorten" /\ mind'[s].deadline = mind[s].deadline

(* ... and moves neither it nor the room to another race. *)
RaceKept ==
    \/ /\ room'.state = room.state /\ room'.endsIn = room.endsIn
       /\ room.firstFinish => room'.firstFinish
    \/ /\ room.state = "running" /\ room'.state = "finished"
       /\ room'.firstFinish = room.firstFinish
    \/ room'.state = "none"

OvertakenGrows == overtaken \subseteq overtaken'

LEMMA KeptDeadline ==
    ASSUME DeadlineInv, PathsKept, RaceKept, OvertakenGrows
    PROVE  DeadlineInv'
BY DEF DeadlineInv, PathsKept, RaceKept, OvertakenGrows, Untouched

LEMMA NobodyFinishing ==
    ASSUME PathsKept, \A s \in Sockets : ~Finishing(s)
    PROVE  DeadlineInv'
BY DEF DeadlineInv, PathsKept, Finishing, Shortening

LEMMA SamePaths ==
    ASSUME UNCHANGED <<pc, mind>>
    PROVE  PathsKept
BY DEF PathsKept, Finishing, Shortening

LEMMA SameRace ==
    ASSUME UNCHANGED room
    PROVE  RaceKept
BY DEF RaceKept

LEMMA GotoPaths ==
    ASSUME TInv, NEW s \in Sockets, NEW stage, Goto(s, stage),
           stage \notin {"deadline", "shorten"},
           stage \in {"record", "place", "patch", "first"} => Finishing(s),
           \A t \in Sockets : t # s => mind'[t] = mind[t]
    PROVE  PathsKept
BY DEF TInv, TypeOK, Goto, PathsKept, Finishing, Shortening

LEMMA TickDeadline ==
    ASSUME TInv, DeadlineInv, NEW w, Tick(w), PathsKept
    PROVE  DeadlineInv'
<1>1. CASE Go(w)
  <2>1. OvertakenGrows /\ room.state = "countdown"
    BY <1>1 DEF Go, CountdownDue, OvertakenGrows
  <2>2. CASE Untouched
    <3>1. \A s \in Sockets : ~Finishing(s)
      BY <2>1, <2>2 DEF DeadlineInv
    <3> QED
      BY <3>1, NobodyFinishing
  <2>3. CASE ~Untouched
    BY <2>1, <2>3 DEF OvertakenGrows, Untouched, DeadlineInv
  <2> QED
    BY <2>2, <2>3
<1>2. CASE TimeUp(w)
  <2>1. RaceKept /\ OvertakenGrows
    BY <1>2 DEF TimeUp, End, DeadlineDue, TInv, TypeOK, Room, RaceKept, OvertakenGrows, story
  <2> QED
    BY <2>1, KeptDeadline
<1>3. CASE UNCHANGED <<room, overtaken>>
  BY <1>3, KeptDeadline, SameRace DEF OvertakenGrows
<1> QED
  BY <1>1, <1>2, <1>3 DEF Tick, DueScript, Sweep, redis, story

LEMMA DutyStepDeadline ==
    ASSUME TInv, DeadlineInv, NEW w \in Workers, DutyStep(w)
    PROVE  DeadlineInv'
<1>1. OvertakenGrows /\ UNCHANGED mind
  BY DEF DutyStep, ReadBegun, InsertRace, PublishStarted, ReadEnded, InsertResults, PublishOver,
         ReadAfterRemoval, DeleteRoom, HandOff, ReadMaybeEnd, ForceEnd, End, story, OvertakenGrows
<1>2. PathsKept
  <2>1. CASE AbandonDuty(w) /\ w \in Sockets
    <3>1. Goto(w, StageAfterRefusal(w))
      BY <2>1 DEF AbandonDuty, Goto
    <3>2. StageAfterRefusal(w) \in {"closed", "open", pc[w]}
      BY DEF StageAfterRefusal
    <3>3. CASE StageAfterRefusal(w) = pc[w]
      BY <1>1, <3>1, <3>3, SamePaths DEF Goto, TInv, TypeOK
    <3>4. CASE StageAfterRefusal(w) \in {"closed", "open"}
      BY <1>1, <2>1, <3>1, <3>4, GotoPaths
    <3> QED
      BY <3>2, <3>3, <3>4
  <2>2. CASE UNCHANGED pc
    BY <1>1, <2>2, SamePaths
  <2> QED
    BY <2>1, <2>2 DEF AbandonDuty, DutyStep, ReadBegun, InsertRace, PublishStarted, ReadEnded,
       InsertResults, PublishOver, ReadAfterRemoval, DeleteRoom, HandOff, ReadMaybeEnd, ForceEnd
<1>3. RaceKept
  <2>1. CASE DeleteRoom(w)
    BY <2>1 DEF DeleteRoom, NoRoom, FreshRoom, RaceKept
  <2>2. CASE HandOff(w)
    BY <2>2 DEF HandOff, TInv, TypeOK, Room, RaceKept
  <2>3. CASE ForceEnd(w)
    BY <2>3 DEF ForceEnd, MayEnd, End, TInv, TypeOK, Room, RaceKept, redis
  <2>4. CASE UNCHANGED room
    BY <2>4, SameRace
  <2> QED
    BY <2>1, <2>2, <2>3, <2>4 DEF DutyStep, ReadBegun, InsertRace, PublishStarted, ReadEnded,
       InsertResults, PublishOver, ReadAfterRemoval, ReadMaybeEnd, redis
<1> QED
  BY <1>1, <1>2, <1>3, KeptDeadline

(* A race that is started anew: nobody is finishing. *)
LEMMA RenewalDeadline ==
    ASSUME TInv, DeadlineInv, NEW s \in Sockets, Start(s) \/ PlayAgain(s)
    PROVE  DeadlineInv'
<1>1. PathsKept
  BY GotoPaths DEF Start, PlayAgain
<1>2. OvertakenGrows
  BY DEF Start, PlayAgain, story, OvertakenGrows
<1>3. CASE UNCHANGED room
  BY <1>1, <1>2, <1>3, SameRace, KeptDeadline
<1>4. CASE room.state = "lobby" /\ Untouched
  BY <1>1, <1>4, NobodyFinishing DEF DeadlineInv
<1>5. CASE "finish" \in overtaken'
  BY <1>5 DEF DeadlineInv, Untouched
<1>6. CASE overtaken' = overtaken \cup {loose \in LooseEnds : InFlight(loose)}
  <2>1. CASE InFlight("finish")
    BY <1>5, <1>6, <2>1 DEF LooseEnds
  <2>2. CASE ~InFlight("finish")
    <3>1. \A t \in Sockets : ~Finishing(t)
      BY <2>2 DEF InFlight
    <3> QED
      BY <1>1, <3>1, NobodyFinishing
  <2> QED
    BY <2>1, <2>2
<1> QED
  BY <1>2, <1>3, <1>4, <1>5, <1>6 DEF Start, MayStart, PlayAgain, redis, OvertakenGrows, Untouched

LEMMA FinishCheckDeadline ==
    ASSUME TInv, DeadlineInv, NEW s \in Sockets, FinishCheck(s)
    PROVE  DeadlineInv'
<1>1. UNCHANGED <<room, overtaken>>
  BY DEF FinishCheck, redis, story
<1>2. CASE MayFinish(Owner[s])
  <2>1. /\ room.state = "running" /\ pc' = [pc EXCEPT ![s] = "record"]
        /\ \A t \in Sockets : t # s => mind'[t] = mind[t]
    BY <1>2 DEF FinishCheck, MayFinish, Goto, TInv, TypeOK
  <2> QED
    BY <1>1, <2>1 DEF DeadlineInv, Untouched, Finishing, Shortening, TInv, TypeOK
<1>3. CASE ~MayFinish(Owner[s])
  <2>1. PathsKept
    BY <1>3, GotoPaths DEF FinishCheck
  <2> QED
    BY <1>1, <2>1, SameRace, KeptDeadline DEF OvertakenGrows
<1> QED
  BY <1>2, <1>3

LEMMA FinishFirstDeadline ==
    ASSUME TInv, DeadlineInv, NEW s \in Sockets, FinishFirst(s)
    PROVE  DeadlineInv'
<1>1. /\ UNCHANGED <<mind, overtaken>> /\ pc[s] = "first"
      /\ room'.state = room.state /\ room'.endsIn = room.endsIn /\ room'.firstFinish
  BY DEF FinishFirst, story, TInv, TypeOK, Room
<1>2. CASE room.firstFinish
  <2>1. PathsKept
    BY <1>1, <1>2, GotoPaths DEF FinishFirst
  <2> QED
    BY <1>1, <2>1, KeptDeadline DEF OvertakenGrows, RaceKept
<1>3. CASE ~room.firstFinish
  <2>1. pc' = [pc EXCEPT ![s] = "deadline"]
    BY <1>3 DEF FinishFirst, Goto
  <2> QED
    BY <1>1, <1>3, <2>1 DEF DeadlineInv, Untouched, Finishing, Shortening, TInv, TypeOK
<1> QED
  BY <1>2, <1>3

LEMMA FinishDeadlineDeadline ==
    ASSUME TInv, DeadlineInv, NEW s \in Sockets, FinishDeadline(s)
    PROVE  DeadlineInv'
<1>1. /\ UNCHANGED <<room, overtaken>> /\ pc[s] = "deadline"
      /\ pc' = [pc EXCEPT ![s] = "shorten"]
      /\ mind'[s].deadline = room.endsIn
      /\ \A t \in Sockets : t # s => mind'[t] = mind[t]
  BY DEF FinishDeadline, Goto, redis, story, TInv, TypeOK, Mind
<1> QED
  BY <1>1 DEF DeadlineInv, Untouched, Finishing, Shortening, TInv, TypeOK

LEMMA FinishShortenDeadline ==
    ASSUME TInv, DeadlineInv, NEW s \in Sockets, FinishShorten(s)
    PROVE  DeadlineInv'
<1>1. /\ UNCHANGED overtaken /\ pc[s] = "shorten"
      /\ pc' = [pc EXCEPT ![s] = "open"]
      /\ room'.state = room.state /\ room'.firstFinish = room.firstFinish
      /\ \A t \in Sockets : t # s => mind'[t] = mind[t]
  BY DEF FinishShorten, Goto, Forget, story, TInv, TypeOK, Room
<1>2. \A t \in Sockets :
         /\ Finishing(t)' => t # s /\ Finishing(t)
         /\ Shortening(t)' => t # s /\ Shortening(t)
  BY <1>1 DEF Finishing, Shortening, TInv, TypeOK
<1> QED
  BY <1>1, <1>2 DEF DeadlineInv, Untouched, Shortening

LEMMA HandlerStepDeadline ==
    ASSUME TInv, DeadlineInv, NEW s \in Sockets, HandlerStep(s)
    PROVE  DeadlineInv'
<1>1. CASE JoinTick(s)
  <2>1. PathsKept
    BY <1>1, GotoPaths DEF JoinTick
  <2> QED
    BY <1>1, <2>1, TickDeadline DEF JoinTick
<1>2. CASE FinishRecord(s)
  <2>1. PathsKept
    <3>1. \A t \in Sockets : t # s => mind'[t] = mind[t]
      BY <1>2 DEF FinishRecord, Forget, TInv, TypeOK
    <3>2. Finishing(s) /\ \E stage \in {"place", "patch", "open"} : Goto(s, stage)
      BY <1>2 DEF FinishRecord, Finishing
    <3> QED
      BY <3>1, <3>2, GotoPaths
  <2> QED
    BY <1>2, <2>1, SameRace, KeptDeadline DEF FinishRecord, redis, story, OvertakenGrows
<1>3. CASE FinishPlace(s)
  <2>1. PathsKept
    BY <1>3, GotoPaths DEF FinishPlace, Finishing, TInv, TypeOK
  <2>2. RaceKept
    BY <1>3 DEF FinishPlace, RaceKept, TInv, TypeOK, Room
  <2> QED
    BY <1>3, <2>1, <2>2, KeptDeadline DEF FinishPlace, story, OvertakenGrows
<1>4. CASE FinishPatch(s)
  <2>1. PathsKept
    BY <1>4, GotoPaths DEF FinishPatch, Finishing, Forget, TInv, TypeOK
  <2> QED
    BY <1>4, <2>1, SameRace, KeptDeadline DEF FinishPatch, story, OvertakenGrows
<1>5. CASE SendSnapshot(s) \/ Leave(s) \/ Dropped(s) \/ HangUp(s)
  <2>1. PathsKept
    <3>1. UNCHANGED mind
      BY <1>5 DEF SendSnapshot, Leave, Dropped, HangUp
    <3>2. \E stage \in {"closed", "open", "leaving", "dropped"} : Goto(s, stage)
      BY <1>5 DEF SendSnapshot, Leave, Dropped, HangUp
    <3> QED
      BY <3>1, <3>2, GotoPaths
  <2>2. UNCHANGED <<room, overtaken>>
    BY <1>5 DEF SendSnapshot, Leave, Dropped, HangUp, redis, story
  <2> QED
    BY <2>1, <2>2, SameRace, KeptDeadline DEF OvertakenGrows
<1> QED
  BY <1>1, <1>2, <1>3, <1>4, <1>5, RenewalDeadline, FinishCheckDeadline, FinishFirstDeadline,
     FinishDeadlineDeadline, FinishShortenDeadline DEF HandlerStep

LEMMA ClientStepDeadline ==
    ASSUME TInv, DeadlineInv, NEW s \in Sockets, ClientStep(s)
    PROVE  DeadlineInv'
<1>1. ASSUME NEW kind \in Frames, Receive(s, kind)
      PROVE  DeadlineInv'
  <2>1. PathsKept
    BY <1>1, GotoPaths DEF Receive, FrameKinds
  <2> QED
    BY <1>1, <2>1, TickDeadline DEF Receive
<1>2. CASE Join(s) \/ HangUp(s)
  <2>1. PathsKept
    <3>1. \E stage \in {"joining", "closed", "dropped"} : Goto(s, stage)
      BY <1>2 DEF Join, HangUp
    <3> QED
      BY <1>2, <3>1, GotoPaths DEF Join, HangUp
  <2> QED
    BY <1>2, <2>1, SameRace, KeptDeadline DEF Join, HangUp, story, OvertakenGrows
<1> QED
  BY <1>1, <1>2 DEF ClientStep

LEMMA TimePassesDeadline ==
    ASSUME TInv, DeadlineInv, TimePasses
    PROVE  DeadlineInv'
<1>1. /\ UNCHANGED <<pc, overtaken>>
      /\ room'.state = room.state /\ room'.firstFinish = room.firstFinish
      /\ room.state = "running" => room'.endsIn = Elapse(room.endsIn)
      /\ \A s \in Sockets : pc[s] = "shorten" => mind'[s].deadline = Elapse(mind[s].deadline)
  BY DEF TimePasses, story, TInv, TypeOK, Room, Mind
<1> QED
  BY <1>1 DEF DeadlineInv, Untouched, Finishing, Shortening

LEMMA FaultDeadline ==
    ASSUME TInv, DeadlineInv,
           \/ \E w \in Workers : Error(w)
           \/ \E s \in Sockets : CleanupError(s) \/ EarlyClose(s)
           \/ \E replica \in Replicas : Crash(replica)
    PROVE  DeadlineInv'
<1>1. UNCHANGED <<room, overtaken>>
  BY DEF Error, CleanupError, EarlyClose, Crash, redis, story
<1>2. PathsKept
  <2>1. ASSUME NEW w \in Workers, Error(w)
        PROVE  PathsKept
    <3>1. CASE w \in Sockets
      <4>1. \E stage \in {"closed", "leaving"} : Goto(w, stage)
        BY <2>1, <3>1 DEF Error, StageAfterError
      <4> QED
        BY <2>1, <3>1, <4>1, GotoPaths DEF Error, Forget, TInv, TypeOK
    <3>2. CASE w \notin Sockets
      BY <2>1, <3>2, SamePaths DEF Error
    <3> QED
      BY <3>1, <3>2
  <2>2. ASSUME NEW s \in Sockets, CleanupError(s) \/ EarlyClose(s)
        PROVE  PathsKept
    BY <2>2, GotoPaths DEF CleanupError, EarlyClose
  <2>3. ASSUME NEW replica \in Replicas, Crash(replica)
        PROVE  PathsKept
    BY <2>3 DEF Crash, PathsKept, Finishing, Shortening, TInv, TypeOK
  <2> QED
    BY <2>1, <2>2, <2>3
<1> QED
  BY <1>1, <1>2, SameRace, KeptDeadline DEF OvertakenGrows

LEMMA StepDeadline == TInv /\ DeadlineInv /\ [Next]_vars => DeadlineInv'
<1> SUFFICES ASSUME TInv, DeadlineInv, [Next]_vars PROVE DeadlineInv'
    OBVIOUS
<1>1. CASE UNCHANGED vars
  BY <1>1, SamePaths, SameRace, KeptDeadline DEF vars, redis, local, story, OvertakenGrows
<1>2. ASSUME NEW w \in Workers, DueScript(w), UNCHANGED <<pc, mind>> PROVE DeadlineInv'
  BY <1>2, SamePaths, TickDeadline DEF Tick
<1>3. ASSUME NEW s \in Sockets, RelayTick(s) PROVE DeadlineInv'
  BY <1>2, <1>3, SocketsAndRelaysWork DEF RelayTick
<1>4. ASSUME NEW t \in Timers, TimerTick(t) PROVE DeadlineInv'
  BY <1>2, <1>4 DEF TimerTick, Workers
<1> QED
  BY <1>1, <1>3, <1>4, HandlerStepDeadline, ClientStepDeadline, DutyStepDeadline,
     FaultDeadline, TimePassesDeadline DEF Next

LEMMA AlwaysDeadline == Spec => []DeadlineInv
<1>1. Init => DeadlineInv
  BY DEF Init, DeadlineInv, Finishing, Shortening
<1> QED
  BY <1>1, StepDeadline, AlwaysTInv, PTL DEF Spec

(* And so every step leaves a running race no more time than it had. *)
Closer ==
    (Untouched /\ room.state = "running" /\ room'.state = "running" /\ room'.race = room.race)
        => room'.endsIn <= room.endsIn

LEMMA SameRoomCloser ==
    ASSUME TInv, UNCHANGED room
    PROVE  Closer
BY DEF Closer, TInv, TypeOK, Room

LEMMA TickCloser ==
    ASSUME TInv, NEW w, Tick(w)
    PROVE  Closer
<1>1. CASE Go(w)
  BY <1>1 DEF Go, CountdownDue, Closer
<1>2. CASE TimeUp(w)
  BY <1>2 DEF TimeUp, End, TInv, TypeOK, Room, Closer
<1>3. CASE UNCHANGED room
  BY <1>3, SameRoomCloser
<1> QED
  BY <1>1, <1>2, <1>3 DEF Tick, DueScript, Sweep, redis

LEMMA DutyStepCloser ==
    ASSUME TInv, NEW w, DutyStep(w)
    PROVE  Closer
<1>1. CASE DeleteRoom(w)
  BY <1>1 DEF DeleteRoom, NoRoom, FreshRoom, Closer
<1>2. CASE HandOff(w)
  BY <1>2 DEF HandOff, TInv, TypeOK, Room, Closer
<1>3. CASE ForceEnd(w)
  <2>1. CASE End(w, duty[w].race)
    BY <2>1 DEF End, TInv, TypeOK, Room, Closer
  <2> QED
    BY <1>3, <2>1, SameRoomCloser DEF ForceEnd, redis
<1>4. CASE UNCHANGED room
  BY <1>4, SameRoomCloser
<1> QED
  BY <1>1, <1>2, <1>3, <1>4 DEF DutyStep, ReadBegun, InsertRace, PublishStarted, ReadEnded,
     InsertResults, PublishOver, ReadAfterRemoval, ReadMaybeEnd, redis

LEMMA HandlerStepCloser ==
    ASSUME TInv, DeadlineInv, NEW s \in Sockets, HandlerStep(s)
    PROVE  Closer
<1>1. CASE Start(s)
  BY <1>1, SameRoomCloser DEF Start, MayStart, FreshRoom, Closer, redis
<1>2. CASE PlayAgain(s)
  BY <1>2, SameRoomCloser DEF PlayAgain, MayPlayAgain, FreshRoom, Closer, redis
<1>3. CASE FinishPlace(s) \/ FinishFirst(s)
  <2>1. room.endsIn \in Nat /\ room'.endsIn = room.endsIn
    BY <1>3 DEF FinishPlace, FinishFirst, TInv, TypeOK, Room
  <2> QED
    BY <2>1 DEF Closer
<1>4. CASE FinishShorten(s)
  <2>1. PICK grace \in 0..FinishGrace :
             room' = [room EXCEPT !.endsIn = Earlier(grace, mind[s].deadline)]
    BY <1>4 DEF FinishShorten
  <2>2. mind[s].deadline \in 0..RaceMax /\ room'.endsIn = Earlier(grace, mind[s].deadline)
    BY <2>1 DEF TInv, TypeOK, Room, Mind
  <2>3. room'.endsIn <= mind[s].deadline
    BY <2>2 DEF Earlier
  <2> QED
    BY <1>4, <2>3 DEF FinishShorten, DeadlineInv, Closer
<1>5. CASE JoinTick(s)
  BY <1>5, TickCloser DEF JoinTick
<1>6. CASE UNCHANGED room
  BY <1>6, SameRoomCloser
<1> QED
  BY <1>1, <1>2, <1>3, <1>4, <1>5, <1>6 DEF HandlerStep, SendSnapshot, Leave, FinishCheck,
     FinishRecord, FinishPatch, FinishDeadline, Dropped, HangUp, redis

LEMMA TimePassesCloser ==
    ASSUME TInv, TimePasses
    PROVE  Closer
<1>1. room.endsIn \in Nat /\ room'.endsIn \in {room.endsIn, Elapse(room.endsIn)}
  BY DEF TInv, TypeOK, Room, TimePasses
<1> QED
  BY <1>1 DEF Elapse, Closer

(* However the finishes of a race interleave between their reads and their  *)
(* writes, no write gives the race more time, unless a play_again overtook  *)
(* a finish.                                                               *)
THEOREM DeadlineCloses == Spec => DeadlineOnlyCloser
<1>1. TInv /\ DeadlineInv /\ [Next]_vars => [Closer]_vars
  <2> SUFFICES ASSUME TInv, DeadlineInv, Next PROVE Closer
      OBVIOUS
  <2>1. ASSUME NEW s \in Sockets, ClientStep(s) PROVE Closer
    BY <2>1, TickCloser, SameRoomCloser DEF ClientStep, Join, Receive, HangUp
  <2>2. ASSUME NEW s \in Sockets, RelayTick(s) PROVE Closer
    BY <2>2, TickCloser DEF RelayTick, Tick
  <2>3. ASSUME NEW t \in Timers, TimerTick(t) PROVE Closer
    BY <2>3, TickCloser DEF TimerTick, Tick
  <2>4. CASE \/ \E s \in Sockets : CleanupError(s) \/ EarlyClose(s)
             \/ \E w \in Workers : Error(w)
             \/ \E replica \in Replicas : Crash(replica)
    BY <2>4, SameRoomCloser DEF CleanupError, EarlyClose, Error, Crash, redis
  <2> QED
    BY <2>1, <2>2, <2>3, <2>4, DutyStepCloser, HandlerStepCloser, TimePassesCloser DEF Next
<1> QED
  BY <1>1, AlwaysTInv, AlwaysDeadline, PTL DEF Spec, DeadlineOnlyCloser, Closer, Untouched

-----------------------------------------------------------------------------
(* Presence.  That a closed tab never marks its player gone rests on two    *)
(* facts more: the room's key and its players hash go together, and a       *)
(* socket that has not joined yet has nothing to do that could fail.        *)
GoneIsEmpty == room.state = "none" => Seated = {}
NewIsIdle == \A s \in Sockets : pc[s] = "new" => duty[s] = Idle

Presence == PresenceFollowsSocket /\ GoneIsEmpty /\ NewIsIdle

(* A step that seats nobody, changes nobody's connection, attaches nobody,  *)
(* and detaches somebody only as a fault or from a room that is gone.      *)
Undisturbed ==
    /\ \A p \in DOMAIN seats' :
          p \in Seated /\ seats'[p].conn = seats[p].conn
                       /\ seats'[p].connected = seats[p].connected
    /\ \A s \in Sockets : Attached(s)' => Attached(s)
    /\ faults' = 0 => faults = 0 /\ \A s \in Sockets : Attached(s) => Attached(s)' \/ Seated = {}
    /\ room'.state = "none" => room.state = "none" \/ DOMAIN seats' = {}
    /\ \A s \in Sockets : pc'[s] = "new" => pc[s] = "new" /\ duty'[s] = duty[s]

LEMMA UndisturbedKeepsPresence ==
    ASSUME TInv, Presence, Undisturbed
    PROVE  Presence'
<1>1. \A p \in Seated : seats[p].conn \in Sockets
  BY DEF TInv, TypeOK, Hash, Seat, Seated
<1>2. PresenceFollowsSocket'
  BY <1>1 DEF Presence, PresenceFollowsSocket, Undisturbed, Seated
<1>3. GoneIsEmpty' /\ NewIsIdle'
  BY DEF Presence, GoneIsEmpty, NewIsIdle, Undisturbed, Seated
<1> QED
  BY <1>2, <1>3 DEF Presence

(* The connections of those who stay, and the room's key. *)
SeatingKept ==
    /\ \A p \in DOMAIN seats' :
          p \in Seated /\ seats'[p].conn = seats[p].conn
                       /\ seats'[p].connected = seats[p].connected
    /\ room'.state = "none" => room.state = "none" \/ DOMAIN seats' = {}

(* A handler moves on, and only its own duty with it. *)
LEMMA StageUndisturbed ==
    ASSUME TInv, NEW s \in Sockets, NEW stage, Goto(s, stage),
           Attached(s), stage \notin {"new", "dropped", "closed"},
           SeatingKept, UNCHANGED faults,
           \A t \in Sockets : t # s => duty'[t] = duty[t]
    PROVE  Undisturbed
BY DEF TInv, TypeOK, Goto, Attached, SeatingKept, Undisturbed

(* A worker goes on with its duty, and no handler moves. *)
LEMMA DutyUndisturbed ==
    ASSUME TInv, Presence, NEW w \in Workers, NEW d, Do(w, d),
           w \in Sockets => pc[w] # "new",
           SeatingKept, UNCHANGED <<pc, faults>>
    PROVE  Undisturbed
BY DEF TInv, TypeOK, Do, Attached, SeatingKept, Undisturbed

LEMMA SameSeating ==
    ASSUME UNCHANGED seats, room'.state = "none" => room.state = "none"
    PROVE  SeatingKept
BY DEF SeatingKept, Seated

LEMMA HDelSeating ==
    ASSUME UNCHANGED room, NEW keys, seats' = HDel(seats, keys)
    PROVE  SeatingKept
BY DEF SeatingKept, HDel, Seated

LEMMA ResetSeating ==
    ASSUME Hash(seats, Seat), seats' = [p \in Seated |-> Reset(p)], room'.state # "none"
    PROVE  SeatingKept
BY DEF SeatingKept, Reset, Seated, Hash, Seat

LEMMA TickSeating ==
    ASSUME TInv, NEW w \in Workers, Tick(w)
    PROVE  SeatingKept /\ \A v \in Workers : v # w => duty'[v] = duty[v]
<1>1. \A v \in Workers : v # w => duty'[v] = duty[v]
  BY DEF TInv, TypeOK, Tick, DueScript, Go, TimeUp, End, Sweep, Do
<1>2. CASE Go(w) \/ TimeUp(w)
  <2>1. room'.state # "none" /\ UNCHANGED seats
    BY <1>2 DEF TInv, TypeOK, Go, TimeUp, End, Room
  <2> QED
    BY <1>1, <2>1, SameSeating
<1>3. CASE Sweep(w)
  BY <1>1, <1>3, HDelSeating DEF Sweep
<1>4. CASE UNCHANGED redis
  BY <1>1, <1>4, SameSeating DEF redis
<1> QED
  BY <1>2, <1>3, <1>4 DEF Tick, DueScript

LEMMA AbandonUndisturbed ==
    ASSUME TInv, Presence, NEW w \in Workers, duty[w].step # "idle", AbandonDuty(w),
           room.state = "none", UNCHANGED <<redis, faults>>
    PROVE  Undisturbed
<1>1. Seated = {} /\ DOMAIN seats' = {} /\ room' = room
  BY DEF Presence, GoneIsEmpty, Seated, redis
<1>2. \A s \in Sockets : Attached(s)' => Attached(s)
  BY DEF TInv, TypeOK, AbandonDuty, StageAfterRefusal, FrameKinds, Attached
<1>3. \A s \in Sockets : pc'[s] = "new" => pc[s] = "new"
  BY DEF TInv, TypeOK, AbandonDuty, StageAfterRefusal, FrameKinds
<1>4. \A s \in Sockets : pc[s] = "new" => s # w
  BY DEF Presence, NewIsIdle, Idle
<1>5. \A s \in Sockets : pc[s] = "new" => duty'[s] = duty[s]
  BY <1>4, SocketsAndRelaysWork DEF TInv, TypeOK, AbandonDuty, Do
<1> QED
  BY <1>1, <1>2, <1>3, <1>5 DEF Undisturbed

LEMMA DutyStepUndisturbed ==
    ASSUME TInv, Presence, NEW w \in Workers, DutyStep(w)
    PROVE  Undisturbed
<1>1. duty[w].step # "idle"
  BY DEF DutyStep, ReadBegun, InsertRace, PublishStarted, ReadEnded, InsertResults,
         PublishOver, ReadAfterRemoval, DeleteRoom, HandOff, ReadMaybeEnd, ForceEnd, Check
<1>2. w \in Sockets => pc[w] # "new"
  BY <1>1 DEF Presence, NewIsIdle, Idle
<1>3. UNCHANGED faults
  BY DEF DutyStep, ReadBegun, InsertRace, PublishStarted, ReadEnded, InsertResults,
         PublishOver, ReadAfterRemoval, DeleteRoom, HandOff, ReadMaybeEnd, ForceEnd
<1>4. SeatingKept
  <2>1. CASE DeleteRoom(w)
    BY <2>1 DEF DeleteRoom, EmptyHash, SeatingKept
  <2>2. CASE HandOff(w) \/ ForceEnd(w)
    <3>1. UNCHANGED seats
      BY <2>2 DEF HandOff, ForceEnd, End, redis
    <3>2. \/ room' = room
          \/ room' = [room EXCEPT !.state = "finished"]
          \/ room' = [room EXCEPT !.host = duty[w].to]
      BY <2>2 DEF HandOff, ForceEnd, End, redis
    <3>3. room'.state = "none" => room.state = "none"
      BY <3>2 DEF TInv, TypeOK, Room
    <3> QED
      BY <3>1, <3>3, SameSeating
  <2>3. CASE UNCHANGED redis
    BY <2>3, SameSeating DEF redis
  <2> QED
    BY <2>1, <2>2, <2>3 DEF DutyStep, ReadBegun, InsertRace, PublishStarted, ReadEnded,
       InsertResults, PublishOver, ReadAfterRemoval, ReadMaybeEnd
<1>5. CASE AbandonDuty(w) /\ room.state = "none" /\ UNCHANGED redis
  BY <1>1, <1>3, <1>5, AbandonUndisturbed
<1>6. CASE UNCHANGED pc /\ \E d : Do(w, d)
  BY <1>2, <1>3, <1>4, <1>6, DutyUndisturbed
<1> QED
  <2>1. CASE ReadBegun(w)
    BY <2>1, <1>5, <1>6 DEF ReadBegun
  <2>2. CASE ReadEnded(w)
    BY <2>2, <1>5, <1>6 DEF ReadEnded
  <2>3. CASE ForceEnd(w)
    BY <2>3, <1>6 DEF ForceEnd, End
  <2>4. CASE ReadAfterRemoval(w)
    BY <2>4, <1>6 DEF ReadAfterRemoval
  <2>5. CASE InsertRace(w) \/ PublishStarted(w) \/ InsertResults(w) \/ PublishOver(w)
             \/ DeleteRoom(w) \/ HandOff(w) \/ ReadMaybeEnd(w)
    BY <2>5, <1>6 DEF InsertRace, PublishStarted, InsertResults, PublishOver, DeleteRoom,
       HandOff, ReadMaybeEnd
  <2> QED
    BY <2>1, <2>2, <2>3, <2>4, <2>5 DEF DutyStep

LEMMA HandlerUndisturbed ==
    ASSUME TInv, Presence, NEW s \in Sockets,
           \/ JoinTick(s) \/ SendSnapshot(s) \/ Start(s) \/ PlayAgain(s) \/ Leave(s)
           \/ FinishCheck(s) \/ FinishRecord(s) \/ FinishPlace(s) \/ FinishPatch(s)
           \/ FinishFirst(s) \/ FinishDeadline(s) \/ FinishShorten(s)
    PROVE  Undisturbed
<1>1. Attached(s) /\ s \in Workers
  BY SocketsAndRelaysWork
     DEF Attached, JoinTick, SendSnapshot, Start, PlayAgain, Leave, FinishCheck, FinishRecord,
         FinishPlace, FinishPatch, FinishFirst, FinishDeadline, FinishShorten
<1>2. UNCHANGED faults
  BY DEF JoinTick, SendSnapshot, Start, PlayAgain, Leave, FinishCheck, FinishRecord,
         FinishPlace, FinishPatch, FinishFirst, FinishDeadline, FinishShorten
<1>3. \A t \in Sockets : t # s => duty'[t] = duty[t]
  <2>1. CASE JoinTick(s)
    BY <1>1, <2>1, TickSeating, SocketsAndRelaysWork DEF JoinTick
  <2>2. CASE UNCHANGED duty
    BY <2>2
  <2>3. CASE \E d : Do(s, d)
    BY <1>1, <2>3, SocketsAndRelaysWork DEF TInv, TypeOK, Do
  <2> QED
    BY <2>1, <2>2, <2>3
       DEF SendSnapshot, Start, PlayAgain, Leave, FinishCheck, FinishRecord,
           FinishPlace, FinishPatch, FinishFirst, FinishDeadline, FinishShorten
<1>4. CASE SendSnapshot(s) /\ room.state = "none"
  BY <1>2, <1>4 DEF Presence, GoneIsEmpty, SendSnapshot, Goto, redis, Seated, TInv, TypeOK,
                    Attached, Undisturbed
<1>5. CASE ~(SendSnapshot(s) /\ room.state = "none")
  <2>1. SeatingKept
    <3>1. CASE JoinTick(s)
      BY <1>1, <3>1, TickSeating DEF JoinTick
    <3>2. CASE UNCHANGED redis
      BY <3>2, SameSeating DEF redis
    <3>3. CASE Start(s) \/ PlayAgain(s)
      BY <3>2, <3>3, ResetSeating DEF TInv, TypeOK, Start, PlayAgain, FreshRoom
    <3>4. CASE Leave(s)
      BY <3>4, SameSeating, HDelSeating DEF Leave
    <3>5. CASE FinishPlace(s) \/ FinishFirst(s) \/ FinishShorten(s) \/ FinishShorten(s)
      <4>1. UNCHANGED seats /\ (room'.state = room.state)
        BY <3>5 DEF FinishPlace, FinishFirst, FinishShorten, TInv, TypeOK, Room
      <4> QED
        BY <4>1, SameSeating
    <3>6. CASE FinishPatch(s)
      BY <3>6 DEF FinishPatch, TInv, TypeOK, Hash, Seat, Seated, SeatingKept
    <3> QED
      BY <3>1, <3>2, <3>3, <3>4, <3>5, <3>6 DEF SendSnapshot, FinishCheck, FinishRecord, FinishDeadline
  <2>2. \E stage : Goto(s, stage) /\ stage \notin {"new", "dropped", "closed"}
    BY <1>5 DEF JoinTick, SendSnapshot, Start, PlayAgain, Leave, FinishCheck, FinishRecord,
         FinishPlace, FinishPatch, FinishFirst, FinishDeadline, FinishShorten
  <2> QED
    BY <1>1, <1>2, <1>3, <2>1, <2>2, StageUndisturbed
<1> QED
  BY <1>4, <1>5

LEMMA ReceiveUndisturbed ==
    ASSUME TInv, NEW s \in Sockets, NEW kind \in Frames, Receive(s, kind)
    PROVE  Undisturbed
<1>1. s \in Workers /\ Attached(s) /\ kind \notin {"new", "dropped", "closed"}
  BY SocketsAndRelaysWork DEF Receive, Attached, FrameKinds
<1>2. SeatingKept /\ \A t \in Sockets : t # s => duty'[t] = duty[t]
  BY <1>1, TickSeating, SocketsAndRelaysWork DEF Receive
<1> QED
  BY <1>1, <1>2, StageUndisturbed DEF Receive

LEMMA FreeTickUndisturbed ==
    ASSUME TInv, NEW w \in Workers \ Sockets, DueScript(w), UNCHANGED <<pc, faults>>
    PROVE  Undisturbed
<1>1. SeatingKept /\ \A t \in Sockets : duty'[t] = duty[t]
  BY TickSeating, SocketsAndRelaysWork DEF Tick
<1> QED
  BY <1>1 DEF Undisturbed, SeatingKept, Attached

LEMMA DroppedUndisturbed ==
    ASSUME TInv, NEW s \in Sockets, Dropped(s)
    PROVE  Undisturbed
<1>1. pc[s] = "dropped" /\ pc' = [pc EXCEPT ![s] = "closed"]
  BY DEF Dropped, Goto
<1>2. \A t \in Sockets : t # s => duty'[t] = duty[t]
  BY SocketsAndRelaysWork DEF Dropped, Do, TInv, TypeOK
<1> QED
  BY <1>1, <1>2, SameSeating DEF TInv, TypeOK, Dropped, redis, Attached, SeatingKept, Undisturbed

LEMMA TimeUndisturbed ==
    ASSUME TInv, TimePasses
    PROVE  Undisturbed
<1>1. SeatingKept
  BY DEF TInv, TypeOK, TimePasses, Hash, Seat, Seated, Room, SeatingKept
<1> QED
  BY <1>1 DEF TimePasses, local, Attached, SeatingKept, Undisturbed

LEMMA FaultUndisturbed ==
    ASSUME TInv, Presence,
           \/ \E w \in Workers : Error(w)
           \/ \E s \in Sockets : CleanupError(s) \/ EarlyClose(s)
           \/ \E replica \in Replicas : Crash(replica)
    PROVE  Undisturbed
<1>1. faults' # 0
  BY DEF TInv, TypeOK, Error, CleanupError, EarlyClose, Crash, Fault
<1>2. SeatingKept
  BY SameSeating DEF Error, CleanupError, EarlyClose, Crash, redis
<1>3. ASSUME NEW w \in Workers, Error(w) PROVE Undisturbed
  <2>1. CASE w \notin Sockets
    <3>1. \A s \in Sockets : duty'[s] = duty[s]
      BY <1>3, <2>1 DEF TInv, TypeOK, Error, Do
    <3> QED
      BY <1>1, <1>2, <1>3, <2>1, <3>1 DEF Error, SeatingKept, Attached, Undisturbed
  <2>2. CASE w \in Sockets
    <3>1. pc[w] # "new"
      BY <1>3, <2>2 DEF Error, Presence, NewIsIdle, Free, Idle
    <3>2. pc' = [pc EXCEPT ![w] = StageAfterError(w)] /\ duty' = [duty EXCEPT ![w] = Idle]
      BY <1>3, <2>2 DEF Error, Goto, Do
    <3>3. StageAfterError(w) \in {"closed", "leaving"}
          /\ (StageAfterError(w) = "leaving" => pc[w] \notin {"dropped", "closed"})
      BY DEF StageAfterError
    <3>4. \A s \in Sockets : s # w => pc'[s] = pc[s] /\ duty'[s] = duty[s]
      BY <3>2 DEF TInv, TypeOK
    <3>5. pc'[w] = StageAfterError(w)
      BY <2>2, <3>2 DEF TInv, TypeOK
    <3> QED
      BY <1>1, <1>2, <2>2, <3>1, <3>3, <3>4, <3>5 DEF SeatingKept, Attached, Undisturbed
  <2> QED
    BY <2>1, <2>2
<1>4. ASSUME NEW s \in Sockets, CleanupError(s) \/ EarlyClose(s) PROVE Undisturbed
  <2>1. pc' = [pc EXCEPT ![s] = "closed"]
    BY <1>4 DEF CleanupError, EarlyClose, Goto
  <2>2. \A t \in Sockets : duty'[t] = duty[t]
    <3>1. duty' = duty \/ duty' = [duty EXCEPT ![Relay[s]] = Idle]
      BY <1>4 DEF CleanupError, EarlyClose, Do
    <3> QED
      BY <3>1, SocketsAndRelaysWork DEF TInv, TypeOK
  <2> QED
    BY <1>1, <1>2, <2>1, <2>2 DEF TInv, TypeOK, SeatingKept, Attached, Undisturbed
<1>5. ASSUME NEW replica \in Replicas, Crash(replica) PROVE Undisturbed
  <2>1. \A s \in Sockets : pc'[s] = IF s \in On(replica) THEN "closed" ELSE pc[s]
    BY <1>5 DEF Crash
  <2>2. \A s \in Sockets : pc[s] = "new" => duty'[s] = duty[s]
    <3>1. \A s \in Sockets : pc[s] = "new" => s \notin On(replica)
      BY DEF On
    <3>2. \A s, t \in Sockets : s # Relay[t]
      OBVIOUS
    <3>3. \A s \in Sockets : s \notin Timers
      OBVIOUS
    <3>4. On(replica) \subseteq Sockets
      BY DEF On
    <3> QED
      BY <1>5, <3>1, <3>2, <3>3, <3>4, SocketsAndRelaysWork DEF Crash
  <2> QED
    BY <1>1, <1>2, <2>1, <2>2 DEF SeatingKept, Attached, Undisturbed
<1> QED
  BY <1>3, <1>4, <1>5

LEMMA JoinPresence ==
    ASSUME TInv, Presence, NEW s \in Sockets, Join(s)
    PROVE  Presence'
<1> DEFINE p == Owner[s]
<1>1. pc[s] = "new" /\ UNCHANGED <<room, duty, faults>>
  BY DEF Join
<1>2. \A t \in Sockets : t # s => pc'[t] = pc[t]
  BY DEF TInv, TypeOK, Join, Goto
<1>3. \A q \in Seated : seats[q].conn \in Sockets /\ Owner[seats[q].conn] = q
                        /\ (q # p => seats[q].conn # s)
  BY DEF TInv, TypeOK, Hash, Seat, Seated, Presence, PresenceFollowsSocket
<1>4. CASE Goto(s, "joining") /\ room.state # "none"
           /\ \E new : new.conn = s /\ new.connected = TRUE /\ seats' = HSet(seats, p, new)
  <2>1. pc'[s] = "joining"
    BY <1>4 DEF TInv, TypeOK, Goto
  <2>2. \A q \in DOMAIN seats' : \/ q = p /\ seats'[q].conn = s /\ seats'[q].connected
                                 \/ q # p /\ q \in Seated /\ seats'[q] = seats[q]
    BY <1>4 DEF HSet, Seated
  <2>3. PresenceFollowsSocket'
    <3> SUFFICES ASSUME NEW q \in DOMAIN seats'
                 PROVE  /\ Owner[seats'[q].conn] = q
                        /\ Attached(seats[q].conn)' => seats'[q].connected
                        /\ faults' = 0 => (seats'[q].connected => Attached(seats[q].conn)')
      BY DEF PresenceFollowsSocket, Seated
    <3>1. CASE q = p
      BY <2>1, <2>2, <3>1 DEF Attached
    <3>2. CASE q # p
      BY <1>1, <1>2, <1>3, <2>2, <3>2 DEF Attached, Presence, PresenceFollowsSocket
    <3> QED
      BY <3>1, <3>2
  <2>4. GoneIsEmpty' /\ NewIsIdle'
    BY <1>1, <1>2, <1>4, <2>1 DEF Presence, GoneIsEmpty, NewIsIdle
  <2> QED
    BY <2>3, <2>4 DEF Presence
<1>5. CASE Goto(s, "closed") /\ UNCHANGED seats
  <2>1. pc'[s] = "closed"
    BY <1>5 DEF TInv, TypeOK, Goto
  <2>2. \A t \in Sockets : Attached(t)' <=> Attached(t)
    BY <1>1, <1>2, <2>1 DEF Attached
  <2>3. PresenceFollowsSocket'
    BY <1>1, <1>3, <1>5, <2>2 DEF Presence, PresenceFollowsSocket, Seated, Attached
  <2>4. GoneIsEmpty' /\ NewIsIdle'
    BY <1>1, <1>2, <1>5, <2>1 DEF Presence, GoneIsEmpty, NewIsIdle, Seated
  <2> QED
    BY <2>3, <2>4 DEF Presence
<1> QED
  <2>1. CASE MayReconnect(p) /\ seats' = HSet(seats, p, [NewSeat(s) EXCEPT !.run = seats[p].run])
    <3> DEFINE new == [NewSeat(s) EXCEPT !.run = seats[p].run]
    <3>1. new.conn = s /\ new.connected = TRUE
      BY DEF NewSeat
    <3>2. Goto(s, "joining")
      BY <2>1 DEF Join, MayEnter, MayReconnect
    <3> QED
      BY <1>4, <2>1, <3>1, <3>2 DEF MayReconnect
  <2>2. CASE MayEnter(p) /\ seats' = HSet(seats, p, NewSeat(s))
    <3>1. NewSeat(s).conn = s /\ NewSeat(s).connected = TRUE /\ Goto(s, "joining")
      BY <2>2 DEF Join, NewSeat, MayEnter, MayReconnect
    <3> QED
      BY <1>4, <2>2, <3>1 DEF MayEnter
  <2> QED
    BY <1>5, <2>1, <2>2 DEF Join

LEMMA HangUpPresence ==
    ASSUME TInv, Presence, NEW s \in Sockets, HangUp(s)
    PROVE  Presence'
<1> DEFINE p == Owner[s]
<1>1. UNCHANGED <<room, faults>> /\ \A t \in Sockets : duty'[t] = duty[t]
  BY DEF TInv, TypeOK, HangUp, Do
<1>2. (\A t \in Sockets : t # s => pc'[t] = pc[t]) /\ pc'[s] \in {"dropped", "closed"}
  BY DEF TInv, TypeOK, HangUp, Goto
<1>3. \A q \in Seated : seats[q].conn \in Sockets /\ Owner[seats[q].conn] = q
                        /\ (seats[q].conn = s => q = p /\ Current(s))
  BY DEF TInv, TypeOK, Hash, Seat, Seated, Presence, PresenceFollowsSocket, Current
<1>4. DOMAIN seats' = Seated
      /\ \A q \in Seated : \/ seats'[q] = seats[q] /\ seats[q].conn # s
                           \/ seats'[q].conn = s /\ ~seats'[q].connected /\ q = p
  <2>1. CASE Current(s)
    <3>1. seats' = [seats EXCEPT ![p].connected = FALSE, ![p].goneFor = LobbyGrace]
      BY <2>1 DEF HangUp
    <3>2. p \in Seated /\ seats[p].conn = s /\ seats[p] \in Seat
      BY <2>1 DEF Current, TInv, TypeOK, Hash, Seated
    <3>3. seats'[p].conn = s /\ ~seats'[p].connected
      BY <3>1, <3>2 DEF Seat, Seated
    <3>4. DOMAIN seats' = Seated /\ \A q \in Seated : q # p => seats'[q] = seats[q]
      BY <3>1 DEF Seated
    <3> QED
      BY <1>3, <3>3, <3>4
  <2>2. CASE ~Current(s)
    BY <1>3, <2>2 DEF HangUp, Seated
  <2> QED
    BY <2>1, <2>2
<1>5. PresenceFollowsSocket'
  <2> SUFFICES ASSUME NEW q \in Seated
               PROVE  /\ Owner[seats'[q].conn] = q
                      /\ Attached(seats[q].conn)' => seats'[q].connected
                      /\ faults' = 0 => (seats'[q].connected => Attached(seats[q].conn)')
    BY <1>4 DEF PresenceFollowsSocket, Seated
  <2>1. CASE seats'[q] = seats[q] /\ seats[q].conn # s
    BY <1>1, <1>2, <1>3, <2>1 DEF Attached, Presence, PresenceFollowsSocket
  <2>2. CASE seats'[q].conn = s /\ ~seats'[q].connected /\ q = p
    BY <1>2, <2>2 DEF Attached
  <2> QED
    BY <1>4, <2>1, <2>2
<1>6. GoneIsEmpty' /\ NewIsIdle'
  BY <1>1, <1>2, <1>4 DEF Presence, GoneIsEmpty, NewIsIdle, Seated
<1> QED
  BY <1>5, <1>6 DEF Presence

LEMMA InitPresence == Init => Presence
<1> SUFFICES ASSUME Init PROVE Presence
    OBVIOUS
<1>1. Seated = {}
  BY DEF Init, EmptyHash, Seated
<1>2. NewIsIdle
  BY SocketsAndRelaysWork DEF Init, NewIsIdle
<1> QED
  BY <1>1, <1>2 DEF Presence, PresenceFollowsSocket, GoneIsEmpty

LEMMA StepPresence == TInv /\ Presence /\ [Next]_vars => Presence'
<1> SUFFICES ASSUME TInv, Presence, [Next]_vars PROVE Presence'
    OBVIOUS
<1>1. CASE UNCHANGED vars
  BY <1>1 DEF Presence, PresenceFollowsSocket, GoneIsEmpty, NewIsIdle, Seated, Attached,
              vars, redis, local
<1>2. ASSUME NEW s \in Sockets, HandlerStep(s) PROVE Presence'
  BY <1>2, HandlerUndisturbed, DroppedUndisturbed, UndisturbedKeepsPresence, HangUpPresence
     DEF HandlerStep
<1>3. ASSUME NEW s \in Sockets, ClientStep(s) PROVE Presence'
  BY <1>3, ReceiveUndisturbed, UndisturbedKeepsPresence, JoinPresence, HangUpPresence
     DEF ClientStep
<1>4. ASSUME NEW s \in Sockets, RelayTick(s) PROVE Presence'
  <2>1. Relay[s] \in Workers \ Sockets
    BY SocketsAndRelaysWork
  <2> QED
    BY <1>4, <2>1, FreeTickUndisturbed, UndisturbedKeepsPresence DEF RelayTick
<1>5. ASSUME NEW t \in Timers, TimerTick(t) PROVE Presence'
  <2>1. t \in Workers \ Sockets
    BY DEF Workers
  <2> QED
    BY <1>5, <2>1, FreeTickUndisturbed, UndisturbedKeepsPresence DEF TimerTick
<1>6. ASSUME NEW w \in Workers, DutyStep(w) PROVE Presence'
  BY <1>6, DutyStepUndisturbed, UndisturbedKeepsPresence
<1>7. CASE \/ \E w \in Workers : Error(w)
           \/ \E s \in Sockets : CleanupError(s) \/ EarlyClose(s)
           \/ \E replica \in Replicas : Crash(replica)
  BY <1>7, FaultUndisturbed, UndisturbedKeepsPresence
<1>8. CASE TimePasses
  BY <1>8, TimeUndisturbed, UndisturbedKeepsPresence
<1> QED
  BY <1>1, <1>2, <1>3, <1>4, <1>5, <1>6, <1>7, <1>8 DEF Next

LEMMA AlwaysPresence == Spec => []Presence
BY InitPresence, StepPresence, AlwaysTInv, PTL DEF Spec

(* Closing an old tab never marks a player gone, whatever fails meanwhile,  *)
(* and only a fault leaves somebody in whose last tab is closed.           *)
THEOREM PresencePerConnection == Spec => []PresenceFollowsSocket
<1>1. Presence => PresenceFollowsSocket
  BY DEF Presence
<1> QED
  BY <1>1, AlwaysPresence, PTL

=============================================================================
