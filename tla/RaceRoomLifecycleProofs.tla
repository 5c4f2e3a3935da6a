---------------------- MODULE RaceRoomLifecycleProofs ----------------------
(***************************************************************************)
(* `started` and `race_over` go out at most once per race, and the room    *)
(* keeps the promises of RaceLifecycle, for any number of players, sockets, *)
(* replicas, races and faults.                                             *)
(*                                                                         *)
(* AnnouncedOnce alone is not inductive: that nothing was announced twice  *)
(* does not say that nobody is about to.  The invariant Once follows the   *)
(* right to announce from the script that grants it to the publication that *)
(* uses it up: at most one worker holds it, and nobody once it is used.    *)
(*                                                                         *)
(* Scripts, handlers and workers become the ten steps of the lifecycle; all *)
(* the reading, recording and handing over in between is stuttering.  That *)
(* an announcement is a step of it, made for the first time and for a race *)
(* that has begun or ended, is what Once says.                             *)
(***************************************************************************)
EXTENDS RaceRoomProofs

USE RosterAssumption, PlacementAssumption, WorkersAssumption,
    LimitsAssumption, ScenarioAssumption

-----------------------------------------------------------------------------
(* The duty d ends in publishing `started`, or `race_over`, for race r. *)
ToStart(d, r) == d.step \in {"begun", "row", "started"} /\ d.race = r
ToEnd(d, r)   == d.step \in {"ended", "results", "over"} /\ d.race = r

(* Race r is over: given out, and not the race that is running. *)
Past(r) == r <= begun /\ ~(room.state = "running" /\ room.race = r)

StartedOnce ==
    \A r \in Races :
        /\ said[r].started <= 1
        /\ said[r].started > 0 => r <= begun /\ \A w \in Workers : ~ToStart(duty[w], r)
        /\ \A w \in Workers : ToStart(duty[w], r) => r <= begun
        /\ \A v, w \in Workers : ToStart(duty[v], r) /\ ToStart(duty[w], r) => v = w

OverOnce ==
    \A r \in Races :
        /\ said[r].over <= 1
        /\ said[r].over > 0 => Past(r) /\ \A w \in Workers : ~ToEnd(duty[w], r)
        /\ \A w \in Workers : ToEnd(duty[w], r) => Past(r)
        /\ \A v, w \in Workers : ToEnd(duty[v], r) /\ ToEnd(duty[w], r) => v = w

Once == StartedOnce /\ OverOnce

(* A step that gives nobody a new right to announce, publishes nothing and  *)
(* puts no race into the running state.                                    *)
DutiesKept ==
    \A w \in Workers, r \in Races :
        /\ ToStart(duty'[w], r) => ToStart(duty[w], r)
        /\ ToEnd(duty'[w], r) => ToEnd(duty[w], r)

Quiet ==
    /\ UNCHANGED <<begun, said>>
    /\ room'.state = "running" => room.state = "running" /\ room'.race = room.race
    /\ DutiesKept

LEMMA QuietKeepsOnce ==
    ASSUME Once, Quiet
    PROVE  Once'
<1>1. StartedOnce'
  BY DEF Once, StartedOnce, Quiet, DutiesKept
<1>2. \A r \in Races : Past(r) => Past(r)'
  BY DEF Past, Quiet
<1>3. OverOnce'
  BY <1>2 DEF Once, OverOnce, Quiet, DutiesKept
<1> QED
  BY <1>1, <1>3 DEF Once

LEMMA SameDutiesKept ==
    ASSUME UNCHANGED duty
    PROVE  DutiesKept
BY DEF DutiesKept

(* A worker that moves on within its duty, or drops it, gains no right. *)
LEMMA DoKept ==
    ASSUME duty \in [Workers -> Duty], NEW w \in Workers, NEW d, Do(w, d),
           \A r \in Races : (ToStart(d, r) => ToStart(duty[w], r))
                            /\ (ToEnd(d, r) => ToEnd(duty[w], r))
    PROVE  DutiesKept
BY DEF Do, DutiesKept

LEMMA NoRights ==
    /\ \A r \in Races : ~ToStart(Idle, r) /\ ~ToEnd(Idle, r)
    /\ \A r \in Races : ~ToStart(Check, r) /\ ~ToEnd(Check, r)
    /\ \A r \in Races : ~ToStart([step |-> "delete"], r) /\ ~ToEnd([step |-> "delete"], r)
    /\ \A r \in Races, q \in Races :
          ~ToStart([step |-> "force", race |-> q], r) /\ ~ToEnd([step |-> "force", race |-> q], r)
    /\ \A r \in Races : \A gone :
          /\ ~ToStart([step |-> "departed", gone |-> gone], r)
          /\ ~ToEnd([step |-> "departed", gone |-> gone], r)
    /\ \A r \in Races : \A p, q :
          /\ ~ToStart([step |-> "handoff", from |-> p, to |-> q], r)
          /\ ~ToEnd([step |-> "handoff", from |-> p, to |-> q], r)
BY DEF ToStart, ToEnd, Idle, Check

LEMMA IdleKept ==
    ASSUME duty \in [Workers -> Duty], NEW w \in Workers, Do(w, Idle) \/ Do(w, Check)
    PROVE  DutiesKept
BY NoRights, DoKept

-----------------------------------------------------------------------------
(* The steps that grant or use a right. *)

LEMMA GoOnce ==
    ASSUME TInv, Once, NEW w \in Workers, Go(w)
    PROVE  Once'
<1>1. /\ begun < MaxRaces /\ begun \in Nat /\ begun + 1 \in Races
      /\ \A r \in Races : r \in Nat
  BY DEF TInv, TypeOK, Go, CountdownDue, CountdownHasRace, Races
<1>2. /\ begun' = begun + 1 /\ said' = said
      /\ room.state = "countdown" /\ room'.race = begun + 1
      /\ duty' = [duty EXCEPT ![w] = [step |-> "begun", race |-> begun + 1]]
  BY DEF TInv, TypeOK, Go, Room, CountdownDue, Do
<1>3. duty \in [Workers -> Duty]
  BY DEF TInv, TypeOK
<1>4. \A r \in Races : ToStart([step |-> "begun", race |-> begun + 1], r) <=> r = begun + 1
  BY DEF ToStart
<1>5. \A r \in Races : ~ToEnd([step |-> "begun", race |-> begun + 1], r)
  BY DEF ToEnd
<1>6. \A v \in Workers : duty'[v] = IF v = w THEN [step |-> "begun", race |-> begun + 1] ELSE duty[v]
  BY <1>2, <1>3
<1>7. StartedOnce'
  <2> SUFFICES ASSUME NEW r \in Races
               PROVE  /\ said[r].started <= 1
                      /\ said[r].started > 0 => r <= begun + 1 /\ \A v \in Workers : ~ToStart(duty'[v], r)
                      /\ \A v \in Workers : ToStart(duty'[v], r) => r <= begun + 1
                      /\ \A u, v \in Workers : ToStart(duty'[u], r) /\ ToStart(duty'[v], r) => u = v
      BY <1>2 DEF StartedOnce
  <2>1. /\ said[r].started <= 1
        /\ said[r].started > 0 => r <= begun /\ \A v \in Workers : ~ToStart(duty[v], r)
        /\ \A v \in Workers : ToStart(duty[v], r) => r <= begun
        /\ \A u, v \in Workers : ToStart(duty[u], r) /\ ToStart(duty[v], r) => u = v
    BY DEF Once, StartedOnce
  <2>2. r <= begun => r # begun + 1 /\ r <= begun + 1
    BY <1>1
  <2> QED
    BY ONLY <1>1, <1>4, <1>6, <2>1, <2>2
<1>8. \A r \in Races : Past(r) => Past(r)'
  BY <1>1, <1>2 DEF Past
<1>9. \A v \in Workers, r \in Races : ToEnd(duty'[v], r) => ToEnd(duty[v], r)
  BY <1>5, <1>6
<1>10. OverOnce'
  BY <1>2, <1>8, <1>9 DEF Once, OverOnce
<1> QED
  BY <1>7, <1>10 DEF Once

LEMMA EndOnce ==
    ASSUME TInv, Once, NEW w \in Workers, NEW r \in Races, End(w, r),
           room.state = "running", room.race = r
    PROVE  Once'
<1>1. /\ begun' = begun /\ said' = said /\ room'.state = "finished"
      /\ duty' = [duty EXCEPT ![w] = [step |-> "ended", race |-> r]]
  BY DEF TInv, TypeOK, End, Room, Do, story
<1>2. duty \in [Workers -> Duty] /\ r <= begun
  BY DEF TInv, TypeOK, RaceKnown
<1>3. \A q \in Races : /\ ToEnd([step |-> "ended", race |-> r], q) <=> q = r
                       /\ ~ToStart([step |-> "ended", race |-> r], q)
  BY DEF ToStart, ToEnd
<1>4. \A v \in Workers : duty'[v] = IF v = w THEN [step |-> "ended", race |-> r] ELSE duty[v]
  BY <1>1, <1>2
<1>5. StartedOnce'
  <2>1. \A v \in Workers, q \in Races : ToStart(duty'[v], q) => ToStart(duty[v], q)
    BY <1>3, <1>4
  <2> QED
    BY <1>1, <2>1 DEF Once, StartedOnce
<1>6. ~Past(r) /\ Past(r)' /\ \A q \in Races : Past(q) => Past(q)'
  BY <1>1, <1>2 DEF Past
<1>7. OverOnce'
  <2> SUFFICES ASSUME NEW q \in Races
               PROVE  /\ said[q].over <= 1
                      /\ said[q].over > 0 => Past(q)' /\ \A v \in Workers : ~ToEnd(duty'[v], q)
                      /\ \A v \in Workers : ToEnd(duty'[v], q) => Past(q)'
                      /\ \A u, v \in Workers : ToEnd(duty'[u], q) /\ ToEnd(duty'[v], q) => u = v
      BY <1>1 DEF OverOnce
  <2>1. /\ said[q].over <= 1
        /\ said[q].over > 0 => Past(q) /\ \A v \in Workers : ~ToEnd(duty[v], q)
        /\ \A v \in Workers : ToEnd(duty[v], q) => Past(q)
        /\ \A u, v \in Workers : ToEnd(duty[u], q) /\ ToEnd(duty[v], q) => u = v
    BY DEF Once, OverOnce
  <2> QED
    BY ONLY <1>3, <1>4, <1>6, <2>1
<1> QED
  BY <1>5, <1>7 DEF Once

LEMMA PublishStartedOnce ==
    ASSUME TInv, Once, NEW w \in Workers, PublishStarted(w)
    PROVE  Once'
<1> DEFINE r == duty[w].race
<1>1. UNCHANGED <<room, begun>> /\ DutiesKept
  BY IdleKept DEF PublishStarted, redis, TInv, TypeOK
<1>2. r \in Races /\ ToStart(duty[w], r)
  BY DutyUsed DEF TInv, TypeOK, PublishStarted, ToStart
<1>3. \A v \in Workers : ~ToStart(duty'[v], r)
  <2>1. \A v \in Workers : ToStart(duty[v], r) => v = w
    BY <1>2 DEF Once, StartedOnce
  <2>2. duty'[w] = Idle /\ \A v \in Workers \ {w} : duty'[v] = duty[v]
    BY DEF PublishStarted, Do, TInv, TypeOK
  <2> QED
    BY ONLY <1>2, <2>1, <2>2, NoRights
<1>4. said[r].started = 0 /\ r <= begun
  <2>1. said[r].started \in Nat
    BY <1>2 DEF TInv, TypeOK
  <2>2. ~(said[r].started > 0) /\ r <= begun
    BY <1>2 DEF Once, StartedOnce
  <2> QED
    BY ONLY <2>1, <2>2
<1>5. /\ \A q \in Races : said'[q].over = said[q].over
      /\ \A q \in Races : said'[q].started = IF q = r THEN 1 ELSE said[q].started
  <2>1. said \in [Races -> [started : Nat, over : Nat]]
    BY DEF TInv, TypeOK
  <2>2. said' = [said EXCEPT ![r] = [@ EXCEPT !.started = 1]]
    BY <1>2, <1>4, <2>1 DEF PublishStarted
  <2> QED
    BY ONLY <1>2, <2>1, <2>2
<1>6. StartedOnce'
  <2> SUFFICES ASSUME NEW q \in Races
               PROVE  /\ said'[q].started <= 1
                      /\ said'[q].started > 0 => q <= begun /\ \A v \in Workers : ~ToStart(duty'[v], q)
                      /\ \A v \in Workers : ToStart(duty'[v], q) => q <= begun
                      /\ \A u, v \in Workers : ToStart(duty'[u], q) /\ ToStart(duty'[v], q) => u = v
      BY <1>1 DEF StartedOnce
  <2>1. /\ said[q].started <= 1
        /\ said[q].started > 0 => q <= begun /\ \A v \in Workers : ~ToStart(duty[v], q)
        /\ \A v \in Workers : ToStart(duty[v], q) => q <= begun
        /\ \A u, v \in Workers : ToStart(duty[u], q) /\ ToStart(duty[v], q) => u = v
    BY DEF Once, StartedOnce
  <2>2. \A v \in Workers : ToStart(duty'[v], q) => ToStart(duty[v], q)
    BY <1>1 DEF DutiesKept
  <2>3. CASE q = r
    BY ONLY <1>3, <1>4, <1>5, <2>3, <1>2
  <2>4. CASE q # r
    BY ONLY <1>5, <2>1, <2>2, <2>4
  <2> QED
    BY <2>3, <2>4
<1>7. OverOnce'
  <2>1. \A q \in Races : Past(q) => Past(q)'
    BY <1>1 DEF Past
  <2>2. \A v \in Workers, q \in Races : ToEnd(duty'[v], q) => ToEnd(duty[v], q)
    BY <1>1 DEF DutiesKept
  <2> QED
    BY <1>5, <2>1, <2>2 DEF Once, OverOnce
<1> QED
  BY <1>6, <1>7 DEF Once

LEMMA PublishOverOnce ==
    ASSUME TInv, Once, NEW w \in Workers, PublishOver(w)
    PROVE  Once'
<1> DEFINE r == duty[w].race
<1>1. UNCHANGED <<room, begun>> /\ DutiesKept
  BY IdleKept DEF PublishOver, redis, TInv, TypeOK
<1>2. r \in Races /\ ToEnd(duty[w], r)
  BY DutyUsed DEF TInv, TypeOK, PublishOver, ToEnd
<1>3. \A v \in Workers : ~ToEnd(duty'[v], r)
  <2>1. \A v \in Workers : ToEnd(duty[v], r) => v = w
    BY <1>2 DEF Once, OverOnce
  <2>2. duty'[w] = Idle /\ \A v \in Workers \ {w} : duty'[v] = duty[v]
    BY DEF PublishOver, Do, TInv, TypeOK
  <2> QED
    BY ONLY <1>2, <2>1, <2>2, NoRights
<1>4. said[r].over = 0 /\ Past(r)
  <2>1. said[r].over \in Nat
    BY <1>2 DEF TInv, TypeOK
  <2>2. ~(said[r].over > 0) /\ Past(r)
    BY <1>2 DEF Once, OverOnce
  <2> QED
    BY ONLY <2>1, <2>2
<1>5. /\ \A q \in Races : said'[q].started = said[q].started
      /\ \A q \in Races : said'[q].over = IF q = r THEN 1 ELSE said[q].over
  <2>1. said \in [Races -> [started : Nat, over : Nat]]
    BY DEF TInv, TypeOK
  <2>2. said' = [said EXCEPT ![r] = [@ EXCEPT !.over = 1]]
    BY <1>2, <1>4, <2>1 DEF PublishOver
  <2> QED
    BY ONLY <1>2, <2>1, <2>2
<1>6. StartedOnce'
  <2>1. \A v \in Workers, q \in Races : ToStart(duty'[v], q) => ToStart(duty[v], q)
    BY <1>1 DEF DutiesKept
  <2> QED
    BY <1>1, <1>5, <2>1 DEF Once, StartedOnce
<1>7. \A q \in Races : Past(q) => Past(q)'
  BY <1>1 DEF Past
<1>8. OverOnce'
  <2> SUFFICES ASSUME NEW q \in Races
               PROVE  /\ said'[q].over <= 1
                      /\ said'[q].over > 0 => Past(q)' /\ \A v \in Workers : ~ToEnd(duty'[v], q)
                      /\ \A v \in Workers : ToEnd(duty'[v], q) => Past(q)'
                      /\ \A u, v \in Workers : ToEnd(duty'[u], q) /\ ToEnd(duty'[v], q) => u = v
      BY DEF OverOnce
  <2>1. /\ said[q].over <= 1
        /\ said[q].over > 0 => Past(q) /\ \A v \in Workers : ~ToEnd(duty[v], q)
        /\ \A v \in Workers : ToEnd(duty[v], q) => Past(q)
        /\ \A u, v \in Workers : ToEnd(duty[u], q) /\ ToEnd(duty[v], q) => u = v
    BY DEF Once, OverOnce
  <2>2. \A v \in Workers : ToEnd(duty'[v], q) => ToEnd(duty[v], q)
    BY <1>1 DEF DutiesKept
  <2>3. CASE q = r
    BY ONLY <1>2, <1>3, <1>4, <1>5, <1>7, <2>3
  <2>4. CASE q # r
    BY ONLY <1>5, <1>7, <2>1, <2>2, <2>4
  <2> QED
    BY <2>3, <2>4
<1> QED
  BY <1>6, <1>8 DEF Once

-----------------------------------------------------------------------------
(* Every other step is quiet. *)

LEMMA SweepQuiet ==
    ASSUME TInv, NEW w \in Workers, Sweep(w)
    PROVE  Quiet
<1>1. UNCHANGED <<begun, said>>
  BY DEF Sweep, story
<1>2. room' = room
  BY DEF Sweep, redis
<1>3. DutiesKept
  BY NoRights, DoKept DEF Sweep, TInv, TypeOK
<1> QED
  BY <1>1, <1>2, <1>3 DEF Quiet

LEMMA ReadBegunQuiet ==
    ASSUME TInv, NEW w \in Workers, ReadBegun(w)
    PROVE  Quiet
<1>1. UNCHANGED <<begun, said>>
  BY DEF ReadBegun, story
<1>2. room' = room
  BY DEF ReadBegun, redis
<1>3. DutiesKept
  <2>1. duty \in [Workers -> Duty]
    BY DEF TInv, TypeOK
  <2>2. Do(w, Idle) \/ Do(w, [step |-> "row", race |-> duty[w].race, seen |-> room.race])
    BY DEF ReadBegun, AbandonDuty
  <2>3. \A r \in Races :
          LET d == [step |-> "row", race |-> duty[w].race, seen |-> room.race]
          IN  (ToStart(d, r) => ToStart(duty[w], r)) /\ ~ToEnd(d, r)
    BY DEF ReadBegun, ToStart, ToEnd
  <2> QED
    BY <2>1, <2>2, <2>3, IdleKept, DoKept
<1> QED
  BY <1>1, <1>2, <1>3 DEF Quiet

LEMMA InsertRaceQuiet ==
    ASSUME TInv, NEW w \in Workers, InsertRace(w)
    PROVE  Quiet
<1>1. UNCHANGED <<begun, said>>
  BY DEF InsertRace, story
<1>2. room' = room
  BY DEF InsertRace, redis
<1>3. DutiesKept
  <2>1. duty \in [Workers -> Duty]
    BY DEF TInv, TypeOK
  <2>2. \A r \in Races :
          LET d == [step |-> "started", race |-> duty[w].race]
          IN  (ToStart(d, r) => ToStart(duty[w], r)) /\ ~ToEnd(d, r)
    BY DEF InsertRace, ToStart, ToEnd
  <2> QED
    BY <2>1, <2>2, DoKept DEF InsertRace
<1> QED
  BY <1>1, <1>2, <1>3 DEF Quiet

LEMMA ReadEndedQuiet ==
    ASSUME TInv, NEW w \in Workers, ReadEnded(w)
    PROVE  Quiet
<1>1. UNCHANGED <<begun, said>>
  BY DEF ReadEnded, story
<1>2. room' = room
  BY DEF ReadEnded, redis
<1>3. DutiesKept
  <2> DEFINE d == [step |-> "results", race |-> duty[w].race, seen |-> room.race,
                   who |-> Seated,
                   runs |-> [p \in Players |->
                               IF p \in Seated THEN seats[p].run ELSE NoRun]]
  <2>1. duty \in [Workers -> Duty]
    BY DEF TInv, TypeOK
  <2>2. Do(w, Idle) \/ Do(w, d)
    BY DEF ReadEnded, AbandonDuty
  <2>3. d.step = "results" /\ d.race = duty[w].race
    OBVIOUS
  <2>4. \A r \in Races : (ToEnd(d, r) => ToEnd(duty[w], r)) /\ ~ToStart(d, r)
    <3> HIDE DEF d
    <3> QED
      BY <2>3 DEF ReadEnded, ToStart, ToEnd
  <2> QED
    <3> HIDE DEF d
    <3> QED
      BY <2>1, <2>2, <2>4, IdleKept, DoKept
<1> QED
  BY <1>1, <1>2, <1>3 DEF Quiet

LEMMA InsertResultsQuiet ==
    ASSUME TInv, NEW w \in Workers, InsertResults(w)
    PROVE  Quiet
<1>1. UNCHANGED <<begun, said>>
  BY DEF InsertResults, story
<1>2. room' = room
  BY DEF InsertResults, redis
<1>3. DutiesKept
  <2>1. duty \in [Workers -> Duty]
    BY DEF TInv, TypeOK
  <2>2. \A r \in Races :
          LET d == [step |-> "over", race |-> duty[w].race]
          IN  (ToEnd(d, r) => ToEnd(duty[w], r)) /\ ~ToStart(d, r)
    BY DEF InsertResults, ToStart, ToEnd
  <2> QED
    BY <2>1, <2>2, DoKept DEF InsertResults
<1> QED
  BY <1>1, <1>2, <1>3 DEF Quiet

LEMMA ReadAfterRemovalQuiet ==
    ASSUME TInv, NEW w \in Workers, ReadAfterRemoval(w)
    PROVE  Quiet
<1>1. UNCHANGED <<begun, said>>
  BY DEF ReadAfterRemoval, story
<1>2. room' = room
  BY DEF ReadAfterRemoval, redis
<1>3. DutiesKept
  <2>1. duty \in [Workers -> Duty]
    BY DEF TInv, TypeOK
  <2>2. \/ Do(w, Idle)
        \/ Do(w, [step |-> "delete"])
        \/ \E heir \in Heirs : Do(w, [step |-> "handoff", from |-> room.host, to |-> heir])
    BY DEF ReadAfterRemoval
  <2>3. ASSUME NEW heir \in Heirs,
               Do(w, [step |-> "handoff", from |-> room.host, to |-> heir])
        PROVE  DutiesKept
    BY <2>1, <2>3, NoRights, DoKept
  <2>4. ASSUME Do(w, [step |-> "delete"]) PROVE DutiesKept
    BY <2>1, <2>4, NoRights, DoKept
  <2> QED
    BY <2>1, <2>2, <2>3, <2>4, IdleKept
<1> QED
  BY <1>1, <1>2, <1>3 DEF Quiet

LEMMA DeleteRoomQuiet ==
    ASSUME TInv, NEW w \in Workers, DeleteRoom(w)
    PROVE  Quiet
<1>1. UNCHANGED <<begun, said>>
  BY DEF DeleteRoom, story
<1>2. room'.state = "running" => room.state = "running" /\ room'.race = room.race
  BY DEF DeleteRoom, NoRoom, FreshRoom
<1>3. DutiesKept
  BY IdleKept DEF DeleteRoom, TInv, TypeOK
<1> QED
  BY <1>1, <1>2, <1>3 DEF Quiet

LEMMA HandOffQuiet ==
    ASSUME TInv, NEW w \in Workers, HandOff(w)
    PROVE  Quiet
<1>1. UNCHANGED <<begun, said>>
  BY DEF HandOff, story
<1>2. room'.state = "running" => room.state = "running" /\ room'.race = room.race
  BY DEF HandOff, TInv, TypeOK, Room
<1>3. DutiesKept
  BY IdleKept DEF HandOff, TInv, TypeOK
<1> QED
  BY <1>1, <1>2, <1>3 DEF Quiet

LEMMA ReadMaybeEndQuiet ==
    ASSUME TInv, NEW w \in Workers, ReadMaybeEnd(w)
    PROVE  Quiet
<1>1. UNCHANGED <<begun, said>>
  BY DEF ReadMaybeEnd, story
<1>2. room' = room
  BY DEF ReadMaybeEnd, redis
<1>3. DutiesKept
  <2>1. duty \in [Workers -> Duty]
    BY DEF TInv, TypeOK
  <2>2. \/ Do(w, Idle)
        \/ room.race \in Races /\ Do(w, [step |-> "force", race |-> room.race])
    BY DEF ReadMaybeEnd, TInv, RaceKnown
  <2> QED
    BY <2>1, <2>2, NoRights, DoKept
<1> QED
  BY <1>1, <1>2, <1>3 DEF Quiet

LEMMA JoinQuiet ==
    ASSUME TInv, NEW s \in Sockets, Join(s)
    PROVE  Quiet
<1>1. UNCHANGED <<begun, said>>
  BY DEF Join, story
<1>2. room' = room
  BY DEF Join, redis
<1>3. DutiesKept
  BY SameDutiesKept DEF Join
<1> QED
  BY <1>1, <1>2, <1>3 DEF Quiet

LEMMA SendSnapshotQuiet ==
    ASSUME TInv, NEW s \in Sockets, SendSnapshot(s)
    PROVE  Quiet
<1>1. UNCHANGED <<begun, said>>
  BY DEF SendSnapshot, story
<1>2. room' = room
  BY DEF SendSnapshot, redis
<1>3. DutiesKept
  BY SameDutiesKept DEF SendSnapshot
<1> QED
  BY <1>1, <1>2, <1>3 DEF Quiet

LEMMA StartQuiet ==
    ASSUME TInv, NEW s \in Sockets, Start(s)
    PROVE  Quiet
<1>1. UNCHANGED <<begun, said>>
  BY DEF Start, story
<1>2. room'.state = "running" => room.state = "running" /\ room'.race = room.race
  BY DEF Start, FreshRoom, redis
<1>3. DutiesKept
  BY SameDutiesKept DEF Start
<1> QED
  BY <1>1, <1>2, <1>3 DEF Quiet

LEMMA PlayAgainQuiet ==
    ASSUME TInv, NEW s \in Sockets, PlayAgain(s)
    PROVE  Quiet
<1>1. UNCHANGED <<begun, said>>
  BY DEF PlayAgain, story
<1>2. room'.state = "running" => room.state = "running" /\ room'.race = room.race
  BY DEF PlayAgain, FreshRoom, redis
<1>3. DutiesKept
  BY SameDutiesKept DEF PlayAgain
<1> QED
  BY <1>1, <1>2, <1>3 DEF Quiet

LEMMA LeaveQuiet ==
    ASSUME TInv, NEW s \in Sockets, Leave(s)
    PROVE  Quiet
<1>1. UNCHANGED <<begun, said>>
  BY DEF Leave, story
<1>2. room' = room
  BY DEF Leave, redis
<1>3. DutiesKept
  <2>1. duty \in [Workers -> Duty] /\ s \in Workers
    BY SocketsAndRelaysWork DEF TInv, TypeOK
  <2> QED
    BY <2>1, NoRights, DoKept, SameDutiesKept DEF Leave
<1> QED
  BY <1>1, <1>2, <1>3 DEF Quiet

LEMMA HangUpQuiet ==
    ASSUME TInv, NEW s \in Sockets, HangUp(s)
    PROVE  Quiet
<1>1. UNCHANGED <<begun, said>>
  BY DEF HangUp, story
<1>2. room' = room
  BY DEF HangUp, redis
<1>3. DutiesKept
  BY IdleKept, SocketsAndRelaysWork DEF HangUp, TInv, TypeOK
<1> QED
  BY <1>1, <1>2, <1>3 DEF Quiet

LEMMA DroppedQuiet ==
    ASSUME TInv, NEW s \in Sockets, Dropped(s)
    PROVE  Quiet
<1>1. UNCHANGED <<begun, said>>
  BY DEF Dropped, story
<1>2. room' = room
  BY DEF Dropped, redis
<1>3. DutiesKept
  BY IdleKept, SocketsAndRelaysWork DEF Dropped, TInv, TypeOK
<1> QED
  BY <1>1, <1>2, <1>3 DEF Quiet

LEMMA FinishCheckQuiet ==
    ASSUME TInv, NEW s \in Sockets, FinishCheck(s)
    PROVE  Quiet
<1>1. UNCHANGED <<begun, said>>
  BY DEF FinishCheck, story
<1>2. room' = room
  BY DEF FinishCheck, redis
<1>3. DutiesKept
  BY SameDutiesKept DEF FinishCheck
<1> QED
  BY <1>1, <1>2, <1>3 DEF Quiet

LEMMA FinishRecordQuiet ==
    ASSUME TInv, NEW s \in Sockets, FinishRecord(s)
    PROVE  Quiet
<1>1. UNCHANGED <<begun, said>>
  BY DEF FinishRecord, story
<1>2. room' = room
  BY DEF FinishRecord, redis
<1>3. DutiesKept
  BY SameDutiesKept DEF FinishRecord
<1> QED
  BY <1>1, <1>2, <1>3 DEF Quiet

LEMMA FinishPlaceQuiet ==
    ASSUME TInv, NEW s \in Sockets, FinishPlace(s)
    PROVE  Quiet
<1>1. UNCHANGED <<begun, said>>
  BY DEF FinishPlace, story
<1>2. room'.state = "running" => room.state = "running" /\ room'.race = room.race
  BY DEF FinishPlace, TInv, TypeOK, Room
<1>3. DutiesKept
  BY SameDutiesKept DEF FinishPlace
<1> QED
  BY <1>1, <1>2, <1>3 DEF Quiet

LEMMA FinishPatchQuiet ==
    ASSUME TInv, NEW s \in Sockets, FinishPatch(s)
    PROVE  Quiet
<1>1. UNCHANGED <<begun, said>>
  BY DEF FinishPatch, story
<1>2. room' = room
  BY DEF FinishPatch, redis
<1>3. DutiesKept
  BY SameDutiesKept DEF FinishPatch
<1> QED
  BY <1>1, <1>2, <1>3 DEF Quiet

LEMMA FinishFirstQuiet ==
    ASSUME TInv, NEW s \in Sockets, FinishFirst(s)
    PROVE  Quiet
<1>1. UNCHANGED <<begun, said>>
  BY DEF FinishFirst, story
<1>2. room'.state = "running" => room.state = "running" /\ room'.race = room.race
  BY DEF FinishFirst, TInv, TypeOK, Room
<1>3. DutiesKept
  BY IdleKept, SameDutiesKept, SocketsAndRelaysWork DEF FinishFirst, TInv, TypeOK
<1> QED
  BY <1>1, <1>2, <1>3 DEF Quiet

LEMMA FinishDeadlineQuiet ==
    ASSUME TInv, NEW s \in Sockets, FinishDeadline(s)
    PROVE  Quiet
<1>1. UNCHANGED <<begun, said>>
  BY DEF FinishDeadline, story
<1>2. room' = room
  BY DEF FinishDeadline, redis
<1>3. DutiesKept
  BY SameDutiesKept DEF FinishDeadline
<1> QED
  BY <1>1, <1>2, <1>3 DEF Quiet

LEMMA FinishShortenQuiet ==
    ASSUME TInv, NEW s \in Sockets, FinishShorten(s)
    PROVE  Quiet
<1>1. UNCHANGED <<begun, said>>
  BY DEF FinishShorten, story
<1>2. room'.state = "running" => room.state = "running" /\ room'.race = room.race
  BY DEF FinishShorten, TInv, TypeOK, Room
<1>3. DutiesKept
  BY IdleKept, SocketsAndRelaysWork DEF FinishShorten, TInv, TypeOK
<1> QED
  BY <1>1, <1>2, <1>3 DEF Quiet

LEMMA ErrorQuiet ==
    ASSUME TInv, NEW w \in Workers, Error(w)
    PROVE  Quiet
<1>1. UNCHANGED <<begun, said>>
  BY DEF Error, story
<1>2. room' = room
  BY DEF Error, redis
<1>3. DutiesKept
  BY IdleKept DEF Error, TInv, TypeOK
<1> QED
  BY <1>1, <1>2, <1>3 DEF Quiet

LEMMA CleanupErrorQuiet ==
    ASSUME TInv, NEW s \in Sockets, CleanupError(s)
    PROVE  Quiet
<1>1. UNCHANGED <<begun, said>>
  BY DEF CleanupError, story
<1>2. room' = room
  BY DEF CleanupError, redis
<1>3. DutiesKept
  BY IdleKept, SocketsAndRelaysWork DEF CleanupError, TInv, TypeOK
<1> QED
  BY <1>1, <1>2, <1>3 DEF Quiet

LEMMA EarlyCloseQuiet ==
    ASSUME TInv, NEW s \in Sockets, EarlyClose(s)
    PROVE  Quiet
<1>1. UNCHANGED <<begun, said>>
  BY DEF EarlyClose, story
<1>2. room' = room
  BY DEF EarlyClose, redis
<1>3. DutiesKept
  BY SameDutiesKept DEF EarlyClose
<1> QED
  BY <1>1, <1>2, <1>3 DEF Quiet

LEMMA CrashQuiet ==
    ASSUME TInv, NEW replica \in Replicas, Crash(replica)
    PROVE  Quiet
<1>1. UNCHANGED <<begun, said>>
  BY DEF Crash, story
<1>2. room' = room
  BY DEF Crash, redis
<1>3. DutiesKept
  <2>1. \A w \in Workers : duty'[w] = Idle \/ duty'[w] = duty[w]
    BY DEF Crash
  <2> QED
    BY <2>1, NoRights DEF DutiesKept
<1> QED
  BY <1>1, <1>2, <1>3 DEF Quiet

LEMMA TimePassesQuiet ==
    ASSUME TInv, TimePasses
    PROVE  Quiet
<1>1. UNCHANGED <<begun, said>>
  BY DEF TimePasses, story
<1>2. room'.state = "running" => room.state = "running" /\ room'.race = room.race
  BY DEF TimePasses, TInv, TypeOK, Room
<1>3. DutiesKept
  BY SameDutiesKept DEF TimePasses, local
<1> QED
  BY <1>1, <1>2, <1>3 DEF Quiet

LEMMA TickOnce ==
    ASSUME TInv, Once, NEW w \in Workers, DueScript(w)
    PROVE  Once'
<1>1. CASE TimeUp(w)
  <2>1. room.state = "running" /\ room.race \in Races /\ End(w, room.race)
    BY <1>1 DEF TimeUp, DeadlineDue, TInv, RaceKnown
  <2> QED
    BY <2>1, EndOnce
<1> QED
  BY <1>1, GoOnce, SweepQuiet, QuietKeepsOnce DEF DueScript

LEMMA IdleTickOnce ==
    ASSUME TInv, Once, NEW w \in Workers, Tick(w)
    PROVE  Once'
<1>1. CASE UNCHANGED <<redis, duty, story>>
  <2>1. Quiet
    BY <1>1, SameDutiesKept DEF Quiet, redis, story
  <2> QED
    BY <2>1, QuietKeepsOnce
<1> QED
  BY <1>1, TickOnce DEF Tick

LEMMA ForceEndOnce ==
    ASSUME TInv, Once, NEW w \in Workers, ForceEnd(w)
    PROVE  Once'
<1>1. CASE Do(w, Idle) /\ UNCHANGED <<redis, story>>
  <2>1. Quiet
    BY <1>1, IdleKept DEF Quiet, redis, story, TInv, TypeOK
  <2> QED
    BY <2>1, QuietKeepsOnce
<1>2. CASE MayEnd(duty[w].race) /\ End(w, duty[w].race)
  <2>1. duty[w].race \in Races
    BY DutyUsed DEF TInv, TypeOK, ForceEnd
  <2> QED
    BY <1>2, <2>1, EndOnce DEF MayEnd
<1> QED
  BY <1>1, <1>2 DEF ForceEnd

LEMMA InitOnce == Init => Once
<1> SUFFICES ASSUME Init PROVE Once
    OBVIOUS
<1>1. \A r \in Races : said[r] = [started |-> 0, over |-> 0]
  BY DEF Init
<1>2. \A w \in Workers : duty[w] = Idle
  BY DEF Init
<1> QED
  BY <1>1, <1>2, NoRights DEF Once, StartedOnce, OverOnce

LEMMA StepOnce == TInv /\ Once /\ [Next]_vars => Once'
<1> SUFFICES ASSUME TInv, Once, [Next]_vars PROVE Once'
    OBVIOUS
<1>1. CASE UNCHANGED vars
  <2>1. Quiet
    BY <1>1, SameDutiesKept DEF Quiet, vars, redis, local, story
  <2> QED
    BY <2>1, QuietKeepsOnce
<1>2. ASSUME NEW s \in Sockets, HandlerStep(s) PROVE Once'
  <2>1. s \in Workers
    BY SocketsAndRelaysWork
  <2>2. CASE JoinTick(s)
    BY <2>1, <2>2, IdleTickOnce DEF JoinTick
  <2> QED
    BY <1>2, <2>2, QuietKeepsOnce, SendSnapshotQuiet, StartQuiet, PlayAgainQuiet, LeaveQuiet,
       FinishCheckQuiet, FinishRecordQuiet, FinishPlaceQuiet, FinishPatchQuiet,
       FinishFirstQuiet, FinishDeadlineQuiet, FinishShortenQuiet, DroppedQuiet, HangUpQuiet
       DEF HandlerStep
<1>3. ASSUME NEW s \in Sockets, ClientStep(s) PROVE Once'
  <2>1. s \in Workers
    BY SocketsAndRelaysWork
  <2>2. ASSUME NEW kind \in Frames, Receive(s, kind) PROVE Once'
    BY <2>1, <2>2, IdleTickOnce DEF Receive
  <2> QED
    BY <1>3, <2>2, QuietKeepsOnce, JoinQuiet, HangUpQuiet DEF ClientStep
<1>4. ASSUME NEW w \in Workers, DutyStep(w) PROVE Once'
  BY <1>4, QuietKeepsOnce, PublishStartedOnce, PublishOverOnce, ForceEndOnce,
     ReadBegunQuiet, InsertRaceQuiet, ReadEndedQuiet, InsertResultsQuiet,
     ReadAfterRemovalQuiet, DeleteRoomQuiet, HandOffQuiet, ReadMaybeEndQuiet DEF DutyStep
<1>5. ASSUME NEW s \in Sockets, RelayTick(s) PROVE Once'
  BY <1>5, TickOnce, SocketsAndRelaysWork DEF RelayTick
<1>6. ASSUME NEW t \in Timers, TimerTick(t) PROVE Once'
  BY <1>6, TickOnce DEF TimerTick, Workers
<1>7. ASSUME NEW s \in Sockets, CleanupError(s) \/ EarlyClose(s) PROVE Once'
  BY <1>7, QuietKeepsOnce, CleanupErrorQuiet, EarlyCloseQuiet
<1>8. ASSUME NEW w \in Workers, Error(w) PROVE Once'
  BY <1>8, QuietKeepsOnce, ErrorQuiet
<1>9. ASSUME NEW replica \in Replicas, Crash(replica) PROVE Once'
  BY <1>9, QuietKeepsOnce, CrashQuiet
<1>10. CASE TimePasses
  BY <1>10, QuietKeepsOnce, TimePassesQuiet
<1> QED
  BY <1>1, <1>2, <1>3, <1>4, <1>5, <1>6, <1>7, <1>8, <1>9, <1>10 DEF Next

LEMMA AlwaysOnce == Spec => []Once
BY InitOnce, StepOnce, AlwaysTInv, PTL DEF Spec

(* `started` and `race_over` go out at most once for a race, whichever and  *)
(* however many callers of tick() and _end_race() try, on however many      *)
(* replicas, and whatever error or crash interrupts them.                  *)
THEOREM PublishedOnce == Spec => []AnnouncedOnce
<1>1. Once => AnnouncedOnce
  BY DEF Once, StartedOnce, OverOnce, AnnouncedOnce
<1> QED
  BY <1>1, AlwaysOnce, PTL

-----------------------------------------------------------------------------
(* The refinement: every step of the room is one of the lifecycle or none.  *)
LifecycleStep == Lifecycle!Next \/ UNCHANGED Lifecycle!vars

LEMMA Stutter ==
    ASSUME room'.state = room.state, room'.race = room.race, DOMAIN seats' = Seated,
           UNCHANGED <<begun, said>>
    PROVE  LifecycleStep
BY DEF LifecycleStep, Lifecycle!vars, Seated

LEMMA SameStutter ==
    ASSUME UNCHANGED <<redis, story>>
    PROVE  LifecycleStep
BY Stutter DEF redis, story, Seated

LEMMA SeatedPlayers ==
    ASSUME TInv
    PROVE  Seated \subseteq Players /\ room \in Room /\ begun \in 0..MaxRaces
BY DEF TInv, TypeOK, Hash, Seated

LEMMA GoStep ==
    ASSUME TInv, NEW w, Go(w)
    PROVE  LifecycleStep
<1>1. room.state = "countdown" /\ begun < MaxRaces /\ begun' = begun + 1
  BY DEF TInv, Go, CountdownDue, CountdownHasRace
<1>2. room'.state = "running" /\ room'.race = begun + 1 /\ UNCHANGED <<seats, said>>
  BY SeatedPlayers DEF Go, Room
<1>3. Lifecycle!Go
  BY <1>1, <1>2 DEF Lifecycle!Go, Lifecycle!news, Seated
<1> QED
  BY <1>3 DEF LifecycleStep, Lifecycle!Next

LEMMA EndStep ==
    ASSUME TInv, NEW w, NEW r, End(w, r), room.state = "running"
    PROVE  LifecycleStep
<1>1. room'.state = "finished" /\ room'.race = room.race /\ UNCHANGED <<seats, begun, said>>
  BY SeatedPlayers DEF End, Room, story
<1>2. Lifecycle!End
  BY <1>1 DEF Lifecycle!End, Lifecycle!news, Seated
<1> QED
  BY <1>2 DEF LifecycleStep, Lifecycle!Next

LEMMA SweepStep ==
    ASSUME TInv, NEW w, Sweep(w)
    PROVE  LifecycleStep
<1>1. room.state \in {"lobby", "finished"} /\ Overdue \in SUBSET Players
  BY SeatedPlayers DEF Sweep, Overdue
<1>2. DOMAIN seats' = Seated \ Overdue /\ UNCHANGED <<room, begun, said>>
  BY DEF Sweep, HDel, Seated, story
<1>3. Lifecycle!Drop(Overdue)
  BY <1>1, <1>2 DEF Lifecycle!Drop, Lifecycle!news, Seated
<1> QED
  BY <1>1, <1>3 DEF LifecycleStep, Lifecycle!Next

LEMMA TickStep ==
    ASSUME TInv, NEW w, Tick(w)
    PROVE  LifecycleStep
BY GoStep, EndStep, SweepStep, SameStutter DEF Tick, DueScript, TimeUp, DeadlineDue

LEMMA AnnounceStep ==
    ASSUME NEW r \in Races, Lifecycle!AnnounceStarted(r) \/ Lifecycle!AnnounceOver(r)
    PROVE  LifecycleStep
<1>1. Lifecycle!Races = Races
  BY DEF Lifecycle!Races, Races
<1>2. \E q \in Lifecycle!Races : Lifecycle!AnnounceStarted(q) \/ Lifecycle!AnnounceOver(q)
  BY <1>1
<1>3. Lifecycle!Next
  BY <1>2, Zenon DEF Lifecycle!Next
<1> QED
  BY <1>3 DEF LifecycleStep

LEMMA PublishStartedStep ==
    ASSUME TInv, Once, NEW w \in Workers, PublishStarted(w)
    PROVE  LifecycleStep
<1> PICK r \in Races : r = duty[w].race
  BY DutyUsed DEF PublishStarted, TInv, TypeOK
<1>1. r \in Races /\ r <= begun /\ said[r].started <= 1 /\ ~(said[r].started > 0)
  BY DutyUsed DEF PublishStarted, TInv, TypeOK, Once, StartedOnce, ToStart
<1>2. UNCHANGED <<room, seats, begun>>
  BY DEF PublishStarted, redis
<1>3. said[r].started = 0
  BY <1>1 DEF TInv, TypeOK
<1>4. /\ said'[r].started = 1 /\ said'[r].over = said[r].over
      /\ \A q \in Races : q # r => said'[q] = said[q]
  BY <1>1, <1>3 DEF PublishStarted, TInv, TypeOK
<1>5. Lifecycle!AnnounceStarted(r)
  <2> QED
    BY <1>1, <1>2, <1>3, <1>4 DEF Lifecycle!AnnounceStarted, Seated
<1> QED
  BY <1>1, <1>5, AnnounceStep

LEMMA PublishOverStep ==
    ASSUME TInv, Once, NEW w \in Workers, PublishOver(w)
    PROVE  LifecycleStep
<1> PICK r \in Races : r = duty[w].race
  BY DutyUsed DEF PublishOver, TInv, TypeOK
<1>1. r \in Races /\ Past(r) /\ said[r].over <= 1 /\ ~(said[r].over > 0)
  BY DutyUsed DEF PublishOver, TInv, TypeOK, Once, OverOnce, ToEnd
<1>2. UNCHANGED <<room, seats, begun>>
  BY DEF PublishOver, redis
<1>3. said[r].over = 0
  BY <1>1 DEF TInv, TypeOK
<1>4. /\ said'[r].over = 1 /\ said'[r].started = said[r].started
      /\ \A q \in Races : q # r => said'[q] = said[q]
  BY <1>1, <1>3 DEF PublishOver, TInv, TypeOK
<1>5. Lifecycle!AnnounceOver(r)
  <2>1. Lifecycle!Ended(r)
    BY <1>1 DEF Lifecycle!Ended, Past
  <2>2. /\ [q \in Races |-> said[q].over][r] = 0
        /\ [q \in Races |-> said'[q].over] = [[q \in Races |-> said[q].over] EXCEPT ![r] = 1]
    BY <1>1, <1>3, <1>4
  <2>3. [q \in Races |-> said'[q].started] = [q \in Races |-> said[q].started]
    BY <1>1, <1>4
  <2> QED
    BY <1>2, <2>1, <2>2, <2>3 DEF Lifecycle!AnnounceOver, Seated
<1> QED
  BY <1>1, <1>5, AnnounceStep

LEMMA DutyStepStep ==
    ASSUME TInv, Once, NEW w \in Workers, DutyStep(w)
    PROVE  LifecycleStep
<1>1. CASE DeleteRoom(w)
  <2>1. Lifecycle!Vanish
    BY <1>1 DEF DeleteRoom, NoRoom, FreshRoom, NoRace, EmptyHash, Seated, story,
                Lifecycle!Vanish, Lifecycle!news
  <2> QED
    BY <2>1 DEF LifecycleStep, Lifecycle!Next
<1>2. CASE HandOff(w)
  BY <1>2, SeatedPlayers, Stutter DEF HandOff, Room, Seated, story
<1>3. CASE ForceEnd(w)
  BY <1>3, EndStep, SameStutter DEF ForceEnd, MayEnd
<1>4. CASE UNCHANGED <<redis, story>>
  BY <1>4, SameStutter
<1> QED
  BY <1>1, <1>2, <1>3, <1>4, PublishStartedStep, PublishOverStep
     DEF DutyStep, ReadBegun, InsertRace, ReadEnded, InsertResults, ReadAfterRemoval, ReadMaybeEnd

LEMMA JoinStep ==
    ASSUME TInv, NEW s \in Sockets, Join(s)
    PROVE  LifecycleStep
<1>1. UNCHANGED <<room, begun, said>> /\ Owner[s] \in Players
  BY DEF Join, story
<1>2. CASE UNCHANGED seats
  BY <1>1, <1>2, Stutter DEF Seated
<1>3. CASE \E new : MayReconnect(Owner[s]) /\ seats' = HSet(seats, Owner[s], new)
  <2>1. DOMAIN seats' = Seated
    BY <1>3 DEF MayReconnect, HSet, Seated
  <2> QED
    BY <1>1, <2>1, Stutter
<1>4. CASE MayEnter(Owner[s]) /\ seats' = HSet(seats, Owner[s], NewSeat(s))
  <2>1. DOMAIN seats' = Seated \cup {Owner[s]}
    BY <1>4 DEF HSet, Seated
  <2>2. Lifecycle!Cardinality(Seated) = Cardinality(Seated)
    BY DEF Lifecycle!Cardinality, Cardinality
  <2>3. Lifecycle!Enter(Owner[s])
    BY <1>1, <1>4, <2>1, <2>2 DEF MayEnter, Lifecycle!Enter, Lifecycle!news, Seated
  <2> QED
    BY <1>1, <2>3 DEF LifecycleStep, Lifecycle!Next
<1> QED
  BY <1>2, <1>3, <1>4 DEF Join

LEMMA StartStep ==
    ASSUME TInv, NEW s \in Sockets, Start(s)
    PROVE  LifecycleStep
<1>1. CASE UNCHANGED redis
  BY <1>1, SameStutter DEF Start
<1>2. CASE /\ room.state = "lobby" /\ room' = FreshRoom("countdown", room.host)
           /\ seats' = [p \in Seated |-> Reset(p)]
  <2>1. Lifecycle!Start
    BY <1>2 DEF Start, FreshRoom, NoRace, Seated, story, Lifecycle!Start, Lifecycle!news
  <2> QED
    BY <2>1 DEF LifecycleStep, Lifecycle!Next
<1> QED
  BY <1>1, <1>2 DEF Start, MayStart

LEMMA PlayAgainStep ==
    ASSUME TInv, NEW s \in Sockets, PlayAgain(s)
    PROVE  LifecycleStep
<1>1. CASE UNCHANGED redis
  BY <1>1, Stutter DEF PlayAgain, redis, Seated
<1>2. CASE /\ room.state = "finished" /\ room' = FreshRoom("lobby", room.host)
           /\ seats' = [p \in Seated |-> Reset(p)]
  <2>1. Lifecycle!Again
    BY <1>2 DEF PlayAgain, FreshRoom, NoRace, Seated, story, Lifecycle!Again, Lifecycle!news
  <2> QED
    BY <2>1 DEF LifecycleStep, Lifecycle!Next
<1> QED
  BY <1>1, <1>2 DEF PlayAgain, MayPlayAgain

LEMMA LeaveStep ==
    ASSUME TInv, NEW s \in Sockets, Leave(s)
    PROVE  LifecycleStep
<1>1. CASE UNCHANGED seats
  BY <1>1, Stutter DEF Leave, story, Seated
<1>2. CASE Owner[s] \in Seated /\ seats' = HDel(seats, {Owner[s]})
  <2>1. Lifecycle!Quit(Owner[s])
    BY <1>2 DEF Leave, HDel, Seated, story, Lifecycle!Quit, Lifecycle!news
  <2> QED
    BY <2>1 DEF LifecycleStep, Lifecycle!Next
<1> QED
  BY <1>1, <1>2 DEF Leave

LEMMA HandlerStepStep ==
    ASSUME TInv, NEW s \in Sockets, HandlerStep(s)
    PROVE  LifecycleStep
<1>1. CASE FinishPlace(s) \/ FinishFirst(s) \/ FinishShorten(s)
  <2>1. room'.state = room.state /\ room'.race = room.race /\ DOMAIN seats' = Seated
    BY <1>1, SeatedPlayers DEF FinishPlace, FinishFirst, FinishShorten, Room, Seated
  <2> QED
    BY <1>1, <2>1, Stutter DEF FinishPlace, FinishFirst, FinishShorten, story
<1>2. CASE FinishPatch(s) \/ HangUp(s)
  <2>1. DOMAIN seats' = Seated
    BY <1>2 DEF FinishPatch, HangUp, Seated
  <2> QED
    BY <1>2, <2>1, Stutter DEF FinishPatch, HangUp, story
<1>3. CASE UNCHANGED <<redis, story>>
  BY <1>3, SameStutter
<1>4. CASE JoinTick(s)
  BY <1>4, TickStep DEF JoinTick
<1> QED
  BY <1>1, <1>2, <1>3, <1>4, StartStep, PlayAgainStep, LeaveStep
     DEF HandlerStep, SendSnapshot, FinishCheck, FinishRecord, FinishDeadline, Dropped

LEMMA ClientStepStep ==
    ASSUME TInv, NEW s \in Sockets, ClientStep(s)
    PROVE  LifecycleStep
<1>1. CASE HangUp(s)
  BY <1>1, HandlerStepStep, Stutter DEF HangUp, Seated, story
<1>2. CASE \E kind \in Frames : Receive(s, kind)
  BY <1>2, TickStep DEF Receive
<1> QED
  BY <1>1, <1>2, JoinStep DEF ClientStep

(* Every step of the room is a step of the lifecycle, or none. *)
LEMMA StepRefines == TInv /\ Once /\ [Next]_vars => [Lifecycle!Next]_(Lifecycle!vars)
<1> SUFFICES ASSUME TInv, Once, [Next]_vars PROVE LifecycleStep
    BY DEF LifecycleStep
<1>1. CASE UNCHANGED vars
  BY <1>1, SameStutter DEF vars
<1>2. ASSUME NEW s \in Sockets, RelayTick(s) PROVE LifecycleStep
  BY <1>2, TickStep DEF RelayTick, Tick
<1>3. ASSUME NEW t \in Timers, TimerTick(t) PROVE LifecycleStep
  BY <1>3, TickStep DEF TimerTick, Tick
<1>4. CASE \/ \E s \in Sockets : CleanupError(s) \/ EarlyClose(s)
           \/ \E w \in Workers : Error(w)
           \/ \E replica \in Replicas : Crash(replica)
  BY <1>4, SameStutter DEF CleanupError, EarlyClose, Error, Crash
<1>5. CASE TimePasses
  <2>1. room'.state = room.state /\ room'.race = room.race
    BY <1>5, SeatedPlayers DEF TimePasses, Room
  <2> QED
    BY <1>5, <2>1, Stutter DEF TimePasses, story, Seated
<1> QED
  BY <1>1, <1>2, <1>3, <1>4, <1>5, DutyStepStep, HandlerStepStep, ClientStepStep DEF Next

LEMMA InitRefines == Init => Lifecycle!Init
BY DEF Init, FreshRoom, EmptyHash, NoRace, Seated, Races, Lifecycle!Init, Lifecycle!Races

(* Whatever callers, replicas and faults do, the room behaves as the        *)
(* lifecycle of docs/race-protocol.md says: its phases in their order, a    *)
(* player list frozen outside the lobby, each announcement once and in time. *)
THEOREM RoomRefines == Spec => ImplementsLifecycle
BY InitRefines, StepRefines, AlwaysTInv, AlwaysOnce, PTL
   DEF Spec, ImplementsLifecycle, Lifecycle!Spec
=============================================================================
