---------------------------- MODULE RaceLifecycle ----------------------------
(***************************************************************************)
(* What a room promises, whoever calls it and however often: the phases of *)
(* docs/race-protocol.md section 2, a player list that is frozen outside    *)
(* the lobby, and two announcements per race, each made at most once and    *)
(* not before the race has begun or ended.  RaceRoom implements it.        *)
(***************************************************************************)
EXTENDS Naturals, FiniteSets

CONSTANTS Players, MaxPlayers, MaxRaces

VARIABLES
    phase,    \* none | lobby | countdown | running | finished
    race,     \* the race that is run or shown, 0 if none
    begun,    \* races begun so far
    entrants, \* who is in the room
    started,  \* per race, how often its start was announced
    over      \* per race, how often its end was announced

vars == <<phase, race, begun, entrants, started, over>>
news == <<started, over>>

Races == 1..MaxRaces

Init ==
    /\ phase = "lobby" /\ race = 0 /\ begun = 0 /\ entrants = {}
    /\ started = [r \in Races |-> 0]
    /\ over = [r \in Races |-> 0]

(* The only way in is through the lobby. *)
Enter(p) ==
    /\ phase = "lobby" /\ Cardinality(entrants) < MaxPlayers
    /\ entrants' = entrants \cup {p}
    /\ UNCHANGED <<phase, race, begun, news>>

(* One player may leave at any time ... *)
Quit(p) ==
    /\ p \in entrants
    /\ entrants' = entrants \ {p}
    /\ UNCHANGED <<phase, race, begun, news>>

(* ... and those who are gone are dropped between races. *)
Drop(gone) ==
    /\ phase \in {"lobby", "finished"}
    /\ entrants' = entrants \ gone
    /\ UNCHANGED <<phase, race, begun, news>>

Start ==
    /\ phase = "lobby"
    /\ phase' = "countdown"
    /\ race' = 0
    /\ UNCHANGED <<begun, entrants, news>>

Go ==
    /\ phase = "countdown" /\ begun < MaxRaces
    /\ phase' = "running"
    /\ begun' = begun + 1
    /\ race' = begun + 1
    /\ UNCHANGED <<entrants, news>>

End ==
    /\ phase = "running"
    /\ phase' = "finished"
    /\ UNCHANGED <<race, begun, entrants, news>>

Again ==
    /\ phase = "finished"
    /\ phase' = "lobby"
    /\ race' = 0
    /\ UNCHANGED <<begun, entrants, news>>

(* The room is gone, and everyone with it. *)
Vanish ==
    /\ phase' = "none"
    /\ race' = 0
    /\ entrants' = {}
    /\ UNCHANGED <<begun, news>>

AnnounceStarted(r) ==
    /\ r <= begun /\ started[r] = 0
    /\ started' = [started EXCEPT ![r] = 1]
    /\ UNCHANGED <<phase, race, begun, entrants, over>>

(* Ended(r): begun, and no longer the race that is running. *)
Ended(r) == r <= begun /\ ~(phase = "running" /\ race = r)

AnnounceOver(r) ==
    /\ Ended(r) /\ over[r] = 0
    /\ over' = [over EXCEPT ![r] = 1]
    /\ UNCHANGED <<phase, race, begun, entrants, started>>

Next ==
    \/ \E p \in Players : Enter(p) \/ Quit(p)
    \/ \E gone \in SUBSET Players : Drop(gone)
    \/ Start \/ Go \/ End \/ Again \/ Vanish
    \/ \E r \in Races : AnnounceStarted(r) \/ AnnounceOver(r)

Spec == Init /\ [][Next]_vars
=============================================================================
