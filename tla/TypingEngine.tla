---------------------------- MODULE TypingEngine ----------------------------
(***************************************************************************)
(* frontend/src/features/typing-engine/engine.ts: the reducer that turns   *)
(* the successive values of an input field into a log of keystrokes, and   *)
(* the numbers shown while typing.  A text is a sequence of characters;    *)
(* each character is one UTF-16 unit, as all the texts' are.  The clock     *)
(* counts instants, several to a millisecond; the log counts milliseconds. *)
(***************************************************************************)
EXTENDS Integers, Sequences, FiniteSets, FiniteSetsExt, SequencesExt

CONSTANT Resolution   \* instants per millisecond: performance.now() has a fraction

ASSUME ResolutionAssumption == Resolution \in Nat \ {0}

Backspace == "backspace"
Nothing   == ""          \* the expected character of a backspace

Key(t, expected, typed) == [t |-> t, expected |-> expected, typed |-> typed]

(* startedAt is -1 until the first key.                                    *)
InitialState(target) ==
    [target |-> target, typed |-> <<>>, log |-> <<>>, startedAt |-> -1,
     lastAt |-> -1, finished |-> FALSE]

(* The part of a value that is taken: no longer than the target, and       *)
(* nothing after the first mistake.                                        *)
Accepted(target, value) ==
    LET room == SubSeq(value, 1, Min({Len(value), Len(target)}))
        mistakes == {i \in DOMAIN room : room[i] # target[i]}
    IN IF mistakes = {} THEN room ELSE SubSeq(room, 1, Min(mistakes))

(* The backspaces that take characters away, all at time t.                *)
Erased(t, removed) == [i \in 1..removed |-> Key(t, Nothing, Backspace)]

(* A plausible slip: positions count from what was typed before.           *)
StrokesMisplaced(target, typed, value, t) ==
    LET kept == Len(LongestCommonPrefix({typed, value})) IN
    Erased(t, Len(typed) - kept)
        \o [i \in 1..(Len(value) - kept) |->
               Key(t, target[Min({Len(typed) + i, Len(target)})],
                   value[kept + i])]

(* The keystrokes that lead from typed to value, all at time t: what the   *)
(* two do not share is erased, then the rest is typed.                     *)
Strokes(target, typed, value, t) ==
    LET kept == Len(LongestCommonPrefix({typed, value})) IN
    Erased(t, Len(typed) - kept)
        \o [i \in 1..(Len(value) - kept) |->
               Key(t, target[kept + i], value[kept + i])]

(* Math.round() of a span, in whole milliseconds: half of one counts up.   *)
Round(span) == (2 * span + Resolution) \div (2 * Resolution)

(* reduce(), action input.                                                 *)
Reduce(state, input, at) ==
    LET value == Accepted(state.target, input)
        start == IF state.startedAt = -1 THEN at ELSE state.startedAt
    IN IF state.finished \/ value = state.typed THEN state
       ELSE [state EXCEPT
                !.typed = value, !.startedAt = start, !.lastAt = at,
                !.log = @ \o Strokes(state.target, state.typed, value,
                                     Max({0, Round(at - start)})),
                !.finished = value = state.target]

(* A plausible slip: a backspace counts as a wrong key.                    *)
LiveStatsWithErasures(state) ==
    [elapsed |-> Max({Resolution, state.lastAt - state.startedAt}),
     correct |-> Cardinality({i \in DOMAIN state.log :
                                 state.log[i].typed = state.log[i].expected}),
     errors  |-> Cardinality({i \in DOMAIN state.log :
                                 state.log[i].typed # state.log[i].expected})]

(* liveStats(): what the page shows once the run is finished; elapsed is   *)
(* not rounded, and at least a millisecond.                                *)
LiveStats(state) ==
    LET keys  == {i \in DOMAIN state.log : state.log[i].typed # Backspace}
        wrong == {i \in keys : state.log[i].typed # state.log[i].expected}
    IN [elapsed |-> Max({Resolution, state.lastAt - state.startedAt}),
        correct |-> Cardinality(keys \ wrong), errors |-> Cardinality(wrong)]

(* pace.ts: a ghost's progress, by binary search.  Offsets are whole       *)
(* milliseconds, so a fraction of elapsed makes no difference.            *)
GhostChars(offsets, elapsed) ==
    LET Search[s \in (0..Len(offsets)) \X (0..Len(offsets))] ==
            LET lo == s[1]  hi == s[2]  mid == (lo + hi) \div 2 IN
            IF lo >= hi THEN lo
            ELSE IF offsets[mid + 1] <= elapsed THEN Search[<<mid + 1, hi>>]
            ELSE Search[<<lo, mid>>]
    IN IF elapsed < 0 THEN 0 ELSE Search[<<0, Len(offsets)>>]
=============================================================================
