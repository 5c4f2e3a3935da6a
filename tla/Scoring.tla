------------------------------- MODULE Scoring -------------------------------
(***************************************************************************)
(* What the server makes of a keystroke log: its shape, its replay, its    *)
(* measures and the anti-cheat verdict (backend/app/services/              *)
(* typing_metrics.py, validator.py, score_run() of sessions.py), and the   *)
(* ghost it leaves on the daily board (progress_offsets() of stats.py).    *)
(* Thresholds are constants; speed is an integer.                          *)
(***************************************************************************)
EXTENDS TypingEngine

CONSTANTS
    MinMedianGap,   \* MIN_MEDIAN_GAP_MS
    MinGaps,        \* MIN_GAPS_FOR_MEDIAN
    MachineKeys,    \* MACHINE_RUN_KEYS
    MachineGap,     \* MACHINE_RUN_GAP_MS
    MaxAge,         \* MAX_SESSION_AGE, in instants
    MaxAhead,       \* how far a start may lie ahead of the server's clock
    Scale           \* bound: the resolution of wpm

ASSUME ThresholdsAssumption ==
    /\ MinGaps \in Nat \ {0} /\ MachineKeys \in Nat \ {0, 1}
    /\ {MinMedianGap, MachineGap, MaxAge, MaxAhead} \subseteq Nat
    /\ Scale \in Nat \ {0}

(* parse_keystrokes(): what is a log at all.  A key has a character and one *)
(* that was due, a backspace only itself.                                  *)
WellFormed(log) ==
    \A i \in DOMAIN log :
        /\ log[i].t >= 0
        /\ (log[i].expected = Nothing) <=> (log[i].typed = Backspace)
        /\ log[i].typed # Nothing

(* Where a log has characters rather than backspaces.                      *)
Typed(log) == {i \in DOMAIN log : log[i].typed # Backspace}

(* replay(): a character is appended, a backspace takes the last one.      *)
Pressed(text, key) ==
    IF key.typed # Backspace THEN Append(text, key.typed)
    ELSE IF text = <<>> THEN text ELSE Front(text)
Replay(log) ==
    LET text[n \in 0..Len(log)] ==
            IF n = 0 THEN <<>> ELSE Pressed(text[n - 1], log[n])
    IN text[Len(log)]

Duration(log) == Last(log).t

(* compute(): counts over the log, backspaces aside.                       *)
Metrics(log) ==
    LET correct == {i \in Typed(log) : log[i].typed = log[i].expected} IN
    [correct |-> Cardinality(correct), errors |-> Cardinality(Typed(log) \ correct),
     wpm |-> (Cardinality(correct) * Scale) \div Duration(log)]

Gaps(log) == [i \in 1..(Len(log) - 1) |-> log[i + 1].t - log[i].t]

(* The k-th smallest of some numbers.                                      *)
Smallest(gaps, k) ==
    CHOOSE v \in {gaps[i] : i \in DOMAIN gaps} :
        /\ Cardinality({i \in DOMAIN gaps : gaps[i] < v}) < k
        /\ Cardinality({i \in DOMAIN gaps : gaps[i] <= v}) >= k

(* Twice the median, which may fall between two values.                    *)
TwiceMedian(gaps) ==
    LET n == Len(gaps) IN
    IF n % 2 = 1 THEN 2 * Smallest(gaps, (n + 1) \div 2)
    ELSE Smallest(gaps, n \div 2) + Smallest(gaps, n \div 2 + 1)

(* A plausible slip: the run starts at nothing instead of at its first key. *)
RunAtStart0 == 0

(* The length of a run before its first gap.                               *)
RunAtStart == 1

(* Whether the loop of the validator ever sees a run of MachineKeys.       *)
MachineRun(gaps) ==
    LET run[n \in 0..Len(gaps)] ==
            IF n = 0 THEN RunAtStart
            ELSE IF gaps[n] <= MachineGap THEN run[n - 1] + 1 ELSE RunAtStart
    IN \E n \in DOMAIN gaps : run[n] >= MachineKeys

(* A plausible slip: the keys that were corrected do not count.            *)
CountedInText(log) == Len(Replay(log)) - 1

(* How many characters were produced, whatever became of them.             *)
Counted(log) == Cardinality(Typed(log))

(* validate(): the first rule that fails, "valid" when none does.          *)
Verdict(log, target) ==
    LET gaps == Gaps(log) IN
    IF log = <<>> THEN "empty_log"
    ELSE IF Counted(log) < Len(target) THEN "too_few_keystrokes"
    ELSE IF Replay(log) # target THEN "text_mismatch"
    ELSE IF \E i \in DOMAIN gaps : gaps[i] < 0 THEN "time_not_monotonic"
    ELSE IF Len(gaps) >= MinGaps /\ TwiceMedian(gaps) < 2 * MinMedianGap
         THEN "median_gap_too_low"
    ELSE IF MachineRun(gaps) THEN "machine_run"
    ELSE "valid"

(* score_run(): refused outright, or scored one way or the other.          *)
Score(log, target, age) ==
    IF age < -MaxAhead THEN "in_future"
    ELSE IF age > MaxAge THEN "too_old"
    ELSE IF ~WellFormed(log) THEN "malformed"
    ELSE IF log = <<>> \/ Duration(log) <= 0 THEN "no_duration"
    ELSE Verdict(log, target)

Refusals == {"in_future", "too_old", "malformed", "no_duration"}

(* A plausible slip: a corrected character keeps its time.                 *)
OffsetsOfAllKeys(log) ==
    LET keys == SelectSeq(log, LAMBDA k : k.typed # Backspace) IN
    [i \in DOMAIN keys |-> keys[i].t - log[1].t]

(* progress_offsets(): when each character left in the text was typed.     *)
Timed(times, key, first) ==
    IF key.typed # Backspace THEN Append(times, key.t - first)
    ELSE IF times = <<>> THEN times ELSE Front(times)
ProgressOffsets(log) ==
    LET times[n \in 0..Len(log)] ==
            IF n = 0 THEN <<>> ELSE Timed(times[n - 1], log[n], log[1].t)
    IN times[Len(log)]
=============================================================================
