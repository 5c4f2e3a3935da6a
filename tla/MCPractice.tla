----------------------------- MODULE MCPractice -----------------------------
(***************************************************************************)
(* An instance of Practice for TLC: texts of two characters, two instants  *)
(* to a millisecond, thresholds small enough for every verdict to be       *)
(* reached by a log of a few keys.                                         *)
(***************************************************************************)
EXTENDS Practice

CONSTANTS a, b, me, u1, u2, u3, u4

ContentOfTwo == [t \in TextIds |-> IF t = 2 THEN <<b, a>> ELSE <<a, b>>]
HashOfDays == [d \in 0..MaxNow |-> d]

(* A run of a given text that takes time per character, with or without a  *)
(* correction on the way.                                                  *)
Steady(t, time) ==
    <<Key(0, Content[t][1], Content[t][1]),
      Key(time, Content[t][2], Content[t][2])>>
Corrected(t, time) ==
    <<Key(0, Content[t][1], Content[t][2]), Key(1, Nothing, Backspace),
      Key(1, Content[t][1], Content[t][1]),
      Key(time, Content[t][2], Content[t][2])>>

Stored(id, user, text, mode, log) ==
    Row(id, user, text, mode, log, 0, 0, Content[text])

(* Three tied leaders and a slower fourth, and a viewer below them all.    *)
Board == {
    Stored(1, u1, 1, "daily", Steady(1, 1)),
    Stored(2, u2, 1, "practice", Steady(1, 1)),
    Stored(3, u3, 1, "daily", Steady(1, 1)),
    Stored(4, u4, 1, "practice", Corrected(1, 2)),
    Stored(5, me, 1, "practice", Steady(1, 3))}

(* A history of three runs created at the same instant.                    *)
History == {
    Stored(2, me, 1, "daily", Corrected(1, 2)),
    Stored(3, me, 2, "practice", Steady(2, 1)),
    Stored(5, me, 1, "practice", Steady(1, 1))}

RunsElsewhere == {
    [user |-> u1, text |-> 1, mode |-> "practice", log |-> Steady(1, 1)],
    [user |-> u1, text |-> 1, mode |-> "daily", log |-> Corrected(1, 2)],
    [user |-> u4, text |-> 1, mode |-> "daily", log |-> Steady(1, 1)],
    [user |-> me, text |-> 2, mode |-> "practice", log |-> Steady(2, 1)]}

OneRunElsewhere ==
    {[user |-> u1, text |-> 1, mode |-> "daily", log |-> Corrected(1, 2)]}

(* Logs nobody typed: out of order, too fast, of something else, with a    *)
(* backspace before anything, with a shape of their own.                   *)
Strokes3 == {Key(t, a, a) : t \in {0, 1}} \cup {Key(t, b, b) : t \in {0, 2}}
            \cup {Key(1, a, b), Key(1, Nothing, Backspace), Key(1, Nothing, a)}
LogsByHand == BoundedSeq(Strokes3, 4) \ {<<>>}

(* Today's board with two tied at the end of its page, the viewer one of   *)
(* them by a key too late, and quicker at something else.                  *)
Today == {
    Stored(1, u1, 1, "daily", Steady(1, 1)),
    Stored(2, u2, 1, "daily", Steady(1, 2)),
    Stored(3, u3, 1, "daily", Steady(1, 3)),
    Stored(4, me, 1, "daily", Steady(1, 3)),
    Stored(5, me, 2, "practice", Steady(2, 1))}
RunsToday ==
    {[user |-> u2, text |-> 1, mode |-> "daily", log |-> Steady(1, 1)],
     [user |-> u4, text |-> 1, mode |-> "daily", log |-> Corrected(1, 2)]}

(* Who takes part: nobody, to begin with.                                  *)
Nobody == [table |-> {}, modes |-> {}, keys |-> 0, logs |-> {}, samples |-> {},
           drafts |-> {}, skews |-> {0}, reads |-> {}, limit |-> 1,
           edits |-> 0, until |-> 0]

Typist == [Nobody EXCEPT !.modes = {"practice", "daily", "guest"}, !.keys = 5,
                         !.until = MaxNow]
(* A page used again and again, on a clock that is off, with texts that    *)
(* are edited meanwhile.                                                   *)
Again == [Nobody EXCEPT !.modes = {"practice", "daily", "guest"}, !.keys = 2,
                        !.drafts = {<<a>>, <<b, a>>}, !.skews = {-1, 0, 2},
                        !.edits = 2, !.until = 2]
Client == [Nobody EXCEPT !.logs = LogsByHand]
Viewer == [Nobody EXCEPT !.table = Board, !.samples = RunsElsewhere,
                         !.reads = {"board"}, !.limit = 4, !.edits = 1, !.until = 1]
ViewerToday == [Nobody EXCEPT !.table = Today, !.samples = RunsToday,
                              !.skews = {0, 1}, !.reads = {"daily"}, !.limit = 3,
                              !.edits = 1, !.until = 2]
Lister == [Nobody EXCEPT !.table = History, !.samples = RunsElsewhere,
                         !.reads = {"history", "texts"}, !.edits = 2, !.until = 1]
Challenger == [Nobody EXCEPT !.modes = {"daily"}, !.samples = OneRunElsewhere,
                             !.keys = 4, !.reads = {"board", "daily"},
                             !.edits = 1, !.until = 2]

(* A page that goes on to a second text.                                   *)
NextTyper == {[Nobody EXCEPT !.modes = {"practice"}, !.keys = 2, !.edits = 1]}

AllCasts == {Typist, Again, Client, Viewer, ViewerToday, Lister,
             [Lister EXCEPT !.limit = 2], Challenger}
=============================================================================
