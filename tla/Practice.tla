------------------------------ MODULE Practice ------------------------------
(***************************************************************************)
(* A run outside a race, from the first key to the boards it reaches: the  *)
(* practice page around the typing engine, POST /sessions and POST         *)
(* /sessions/guest one await per step, sending a run again and starting    *)
(* over, other people's runs, the admin's edits of the texts, clocks that  *)
(* disagree, midnight, and readers of pages and boards                     *)
(* (frontend/src/features/practice/PracticePage.tsx, backend/app/api/      *)
(* sessions.py, services/sessions.py, services/texts.py, api/              *)
(* admin_texts.py, api/leaderboards.py, api/stats.py).                     *)
(***************************************************************************)
EXTENDS Scoring, Boards

CONSTANTS
    TextIds,      \* ids a text may get
    Content,      \* Content[t]: content_normalized text t is created with
    Alphabet,     \* the characters texts are made of, and keyboards make
    Users, Me,    \* accounts; Me is the one on the practice page
    Casts,        \* bound: who takes part; a behaviour has one of these casts
    MaxNow, MaxRows   \* bounds

(* A cast: the table of sessions to start from, the modes the page is      *)
(* opened in and how long its logs get, logs another client sends, runs    *)
(* that arrive from elsewhere, what the admin may change a text into, how  *)
(* far clients' clocks are off, what readers look at and how many rows     *)
(* they get (LEADERBOARD_LIMIT, limit), how many arrivals, edits and       *)
(* second goes there are, how far the clock goes.                          *)
CastFields ==
    {"table", "modes", "keys", "logs", "samples", "drafts", "skews", "reads",
     "limit", "edits", "until"}

ASSUME TextsAssumption ==
    /\ TextIds \subseteq Nat /\ IsFiniteSet(TextIds)
    /\ Content \in [TextIds -> Seq(Alphabet)] /\ Me \in Users
    /\ {Backspace, Nothing} \cap Alphabet = {}
ASSUME BoundsAssumption ==
    /\ MaxNow \in Nat /\ MaxRows \in Nat
    /\ \A n \in 0..MaxNow : DayHash[DayOf(n)] \in Nat

Ids       == 1..MaxRows
Keystroke == [t: Int, expected: Alphabet \cup {Nothing}, typed: Alphabet \cup {Backspace, Nothing}]

(* What the table of sessions holds: runs of accounts in a mode an account  *)
(* can have, each from a log that was parsed and measured.                 *)
Scored(log) == log \in Seq(Keystroke) /\ log # <<>> /\ WellFormed(log) /\ Duration(log) > 0
Sessions ==
    [id: Ids, user: Users, text: TextIds, mode: {"practice", "daily"},
     started: Int, created: 0..MaxNow, wpm: Nat, valid: BOOLEAN,
     log: Seq(Keystroke), against: Seq(Alphabet)]

Judged(r) == r.valid <=> Verdict(r.log, r.against) = "valid"

ASSUME CastsAssumption ==
    \A c \in Casts :
        /\ DOMAIN c = CastFields
        /\ IsFiniteSet(c.table)
        /\ \A r \in c.table : r \in Sessions /\ Scored(r.log) /\ Judged(r)
        /\ \A r, q \in c.table : r.id = q.id => r = q
        /\ c.logs \subseteq Seq(Keystroke)
        /\ \A s \in c.samples :
              s.user \in Users /\ s.mode \in {"practice", "daily"} /\ Scored(s.log)
        /\ c.drafts \subseteq Seq(Alphabet) /\ c.skews \subseteq Int /\ c.keys \in Nat
        /\ c.limit \in Nat \ {0} /\ c.edits \in Nat /\ c.until \in 0..MaxNow

VARIABLES
    now,      \* the clock
    texts,    \* created_at of each text there is
    contents, \* content_normalized of each text
    active,   \* the texts that are active
    rows,     \* table typing_sessions
    page,     \* the practice page, and its submission's handler
    engine,   \* the engine's state
    reader,   \* somebody paging through a list or looking at a board
    cast,     \* bound: who takes part
    edits     \* bound: edits, arrivals and second goes so far

vars == <<now, texts, contents, active, rows, page, engine, reader, cast, edits>>

Values == BoundedSeq(Alphabet, Len(engine.target))
Modes  == {"practice", "daily", "guest", "api"}
Stages == {"none", "typing", "limit", "text", "daily", "record", "done"}

(* record_session(): the row of a scored run; against is the content it    *)
(* was judged by, which the table does not keep.                           *)
Row(id, user, text, mode, log, started, created, against) ==
    [id |-> id, user |-> user, text |-> text, mode |-> mode,
     started |-> started, created |-> created, wpm |-> Metrics(log).wpm,
     valid |-> Verdict(log, against) = "valid", log |-> log,
     against |-> against]

(* idle: no submission was made, is under way or answered; whole: what was *)
(* sent was a finished run; against: the content the handler read.         *)
NoPage == [mode |-> "none", text |-> 0, stage |-> "none", idle |-> TRUE,
           whole |-> FALSE, log |-> <<>>, started |-> 0, began |-> 0,
           against |-> <<>>, outcome |-> "none"]
Opened(mode, text) ==
    [NoPage EXCEPT !.mode = mode, !.text = text, !.stage = "typing"]

NoReader == [kind |-> "none"]

Init ==
    /\ now = 0
    /\ cast \in Casts
    /\ active = TextIds \ {Max(TextIds)} /\ texts = [t \in active |-> 0]
    /\ contents = [t \in active |-> Content[t]]
    /\ rows = cast.table
    /\ page = NoPage
    /\ engine = InitialState(<<>>)
    /\ reader = NoReader
    /\ edits = 0

-----------------------------------------------------------------------------
(* The practice page.                                                      *)

Edit == edits < cast.edits /\ edits' = edits + 1

(* A text arrives: today's, or a random active one.                        *)
Load(mode) ==
    /\ page = NoPage /\ active # {} /\ mode \in cast.modes
    /\ \E t \in IF mode = "daily" THEN {DailyText(active, DayOf(now))}
                ELSE active :
          page' = Opened(mode, t) /\ engine' = InitialState(contents[t])
    /\ UNCHANGED <<now, texts, contents, active, rows, reader, cast, edits>>

(* The input field changes to any value at all: a key, a paste, a choice   *)
(* of the keyboard's.                                                      *)
Input(value) ==
    /\ page.stage # "none" /\ page.mode # "api"
    /\ engine' = Reduce(engine, value, now)
    /\ engine' # engine /\ Len(engine'.log) <= cast.keys
    /\ UNCHANGED <<now, texts, contents, active, rows, page, reader, cast, edits>>

(* The effect that submits a finished run has its turn before any click.   *)
(* Bound: no button is pressed while an answer is awaited.                 *)
Clickable ==
    /\ page.stage \in {"typing", "done"} /\ page.mode # "api"
    /\ page.stage = "typing" /\ page.idle => ~engine.finished

(* restart(): Esc, Restart or Try again, on the text that was loaded.      *)
Restart ==
    /\ Clickable
    /\ IF page.stage = "typing" THEN UNCHANGED edits ELSE Edit
    /\ page' = Opened(page.mode, page.text)
    /\ engine' = InitialState(engine.target)
    /\ UNCHANGED <<now, texts, contents, active, rows, reader, cast>>

(* next(), and a choice of language: the submission is forgotten and       *)
(* another text asked for.  Until it comes the engine still stands         *)
(* finished, so the effect submits again, and fails for want of a text.    *)
NextText ==
    /\ Clickable /\ page.mode # "daily" /\ Edit
    /\ \E t \in active :
          /\ page' = [Opened(page.mode, t) EXCEPT !.idle = ~engine.finished]
          /\ engine' = InitialState(contents[t])
    /\ UNCHANGED <<now, texts, contents, active, rows, reader, cast>>

(* Date.now() - (performance.now() - startedAt), on a wall clock that is   *)
(* off by so much, as a Date: in whole milliseconds.                       *)
StartOf(startedAt, skew) ==
    LET instant == startedAt + skew IN instant - (instant % Resolution)

Send(skew) ==
    page' = [page EXCEPT !.stage = "limit", !.idle = FALSE,
                         !.whole = engine.finished, !.log = engine.log,
                         !.started = StartOf(engine.startedAt, skew),
                         !.began = now]

(* The effect that submits a finished run.                                 *)
Submit ==
    /\ page.stage = "typing" /\ engine.finished /\ page.idle
    /\ \E skew \in cast.skews : Send(skew)
    /\ UNCHANGED <<now, texts, contents, active, rows, engine, reader, cast, edits>>

(* The Retry button, after an answer that was an error or got lost, sends  *)
(* whatever has been typed by now.                                         *)
Retry ==
    /\ Clickable /\ ~page.idle /\ engine.startedAt # -1 /\ Edit
    /\ \E skew \in cast.skews : Send(skew)
    /\ UNCHANGED <<now, texts, contents, active, rows, engine, reader, cast>>

(* Another client of the API posts a log of its own making.                *)
Post(log) ==
    /\ page = NoPage
    /\ \E t \in active, skew \in cast.skews :
          page' = [page EXCEPT !.mode = "api", !.text = t, !.stage = "limit",
                               !.idle = FALSE, !.log = log,
                               !.started = now + skew, !.began = now]
    /\ UNCHANGED <<now, texts, contents, active, rows, engine, reader, cast, edits>>

-----------------------------------------------------------------------------
(* POST /sessions and POST /sessions/guest.                                *)

Finish(outcome) ==
    page' = [page EXCEPT !.stage = "done", !.outcome = outcome]

(* enforce(): what else the account or the address has sent lately is not  *)
(* modelled, so any request may be one too many.                           *)
Enforce ==
    /\ page.stage = "limit"
    /\ page' = [page EXCEPT !.stage = "text"] \/ Finish("rate_limited")
    /\ UNCHANGED <<now, texts, contents, active, rows, engine, reader, cast, edits>>

(* The text as it is now is what the run will be judged by.                *)
GetText ==
    /\ page.stage = "text"
    /\ IF page.text \in active
       THEN page' = [page EXCEPT
                        !.stage = IF page.mode = "daily" THEN "daily" ELSE "record",
                        !.against = contents[page.text]]
       ELSE Finish("not_found")
    /\ UNCHANGED <<now, texts, contents, active, rows, engine, reader, cast, edits>>

CheckDaily ==
    /\ page.stage = "daily"
    /\ IF active # {} /\ DailyText(active, DayOf(now)) = page.text
       THEN page' = [page EXCEPT !.stage = "record"]
       ELSE Finish("not_daily_text")
    /\ UNCHANGED <<now, texts, contents, active, rows, engine, reader, cast, edits>>

(* A plausible slip: a guest's run is stored like any other.               *)
StoresEverything(mode) == TRUE

(* score_guest_run() writes nothing.                                       *)
Stores(mode) == mode # "guest"

(* A uuid sorts anywhere among the others; bound: first or last of what    *)
(* is left.                                                                *)
Unused == LET left == Ids \ {r.id : r \in rows} IN
          IF left = {} THEN {} ELSE {Min(left), Max(left)}

Record ==
    LET outcome == Score(page.log, page.against, now - page.started) IN
    /\ page.stage = "record"
    /\ IF outcome \in Refusals \/ ~Stores(page.mode)
       THEN UNCHANGED rows
       ELSE \E id \in Unused :
               rows' = rows \cup
                   {Row(id, Me, page.text,
                        IF page.mode = "api" THEN "practice" ELSE page.mode,
                        page.log, page.started, page.began, page.against)}
    /\ Finish(outcome)
    /\ UNCHANGED <<now, texts, contents, active, engine, reader, cast, edits>>

(* A run arrives from elsewhere: another player's, or mine on a phone.     *)
Arrive(sample) ==
    /\ sample.text \in active /\ Edit
    /\ \E id \in Unused, skew \in cast.skews :
          /\ Score(sample.log, contents[sample.text], -skew) \notin Refusals
          /\ rows' = rows \cup {Row(id, sample.user, sample.text, sample.mode,
                                    sample.log, now + skew, now,
                                    contents[sample.text])}
    /\ UNCHANGED <<now, texts, contents, active, page, engine, reader, cast>>

-----------------------------------------------------------------------------
(* The admin.                                                              *)

CreateText(t) ==
    /\ t \notin DOMAIN texts /\ Edit
    /\ texts' = [u \in DOMAIN texts \cup {t} |->
                    IF u = t THEN now ELSE texts[u]]
    /\ contents' = [u \in DOMAIN texts \cup {t} |->
                       IF u = t THEN Content[t] ELSE contents[u]]
    /\ active' = active \cup {t}
    /\ UNCHANGED <<now, rows, page, engine, reader, cast>>

(* update_text(), with new content, is_active or both, and deactivate_text(). *)
UpdateText(t) ==
    /\ t \in DOMAIN texts /\ Edit
    /\ \E content \in cast.drafts \cup {contents[t]} :
          contents' = [contents EXCEPT ![t] = content]
    /\ active' \in {active \ {t}, active \cup {t}}
    /\ UNCHANGED <<now, texts, rows, page, engine, reader, cast>>

-----------------------------------------------------------------------------
(* Readers.                                                                *)

TextRows == {[id |-> t, created |-> texts[t]] : t \in DOMAIN texts}
MyRows   == {r \in rows : r.user = Me}

(* What list a reader pages through, and one page of it.                   *)
Listed(kind) ==
    IF kind = "history" THEN {CursorOf(r) : r \in MyRows} ELSE TextRows
OnePage(kind, cursor) ==
    IF kind = "history" THEN HistoryPage(Listed(kind), cursor, cast.limit)
    ELSE TextsPage(Listed(kind), cursor, cast.limit)

Turned(kind, cursor, seen, first) ==
    LET got == OnePage(kind, cursor) IN
    [kind |-> kind, seen |-> seen \o got.items, cursor |-> got.next,
     first |-> first, open |-> got.next # Start]

OpenList(kind) ==
    /\ reader = NoReader /\ kind \in cast.reads
    /\ reader' = Turned(kind, Start, <<>>, Listed(kind))
    /\ UNCHANGED <<now, texts, contents, active, rows, page, engine, cast, edits>>

NextPage ==
    /\ reader.kind \in {"history", "texts"} /\ reader.open
    /\ reader' = Turned(reader.kind, reader.cursor, reader.seen, reader.first)
    /\ UNCHANGED <<now, texts, contents, active, rows, page, engine, cast, edits>>

(* _board(): the page of a board first.                                    *)
PageOf(board) ==
    LET best == Best(OnBoard(rows, board, now))
        top  == Leaderboard(OnBoard(rows, board, now), cast.limit)
    IN [kind |-> "board", board |-> board, day |-> DayOf(now), rows |-> rows,
        own |-> {},
        last |-> IF top = <<>> THEN {} ELSE {Ranked(board, best, Last(top))},
        open |-> \A i \in DOMAIN top : top[i].user # Me]

OpenBoard ==
    /\ reader = NoReader /\ "board" \in cast.reads
    /\ reader' = PageOf(AllTime)
    /\ UNCHANGED <<now, texts, contents, active, rows, page, engine, cast, edits>>

(* get_daily_leaderboard(): which text is today's, then its board.         *)
AskDaily ==
    /\ reader = NoReader /\ "daily" \in cast.reads /\ active # {}
    /\ reader' = [kind |-> "daily",
                  board |-> DailyBoard(DailyText(active, DayOf(now)))]
    /\ UNCHANGED <<now, texts, contents, active, rows, page, engine, cast, edits>>

OpenDaily ==
    /\ reader.kind = "daily" /\ reader' = PageOf(reader.board)
    /\ UNCHANGED <<now, texts, contents, active, rows, page, engine, cast, edits>>

(* The viewer, when not on the page, by a second query.                    *)
LookUpMe ==
    /\ reader.kind = "board" /\ reader.open
    /\ reader' = [reader EXCEPT !.own = OwnRow(rows, reader.board, now, Me),
                                !.open = FALSE]
    /\ UNCHANGED <<now, texts, contents, active, rows, page, engine, cast, edits>>

Tick ==
    /\ now < cast.until /\ now' = now + 1
    /\ UNCHANGED <<texts, contents, active, rows, page, engine, reader, cast, edits>>

Next ==
    \/ \E mode \in {"practice", "daily", "guest"} : Load(mode)
    \/ \E value \in Values : Input(value)
    \/ \E log \in cast.logs : Post(log)
    \/ Restart \/ NextText \/ Submit \/ Retry
    \/ Enforce \/ GetText \/ CheckDaily \/ Record
    \/ \E sample \in cast.samples : Arrive(sample)
    \/ \E t \in TextIds : CreateText(t) \/ UpdateText(t)
    \/ \E kind \in {"history", "texts"} : OpenList(kind)
    \/ NextPage \/ OpenBoard \/ AskDaily \/ OpenDaily \/ LookUpMe
    \/ Tick

Spec == Init /\ [][Next]_vars

-----------------------------------------------------------------------------

(* The variables keep their types; in particular what is stored is a run   *)
(* of an account, parsed and measured, in a mode an account can have: a    *)
(* refused log or a guest's run never becomes a row (api/sessions.py).     *)
TypeOK ==
    /\ now \in 0..MaxNow
    /\ DOMAIN texts \subseteq TextIds /\ active \subseteq DOMAIN texts
    /\ contents \in [DOMAIN texts -> Seq(Alphabet)]
    /\ \A r \in rows : r \in Sessions /\ Scored(r.log)
    /\ \A r, q \in rows : r.id = q.id => r = q
    /\ page.mode \in Modes \cup {"none"} /\ page.stage \in Stages
    /\ edits \in 0..cast.edits

(* The log is the truth: whatever was typed, pasted or corrected, it has   *)
(* the shape the server accepts, replays to what stands in the field, and  *)
(* holds each key against the character that was due                       *)
(* (engine.ts, typing_metrics.py: "Replaying the log ... reproduces        *)
(* exactly what the user ended up with").                                  *)
LogReplays ==
    LET log == engine.log IN
    /\ WellFormed(log)
    /\ Replay(log) = engine.typed
    /\ \A i \in DOMAIN log : log[i].typed # Backspace =>
          log[i].expected =
              engine.target[Len(Replay(SubSeq(log, 1, i - 1))) + 1]

(* A finished run of the page is never thrown out for being something else *)
(* than the text, unless the admin has edited the text since the page      *)
(* loaded it: otherwise it can only fail for its timing, for the clock, or *)
(* before it is judged; and nothing the page sends is ever malformed or    *)
(* out of order (engine.ts, score_run() and validate()).                   *)
HonestRunsStand ==
    page.stage = "done" /\ page.mode # "api" =>
        page.outcome \in
            {"valid", "median_gap_too_low", "machine_run", "no_duration",
             "too_old", "in_future", "rate_limited", "not_found", "not_daily_text"}
            \cup IF page.whole /\ page.against = engine.target THEN {}
                 ELSE {"too_few_keystrokes", "text_mismatch"}

(* What the page showed at the end of a run is what the server measured,   *)
(* from the log alone: character for character, and the time to the        *)
(* millisecond it rounds to (liveStats() of engine.ts, compute()).         *)
ShownIsScored ==
    ( /\ page.stage = "done" /\ page.mode # "api" /\ page.whole
      /\ page.outcome \notin Refusals \cup {"rate_limited", "not_found", "not_daily_text"} ) =>
        /\ Round(LiveStats(engine).elapsed) = Duration(page.log)
        /\ LiveStats(engine).correct = Metrics(page.log).correct
        /\ LiveStats(engine).errors = Metrics(page.log).errors

(* Typing the whole text submits it (the first test of                     *)
(* practice.test.tsx): a finished run never stands there with nothing left *)
(* to send it.                                                             *)
WholeTextSubmits == page.stage = "typing" /\ engine.finished => page.idle

(* What a counted run is, whoever sent the log: it replays to the text as  *)
(* it was when the run was judged, in order of time, its median gap is a   *)
(* human's if there are enough of them, and nowhere do MachineKeys keys    *)
(* follow each other within MachineGap.                                    *)
CountedMeans ==
    \A r \in rows :
        LET gaps == Gaps(r.log) IN
        r.valid <=>
            /\ Replay(r.log) = r.against
            /\ \A i, j \in DOMAIN r.log : i < j => r.log[i].t <= r.log[j].t
            /\ Len(gaps) >= MinGaps => TwiceMedian(gaps) >= 2 * MinMedianGap
            /\ ~ \E i \in 1..(Len(r.log) - MachineKeys + 1) :
                    \A j \in i..(i + MachineKeys - 2) : gaps[j] <= MachineGap

(* The ghost runs as fast and as early as the board's first row: whatever  *)
(* daily_ghost() may pick from all runs of the day is what the board, from *)
(* everybody's best, may list first.  (Among runs that tie in both, each   *)
(* query may pick its own.)                                                *)
GhostIsFirst ==
    \A t \in DOMAIN texts :
        LET Shown(rs) == {<<r.user, r.wpm, r.started>> : r \in rs} IN
        Shown(Ghosts(rows, t, now))
            = Shown(Leading(Best(OnDailyBoard(rows, t, now))))

(* A ghost can be raced: the times it leaves are one per character of the  *)
(* text as it was run, and ascending, and at any moment the bar stands at  *)
(* the characters typed for good by then, found by binary search.          *)
GhostKeepsTime ==
    \A r \in Counting(rows) :
        LET times == ProgressOffsets(r.log) IN
        /\ Len(times) = Len(r.against)
        /\ \A i, j \in DOMAIN times : i < j => times[i] <= times[j]
        /\ \A e \in -1..MaxNow :
              GhostChars(times, e) =
                  Cardinality({i \in DOMAIN times : times[i] <= e})

(* The row added for a viewer who is not on the page is never faster than  *)
(* the page above it, though runs arrive and midnight passes between the   *)
(* two queries.  On the all-time board it never outranks the page either;  *)
(* on today's, whose ranks have no gaps, each run that arrived meanwhile   *)
(* lifts it by one rank at most.  Only a run of the viewer's may do more.  *)
OwnRowBelowPage ==
    (reader.kind = "board" /\ ~reader.open /\ MyRows \subseteq reader.rows) =>
        \A own \in reader.own, last \in reader.last :
            /\ own.wpm <= last.wpm
            /\ ~reader.board.daily => own.rank >= last.rank
            /\ reader.board.daily /\ reader.day = DayOf(now) =>
                  own.rank + Cardinality(rows \ reader.rows) >= last.rank

(* Paging loses and repeats nothing: a reader who reaches the last page    *)
(* has seen every row that was there at the start, and no row twice, while *)
(* rows are added and texts come and go.                                   *)
EachListedOnce ==
    reader.kind \in {"history", "texts"} =>
        /\ \A i, j \in DOMAIN reader.seen :
              reader.seen[i] = reader.seen[j] => i = j
        /\ ~reader.open =>
              \A item \in reader.first :
                  \E i \in DOMAIN reader.seen : reader.seen[i] = item
=============================================================================
