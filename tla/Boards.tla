------------------------------- MODULE Boards -------------------------------
(***************************************************************************)
(* The queries over typing_sessions and texts as functions of the rows     *)
(* they see: leaderboards, today's ghost, pages of a keyset-paginated list *)
(* (backend/app/services/stats.py, services/texts.py, api/leaderboards.py, *)
(* api/stats.py, api/admin_texts.py, core/pagination.py).                  *)
(*                                                                         *)
(* A row has id, user, text, mode, started, created, wpm, valid and log.   *)
(***************************************************************************)
EXTENDS Integers, Sequences, FiniteSets, FiniteSetsExt, SequencesExt

CONSTANTS
    DayLength,   \* instants from one midnight of APP_TZ to the next
    DayHash      \* DayHash[d]: daily_index() of day d before the modulo

ASSUME DayAssumption == DayLength \in Nat \ {0}

DayOf(now) == now \div DayLength

(* period_start("day") and the conditions of the daily board.              *)
OnDailyBoard(rows, text, now) ==
    {r \in rows : /\ r.valid /\ r.mode = "daily" /\ r.text = text
                  /\ r.started >= DayOf(now) * DayLength}

(* The all-time board of a language.                                       *)
Counting(rows) == {r \in rows : r.valid}

Faster(r, q) == r.wpm > q.wpm \/ (r.wpm = q.wpm /\ r.started < q.started)

(* ORDER BY of a finite set: each element has so many ahead of it.         *)
InOrder(S, ahead) ==
    [k \in 1..Cardinality(S) |->
        CHOOSE x \in S : Cardinality({y \in S : <<y, x>> \in ahead}) = k - 1]

(* The rows an ORDER BY wpm DESC, started_at ASC may put first.            *)
Leading(rows) == {r \in rows : \A q \in rows : ~Faster(q, r)}

(* DISTINCT ON (user_id): one row per user, the fastest, earliest on ties. *)
Best(rows) ==
    {CHOOSE r \in Leading({q \in rows : q.user = u}) : TRUE :
        u \in {q.user : q \in rows}}

(* rank() and dense_rank() over the best rows.                             *)
StandardRank(best, r) == 1 + Cardinality({q \in best : q.wpm > r.wpm})
DenseRank(best, r) ==
    1 + Cardinality({q.wpm : q \in {p \in best : p.wpm > r.wpm}})

(* leaderboard(): the first rows of a board, by rank, then started_at.     *)
AheadOnBoard(r, q) == Faster(r, q) \/ (~Faster(q, r) /\ r.id < q.id)
Leaderboard(rows, limit) ==
    LET best  == Best(rows)
        board == InOrder(best, {p \in best \X best : AheadOnBoard(p[1], p[2])})
    IN SubSeq(board, 1, Min({limit, Len(board)}))

(* What a board is asked for with: the all-time board of a language, or     *)
(* today's of one text, which alone is numbered without gaps.              *)
AllTime         == [daily |-> FALSE, text |-> 0]
DailyBoard(text) == [daily |-> TRUE, text |-> text]

OnBoard(rows, board, now) ==
    IF board.daily THEN OnDailyBoard(rows, board.text, now) ELSE Counting(rows)

(* What a row says: its rank among the best, and its speed.                *)
Ranked(board, best, r) ==
    [rank |-> IF board.daily THEN DenseRank(best, r) ELSE StandardRank(best, r),
     wpm  |-> r.wpm]

(* A plausible slip: the second query of _board() leaves mode, text and    *)
(* period out.                                                             *)
OwnRowElsewhere(rows, board, now, user) ==
    LET best == Best(Counting(rows)) IN
    {Ranked(board, best, r) : r \in {q \in best : q.user = user}}

(* _board(): a viewer outside the page is looked up in the whole board.    *)
OwnRow(rows, board, now, user) ==
    LET best == Best(OnBoard(rows, board, now)) IN
    {Ranked(board, best, r) : r \in {q \in best : q.user = user}}

(* A plausible slip: the ghost is looked for among every run on the text.  *)
GhostRowsAnyMode(rows, text, now) ==
    {r \in rows : r.valid /\ r.text = text
                  /\ r.started >= DayOf(now) * DayLength}

(* daily_ghost(): the rows its query may answer with.                      *)
GhostRows(rows, text, now) == OnDailyBoard(rows, text, now)
Ghosts(rows, text, now) == Leading(GhostRows(rows, text, now))

(* daily_text(): a pick among the active texts in the order of their ids.  *)
DailyText(active, day) ==
    LET inOrder == InOrder(active, {p \in active \X active : p[1] < p[2]})
    IN inOrder[(DayHash[day] % Cardinality(active)) + 1]

-----------------------------------------------------------------------------
(* Keyset pages, newest first.  The first cursor is Start.                 *)
Start == [created |-> -1, id |-> -1]

(* A plausible slip: the cursor forgets the id.                            *)
BeforeByTime(item, cursor) == item.created < cursor.created

(* (created_at, id) < (cursor.created_at, cursor.id)                       *)
Before(item, cursor) ==
    \/ item.created < cursor.created
    \/ item.created = cursor.created /\ item.id < cursor.id

(* ORDER BY created_at DESC, id DESC                                       *)
Newer(i, j) == i.created > j.created \/ (i.created = j.created /\ i.id > j.id)

Rest(items, cursor) ==
    LET pool == IF cursor = Start THEN items
                ELSE {i \in items : Before(i, cursor)}
    IN InOrder(pool, {p \in pool \X pool : Newer(p[1], p[2])})

Page(items, cursor, limit) ==
    LET rest == Rest(items, cursor) IN SubSeq(rest, 1, Min({limit, Len(rest)}))

CursorOf(item) == [created |-> item.created, id |-> item.id]

(* my_sessions(): a full page has a next one.                              *)
HistoryPage(items, cursor, limit) ==
    LET page == Page(items, cursor, limit) IN
    [items |-> page,
     next  |-> IF Len(page) = limit THEN CursorOf(Last(page)) ELSE Start]

(* The list of texts: one row too many is asked for, to see if it comes.   *)
TextsPage(items, cursor, limit) ==
    LET rows == Page(items, cursor, limit + 1)
        page == SubSeq(rows, 1, Min({limit, Len(rows)}))
    IN [items |-> page,
        next  |-> IF Len(rows) > limit THEN CursorOf(Last(page)) ELSE Start]
=============================================================================
