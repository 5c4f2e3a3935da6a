# Verification of multilingual-typing-race

TLA+ modules that model the program under `src/`, TLC configurations that
check them on small instances, and TLAPS proofs that hold for every value of
the constants. `PROJECT.json` is the index: components, runs, mutants, the
source lines each definition stands for, findings, hazards and theorems.

    tlasany RaceRoom.tla
    tlc -workers 2 -config tabs.cfg MCRaceRoom
    tlapm RaceRoomLifecycleProofs.tla

## 1. The system and its parts

A typing trainer with multiplayer races: a FastAPI backend that may run as
several replicas, Redis for live state, Postgres for results, a React client.

| Part | State | Operations | Interacts with | What is hard |
|---|---|---|---|---|
| **Race room** `services/rooms.py`, `api/rooms.py`, `models/race.py` | two Redis hashes per room, three tables, one handler, one relay and some timers per process | join, drop, leave, start, tick, progress, finish, play again | every replica runs the same scripts on the same keys; events go through Redis pub/sub | interleaving of handlers, relays and timers at every await; crashes; closing sockets; stale reads |
| **Room creation and expiry** `rooms.py` 393-434 | TTLs of the two keys | create_room, _touch | every write to a room | keys re-created without a TTL; half-made rooms |
| **Room feed** `api/rooms.py` 116-168, `room.ts`, `socket.ts` | pub/sub buffer, client view, reconnect timer | progress, publish, relay, reduce, reconnect | room → client | changes announced after they are made; events around the snapshot, lost while away; close during open |
| **Refresh tokens** `refresh_tokens.py`, `api/auth.py`, `lib/api.ts` 39-111, `auth/store.ts` | live token ids, one cookie per browser, one access token per tab | login, refresh, logout, replay a request after 401 | tabs share the cookie, requests share the refresh | rotation against parallel refreshes and logout |
| **Rate limiter** `rate_limit.py`, `limits.py` | counter and TTL per bucket | hit, peek, reset | guards sign-in, rooms, scoring | window edges, slow check between peek and hit, fail-open |
| **Scoring** `sessions.py`, `typing_metrics.py`, `validator.py` | none (pure) | parse, replay, compute, validate, record | practice, daily, guests, races | boundaries of each rule; order of the rules |
| **Typing engine** `engine.ts`, `segments.ts` | text typed, keystroke log | input, reset | its log is what Scoring replays | diff of two input values; code units against code points |
| **Statistics and boards** `stats.py`, `leaderboards.py` | none (queries) | ranking, streaks, daily text, ghost | rows Scoring wrote | ties, window edges, own row outside the page |
| **Texts and pages** `texts.py`, `pagination.py`, `normalize.py` | table of texts | create, update, deactivate, list after a cursor, seed | Race room picks a text | inserts between two pages |
| **Pacers** `pace.ts` | none (pure) | position of a pacer, of a ghost | Practice page | boundaries |
| Pages, UI kit, wiring, migrations, seeds | – | rendering, configuration | – | not modelled: no protocol of their own |

What makes each correct:

- *Race room*: a room's phases move only as the protocol says; the players of a
  race are those seated when it began; a race is announced once, ended once,
  not before its time unless everyone connected is done; places are distinct;
  no row refers to a missing one; presence follows the newest socket; a room
  with somebody in it moves on without timers.
- *Creation and expiry*: every key has a TTL or an owner who will set one (it
  does not hold; section 10).
- *Room feed*: once nothing is under way, every connected page shows the room; a
  finish is never taken back.
- *Sign-in*: one live token per login however refreshes interleave; a tab does
  not sign itself out; no promise hangs; the cookie works.
- *Rate limiter*: no more guesses than the allowance and what was in flight; no
  permanent refusal.
- *Scoring and engine*: the engine's log replays to what was typed and is never
  refused for its content; a counted run is what the rules say; the page shows
  what the server counts.
- *Boards*: the ghost is as fast and as early as whoever is first; the viewer's
  own row fits the page above it. *Lists*: a row present throughout is listed
  exactly once.

## 2. Modules, and the plan

| Module | Models | Uses | States |
|---|---|---|---|
| `RaceRoom` | the room's record and every worker on it | – | safety, liveness, refinement |
| `RaceLifecycle` | what a room promises | – | refined by `RaceRoom` |
| `RoomFeed` | announcements, snapshots, pages | – | pages converge to the room |
| `RateLimiter` | one counter of the limiter | – | used by `SignIn` |
| `SignIn` | tabs, cookie, tokens, the /auth handlers | `RateLimiter` | rotation, sharing, lockout |
| `TypingEngine` | the reducer of the input field | – | used by `Scoring` |
| `Scoring` | a log's shape, replay, measures, verdict | `TypingEngine` | used by `Practice` |
| `Boards` | queries: boards, ghost, pages of lists | – | used by `Practice` |
| `Practice` | a run from the first key to the boards, sent again and started over, with admin, other players, skewed clocks, midnight, readers | `Scoring`, `Boards` | engine, scoring, boards and pages against reference definitions |

`MCRaceRoom`, `MCRoomFeed`, `MCSignIn` and `MCPractice` give the constants
their values for TLC. The proofs stand in modules of their own:

| Proofs | About | Theorems |
|---|---|---|
| `RaceRoomProofs` | `RaceRoom` | `TypeOK`, `PresenceFollowsSocket`, `DeadlineOnlyCloser` |
| `RaceRoomLifecycleProofs` | extends the former | `AnnouncedOnce`, `ImplementsLifecycle` |
| `RaceRoomResultsProofs` | extends the former | `NothingDangling`, `OnlyTheField`, `PlacesHold`, `EndsOnAFinish` |
| `SignInProofs` | `SignIn` | `TypeOK`, `NoneLeftWaiting`, `GuessesBounded`, `OneLivePerLogin`, `NoSelfRefusal`, `CookieWorks` |
| `RoomFeedProofs` | `RoomFeed` | `FinishedIsWhole`; lemmas: what frames do to a page, what work a writer may have |
| `RoomFeedPagesProofs` | extends the former | `TypeOK`, `PagesAgree` |
| `ScoringProofs` | `TypingEngine`, `Scoring`, `Boards` | lemmas: what the engine's log tells, the verdict, the median, offsets, binary search, orders |
| `PracticeProofs` | `Practice`, extends the former | all nine properties of the run `practice` |

Every invariant, action property and refinement that a passing run checks is
proved. What is left to TLC is liveness (end of section 9).

## 3. The race room

### Modules

- `RaceRoom.tla`: the system. `redis` is what Redis holds, `db` what Postgres
  holds, `local` what coroutines hold, `story` is history.
- `RaceLifecycle.tla`: what a room promises, with no workers, scripts or
  sockets. `RaceRoom` implements it under the mapping at its end: the phase is
  `room.state`, the entrants are the seated players.
- `MCRaceRoom.tla`: the accounts, sockets, replicas and their placement for TLC.
- `RaceRoom*Proofs.tla`: theorems (section 9).

### State

| Variable | Code |
|---|---|
| `room` | hash `room:{code}`; `state = "none"` is the absent key |
| `seats` | hash `room:{code}:players`: a function whose domain is the players in it |
| `races`, `sessions`, `results` | tables `races`, `typing_sessions`, `race_results` |
| `pc` | where the handler of each socket is between two awaits |
| `mind` | what `finish()` carries across its awaits (race, place, verdict, the deadline it has read) |
| `duty` | what a worker still has to do after a script it won, or a check it owes |
| `begun`, `field`, `said` | history: race ids given out, who was seated at each GO, publications |
| `overtaken` | history: what `play_again` has found in flight (`LooseEnds`) |
| `faults` | history: faults so far |

A *worker* is whatever can win a script: a socket's handler, its relay task, or
a timer. `GET /rooms/{code}` only ticks, so it counts as a timer.

### Steps

A step runs from one await to the next: local code plus the one Redis command,
script or transaction it issues. Fused are only

- `tick()`'s HMGET with the script it selects: the script checks everything again;
- the two HGETALLs of `get_room()`, when a handler reads;
- `start()`'s text query and its first check with the script, for the same reason;
- the second `tick()` at the head of `finish()` with the one the frame loop did;
- `_ensure_race` with the `record_session` that follows it: both only add rows,
  and the crash between them leaves a races row, which `InsertRace` leaves too;
- TTL refreshes and publications other than `started` and `race_over` with the
  write they follow.

What a coroutine read earlier is in its `mind` or `duty`, stale when it is used:
`_maybe_end_race` decides on one read and ends by force later, `_end_race` reads
the results after the switch, `_after_removal` deletes on an old read, the
winner of GO announces a race that may already be over.

`HangUp` is the `finally` block: it cancels the relay wherever it is, then marks
the player gone if this socket is still the current one. `Error` makes the call
a worker is in raise; where the handler goes then is `StageAfterError`.
`EarlyClose` is a client that disappears before its snapshot is sent, outside
the `try`. `Crash` ends everything that lives in one process.

### Abstractions

- *Clock*: an instant is the time left until it, counted down by `TimePasses`.
  `_PLAY_AGAIN_LUA` deletes the instants, so a fresh room has them all unused.
- *Scoring* is a choice: refused (no row), recorded but not counted, counted.
- *Join order* is not kept: any connected player may be the heir of the host
  (`Heirs`), a superset of what the code chooses.
- *Text*: `start()` may find none, then it does nothing.
- `progress` changes no field any property here reads; it is in `RoomFeed`.
- Race ids are numbered in the order they are given out.
- The operators marked `Slip` are plausible mistakes. Nothing uses them; each is
  what a property is shown to catch, by substitution for the real definition.

### What `play_again` overtakes

`finish()` keeps the race it started from across its awaits, and neither the
patch nor `HINCRBY` checks it again; `_end_race` writes results after its script.
`play_again` waits for neither. If the room has been set back to the lobby
meanwhile, the run of the old race lands in the new one: two players end up with
one place (`stale_place`), and the new race may be ended early on the strength of
it. The model has all of that. `overtaken` only records, when
`play_again` succeeds, whether a finish past its checks or an end before its
results was in flight; no guard looks at it. `PlacesHold`, `EndsOnAFinish` and
`DeadlineOnlyCloser` say what holds as long as it has not happened, in any number
of races; `OnlyTheField` leaves out only the results, and those only if an *end*
was overtaken. The page offers `play_again` under the results of some `race_over`
(`Offered`, RoomPage.tsx:223), which is the only thing that delays it.

## 4. What players see: `RoomFeed`

`RaceRoom` fuses a write with the publication that follows it; `RoomFeed` takes
them apart. Every writer of the record appears with its script as one step and
`publish()` as a later one: `todo` is the rest of the handler, in order.
`queue` is the pub/sub buffer of a socket that has subscribed and not yet been
sent its snapshot; `view` is `RoomView`, changed by `ReduceRoom` alone, the
frame handlers of `room.ts` one by one.

A change made while an *earlier* announcement about the same thing (a player's
seat, the state, the host) is still due is put in `contested`. The two may be
published in either order, and then the pages are wrong and stay so: this is a
weakness of the code (see the hazards), not something the model hides.
`PagesAgree` claims everything outside that set: each change is announced, the
reducer repeats what the script did, and a page that connected in the middle
lost nothing between subscription, snapshot and relay.

Abstractions: a relay forwards at once (`PagesAgree` looks when all is quiet,
so a delay would only put it off); clocks may find a transition due whenever
they look; results, places and the seat limit are `RaceRoom`'s; the text is one
character long, so progress is 0 or 1, and 2 before it is clamped. The
creator's page is connected in `Init`.

## 5. Signing in: `SignIn` and `RateLimiter`

One browser: a cookie shared by tabs, each with its own `accessToken`,
`refreshInFlight` and `status`. A *call* is one promise of a tab and has at most
one HTTP request out; the handler of that request runs one await per step
(`enforce`, `peek`, the password check, `hit`, `reset`, GETDEL, SET). Any
answer may overtake any other. `Lose` is a refresh that fails after its token
was spent, or whose answer never arrives; `FailOpen` is Redis failing a call of
the limiter. Pair *n* stands for access token *n* and refresh token *n*.

A counter is its value and its remaining TTL; `Hit` is the Lua script, `Elapse`
a second passing. `Ceiling` bounds the value above every limit.

## 6. Typing, scoring, boards: `Practice`

`TypingEngine`, `Scoring` and `Boards` are functions, written as the code
computes them (the replay and the machine run's counter are recursive functions
over the log, the ghost a binary search); `Practice` runs them: the page
dispatches any value of the input field at any time; `POST /sessions` asks the
limiter, reads the text, the daily text and then stores the row in four steps;
Restart, Next text and Retry begin again from wherever the page stands; and
around it the clock passes midnight, texts are created, edited, deactivated and
activated again, runs arrive from other players, and readers turn pages or look
at the all-time or the daily board in two queries (three, with the daily text).
The properties compare what comes out with a definition that does not compute
it the same way: the machine run is an interval, the ghost is a cardinality, the
page walk is a set.

*The text may change under a run.* `engine.target` is the content the page
loaded, `contents` what the text is now, `page.against` what the handler read and
judged by; a row keeps the last (`against`), which the table does not, so that
`CountedMeans` can say what was counted. `HonestRunsStand` allows a finished run
to be refused for its content in just one case: what it was judged by is not
what the page had loaded.

*Clocks.* An instant is a fraction of a millisecond (`Resolution` to one), as
`performance.now()` has one. The engine rounds the log's times half up
(`Round`, engine.ts:59), liveStats does not round (engine.ts:111), so what is
shown is compared with what is scored after rounding. `started_at` is the
browser's clock, off by a `skew` and cut to whole milliseconds (`StartOf`);
`Score` refuses a start too far ahead or too old. In `Scoring` the log counts
milliseconds, ages and `MaxAhead` count instants.

*The page.* `page.idle` is `submit.isIdle`. The effect that submits a finished
run has its turn before anything can be clicked (`Clickable`). After `next()` or
a choice of language the old run still stands finished until the new text has
come, and the effect submits once more: `NextText` leaves `idle` as that
submission would. Retry sends whatever has been typed by now (`page.whole` says
whether that was a finished run).

*Boards.* `board` is what `_board()` was called with: the all-time board has
standard ranks, the daily one mode, text, day and dense ranks. `OwnRowBelowPage`
says of both that the own row is not faster than the page, and of the first that
it is not ranked above it. Of the densely ranked one the latter is false: a
player who leaves a speed to join a faster one closes a gap, and the viewer below
moves up. There the property says how far that goes: one rank for each run that
arrived since the page was read, on the same day (`reader.rows`, `reader.day`).

Abstractions: characters are model values, each one UTF-16 unit; the validator's
thresholds are constants, small enough for every verdict to occur; wpm is the
number of correct characters times `Scale` over the duration, rounded down; a
uuid is first or last among those left (`Unused`). The median is the k-th
smallest, found by counting instead of sorting; a sorted list (`InOrder`) puts
each row where the number of rows ahead of it says. SQL leaves open which of two
rows equal in every sort key comes first; the board breaks such ties by id
(`AheadOnBoard`), the same in each of its queries, and `GhostIsFirst` compares
player, speed and start of all runs that may be first: of two that tie in both,
ghost and board may pick different ones. A page's limit is at least one, as
`Query(ge=1)` has it. A behaviour has one *cast* (`Casts`): who takes part, so
that eight small worlds share a run. `created_at` is when the request began, as
`now()` in Postgres is the start of a transaction. The limiter answers either
way (its counters are `RateLimiter`'s). Bounds of the page: no button is
pressed while an answer is awaited, so one request is out at a time.

## 7. Runs

| Run | Instance | Shows |
|---|---|---|
| `tabs` | ana in two tabs, ben in one, a timer, a room for one; frames start, finish, leave | `TypeOK`, `PresenceFollowsSocket`, `OnlyTheField` over every interleaving of three handlers and a timer |
| `rematch` | one socket each; all four frames; two races; grace 1 | `OnlyTheField`, `PlacesHold`, `EndsOnAFinish`, `ImplementsLifecycle`, `DeadlineOnlyCloser` |
| `faults` | two replicas, two relays, no timer; one failing call, dead replica or early close anywhere; fair | `AnnouncedOnce`, `NothingDangling`, `RoomMovesOn` |
| `finish_twice` | two tabs | `FinishOnce` fails |
| `late_finisher` | two players | `LastFinisherIncluded` fails |
| `lost_results` | two players, two relays, fair, no fault | `EndedIsAnnounced` fails |
| `stale_place` | two players, two races, nobody leaves | `NoPlaceTwice` fails |
| `feed` | two players; ben types, drops, comes back, finishes, leaves; ana starts, plays again, leaves; one clock | `TypeOK`, `PagesAgree`, `FinishedIsWhole` |
| `sign_in` | two tabs, three calls, a page load run twice at once, three token pairs, one expiry, one fault, no limiter | `TypeOK`, `OneLivePerLogin`, `NoSelfRefusal`, `NoneLeftWaiting` |
| `lockout` | one tab, two forms, limits of one or two, one fault | `CookieWorks`, `GuessesBounded`, `WindowsEnd` |
| `practice` | eight casts | nine properties of engine, scoring, boards and pages |
| `next_text` | a page and its second text | `WholeTextSubmits` fails |

The last conjunct of `PresenceFollowsSocket` speaks of behaviours without a
fault: after a crash or an early close a player stays `connected` with no
socket, which the hazards list. The other two hold whatever fails. `CookieWorks`
and `NoSelfRefusal` speak of behaviours without a fault: an answer lost after
the token was spent does sign the user out, which auth.py:142 accepts.
`CHECK_DEADLOCK FALSE` everywhere: a room where every socket has closed, a
browser whose bounded tokens are used up, or a cast that has done its part
really stops.

Bounds, and why they are enough:

- *Two accounts, at most three sockets.* The room's guards speak of one player
  against the rest, of the newest socket against an older one, of a host against
  an heir. Two accounts and a second tab give each of these pairs. Nothing
  tells ana's two tabs apart in `tabs`, which checks invariants only, so it takes
  them as interchangeable (`SYMMETRY TabsOfAna`).
- *`MaxRaces` 1 or 2.* Everything that survives from one race to the next shows
  at the second, in `rematch` and `stale_place`. In `feed` it is 1: what a second race
  would do to a page, `play_again` already does.
- *`Countdown` 0 and `RaceMax` 1*: due at once, and a race that is before, at,
  or past its deadline; `FinishGrace` 1, or 0 in `faults`, where a first finish
  makes the deadline due at once; never above `RaceMax`.
- *`LobbyGrace` 0 or 1*: overdue at once, or a reconnect in time.
- *`MaxPlayers`* is 2, where it refuses nobody, and 1 in `tabs`, where ben is
  refused unless ana has left.
- *`Ticking`*: which relays tick. It is empty where handlers alone already tick
  at every frame; the instances about timers and crashes let both tick.
- *`MaxFaults` 1*: each fault alone, at every point of every run.
- *`MaxBusy` 2*: two writers in the middle of something at once, whichever two;
  the order of two announcements is what a page can get wrong. `Does` gives each
  socket its frames, so that every frame occurs and the roles stay apart.
- *`MaxIssued` 3* in `sign_in`: a login, and two rotations of it or a second
  login. `MaxExpired` 1: one access token runs out, for every tab that holds it.
- *`Times` 1 or 2, `Ceiling` one above, `Window` 2*: below, at and above a limit
  inside a window, and the window's end.
- *`Casts`, `keys` up to 5, `MaxNow` 3, `MaxRows` 6*: texts of two characters, a
  correction or a paste, hand-made logs of up to four keys over seven different
  ones, five rows of which three tie, pages of one, two, three and four rows, a
  day of two instants so that midnight falls inside a run. `Resolution` 2: a time
  that is rounded up, and one that is not. Skews -1, 0, 2 against `MaxAhead` 1
  and `MaxAge` 2: in time, ahead, too far ahead, too old. `edits` counts what the
  admin, other players and second goes may do, one or two of them in any order.

### Fairness

`SignIn`: weak fairness of `Tick` alone, the clock of Redis; `WindowsEnd` needs
no more, and assumes nothing of clients or handlers.

`RaceRoom!FairSpec`: weak fairness of each handler's own steps, of each relay
that finds something due, and of the clock. asyncio runs a ready coroutine, a
relay ticks once a second, and Redis answers (a call that does not is the fault
`Error`). No fairness for what clients send, for hanging up, for timers, or for
faults. `RoomMovesOn` therefore rests on relays alone, which is what ADR-031
claims.

## 8. Findings

- `finish_twice`: the check for an earlier finish is on a snapshot, and the
  patch several awaits later has no guard; two tabs are both scored.
- `late_finisher`: a finish past its checks when the deadline ends the race is
  shown in the room with its place, and is a did-not-finish in `race_results`.
- `lost_results`: a closing socket cancels its relay, and with it the end of the
  race the relay had just won. No result and no `race_over` for anyone.
- `stale_place`: `play_again` does not wait for finishes in flight. One that it
  overtakes draws from the next race's counter and is patched into the next race,
  where its place may be given again.
- `next_text`: after Next text (or another language) on a finished run, the run
  typed on the new text is not submitted when it is finished; the page shows an
  error with a Retry button that belongs to the empty submission in between.

Known besides, without a run of their own:

- The finish of `stale_place` counts as one of the next race, too: when everyone
  connected has "finished", that race ends early with no run of its own.
  `EndsOnAFinish` holds as long as `play_again` overtook nothing.
- The early end is decided on one read (rooms.py:716) and made by a later script
  that does not look at the players again (727); one who reconnects in between is
  cut off before the deadline, although race-protocol.md:127 says "every
  connected player has finished".
- A room seen empty is deleted by a later call (rooms.py:500), with whoever
  joined meanwhile; race-protocol.md:162 says that every mutation that could race
  is a script.
- The heir of the host is chosen on one read and installed by a later script that
  looks only at the old host (rooms.py:506); one who leaves in between becomes
  the host of a room they are not in, where nobody can start a race.
  race-protocol.md:142 promises a connected one.
- race-protocol.md:127 starts the grace at the first *valid* finish;
  `first_finish_at` (rooms.py:705) is set by any, refused ones included.
- The content of today's text may be edited (texts.py:94); the ghost's times stay
  those of the former text, more or fewer than the text has characters, which
  schemas/stats.py:74 excludes.
- Equal speeds share a rank, says ADR-025. Each query of the daily board keeps to
  it, but the two may straddle another player's improvement: the viewer is then
  shown one rank above a player on the page with the same speed.
- A progress, presence or state announcement that is overtaken by the one for a
  later change leaves every page wrong until the next snapshot: a player who is
  there is shown as gone (rooms.py:475 against 460), a rejoined player is removed
  from all pages, their own included, by the sweep's `player_left` (rooms.py:495),
  a room is shown running after it ended (594 against 766), a joiner disappears
  under the snapshot of `play_again` (777). These are the `contested` fields.
- `refreshAccessToken()` names "two tabs waking at once" (api.ts:48) among what
  its shared promise solves; a promise is shared by one tab. In `SignIn` two tabs
  do spend one cookie, and the loser clears its own token.
- A refresh in flight during logout (store.ts:44) gives the browser a good cookie
  back after the page has shown "signed out".
- `leave` in a race does not end it when everyone left has finished, closing the
  socket does (docs/race-protocol.md:83 calls them the same).
- The daily text is an index into the active texts (stats.py:302): deactivating
  or adding any text of the language changes it in mid-day, and runs on the
  former one are refused as not_daily_text.
- `peek()` reads the count and the TTL in two calls; a window that ends between
  them is reported with a full window to wait.
- engine.ts:60 counts the common prefix in UTF-16 units; a character outside the
  first plane replaced by another one with the same first half is cut in two.

## 9. Proofs

Twenty-seven theorems, each for every value of the constants. Where a run checks the
property, the theorem says the same of any number of players, tabs, replicas,
races and faults.

### The race room

*Assumptions*: the five named ones of `RaceRoom` (who owns a socket, relays are
workers of their own, a process has a home, limits are naturals with
`FinishGrace <= RaceMax`, the scenario's sets), which TLC evaluates in every
run. No theorem has a hypothesis besides, and races are unlimited in all of them.
What `play_again` spoils is part of the properties themselves (`overtaken`,
section 3).

*Types* (`TypeCorrect`). The types alone are not inductive: `Go` writes race id
`begun + 1`, which is one only because a countdown was started with an id to
spare (`CountdownHasRace`), and `End` carries `room.race`, which is a race only
while one is running (`RaceKnown`). `TInv` is the three together. One lemma per
action, then one for each group of actions, as in `Next`. Every proof below
starts from `TInv`.

*Presence* (`PresencePerConnection`). The property needs `GoneIsEmpty` (an absent
room has no seats, so a handler that finds no room detaches nobody who is shown)
and `NewIsIdle` (a socket not yet accepted owes nothing, so nothing but its join
attaches it). Every step but `Join` and `HangUp` is `Undisturbed`: it seats
nobody, changes nobody's connection, attaches nobody, and detaches somebody only
as a fault or from a room that is gone.

*Deadline* (`DeadlineCloses`). HGET (rooms.py:709) and HSET (711) are two steps,
so the value written is decided on a read that may be old. `DeadlineInv` says why
that does no harm: only the winner of HSETNX is between the two, there is one
such at a time, while it is there the room has its `first_finish_at`, and the
deadline it has read is still the running race's (both count down). A
`play_again` that overtakes it resets `first_finish_at`, and then the claim is
given up; with a second winner of HSETNX (the mutant) it fails.

*Announcements* (`PublishedOnce`). `Once` says that at most one worker holds the
right to announce the start (the end) of a race, that nobody holds it once it has
been used, and that a race whose end is owed or announced is past: given out,
and not the one running. A race never runs again after it is past because GO
always takes a new id. Every action but five is `Quiet`: no new right, no
publication, no race put into the running state.

*Rows* (`RowsRefer`). A reference is carried for several steps before it is
written, by a coroutine's local (`mind`), by a seat, by the copy of the seats the
winner of the end took (`duty`). `RowsInv` asks of each carrier what the property
asks of the rows: `FinishesRecorded`, `SeatsRecorded`, `CopiesRecorded`. Nothing
is ever deleted from the tables, so the only steps to look at are those that
create a reference. For this and the next proofs every step is shown once
(`StepEvent`) to be `Calm` or one of twelve events.

*The field* (`FieldFixed`). `FieldInv`: the race shown has been given out
(`RoomRace`), fields of later races are empty (`FieldsAhead`), whoever is seated
in a shown race was seated at GO (`SeatsOfField`), the same for rows
(`SessionsOfField`), for whom a finish is under way (`FinishersEntered`), and, as
long as no end was overtaken (`EndsInv`), for whom the winner of the end has
copied (`EndsSettled`: its room is still the finished room of that race, or gone)
and whose results are stored (`ResultsOfField`).

*Places* (`PlacesUnique`). `HINCRBY` makes places distinct only as long as the
counter, the coroutines that drew from it and the seats speak of one race. As
long as nothing was overtaken, `PlacesInv` holds: finishes under way belong to
the room's race while it is shown (`FinishesOfRace`), one without a place yet
has place 0 (`Unplaced`), places on seats and in minds are distinct, not above
the counter and of the room's race (`PlacesGiven`), the same for copies
(`CopiesPlaced`) and stored results (`ResultsPlaced`). With `Once`: no second
end copies again.

*Early ends* (`EarlyEndHasFinish`). Whoever holds the decision to end a race by
force saw a finished seat of that race (`ForcedByFinish`, as long as nothing was
overtaken), whose session stays; and a step that ends a race early is one by such
a holder (`StepOfEarly`).

*Refinement* (`RoomRefines`). Initial states map to initial states; under `TInv`
and `Once` every step maps to a step of `RaceLifecycle` or a stutter, action by
action. `Once` is needed where `started` and `race_over` are published: the
lifecycle lets each happen once, and the end only for a race that is past.

### Signing in

*Assumptions*: `CallsAssumption`, `TimesAssumption`, `BoundsAssumption`,
`WindowAssumption`, evaluated by TLC in both runs.

*Types and hanging promises* (`TypeCorrect`, `NobodyHangs`). `CallsInv`: a
request is at a stage its handler has (`OnRoute`), what a refresh has spent is a
pair (`SpentKnown`), a call that is over has nothing under way (`OverIsQuiet`),
and a tab has one refresh, the one `refreshInFlight` points at (`SingleFlight`):
a call that waits would hang if its refresh had been replaced by another. The steps are
`Moves` (one call goes on), `GoesOn` and `Settle` (a refresh ends and everyone
who waited goes on in the same step).

*Guesses* (`GuessesStayBounded`). `hit` follows the check of the password by
several awaits, so guesses in flight are not counted yet. The
bound, guesses counted and in flight against the limit less one plus one per
login form plus one per fault, is inductive once it is known that only login
forms guess (`OwnForm`) and that nothing is counted where there is no limiter
(`NothingCounted`). A form that passes `peek` found the counter below the limit
at a time when at most the other forms were in flight; one that fails open
brings its fault along. The theorem supposes finitely many calls (else nothing
bounds what is in flight) and a limit above zero, which is what a browser and
`limits.py` have.

*Tokens* (`RotationHolds`, `TabsSpareThemselves`, `CookieStaysGood`).
`TokensInv`: names not issued yet are nowhere (`NamesIssued`), a login with a
refresh between GETDEL and SET has no live token and exactly one call that will
give it one (`Rotation`), a pair on its way to the browser is good and known to
nobody else (`FreshUnknown`), who spent the cookie of a tab is a refresh of that tab
still at work (`SpenderReplaces`), and without faults a cookie that is dead is
about to be replaced or cleared (`DeadCookieGoes`). Five kinds of step touch
tokens (`Takes`, `Consume`, `Store`, `Revoke`, `LoggedOut`); the rest is `Calm`.

### The room feed

*Assumption*: `FeedAssumption` (sockets have owners, there are finitely many
players, none of them called "state" or "host", the text has a length), which
TLC evaluates in `feed`.

*Finishes* (`FinishStays`): a finished player's progress is the whole
text. The invariant `SeatsInv` adds only that the record has its fields: it asks
nothing of `todo`, so the property holds whatever progress frames are still to
be written, because `_PROGRESS_LUA` looks at `finished` and writes in one script.

*Types* (`FeedTypes`). `TypesInv` says besides what a writer may have left to do:
a list of steps of a few shapes (`WorkOf`), in which whatever ends the work
stands last, and a snapshot is read and sent only by a handler whose socket is
open; and that frames are queued for such sockets only.

*Pages* (`PagesShowTheRoom`). `PagesAgree` looks at the room when all is quiet
and says nothing of how it got there. `FeedInv` speaks of every moment, field by
field, of the fields nobody contests:

- A page is *near* the room in a field if each part of it shows the room, or
  what the page showed when its life began (`Near`). It is *owed* a field if a
  frame about it is still to be published, or the room is to be sent afresh.
- `Pages`: each page is owed the field or near it, and each frame still to be
  published brings it near (`Tracked`). The same is asked of pages that do not
  exist yet: those that come of a snapshot being sent, or yet to be read, and of
  the frames queued behind it. The snapshot yet to be read is any view, `v`, at
  which the page's life will begin: what is queued behind it will not do harm to
  whatever it finds, which is why subscribing before reading loses nothing.
- `RightFrames`: a frame still to be published brings *every* page near the room
  as it is now, not as it was when the frame was decided on. This is what fails
  if another writer changes the same field in between, and exactly those fields
  are in `contested`.
- `FinishHeld`: a finish under way is of a player seated in a race, or what it
  will announce (progress to the end of a text) would not be what it records.

One lemma, `ReduceEffect`, says what each frame does to each field of a page;
from it follow what a frame leaves alone (`Untouched`), what it brings
(`JoinedBrings`, `PatchBrings`, ...), and what frames applied one by one do to a
page, for a queue of any length. `Moves` and `Wrote` reduce an action to two
questions: what did it change (`SameRoom` elsewhere), and does it announce that
(`Announced`). A room that was deleted stays so (`NoneStays`); its pages are not
looked at any more.

### Practice

*Assumptions*: `TextsAssumption`, `BoundsAssumption`, `CastsAssumption`,
`ThresholdsAssumption`, `DayAssumption`, `ResolutionAssumption`, evaluated by
TLC in `practice`. The tables, logs and samples of a cast are typed: they are
what the table and the API can hold; rows there from the start have been judged
by the validator. There are finitely many texts, a page has room for a row, and
the hash of a day is a natural.

*Recursion over data* is proved about without the library's induction theorems,
whose parameter is an operator: a set of naturals has a least element
(`LeastOfNaturals`), so a function defined from its previous value exists, and a
claim about all its values has a smallest counterexample (`StepByStep`).

*Types* (`TypeCorrect`). `TypeOK` says that every row is a scored run of an
account, which is not inductive: the row was the page's submission before, and
the engine's log before that. `RunInv` adds both (`PageTyped`, `EngineTyped`).
Under it are lemmas about the engine: what `Accepted` takes, that `Strokes` are
keys, that the reducer keeps a good engine good. Speed is a natural number
because a scored log has a duration.

*The log* (`LogTellsTheRun`). `LogInv` says that the log so far replays to what
is in the field. One value of the field against the last one is a common prefix,
backspaces, and characters (`StrokesTell`): the keys it appends replay from the
old text to the new one, and each foretells its character.

*Honest runs* (`HonestRunsPass`, `PageShowsScore`). The page's submission is the
log of a run like that (`Truthful`), with times in order by its own clock
(`Clocked`), and the engine stands as it was sent, or what was sent was not a
finished run (`HonestPage`). So of the validator's rules only those about time
can refuse it, or those about content if the handler read another content than
the page. Times in order and the equality of times shown and scored both rest on
lemmas about `Round`: it grows with the span, and the whole millisecond that
`liveStats` shows at least makes no difference to a span that rounds to one or more.

*The verdict* (`CountedIsCounted`). The code finds a machine run with a counter
that starts again at each pause of another length; the property speaks of an
interval of pauses that are all alike. `RunsAreSince` says what the counter
counts, `MachineRunIs` that the two agree in both directions. The median is a
natural because the k-th smallest exists (`SmallestIsThere`). `ValidMeans` puts
the rules together; it is an equivalence, so no log is refused that the rules
allow.

*The ghost* (`GhostOnTop`, `GhostsKeepTime`). The ghost is a leader of all runs,
the board's first row a leader of everybody's best runs. That a finite board has
a leader at all (`LeaderExists`) is an induction on its size, done as the
smallest set without one, which `WFMin` gives. Then the two sets of leaders
agree in player, speed and time (`GhostLeads`), because `Faster` is a weak
order. Its offsets are one per character of the text it was judged by and
ascending because a counted log replays to that text in order (`OffsetsOfText`),
and on an ascending list the binary search ends where the passed offsets do
(`SearchFinds`).

*Lists* (`PagingLosesNothing`). That `InOrder` lists a finite set without loss
is `OrderLists`: the number of elements ahead is an injection into the
positions. The invariant `ReaderInv` speaks of a reader in the middle of a walk
(`Followed`): what has been seen is not after the cursor, what was there at
first and has not been seen is. `PageTurned` keeps it: the next page is the
first part of what comes after, its last row is the new cursor, and rows created
meanwhile are newer than every cursor.

*The board* (`OwnRowFits`). Between the two queries only runs of others arrive,
and midnight may pass. `Standing` remembers what the page had: a speed that none
of the viewer's own counted runs on that board exceeds, and for the all-time board
that the page's last rank is at most one more than the number of players faster
than it. Rows are only added there, so that number only grows, and the own rank is
one more than it or than a larger number. Of the daily board midnight takes rows
away, but gives the viewer none. Its ranks count the speeds above a row, each
once; a run that arrives changes the best of one player, so it takes away one
speed at most (`OneSpeedLost`), and `Standing` adds the runs that have arrived.

### What stays with TLC

- Liveness (`RoomMovesOn`, `WindowsEnd`) and the findings, five runs that end in a
  counterexample.
- That the pages come to agree, rather than agree when nothing is under way:
  `RoomFeed` states no fairness.

## 10. Not modelled

- *Room creation and expiry* (`create_room`, `_touch`): every write resets the
  TTL, so what there is to say is which keys have none, and HINCRBY or HSET on an
  expired room refutes that at once (see the hazards).
- *Sign-in*: `register`, deletion of users, expiry of refresh tokens, password
  hashing, token signatures, and other browsers of the same account.
- *Room feed*: results and clock fields of the frames, error frames, the
  throttle of progress (five per second per socket; frames are dropped at random
  in effect), `close()` while `open()` awaits a token.
- *Scoring*: per-key statistics, `flagged_for_review`, rounding of the measures,
  and the race clock's check, whose outcome `RaceRoom` leaves open.
- *Boards and texts*: `user_stats`, trend, key statistics and streaks (one
  aggregate query each), boards of a week or a month (the all-time board with
  another lower bound), `upsert_seed`, `normalize()`: what it makes of a text is
  taken for the text.
- *Practice page*: buttons pressed while an answer is awaited, an answer that
  never comes, languages as such (all texts are of one; choosing another is
  `NextText`), difficulty, `pacerChars()`.
- Rendering, routing, wire formats, SQL semantics beyond the queries named,
  migrations, seeds and deployment files.
