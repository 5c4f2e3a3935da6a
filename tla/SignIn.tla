------------------------------- MODULE SignIn -------------------------------
(***************************************************************************)
(* Signing in and staying signed in: the /auth handlers, the limiter in    *)
(* front of them and the refresh tokens in Redis (backend/app/api/auth.py, *)
(* services/refresh_tokens.py, core/limits.py), against the tabs of one    *)
(* browser, each with its own copy of frontend/src/lib/api.ts and          *)
(* features/auth/store.ts, all sharing one cookie.                         *)
(*                                                                         *)
(* A call is one promise of a tab: a page load, a login, a logout or a     *)
(* query.  It has at most one HTTP request out at a time; the handler of   *)
(* that request runs one await per step.  Tokens are numbered as issued:   *)
(* pair n is access token n and refresh token n.                           *)
(***************************************************************************)
EXTENDS RateLimiter, FiniteSets

CONSTANTS
    Tabs, Calls, None,
    TabOf,        \* TabOf[c]: the tab call c belongs to
    Does,         \* Does[c]: the kinds of call made there
    Limited,      \* rate_limit_enabled
    Times,        \* Times[b]: the limit of bucket b
    MaxIssued,    \* bound: token pairs
    MaxExpired,   \* bound: access tokens that run out
    MaxFaults     \* bound: failing calls and lost answers

Kinds   == {"boot", "login", "logout", "query", "me"}
Buckets == {"login", "refresh", "email"}

ASSUME CallsAssumption ==
    /\ TabOf \in [Calls -> Tabs]
    /\ Does \in [Calls -> SUBSET (Kinds \ {"me"})]
    /\ None \notin Tabs \cup Calls
    /\ Limited \in BOOLEAN
ASSUME TimesAssumption ==
    Times \in [Buckets -> Nat] /\ \A b \in Buckets : Times[b] < Ceiling
ASSUME BoundsAssumption == MaxIssued \in Nat /\ MaxExpired \in Nat /\ MaxFaults \in Nat

VARIABLES
    counter,  \* the limiter's key of each bucket
    live,     \* refresh ids in Redis
    issued,   \* how many pairs have been issued
    valid,    \* access tokens that have not run out
    cookie,   \* the refresh cookie of the browser, 0 when there is none
    token,    \* accessToken of each tab, 0 for null
    flight,   \* refreshInFlight of each tab: the call that leads it
    status,   \* status in each tab's auth store
    call,     \* what each call is doing
    req,      \* the HTTP request each call has out
    chain,    \* history: the login each pair descends from
    spender,  \* history: the tab whose refresh spent each pair
    faults    \* history: how many faults have happened

server == <<counter, live, issued, valid>>
page   == <<token, flight, status, call>>
vars   == <<server, cookie, page, req, chain, spender, faults>>

Pairs  == 1..MaxIssued
Stages == {"enforce", "peek", "verify", "spend", "reset", "consume", "store",
           "revoke", "check", "answered", "refused"}
NoRequest == [to |-> "none", at |-> "none", arg |-> 0]
Idle == [kind |-> "none", retried |-> FALSE]

(* Where a handler starts, and what the limiter lets through to.           *)
PastLimiter == [login |-> IF Limited THEN "peek" ELSE "verify",
                refresh |-> "consume"]
Entry == [login   |-> IF Limited THEN "enforce" ELSE PastLimiter.login,
          refresh |-> IF Limited THEN "enforce" ELSE PastLimiter.refresh,
          logout  |-> "revoke", query |-> "check"]

Request(to, arg) == [to |-> to, at |-> Entry[to], arg |-> arg]
At(c, to, stage) == req[c].to = to /\ req[c].at = stage
Moved(c, stage)  == [req EXCEPT ![c].at = stage]

Init ==
    /\ counter = [b \in Buckets |-> Gone]
    /\ live = {} /\ issued = 0 /\ valid = {} /\ cookie = 0
    /\ token = [t \in Tabs |-> 0]
    /\ flight = [t \in Tabs |-> None]
    /\ status = [t \in Tabs |-> "unknown"]
    /\ call = [c \in Calls |-> Idle]
    /\ req = [c \in Calls |-> NoRequest]
    /\ chain = [n \in Pairs |-> 0]
    /\ spender = [n \in Pairs |-> None]
    /\ faults = 0

-----------------------------------------------------------------------------
(* The API.                                                                *)

(* A plausible slip: the cookie is spent before the limiter is asked.      *)
EnforceSpending(c) ==
    LET to == req[c].to IN
    /\ to \in DOMAIN PastLimiter /\ req[c].at = "enforce"
    /\ counter' = [counter EXCEPT ![to] = Hit(@)]
    /\ live' = IF HitAllowed(counter[to], Times[to]) THEN live
               ELSE live \ {req[c].arg}
    /\ req' = Moved(c, IF HitAllowed(counter[to], Times[to])
                       THEN PastLimiter[to] ELSE "refused")
    /\ UNCHANGED <<issued, valid, cookie, page, chain, spender, faults>>

(* enforce(): one hit on the address's bucket, before anything else.       *)
Enforce(c) ==
    LET to == req[c].to IN
    /\ to \in DOMAIN PastLimiter /\ req[c].at = "enforce"
    /\ counter' = [counter EXCEPT ![to] = Hit(@)]
    /\ req' = Moved(c, IF HitAllowed(counter[to], Times[to])
                       THEN PastLimiter[to] ELSE "refused")
    /\ UNCHANGED <<live, issued, valid, cookie, page, chain, spender, faults>>

(* login: the email's failures are read before the password is checked ... *)
Peek(c) ==
    /\ At(c, "login", "peek")
    /\ req' = Moved(c, IF PeekAllowed(counter["email"], Times["email"])
                       THEN "verify" ELSE "refused")
    /\ UNCHANGED <<server, cookie, page, chain, spender, faults>>

(* ... authenticate() then takes its time and finds it right or wrong ...  *)
Verify(c) ==
    /\ At(c, "login", "verify")
    /\ \E next \in IF Limited THEN {"reset", "spend"} ELSE {"store", "refused"} :
          req' = Moved(c, next)
    /\ UNCHANGED <<server, cookie, page, chain, spender, faults>>

(* ... and a failure spends an attempt, a success forgets them all.        *)
Spend(c) ==
    /\ At(c, "login", "spend")
    /\ counter' = [counter EXCEPT !["email"] = Hit(@)]
    /\ req' = Moved(c, "refused")
    /\ UNCHANGED <<live, issued, valid, cookie, page, chain, spender, faults>>

Reset(c) ==
    /\ At(c, "login", "reset")
    /\ counter' = [counter EXCEPT !["email"] = Gone]
    /\ req' = Moved(c, "store")
    /\ UNCHANGED <<live, issued, valid, cookie, page, chain, spender, faults>>

(* A plausible slip: GET in place of GETDEL.                               *)
ConsumedByGet(ids, id) == ids

(* GETDEL: the ids left when id has been asked for.                        *)
Consumed(ids, id) == ids \ {id}

(* refresh: the cookie's id is spent whether or not the rest succeeds.     *)
Consume(c) ==
    LET id == req[c].arg IN
    /\ At(c, "refresh", "consume")
    /\ live' = Consumed(live, id)
    /\ req' = Moved(c, IF id \in live THEN "store" ELSE "refused")
    /\ spender' = IF id \in live THEN [spender EXCEPT ![id] = TabOf[c]]
                                 ELSE spender
    /\ UNCHANGED <<counter, issued, valid, cookie, page, chain, faults>>

(* _issue_tokens: the new pair is recorded and sent.                       *)
Store(c) ==
    LET n == issued + 1 IN
    /\ req[c].at = "store" /\ n \in Pairs
    /\ issued' = n
    /\ live' = live \cup {n}
    /\ valid' = valid \cup {n}
    /\ chain' = [chain EXCEPT ![n] =
                     IF req[c].to = "login" THEN n ELSE chain[req[c].arg]]
    /\ req' = [req EXCEPT ![c] = [to |-> @.to, at |-> "answered", arg |-> n]]
    /\ UNCHANGED <<counter, cookie, page, spender, faults>>

(* logout: whatever id the cookie carried is revoked, known or not.        *)
Revoke(c) ==
    LET id == req[c].arg IN
    /\ At(c, "logout", "revoke")
    /\ live' = live \ {id}
    /\ req' = Moved(c, "answered")
    /\ UNCHANGED <<counter, issued, valid, cookie, page, chain, spender, faults>>

(* get_current_user: a bearer token that has not run out.                  *)
Check(c) ==
    /\ At(c, "query", "check")
    /\ req' = Moved(c, IF req[c].arg \in valid THEN "answered" ELSE "refused")
    /\ UNCHANGED <<server, cookie, page, chain, spender, faults>>

-----------------------------------------------------------------------------
(* A tab.                                                                  *)

Free(c) == call[c] = Idle
Waits(c) == call[c] # Idle /\ req[c] = NoRequest
Waiting(t) == {c \in Calls : TabOf[c] = t /\ Waits(c)}

(* A plausible slip: every caller asks for itself.                         *)
SharesFlightNever(t) == FALSE

(* refreshAccessToken(): whoever finds one in flight waits for that one.   *)
SharesFlight(t) == flight[t] # None

Refresh(c, kept) ==
    LET t == TabOf[c] IN
    IF SharesFlight(t)
    THEN /\ req' = [kept EXCEPT ![c] = NoRequest]
         /\ UNCHANGED flight
    ELSE /\ req' = [kept EXCEPT ![c] = Request("refresh", cookie)]
         /\ flight' = [flight EXCEPT ![t] = c]

(* bootstrap(): on page load, try the cookie. StrictMode runs the effect   *)
(* twice, so that a second one may start while the first is in flight.     *)
Boot(c) ==
    /\ Free(c) /\ "boot" \in Does[c] /\ status[TabOf[c]] = "unknown"
    /\ \A d \in Calls : TabOf[d] = TabOf[c] => call[d].kind \in {"none", "boot"}
    /\ call' = [call EXCEPT ![c].kind = "boot"]
    /\ Refresh(c, req)
    /\ UNCHANGED <<server, cookie, token, status, chain, spender, faults>>

(* A form or a page asks something of the API.                             *)
Send(c, kind) ==
    /\ Free(c) /\ kind \in Does[c] \ {"boot"}
    /\ kind = "login" => issued < MaxIssued
    /\ call' = [call EXCEPT ![c].kind = kind]
    /\ req' = [req EXCEPT ![c] =
           Request(kind, CASE kind = "login"  -> 0
                           [] kind = "logout" -> cookie
                           [] OTHER           -> token[TabOf[c]])]
    /\ UNCHANGED <<server, cookie, token, flight, status, chain, spender,
                   faults>>

(* A plausible slip: only the call that led the refresh goes on.           *)
WokenAlone(t, c) == {c}

(* What the calls of tab t that were waiting do when the refresh led by c  *)
(* ends: with a token a page load goes on to load the user and any other   *)
(* call is replayed, once; without one they give up.                       *)
Woken(t, c) == Waiting(t) \cup {c}

WokenCalls(t, c, fresh) ==
    [d \in Calls |->
        IF d \notin Woken(t, c) THEN call[d]
        ELSE IF fresh = 0 THEN Idle
        ELSE IF call[d].kind = "boot" THEN [kind |-> "me", retried |-> FALSE]
        ELSE [call[d] EXCEPT !.retried = TRUE]]

WokenRequests(t, c, fresh) ==
    [d \in Calls |->
        IF d \notin Woken(t, c) THEN req[d]
        ELSE IF fresh = 0 THEN NoRequest ELSE Request("query", fresh)]

(* A plausible slip: the finished refresh stays in flight.                 *)
SettleKept(c, fresh) ==
    /\ call' = WokenCalls(TabOf[c], c, fresh)
    /\ req' = WokenRequests(TabOf[c], c, fresh)
    /\ UNCHANGED <<flight, status>>

(* requestRefresh() settles; `finally` clears refreshInFlight.             *)
Settle(c, fresh) ==
    LET t == TabOf[c] IN
    /\ flight' = [flight EXCEPT ![t] = None]
    /\ call' = WokenCalls(t, c, fresh)
    /\ req' = WokenRequests(t, c, fresh)
    /\ status' = IF /\ fresh = 0
                    /\ \E d \in Woken(t, c) : call[d].kind = "boot"
                 THEN [status EXCEPT ![t] = "anonymous"] ELSE status

(* The answer to a refresh: the browser takes the cookie, the tab the token. *)
Refreshed(c) ==
    /\ req[c].to = "refresh" /\ req[c].at \in {"answered", "refused"}
    /\ LET fresh == IF req[c].at = "answered" THEN req[c].arg ELSE 0 IN
       /\ cookie' = IF fresh = 0 THEN cookie ELSE fresh
       /\ token' = [token EXCEPT ![TabOf[c]] = fresh]
       /\ Settle(c, fresh)
    /\ UNCHANGED <<server, chain, spender, faults>>

(* login(): the store keeps the token and goes on to load the user.        *)
LoggedIn(c) ==
    LET t == TabOf[c]  n == req[c].arg IN
    /\ At(c, "login", "answered")
    /\ cookie' = n
    /\ token' = [token EXCEPT ![t] = n]
    /\ call' = [call EXCEPT ![c].kind = "me"]
    /\ req' = [req EXCEPT ![c] = Request("query", n)]
    /\ UNCHANGED <<server, flight, status, chain, spender, faults>>

NotLoggedIn(c) ==
    /\ At(c, "login", "refused")
    /\ call' = [call EXCEPT ![c] = Idle]
    /\ req' = [req EXCEPT ![c] = NoRequest]
    /\ UNCHANGED <<server, cookie, token, flight, status, chain, spender,
                   faults>>

(* logout(): cookie, token and user go.                                    *)
LoggedOut(c) ==
    LET t == TabOf[c] IN
    /\ At(c, "logout", "answered")
    /\ cookie' = 0
    /\ token' = [token EXCEPT ![t] = 0]
    /\ status' = [status EXCEPT ![t] = "anonymous"]
    /\ call' = [call EXCEPT ![c] = Idle]
    /\ req' = [req EXCEPT ![c] = NoRequest]
    /\ UNCHANGED <<server, flight, chain, spender, faults>>

(* request(): a 401 that has not been retried refreshes, anything else ends *)
(* the call; the user it loads makes the tab signed in.                     *)
Answered(c) ==
    /\ req[c].to = "query" /\ req[c].at \in {"answered", "refused"}
    /\ IF req[c].at = "refused" /\ ~call[c].retried
       THEN Refresh(c, req) /\ UNCHANGED call
       ELSE /\ call' = [call EXCEPT ![c] = Idle]
            /\ req' = [req EXCEPT ![c] = NoRequest]
            /\ UNCHANGED flight
    /\ status' = IF req[c].at = "answered" /\ call[c].kind = "me"
                 THEN [status EXCEPT ![TabOf[c]] = "authenticated"]
                 ELSE status
    /\ UNCHANGED <<server, cookie, token, chain, spender, faults>>

-----------------------------------------------------------------------------
(* Time, and what may fail.                                                *)

Tick ==
    /\ counter' = [b \in Buckets |-> Elapse(counter[b])]
    /\ UNCHANGED <<live, issued, valid, cookie, page, req, chain, spender,
                   faults>>

(* An access token runs out.                                               *)
Expire(n) ==
    /\ n \in valid /\ issued - Cardinality(valid) < MaxExpired
    /\ valid' = valid \ {n}
    /\ UNCHANGED <<counter, live, issued, cookie, page, req, chain, spender,
                   faults>>

(* Redis fails a call of the limiter: the request is let through.          *)
FailOpen(c) ==
    /\ faults < MaxFaults /\ faults' = faults + 1
    /\ \/ req[c].at = "enforce" /\ req' = Moved(c, PastLimiter[req[c].to])
       \/ req[c].at = "peek" /\ req' = Moved(c, "verify")
       \/ req[c].at = "spend" /\ req' = Moved(c, "refused")
       \/ req[c].at = "reset" /\ req' = Moved(c, "store")
    /\ UNCHANGED <<server, cookie, page, chain, spender>>

(* A refresh fails after its token was spent (get_user or SET raises, or   *)
(* the process dies), or its answer is lost on the way.                    *)
Lose(c) ==
    /\ req[c].to = "refresh" /\ req[c].at \in {"store", "answered"}
    /\ faults < MaxFaults /\ faults' = faults + 1
    /\ \/ token' = token
       \/ req[c].at = "store" /\ token' = [token EXCEPT ![TabOf[c]] = 0]
    /\ Settle(c, 0)
    /\ UNCHANGED <<server, cookie, chain, spender>>

Handle(c) ==
    \/ Enforce(c) \/ Peek(c) \/ Verify(c) \/ Spend(c) \/ Reset(c)
    \/ Consume(c) \/ Store(c) \/ Revoke(c) \/ Check(c)
Deliver(c) ==
    \/ Refreshed(c) \/ LoggedIn(c) \/ NotLoggedIn(c) \/ LoggedOut(c)
    \/ Answered(c)

Next ==
    \/ \E c \in Calls :
          \/ Boot(c) \/ \E kind \in Kinds : Send(c, kind)
          \/ Handle(c) \/ Deliver(c) \/ FailOpen(c) \/ Lose(c)
    \/ Tick
    \/ \E n \in Pairs : Expire(n)

(* Clocks advance; nothing is assumed of clients, handlers or the network. *)
Spec == Init /\ [][Next]_vars /\ WF_vars(Tick)

-----------------------------------------------------------------------------

(* The variables keep their types; in particular refreshInFlight is never  *)
(* left pointing at a promise that is not a refresh of its own tab         *)
(* (api.ts: the `finally` of refreshAccessToken()).                        *)
TypeOK ==
    /\ counter \in [Buckets -> Counters]
    /\ live \subseteq Pairs /\ valid \subseteq Pairs /\ issued \in 0..MaxIssued
    /\ cookie \in 0..MaxIssued
    /\ token \in [Tabs -> 0..MaxIssued]
    /\ flight \in [Tabs -> Calls \cup {None}]
    /\ \A t \in Tabs : flight[t] # None =>
           TabOf[flight[t]] = t /\ req[flight[t]].to = "refresh"
    /\ status \in [Tabs -> {"unknown", "anonymous", "authenticated"}]
    /\ call \in [Calls -> [kind : Kinds \cup {"none"}, retried : BOOLEAN]]
    /\ req \in [Calls -> [to  : {"none", "login", "refresh", "logout", "query"},
                          at  : Stages \cup {"none"}, arg : 0..MaxIssued]]
    /\ chain \in [Pairs -> 0..MaxIssued]
    /\ spender \in [Pairs -> Tabs \cup {None}]
    /\ faults \in 0..MaxFaults

(* Rotation: however refreshes of several tabs, logouts and lost answers   *)
(* interleave, at most one refresh token descended from one login is good  *)
(* (refresh_tokens.py: "a reused one is rejected").                        *)
OneLivePerLogin ==
    \A m, n \in live : chain[m] = chain[n] => m = n

(* The browser is never left holding a dead cookie: when nothing that      *)
(* handles tokens is in flight and nothing has failed, the cookie, if      *)
(* there is one, still works.  In particular a 429 does not spend it.      *)
CookieWorks ==
    ( /\ faults = 0
      /\ \A c \in Calls : req[c].to \in {"none", "query"} )
    => cookie \in live \cup {0}

(* A tab does not sign itself out: a refresh it sends is never refused     *)
(* because another refresh of the same tab has spent the cookie it carried *)
(* (api.ts:42: "At most one of these runs at a time").                     *)
NoSelfRefusal ==
    \A c \in Calls :
        /\ At(c, "refresh", "refused")
        /\ faults = 0
        /\ req[c].arg # 0
        => spender[req[c].arg] # TabOf[c]

(* No promise hangs: a call waits for a refresh only while its tab has one *)
(* in flight, whatever became of the one it joined.                        *)
NoneLeftWaiting == \A c \in Calls : Waits(c) => flight[TabOf[c]] # None

(* However many logins for one email run at once, the wrong passwords that *)
(* get as far as a verification stay within the limit, plus what the       *)
(* others had in flight when it was reached, plus the limiter calls that   *)
(* failed open.                                                            *)
GuessesBounded ==
    counter["email"].n
        + Cardinality({c \in Calls : req[c].at \in {"verify", "spend"}})
    <= Times["email"] - 1
        + Cardinality({c \in Calls : "login" \in Does[c]}) + faults

(* No refusal is for ever: however stubbornly an address or an email is    *)
(* tried, every window ends and is forgotten (rate_limit.py: "a counter    *)
(* with no TTL is a permanent ban").                                       *)
WindowsEnd == \A b \in Buckets : []<>(counter[b] = Gone)
=============================================================================
