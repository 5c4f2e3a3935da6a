---------------------------- MODULE SignInProofs ----------------------------
(***************************************************************************)
(* Theorems about SignIn, for any number of tabs, calls, token pairs and   *)
(* faults.                                                                 *)
(***************************************************************************)
EXTENDS SignIn, FiniteSetTheorems, TLAPS

USE WindowAssumption, CallsAssumption, TimesAssumption, BoundsAssumption

-----------------------------------------------------------------------------
(* Requests: each is at a stage of its own handler, a refresh that found its *)
(* pair carries one, a call that is over has no request, and a tab has at   *)
(* most one refresh out, the one in flight.                                *)
Route == [none    |-> {"none"},
          login   |-> {"enforce", "peek", "verify", "spend", "reset", "store",
                       "answered", "refused"},
          refresh |-> {"enforce", "consume", "store", "answered", "refused"},
          logout  |-> {"revoke", "answered"},
          query   |-> {"check", "answered", "refused"}]

OnRoute == \A c \in Calls : req[c].at \in Route[req[c].to]
OverIsQuiet == \A c \in Calls : Free(c) => req[c] = NoRequest
SingleFlight == \A c \in Calls : req[c].to = "refresh" => flight[TabOf[c]] = c

Storing(c) == At(c, "refresh", "store")
SpentKnown == \A c \in Calls : Storing(c) => req[c].arg \in Pairs

CallsInv ==
    TypeOK /\ OnRoute /\ SpentKnown /\ OverIsQuiet /\ SingleFlight /\ NoneLeftWaiting

-----------------------------------------------------------------------------
LEMMA InitCalls == Init => CallsInv
BY DEF Init, CallsInv, TypeOK, OnRoute, SpentKnown, Storing, At, OverIsQuiet, SingleFlight,
       NoneLeftWaiting, Free, Waits, Idle, NoRequest, Route, Counters, Gone, Buckets, Pairs,
       Kinds, Stages

LEMMA HitType ==
    ASSUME NEW k \in Counters PROVE Hit(k) \in Counters /\ Elapse(k) \in Counters /\ Gone \in Counters
BY DEF Counters, Hit, Elapse, Gone

(* What a request is. *)
Requests == [to  : {"none", "login", "refresh", "logout", "query"},
             at  : Stages \cup {"none"}, arg : 0..MaxIssued]

LEMMA MakeRequest ==
    ASSUME NEW to \in {"none", "login", "refresh", "logout", "query"},
           NEW at \in Stages \cup {"none"}, NEW arg \in 0..MaxIssued
    PROVE  [to |-> to, at |-> at, arg |-> arg] \in Requests
BY DEF Requests

LEMMA Routes ==
    /\ Route["login"] = {"enforce", "peek", "verify", "spend", "reset", "store",
                         "answered", "refused"}
    /\ Route["refresh"] = {"enforce", "consume", "store", "answered", "refused"}
    /\ Route["logout"] = {"revoke", "answered"}
    /\ Route["query"] = {"check", "answered", "refused"}
    /\ Route["none"] = {"none"}
BY DEF Route

LEMMA NothingRequested == NoRequest \in Requests /\ NoRequest.at \in Route[NoRequest.to]
BY MakeRequest, Routes DEF NoRequest

LEMMA RequestMade ==
    ASSUME NEW to \in {"login", "refresh", "logout", "query"}, NEW arg \in 0..MaxIssued
    PROVE  /\ Request(to, arg) \in Requests
           /\ Request(to, arg).to = to /\ Request(to, arg).arg = arg
           /\ Request(to, arg).at \in Route[to]
           /\ Request(to, arg).at \notin {"store", "answered", "refused"}
           /\ Request(to, arg) # NoRequest
<1>1. Entry[to] \in Route[to] \cap Stages /\ Entry[to] \notin {"store", "answered", "refused"}
  BY Routes DEF Entry, PastLimiter, Stages
<1>2. Request(to, arg) = [to |-> to, at |-> Entry[to], arg |-> arg]
  BY DEF Request
<1> QED
  BY <1>1, <1>2, MakeRequest DEF NoRequest

(* A handler's step moves the request of one call along its route and       *)
(* touches no page.                                                        *)
Moves(c, r) ==
    /\ req' = [req EXCEPT ![c] = r]
    /\ r \in Requests /\ r.to = req[c].to /\ r.to # "none" /\ r.at \in Route[r.to]
    /\ UNCHANGED page

LEMMA MovesCalls ==
    ASSUME CallsInv, NEW c \in Calls, NEW r, Moves(c, r)
    PROVE  /\ req' \in [Calls -> Requests]
           /\ OnRoute' /\ OverIsQuiet' /\ SingleFlight' /\ NoneLeftWaiting'
           /\ \A t \in Tabs : flight'[t] # None =>
                 TabOf[flight'[t]] = t /\ req'[flight'[t]].to = "refresh"
<1>1. req \in [Calls -> Requests]
  BY DEF CallsInv, TypeOK, Requests
<1>2. req'[c] = r /\ \A d \in Calls \ {c} : req'[d] = req[d]
  BY <1>1 DEF Moves
<1>3. \A d \in Calls : req'[d].to = req[d].to
  BY <1>2 DEF Moves
<1>4. req' \in [Calls -> Requests]
  BY <1>1 DEF Moves
<1>5. OnRoute'
  BY <1>2 DEF Moves, CallsInv, OnRoute
<1>6. r # NoRequest /\ req[c] # NoRequest /\ ~Free(c)
  BY DEF Moves, NoRequest, CallsInv, OverIsQuiet
<1>7. OverIsQuiet' /\ NoneLeftWaiting'
  BY <1>2, <1>6 DEF Moves, CallsInv, OverIsQuiet, NoneLeftWaiting, Free, Waits, page
<1>8. SingleFlight'
  BY <1>3 DEF Moves, CallsInv, SingleFlight, page
<1>9. \A t \in Tabs : flight'[t] # None =>
         TabOf[flight'[t]] = t /\ req'[flight'[t]].to = "refresh"
  BY <1>3 DEF Moves, CallsInv, TypeOK, page
<1> QED
  BY <1>4, <1>5, <1>7, <1>8, <1>9

(* A request moved to another stage, its arguments kept. *)
LEMMA MovedMoves ==
    ASSUME CallsInv, NEW c \in Calls, req[c].to # "none",
           NEW stage \in Route[req[c].to] \cap Stages, req' = Moved(c, stage), UNCHANGED page
    PROVE  Moves(c, [req[c] EXCEPT !.at = stage])
<1>1. req \in [Calls -> Requests]
  BY DEF CallsInv, TypeOK, Requests
<1> DEFINE r == [req[c] EXCEPT !.at = stage]
<1>2. r \in Requests /\ r.to = req[c].to /\ r.at = stage
  BY <1>1 DEF Requests
<1>3. req' = [req EXCEPT ![c] = r]
  BY <1>1 DEF Moved
<1> QED
  BY <1>2, <1>3 DEF Moves

(* The request as Store leaves it. *)
Stored(c) == [to |-> req[c].to, at |-> "answered", arg |-> issued + 1]

LEMMA StoreStep ==
    ASSUME CallsInv, NEW c \in Calls, Store(c)
    PROVE  /\ req[c].to \in {"login", "refresh"}
           /\ issued \in Nat /\ issued + 1 \in Pairs
           /\ req' = [req EXCEPT ![c] = Stored(c)]
<1>1. req \in [Calls -> Requests] /\ issued \in 0..MaxIssued
  BY DEF CallsInv, TypeOK, Requests
<1>2. req[c].to \in {"none", "login", "refresh", "logout", "query"}
  BY <1>1 DEF Requests
<1>3. req[c].to \in {"login", "refresh"}
  BY <1>2, Routes DEF Store, CallsInv, OnRoute
<1>4. issued + 1 \in Pairs
  BY DEF Store
<1> QED
  BY <1>1, <1>3, <1>4 DEF Store, Stored

LEMMA HandleMoves ==
    ASSUME CallsInv, NEW c \in Calls, Handle(c)
    PROVE  \E r : Moves(c, r)
<1>0. \A stage \in Stages : stage \in Route[req[c].to] /\ req' = Moved(c, stage) /\ page' = page
          /\ req[c].to # "none" => \E r : Moves(c, r)
  BY MovedMoves
<1> USE Routes DEF At, page, Stages
<1>1. CASE Enforce(c)
  <2>1. req[c].to \in {"login", "refresh"}
    BY <1>1 DEF Enforce, PastLimiter
  <2>2. PastLimiter[req[c].to] \in Route[req[c].to] \cap Stages
    BY <2>1 DEF PastLimiter
  <2>3. "refused" \in Route[req[c].to] \cap Stages
    BY <2>1
  <2> QED
    BY <1>0, <1>1, <2>1, <2>2, <2>3 DEF Enforce
<1>2. CASE Peek(c)
  BY <1>0, <1>2 DEF Peek
<1>3. CASE Verify(c)
  BY <1>0, <1>3 DEF Verify
<1>4. CASE Spend(c)
  BY <1>0, <1>4 DEF Spend
<1>5. CASE Reset(c)
  BY <1>0, <1>5 DEF Reset
<1>6. CASE Consume(c)
  BY <1>0, <1>6 DEF Consume
<1>7. CASE Store(c)
  <2>1. req[c].to \in {"login", "refresh"}
    BY <1>7, StoreStep
  <2>2. Stored(c) \in Requests
    BY <1>7, <2>1, StoreStep DEF Requests, Stored, Pairs
  <2>3. Moves(c, Stored(c))
    BY <1>7, <2>1, <2>2, StoreStep DEF Store, Stored, Moves
  <2> QED
    BY <2>3
<1>8. CASE Revoke(c)
  BY <1>0, <1>8 DEF Revoke
<1>9. CASE Check(c)
  BY <1>0, <1>9 DEF Check
<1> QED
  BY <1>1, <1>2, <1>3, <1>4, <1>5, <1>6, <1>7, <1>8, <1>9 DEF Handle

(* What TypeOK says of everything but the calls. *)
ServerOK ==
    /\ counter \in [Buckets -> Counters]
    /\ live \subseteq Pairs /\ valid \subseteq Pairs /\ issued \in 0..MaxIssued
    /\ cookie \in 0..MaxIssued
    /\ token \in [Tabs -> 0..MaxIssued]
    /\ chain \in [Pairs -> 0..MaxIssued]
    /\ spender \in [Pairs -> Tabs \cup {None}]
    /\ faults \in 0..MaxFaults

LEMMA HandleServer ==
    ASSUME CallsInv, NEW c \in Calls, Handle(c)
    PROVE  ServerOK'
<1>1. ServerOK /\ req \in [Calls -> Requests]
  BY DEF CallsInv, TypeOK, ServerOK, Requests
<1> USE <1>1, HitType DEF ServerOK, Requests, server, page, Buckets, Pairs
<1>2. CASE Enforce(c)
  BY <1>2 DEF Enforce
<1>3. CASE Peek(c) \/ Verify(c) \/ Check(c)
  BY <1>3 DEF Peek, Verify, Check
<1>4. CASE Spend(c) \/ Reset(c)
  <2>1. Hit(counter["email"]) \in Counters /\ Gone \in Counters
    OBVIOUS
  <2>2. counter' \in [Buckets -> Counters]
    BY <1>4, <2>1 DEF Spend, Reset
  <2> QED
    BY <1>4, <2>2 DEF Spend, Reset
<1>5. CASE Consume(c)
  BY <1>5 DEF Consume, Consumed
<1>6. CASE Store(c)
  <2>1. (IF req[c].to = "login" THEN issued + 1 ELSE chain[req[c].arg]) \in 0..MaxIssued
    <3>1. req[c].to # "login" => req[c].arg \in Pairs
      BY <1>6, StoreStep DEF Store, CallsInv, SpentKnown, Storing, At
    <3>2. issued + 1 \in Pairs
      BY <1>6, StoreStep
    <3> QED
      BY <3>1, <3>2
  <2>2. issued' \in 0..MaxIssued /\ live' \subseteq Pairs /\ valid' \subseteq Pairs
    BY <1>6, StoreStep DEF Store
  <2>3. chain' \in [Pairs -> 0..MaxIssued]
    BY <1>6, <2>1 DEF Store
  <2> QED
    BY <1>6, <2>2, <2>3 DEF Store
<1>7. CASE Revoke(c)
  BY <1>7 DEF Revoke
<1> QED
  BY <1>2, <1>3, <1>4, <1>5, <1>6, <1>7 DEF Handle

LEMMA HandleSpentKnown ==
    ASSUME CallsInv, NEW c \in Calls, Handle(c)
    PROVE  SpentKnown'
<1>1. PICK r : Moves(c, r)
  BY HandleMoves
<1>2. req'[c] = r /\ \A d \in Calls \ {c} : req'[d] = req[d]
  BY <1>1 DEF Moves, CallsInv, TypeOK
<1>3. SUFFICES ASSUME Storing(c)' PROVE req'[c].arg \in Pairs
  BY <1>2 DEF CallsInv, SpentKnown, Storing, At, Pairs
<1>4. req[c].to = "refresh" /\ req'[c].at = "store"
  BY <1>1, <1>2, <1>3 DEF Moves, Storing, At
<1>5. CASE Enforce(c)
  BY <1>4, <1>5 DEF Enforce, Moved, PastLimiter, CallsInv, TypeOK
<1>6. CASE Consume(c)
  BY <1>4, <1>6 DEF Consume, Moved, CallsInv, TypeOK
<1>7. CASE Store(c)
  BY <1>4, <1>7 DEF Store, CallsInv, TypeOK
<1> QED
  BY <1>4, <1>5, <1>6, <1>7 DEF Handle, Peek, Verify, Spend, Reset, Revoke, Check, At

(* What TypeOK says of the calls and of what a tab keeps. *)
CallKinds == [kind : Kinds \cup {"none"}, retried : BOOLEAN]
PagesOK ==
    /\ flight \in [Tabs -> Calls \cup {None}]
    /\ \A t \in Tabs : flight[t] # None =>
           TabOf[flight[t]] = t /\ req[flight[t]].to = "refresh"
    /\ status \in [Tabs -> {"unknown", "anonymous", "authenticated"}]
    /\ call \in [Calls -> CallKinds]
    /\ req \in [Calls -> Requests]

PagesInv ==
    PagesOK /\ OnRoute /\ SpentKnown /\ OverIsQuiet /\ SingleFlight /\ NoneLeftWaiting

LEMMA CallsSplit == /\ CallsInv <=> ServerOK /\ PagesInv
                    /\ CallsInv' <=> ServerOK' /\ PagesInv'
BY DEF CallsInv, TypeOK, ServerOK, PagesInv, PagesOK, Requests, CallKinds

LEMMA HandleCalls ==
    ASSUME CallsInv, NEW c \in Calls, Handle(c)
    PROVE  CallsInv'
<1>1. PICK r : Moves(c, r)
  BY HandleMoves
<1>2. PagesOK
  BY CallsSplit DEF PagesInv
<1>3. PagesOK'
  BY <1>1, <1>2, MovesCalls DEF PagesOK, Moves, page
<1>4. PagesInv'
  BY <1>1, <1>3, MovesCalls, HandleSpentKnown DEF PagesInv
<1> QED
  BY <1>4, HandleServer, CallsSplit

(* One call goes on to k and r; if r is a refresh, it leads its tab's, and  *)
(* if it is nothing, the call is over or waits for the one in flight.      *)
GoesOn(c, k, r) ==
    /\ k \in CallKinds /\ call' = [call EXCEPT ![c] = k]
    /\ r \in Requests /\ req' = [req EXCEPT ![c] = r]
    /\ status' \in [Tabs -> {"unknown", "anonymous", "authenticated"}]
    /\ req[c].to # "refresh"
    /\ r.at \in Route[r.to] /\ r.at # "store"
    /\ k = Idle => r = NoRequest
    /\ IF r.to = "refresh"
       THEN flight[TabOf[c]] = None /\ flight' = [flight EXCEPT ![TabOf[c]] = c]
       ELSE /\ flight' = flight
            /\ k # Idle /\ r = NoRequest => flight[TabOf[c]] # None

LEMMA OneCall ==
    ASSUME CallsInv, NEW c \in Calls, NEW k, NEW r, GoesOn(c, k, r)
    PROVE  PagesInv'
<1> USE DEF GoesOn
<1>0. PagesInv /\ TabOf[c] \in Tabs
  BY CallsSplit
<1>1. /\ req'[c] = r /\ call'[c] = k
      /\ \A d \in Calls \ {c} : req'[d] = req[d] /\ call'[d] = call[d]
  BY <1>0 DEF PagesInv, PagesOK
<1>2. \A d \in Calls \ {c} : req'[d].to = "refresh" => flight[TabOf[d]] = d
  BY <1>0, <1>1 DEF PagesInv, SingleFlight
<1>3. \A t \in Tabs : flight[t] # c
  BY <1>0 DEF PagesInv, PagesOK
<1>4. PagesOK'
  <2>1. CASE r.to = "refresh"
    BY <1>0, <1>1, <1>3, <2>1 DEF PagesInv, PagesOK
  <2>2. CASE r.to # "refresh"
    BY <1>0, <1>1, <1>3, <2>2 DEF PagesInv, PagesOK
  <2> QED
    BY <2>1, <2>2
<1>5. OnRoute' /\ SpentKnown'
  BY <1>0, <1>1 DEF PagesInv, OnRoute, SpentKnown, Storing, At, Pairs
<1>6. OverIsQuiet'
  BY <1>0, <1>1 DEF PagesInv, OverIsQuiet, Free
<1>7. SingleFlight'
  <2>1. CASE r.to = "refresh"
    BY <1>0, <1>1, <1>2, <2>1 DEF SingleFlight, PagesInv, PagesOK
  <2>2. CASE r.to # "refresh"
    BY <1>0, <1>1, <1>2, <2>2 DEF SingleFlight
  <2> QED
    BY <2>1, <2>2
<1>8. NoneLeftWaiting'
  <2>1. CASE r.to = "refresh"
    BY <1>0, <1>1, <2>1 DEF NoneLeftWaiting, Waits, NoRequest, PagesInv, PagesOK
  <2>2. CASE r.to # "refresh"
    BY <1>0, <1>1, <2>2 DEF NoneLeftWaiting, Waits, PagesInv
  <2> QED
    BY <2>1, <2>2
<1> QED
  BY <1>4, <1>5, <1>6, <1>7, <1>8 DEF PagesInv

LEMMA SettleCalls ==
    ASSUME CallsInv, NEW c \in Calls, req[c].to = "refresh",
           NEW fresh \in 0..MaxIssued, Settle(c, fresh)
    PROVE  PagesInv'
<1> DEFINE t == TabOf[c]
<1>0. PagesInv /\ t \in Tabs /\ flight[t] = c
  BY CallsSplit DEF PagesInv, SingleFlight
<1>1. /\ flight' = [flight EXCEPT ![t] = None]
      /\ call' = WokenCalls(t, c, fresh) /\ req' = WokenRequests(t, c, fresh)
  BY DEF Settle
<1>2. \A d \in Calls : d \in Woken(t, c) <=> d = c \/ (TabOf[d] = t /\ Waits(d))
  BY DEF Woken, Waiting
<1>3. \A d \in Calls : d \notin Woken(t, c) => call'[d] = call[d] /\ req'[d] = req[d]
  BY <1>1 DEF WokenCalls, WokenRequests
<1>4. Request("query", fresh) = [to |-> "query", at |-> "check", arg |-> fresh]
  BY DEF Request, Entry
<1>5. \A d \in Calls : d \in Woken(t, c) =>
         \/ call'[d] = Idle /\ req'[d] = NoRequest
         \/ /\ call'[d] \in CallKinds /\ call'[d] # Idle
            /\ req'[d] = [to |-> "query", at |-> "check", arg |-> fresh]
  <2> SUFFICES ASSUME NEW d \in Calls, d \in Woken(t, c), fresh # 0
               PROVE  call'[d] \in CallKinds /\ call'[d] # Idle
    BY <1>1, <1>4 DEF WokenCalls, WokenRequests
  <2>1. call[d] \in CallKinds
    BY <1>0 DEF PagesInv, PagesOK
  <2>2. CASE call[d].kind = "boot"
    BY <1>1, <2>2 DEF WokenCalls, CallKinds, Kinds, Idle
  <2>3. CASE call[d].kind # "boot"
    BY <1>1, <2>1, <2>3 DEF WokenCalls, CallKinds, Idle
  <2> QED
    BY <2>2, <2>3
<1>6. \A d \in Calls : req'[d].to = "refresh" => d \notin Woken(t, c) /\ TabOf[d] # t
  BY <1>0, <1>2, <1>3, <1>5 DEF PagesInv, SingleFlight, NoRequest
<1>7. PagesOK'
  <2>1. call' \in [Calls -> CallKinds]
    <3>1. Idle \in CallKinds
      BY DEF CallKinds, Idle
    <3>2. \A d \in Calls : call'[d] \in CallKinds
      BY <1>0, <1>3, <1>5, <3>1 DEF PagesInv, PagesOK
    <3> QED
      BY <1>1, <3>2 DEF WokenCalls
  <2>2. req' \in [Calls -> Requests]
    <3>1. /\ NoRequest \in Requests
          /\ [to |-> "query", at |-> "check", arg |-> fresh] \in Requests
      BY MakeRequest, NothingRequested DEF Stages
    <3>2. \A d \in Calls : req'[d] \in Requests
      BY <1>0, <1>3, <1>5, <3>1 DEF PagesInv, PagesOK
    <3> QED
      BY <1>1, <3>2 DEF WokenRequests
  <2>3. \A u \in Tabs : flight'[u] # None => flight'[u] = flight[u] /\ u # t
    BY <1>0, <1>1 DEF PagesInv, PagesOK
  <2>4. \A u \in Tabs : flight'[u] # None =>
           TabOf[flight'[u]] = u /\ req'[flight'[u]].to = "refresh"
    <3> SUFFICES ASSUME NEW u \in Tabs, flight'[u] # None
                 PROVE  TabOf[flight'[u]] = u /\ req'[flight'[u]].to = "refresh"
      OBVIOUS
    <3>1. flight'[u] \in Calls /\ TabOf[flight'[u]] = u /\ req[flight'[u]].to = "refresh"
      BY <1>0, <2>3 DEF PagesInv, PagesOK
    <3>2. flight'[u] \notin Woken(t, c)
      BY <1>0, <1>2, <2>3, <3>1 DEF Waits, NoRequest
    <3> QED
      BY <1>3, <3>1, <3>2
  <2>5. status' \in [Tabs -> {"unknown", "anonymous", "authenticated"}]
    BY <1>0 DEF Settle, PagesInv, PagesOK
  <2>6. flight' \in [Tabs -> Calls \cup {None}]
    BY <1>0, <1>1 DEF PagesInv, PagesOK
  <2> QED
    BY <2>1, <2>2, <2>4, <2>5, <2>6 DEF PagesOK
<1>8. OnRoute' /\ SpentKnown'
  <2>1. \A d \in Calls : req'[d].at \in Route[req'[d].to]
    BY <1>0, <1>3, <1>5, Routes DEF PagesInv, OnRoute, NoRequest
  <2>2. \A d \in Calls : Storing(d)' => req'[d] = req[d]
    BY <1>3, <1>5 DEF Storing, At, NoRequest
  <2> QED
    BY <1>0, <2>1, <2>2 DEF OnRoute, SpentKnown, PagesInv, Storing, At, Pairs
<1>9. OverIsQuiet'
  BY <1>0, <1>3, <1>5 DEF PagesInv, OverIsQuiet, Free
<1>10. SingleFlight'
  BY <1>0, <1>1, <1>3, <1>6 DEF PagesInv, PagesOK, SingleFlight
<1>11. NoneLeftWaiting'
  <2> SUFFICES ASSUME NEW d \in Calls, Waits(d)' PROVE flight'[TabOf[d]] # None
    BY DEF NoneLeftWaiting
  <2>1. d \notin Woken(t, c)
    BY <1>5 DEF Waits, NoRequest
  <2>2. Waits(d) /\ TabOf[d] # t
    BY <1>2, <1>3, <2>1 DEF Waits
  <2> QED
    BY <1>0, <1>1, <2>2 DEF PagesInv, PagesOK, NoneLeftWaiting
<1> QED
  BY <1>7, <1>8, <1>9, <1>10, <1>11 DEF PagesInv

(* The requests after a refresh has settled: of the calls that waited for it *)
(* and of the one that led it.                                             *)
SettledTo(c, fresh) ==
    \A d \in Calls :
       \/ d # c /\ req'[d] = req[d]
       \/ /\ d = c \/ req[d] = NoRequest
          /\ \/ req'[d] = NoRequest
             \/ req'[d] = [to |-> "query", at |-> "check", arg |-> fresh]

LEMMA SettleRequests ==
    ASSUME CallsInv, NEW c \in Calls, NEW fresh, Settle(c, fresh)
    PROVE  SettledTo(c, fresh)
<1>1. req' = WokenRequests(TabOf[c], c, fresh)
  BY DEF Settle
<1>2. \A d \in Calls : d \in Woken(TabOf[c], c) => d = c \/ req[d] = NoRequest
  BY DEF Woken, Waiting, Waits
<1>3. c \in Woken(TabOf[c], c)
  BY DEF Woken
<1>4. Request("query", fresh) = [to |-> "query", at |-> "check", arg |-> fresh]
  BY DEF Request, Entry
<1> QED
  BY <1>1, <1>2, <1>3, <1>4 DEF WokenRequests, SettledTo

LEMMA RefreshCalls ==
    ASSUME CallsInv, NEW c \in Calls, NEW k \in CallKinds, k # Idle,
           call' = [call EXCEPT ![c] = k], Refresh(c, req), req[c].to # "refresh",
           status' \in [Tabs -> {"unknown", "anonymous", "authenticated"}]
    PROVE  PagesInv'
<1>1. cookie \in 0..MaxIssued
  BY CallsSplit DEF ServerOK
<1>2. CASE SharesFlight(TabOf[c])
  <2>1. req' = [req EXCEPT ![c] = NoRequest] /\ flight' = flight /\ flight[TabOf[c]] # None
    BY <1>2 DEF Refresh, SharesFlight
  <2>2. GoesOn(c, k, NoRequest)
    BY <2>1, NothingRequested DEF GoesOn, NoRequest
  <2> QED
    BY <2>2, OneCall
<1>3. CASE ~SharesFlight(TabOf[c])
  <2>1. /\ req' = [req EXCEPT ![c] = Request("refresh", cookie)]
        /\ flight' = [flight EXCEPT ![TabOf[c]] = c] /\ flight[TabOf[c]] = None
    BY <1>3 DEF Refresh, SharesFlight
  <2>2. GoesOn(c, k, Request("refresh", cookie))
    BY <1>1, <2>1, RequestMade DEF GoesOn
  <2> QED
    BY <2>2, OneCall
<1> QED
  BY <1>2, <1>3

LEMMA KindChanged ==
    ASSUME NEW k \in CallKinds, NEW kind \in Kinds
    PROVE  [k EXCEPT !.kind = kind] \in CallKinds /\ [k EXCEPT !.kind = kind] # Idle
<1>1. [k EXCEPT !.kind = kind] \in CallKinds
  BY DEF CallKinds
<1>2. [k EXCEPT !.kind = kind].kind = kind /\ Idle.kind \notin Kinds
  BY DEF CallKinds, Kinds, Idle
<1> QED
  BY <1>1, <1>2

LEMMA ClientCalls ==
    ASSUME CallsInv, NEW c \in Calls,
           Boot(c) \/ (\E kind \in Kinds : Send(c, kind))
    PROVE  CallsInv'
<1>1. ServerOK /\ PagesInv /\ call[c] = Idle /\ req[c] = NoRequest /\ TabOf[c] \in Tabs
  BY CallsSplit DEF PagesInv, OverIsQuiet, Free, Boot, Send
<1>2. ServerOK'
  BY <1>1 DEF ServerOK, Boot, Send, server
<1>3. CASE Boot(c)
  <2> DEFINE k == [call[c] EXCEPT !.kind = "boot"]
  <2>1. k \in CallKinds /\ k # Idle
    BY <1>1, KindChanged DEF Kinds, PagesInv, PagesOK
  <2>2. call' = [call EXCEPT ![c] = k]
    BY <1>3 DEF Boot
  <2>3. Refresh(c, req) /\ req[c].to # "refresh" /\ status' = status
    BY <1>1, <1>3 DEF Boot, NoRequest
  <2> HIDE DEF k
  <2>4. PagesInv'
    BY <1>1, <2>1, <2>2, <2>3, RefreshCalls DEF PagesInv, PagesOK
  <2> QED
    BY <1>2, <2>4, CallsSplit
<1>4. ASSUME NEW kind \in Kinds, Send(c, kind) PROVE CallsInv'
  <2> DEFINE k == [call[c] EXCEPT !.kind = kind]
             arg == CASE kind = "login" -> 0 [] kind = "logout" -> cookie
                      [] OTHER -> token[TabOf[c]]
  <2>1. kind \in {"login", "logout", "query"}
    BY <1>4 DEF Send, Kinds
  <2>2. k \in CallKinds /\ k # Idle
    BY <1>1, KindChanged DEF PagesInv, PagesOK
  <2>3. arg \in 0..MaxIssued
    BY <1>1, <2>1 DEF ServerOK
  <2>4. call' = [call EXCEPT ![c] = k]
    BY <1>4 DEF Send
  <2>5. req' = [req EXCEPT ![c] = Request(kind, arg)]
    BY <1>4 DEF Send
  <2>6. status' \in [Tabs -> {"unknown", "anonymous", "authenticated"}] /\ flight' = flight
    BY <1>1, <1>4 DEF Send, PagesInv, PagesOK
  <2> HIDE DEF k, arg
  <2>7. GoesOn(c, k, Request(kind, arg))
    BY <1>1, <2>1, <2>2, <2>3, <2>4, <2>5, <2>6, RequestMade DEF GoesOn, NoRequest
  <2> QED
    BY <1>2, <2>7, OneCall, CallsSplit
<1> QED
  BY <1>3, <1>4

LEMMA DeliverCalls ==
    ASSUME CallsInv, NEW c \in Calls, Deliver(c) \/ Lose(c)
    PROVE  CallsInv'
<1>1. /\ ServerOK /\ PagesInv /\ TabOf[c] \in Tabs
      /\ req[c].arg \in 0..MaxIssued /\ call[c] \in CallKinds
      /\ Idle \in CallKinds /\ 0 \in 0..MaxIssued
  BY CallsSplit DEF PagesInv, PagesOK, Requests, CallKinds, Idle
<1>2. ServerOK'
  <2>1. CASE Refreshed(c)
    BY <1>1, <2>1 DEF Refreshed, ServerOK, server
  <2>2. CASE Lose(c)
    BY <1>1, <2>2 DEF Lose, ServerOK, server
  <2>3. CASE LoggedIn(c) \/ NotLoggedIn(c) \/ LoggedOut(c) \/ Answered(c)
    BY <1>1, <2>3 DEF LoggedIn, NotLoggedIn, LoggedOut, Answered, ServerOK, server
  <2> QED
    BY <2>1, <2>2, <2>3 DEF Deliver
<1>3. CASE Refreshed(c) \/ Lose(c)
  <2>1. req[c].to = "refresh" /\ \E fresh \in 0..MaxIssued : Settle(c, fresh)
    BY <1>1, <1>3 DEF Refreshed, Lose
  <2> QED
    BY <1>2, <2>1, SettleCalls, CallsSplit
<1>4. CASE LoggedIn(c)
  <2> DEFINE k == [call[c] EXCEPT !.kind = "me"]
  <2>1. k \in CallKinds /\ k # Idle
    BY <1>1, KindChanged DEF Kinds, PagesInv, PagesOK
  <2>2. call' = [call EXCEPT ![c] = k]
    BY <1>4 DEF LoggedIn
  <2>3. req' = [req EXCEPT ![c] = Request("query", req[c].arg)] /\ req[c].to = "login"
    BY <1>4 DEF LoggedIn, At
  <2>4. status' \in [Tabs -> {"unknown", "anonymous", "authenticated"}] /\ flight' = flight
    BY <1>1, <1>4 DEF LoggedIn, PagesInv, PagesOK
  <2> HIDE DEF k
  <2>5. GoesOn(c, k, Request("query", req[c].arg))
    BY <1>1, <2>1, <2>2, <2>3, <2>4, RequestMade DEF GoesOn
  <2> QED
    BY <1>2, <2>5, OneCall, CallsSplit
<1>5. CASE NotLoggedIn(c) \/ LoggedOut(c)
  <2>1. /\ call' = [call EXCEPT ![c] = Idle] /\ req' = [req EXCEPT ![c] = NoRequest]
        /\ flight' = flight /\ req[c].to \in {"login", "logout"}
    BY <1>5 DEF NotLoggedIn, LoggedOut, At
  <2>2. status' \in [Tabs -> {"unknown", "anonymous", "authenticated"}]
    BY <1>1, <1>5 DEF NotLoggedIn, LoggedOut, PagesInv, PagesOK
  <2>3. GoesOn(c, Idle, NoRequest)
    BY <1>1, <2>1, <2>2, NothingRequested DEF GoesOn, NoRequest
  <2> QED
    BY <1>2, <2>3, OneCall, CallsSplit
<1>6. CASE Answered(c)
  <2>1. status' \in [Tabs -> {"unknown", "anonymous", "authenticated"}]
    BY <1>1, <1>6 DEF Answered, PagesInv, PagesOK
  <2>2. CASE req[c].at = "refused" /\ ~call[c].retried
    <3>1. call' = [call EXCEPT ![c] = call[c]]
      BY <1>1, <1>6, <2>2 DEF Answered, PagesInv, PagesOK
    <3>2. call[c] # Idle
      BY <1>1, <1>6 DEF Answered, PagesInv, OverIsQuiet, Free, NoRequest
    <3>3. Refresh(c, req) /\ req[c].to # "refresh"
      BY <1>6, <2>2 DEF Answered
    <3> QED
      BY <1>1, <1>2, <2>1, <3>1, <3>2, <3>3, RefreshCalls, CallsSplit
  <2>3. CASE ~(req[c].at = "refused" /\ ~call[c].retried)
    <3>1. /\ call' = [call EXCEPT ![c] = Idle] /\ req' = [req EXCEPT ![c] = NoRequest]
          /\ flight' = flight /\ req[c].to = "query"
      BY <1>6, <2>3 DEF Answered
    <3>2. GoesOn(c, Idle, NoRequest)
      BY <1>1, <2>1, <3>1, NothingRequested DEF GoesOn, NoRequest
    <3> QED
      BY <1>2, <3>2, OneCall, CallsSplit
  <2> QED
    BY <2>2, <2>3
<1> QED
  BY <1>3, <1>4, <1>5, <1>6 DEF Deliver

LEMMA FailOpenMoves ==
    ASSUME CallsInv, NEW c \in Calls, FailOpen(c)
    PROVE  /\ \E r : Moves(c, r)
           /\ req'[c].to = "refresh" => req'[c].at # "store"
<1>1. req \in [Calls -> Requests] /\ req[c].at \in Route[req[c].to]
      /\ req[c].to \in {"none", "login", "refresh", "logout", "query"}
  BY CallsSplit DEF PagesInv, PagesOK, OnRoute, Requests
<1>2. PICK stage \in Stages : req' = Moved(c, stage) /\ stage \in Route[req[c].to]
                              /\ (req[c].to = "refresh" => stage # "store")
  BY <1>1, Routes DEF FailOpen, PastLimiter, Stages
<1>3. req[c].to # "none"
  BY <1>1, Routes DEF FailOpen
<1>4. Moves(c, [req[c] EXCEPT !.at = stage])
  BY <1>2, <1>3, MovedMoves DEF FailOpen
<1> QED
  BY <1>1, <1>2, <1>4 DEF Moved

LEMMA StepCalls == CallsInv /\ [Next]_vars => CallsInv'
<1> SUFFICES ASSUME CallsInv, [Next]_vars PROVE CallsInv'
  OBVIOUS
<1>1. ASSUME NEW c \in Calls, FailOpen(c) PROVE CallsInv'
  <2>1. PICK r : Moves(c, r)
    BY <1>1, FailOpenMoves
  <2>2. ServerOK /\ PagesInv /\ ServerOK'
    BY <1>1, CallsSplit DEF FailOpen, ServerOK, server, page
  <2>3. PagesOK'
    BY <2>1, <2>2, MovesCalls DEF PagesOK, Moves, page, PagesInv
  <2>4. SpentKnown'
    <3>1. \A d \in Calls \ {c} : req'[d] = req[d]
      BY <2>1, <2>2 DEF Moves, PagesInv, PagesOK
    <3> QED
      BY <1>1, <2>2, <3>1, FailOpenMoves DEF SpentKnown, Storing, At, PagesInv, Pairs
  <2>5. PagesInv'
    BY <2>1, <2>3, <2>4, MovesCalls DEF PagesInv
  <2> QED
    BY <2>2, <2>5, CallsSplit
<1>2. CASE Tick
  <2>1. counter' \in [Buckets -> Counters]
    BY <1>2, HitType, CallsSplit DEF Tick, ServerOK
  <2> QED
    BY <1>2, <2>1 DEF Tick, page, CallsInv, TypeOK, OnRoute, SpentKnown, OverIsQuiet,
       SingleFlight, NoneLeftWaiting, Storing, At, Free, Waits
<1>3. ASSUME NEW n \in Pairs, Expire(n) PROVE CallsInv'
  BY <1>3 DEF Expire, page, CallsInv, TypeOK, OnRoute, SpentKnown, OverIsQuiet,
     SingleFlight, NoneLeftWaiting, Storing, At, Free, Waits
<1>4. CASE UNCHANGED vars
  BY <1>4 DEF vars, server, page, CallsInv, TypeOK, OnRoute, SpentKnown, OverIsQuiet,
     SingleFlight, NoneLeftWaiting, Storing, At, Free, Waits
<1> QED
  BY <1>1, <1>2, <1>3, <1>4, HandleCalls, ClientCalls, DeliverCalls DEF Next

LEMMA AlwaysCalls == Spec => []CallsInv
BY InitCalls, StepCalls, PTL DEF Spec

(* The limiter, the tokens and what each tab holds keep their types, and    *)
(* refreshInFlight of a tab is never left pointing at a promise that is not *)
(* a refresh of that tab, however refreshes, answers, logouts, expiries and *)
(* lost answers interleave.                                                *)
THEOREM TypeCorrect == Spec => []TypeOK
<1>1. CallsInv => TypeOK
  BY DEF CallsInv
<1> QED
  BY <1>1, AlwaysCalls, PTL

(* No promise hangs (api.ts, refreshAccessToken()): whatever becomes of a   *)
(* refresh - answered, refused, lost - the calls that joined it go on or    *)
(* give up, because each of them waits on the tab's own flight and that one *)
(* is the tab's only refresh.                                              *)
THEOREM NobodyHangs == Spec => []NoneLeftWaiting
<1>1. CallsInv => NoneLeftWaiting
  BY DEF CallsInv
<1> QED
  BY <1>1, AlwaysCalls, PTL

-----------------------------------------------------------------------------
(* Wrong passwords.  A login that holds a guess is about to check a password *)
(* or to record that it was wrong.  Only a call whose form is the login form *)
(* ever logs in, and an API without a limiter counts nothing.              *)
Guessing == {c \in Calls : req[c].at \in {"verify", "spend"}}
Askers   == {c \in Calls : "login" \in Does[c]}

OwnForm == \A c \in Calls : req[c].to = "login" => c \in Askers
NothingCounted ==
    ~Limited => counter["email"].n = 0 /\ \A c \in Calls : req[c].at # "spend"

GuessesInv == OwnForm /\ NothingCounted /\ GuessesBounded

LEMMA BoundRead ==
    /\ GuessesBounded <=>
          counter["email"].n + Cardinality(Guessing)
              <= Times["email"] - 1 + Cardinality(Askers) + faults
    /\ GuessesBounded' <=>
          counter'["email"].n + Cardinality(Guessing')
              <= Times["email"] - 1 + Cardinality(Askers) + faults'
BY DEF GuessesBounded, Guessing, Askers

LEMMA InitGuesses ==
    ASSUME IsFiniteSet(Calls), Times["email"] > 0 PROVE Init => GuessesInv
<1> SUFFICES ASSUME Init PROVE GuessesInv
  OBVIOUS
<1>1. Guessing = {}
  BY DEF Init, Guessing, NoRequest
<1>2. IsFiniteSet(Askers) /\ Cardinality(Askers) \in Nat
  BY FS_Subset, FS_CardinalityType DEF Askers
<1>3. counter["email"].n = 0 /\ faults = 0 /\ Times["email"] \in Nat
  BY DEF Init, Gone, Buckets
<1>4. GuessesBounded
  BY <1>1, <1>2, <1>3, FS_EmptySet, BoundRead
<1> QED
  BY <1>3, <1>4 DEF Init, GuessesInv, OwnForm, NothingCounted, NoRequest

LEMMA GuessersAsk ==
    /\ CallsInv /\ OwnForm => Guessing \subseteq Askers
    /\ CallsInv' /\ OwnForm' => Guessing' \subseteq Askers
<1>1. \A to \in {"none", "login", "refresh", "logout", "query"} :
         "verify" \in Route[to] \/ "spend" \in Route[to] => to = "login"
  BY Routes
<1> QED
  BY <1>1, CallsSplit DEF PagesInv, PagesOK, OnRoute, Requests, OwnForm, Guessing, Askers

LEMMA Counted ==
    ASSUME IsFiniteSet(Calls), NEW G \in SUBSET Askers
    PROVE  /\ IsFiniteSet(G) /\ Cardinality(G) \in Nat /\ Cardinality(Askers) \in Nat
           /\ Cardinality(G) <= Cardinality(Askers)
<1>1. IsFiniteSet(Askers)
  BY FS_Subset DEF Askers
<1> QED
  BY <1>1, FS_Subset, FS_CardinalityType

(* A step after which nobody has a guess who had none, and the counter has   *)
(* not grown.                                                              *)
NoMoreGuesses ==
    /\ Guessing' \subseteq Guessing
    /\ counter'["email"].n <= counter["email"].n
    /\ faults' >= faults

LEMMA CountTypes ==
    /\ CallsInv => /\ counter["email"].n \in 0..Ceiling /\ faults \in Nat
                   /\ Times["email"] \in Nat
    /\ CallsInv' => counter'["email"].n \in 0..Ceiling /\ faults' \in Nat
BY CallsSplit DEF ServerOK, Counters, Buckets

LEMMA NoMoreBounded ==
    ASSUME IsFiniteSet(Calls), CallsInv, CallsInv', GuessesInv, NoMoreGuesses
    PROVE  GuessesBounded'
<1>1. Guessing \subseteq Askers
  BY GuessersAsk DEF GuessesInv
<1>2. /\ Cardinality(Guessing) \in Nat /\ Cardinality(Guessing') \in Nat
      /\ Cardinality(Guessing') <= Cardinality(Guessing) /\ Cardinality(Askers) \in Nat
  BY <1>1, Counted, FS_Subset DEF NoMoreGuesses
<1> QED
  BY <1>2, CountTypes, BoundRead DEF GuessesInv, NoMoreGuesses

(* Only sending the login form makes a call log in. *)
LEMMA StepOwnForm ==
    ASSUME CallsInv, OwnForm, [Next]_vars PROVE OwnForm'
<1>0. req \in [Calls -> Requests]
  BY CallsSplit DEF PagesInv, PagesOK
<1>1. SUFFICES \A d \in Calls : req'[d].to = "login" => req[d].to = "login" \/ d \in Askers
  BY DEF OwnForm, Askers
<1>2. ASSUME NEW c \in Calls, NEW r, req' = [req EXCEPT ![c] = r],
             r.to = "login" => req[c].to = "login" \/ c \in Askers
      PROVE  \A d \in Calls : req'[d].to = "login" => req[d].to = "login" \/ d \in Askers
  BY <1>0, <1>2
<1>3. ASSUME NEW c \in Calls, Refresh(c, req)
      PROVE  \A d \in Calls : req'[d].to = "login" => req[d].to = "login" \/ d \in Askers
  BY <1>2, <1>3 DEF Refresh, NoRequest, Request
<1>4. ASSUME NEW c \in Calls, Boot(c) \/ (\E kind \in Kinds : Send(c, kind))
      PROVE  \A d \in Calls : req'[d].to = "login" => req[d].to = "login" \/ d \in Askers
  <2>1. ASSUME NEW kind \in Kinds, Send(c, kind)
        PROVE  \A d \in Calls : req'[d].to = "login" => req[d].to = "login" \/ d \in Askers
    BY <1>0, <2>1 DEF Send, Request, Askers
  <2> QED
    BY <1>3, <1>4, <2>1 DEF Boot
<1>5. ASSUME NEW c \in Calls, Handle(c) \/ FailOpen(c)
      PROVE  \A d \in Calls : req'[d].to = "login" => req[d].to = "login" \/ d \in Askers
  BY <1>2, <1>5, HandleMoves, FailOpenMoves DEF Moves
<1>6. ASSUME NEW c \in Calls, Deliver(c) \/ Lose(c)
      PROVE  \A d \in Calls : req'[d].to = "login" => req[d].to = "login" \/ d \in Askers
  <2>1. ASSUME NEW fresh, Settle(c, fresh)
        PROVE  \A d \in Calls : req'[d].to = "login" => req[d].to = "login" \/ d \in Askers
    <3>1. SettledTo(c, fresh)
      BY <2>1, SettleRequests
    <3> QED
      BY <3>1 DEF SettledTo, NoRequest
  <2>2. CASE LoggedIn(c)
    <3>1. req' = [req EXCEPT ![c] = Request("query", req[c].arg)]
      BY <2>2 DEF LoggedIn
    <3>2. Request("query", req[c].arg).to # "login"
      BY DEF Request
    <3> QED
      BY <1>2, <3>1, <3>2
  <2>3. CASE NotLoggedIn(c) \/ LoggedOut(c) \/ Answered(c)
    BY <1>2, <1>3, <2>3 DEF NotLoggedIn, LoggedOut, Answered, NoRequest
  <2> QED
    BY <1>6, <2>1, <2>2, <2>3 DEF Deliver, Refreshed, Lose
<1>7. CASE Tick \/ (\E n \in Pairs : Expire(n)) \/ UNCHANGED vars
  BY <1>7 DEF Tick, Expire, vars
<1> QED
  BY <1>4, <1>5, <1>6, <1>7 DEF Next

(* Without a limiter the bound is what each form can hold, no more. *)
LEMMA UncountedBounded ==
    ASSUME IsFiniteSet(Calls), Times["email"] > 0, CallsInv', OwnForm', NothingCounted',
           ~Limited
    PROVE  GuessesBounded'
<1>1. Cardinality(Guessing') \in Nat /\ Cardinality(Askers) \in Nat
      /\ Cardinality(Guessing') <= Cardinality(Askers)
  BY GuessersAsk, Counted
<1>2. counter'["email"].n = 0
  BY DEF NothingCounted
<1>3. Times["email"] \in Nat
  BY DEF Buckets
<1> QED
  BY <1>1, <1>2, <1>3, CountTypes, BoundRead

LEMMA StepNothingCounted ==
    ASSUME CallsInv, NothingCounted, [Next]_vars PROVE NothingCounted'
<1> SUFFICES ASSUME ~Limited
             PROVE  counter'["email"].n = 0 /\ \A d \in Calls : req'[d].at # "spend"
  BY DEF NothingCounted
<1>0. /\ req \in [Calls -> Requests] /\ counter \in [Buckets -> Counters]
      /\ counter["email"].n = 0 /\ \A d \in Calls : req[d].at # "spend"
      /\ Gone \in Counters /\ Gone.n = 0
  <2>1. Gone \in Counters /\ Gone.n = 0
    BY DEF Gone, Counters
  <2> QED
    BY <2>1, CallsSplit DEF PagesInv, PagesOK, ServerOK, NothingCounted
<1>1. ASSUME NEW c \in Calls, NEW r, req' = [req EXCEPT ![c] = r], r.at # "spend"
      PROVE  \A d \in Calls : req'[d].at # "spend"
  BY <1>0, <1>1
<1>2. ASSUME NEW to \in {"login", "refresh", "logout", "query"}, NEW arg
      PROVE  Request(to, arg).at # "spend"
  BY DEF Request, Entry, PastLimiter
<1>3. ASSUME NEW c \in Calls, Refresh(c, req) PROVE \A d \in Calls : req'[d].at # "spend"
  BY <1>1, <1>2, <1>3 DEF Refresh, NoRequest
<1>4. ASSUME NEW c \in Calls, NEW stage, req' = Moved(c, stage), stage # "spend"
      PROVE  \A d \in Calls : req'[d].at # "spend"
  BY <1>0, <1>4 DEF Moved, Requests
<1>5. ASSUME NEW c \in Calls, Boot(c) \/ (\E kind \in Kinds : Send(c, kind))
      PROVE  counter'["email"].n = 0 /\ \A d \in Calls : req'[d].at # "spend"
  <2>1. counter' = counter
    BY <1>5 DEF Boot, Send, server
  <2>2. CASE Boot(c)
    BY <1>0, <1>3, <2>1, <2>2 DEF Boot
  <2>3. ASSUME NEW kind \in Kinds, Send(c, kind) PROVE \A d \in Calls : req'[d].at # "spend"
    <3>1. kind \in {"login", "logout", "query"}
      BY <2>3 DEF Send, Kinds
    <3>2. PICK arg : req' = [req EXCEPT ![c] = Request(kind, arg)]
      BY <2>3 DEF Send
    <3> QED
      BY <1>1, <1>2, <3>1, <3>2
  <2> QED
    BY <1>0, <1>5, <2>1, <2>2, <2>3
<1>6. ASSUME NEW c \in Calls, Handle(c) \/ FailOpen(c)
      PROVE  counter'["email"].n = 0 /\ \A d \in Calls : req'[d].at # "spend"
  <2>1. CASE Enforce(c)
    <3>1. req[c].to \in {"login", "refresh"}
          /\ counter' = [counter EXCEPT ![req[c].to] = Hit(@)]
      BY <2>1 DEF Enforce, PastLimiter
    <3>2. counter'["email"] = counter["email"]
      BY <1>0, <3>1
    <3>3. PastLimiter[req[c].to] # "spend"
      BY <3>1 DEF PastLimiter
    <3> QED
      BY <1>0, <1>4, <2>1, <3>2, <3>3 DEF Enforce
  <2>2. CASE Peek(c) \/ Check(c)
    BY <1>0, <1>4, <2>2 DEF Peek, Check, server
  <2>3. CASE Verify(c)
    BY <1>0, <1>4, <2>3 DEF Verify, server
  <2>4. CASE Spend(c)
    BY <1>0, <2>4 DEF Spend, At
  <2>5. CASE Reset(c)
    BY <1>0, <1>4, <2>5 DEF Reset, Buckets
  <2>6. CASE Consume(c) \/ Revoke(c)
    BY <1>0, <1>4, <2>6 DEF Consume, Revoke
  <2>7. CASE Store(c)
    BY <1>0, <1>1, <2>7, StoreStep DEF Store, Stored
  <2>8. CASE FailOpen(c)
    <3>1. req[c].to \in {"none", "login", "refresh", "logout", "query"}
          /\ req[c].at \in Route[req[c].to]
      BY <1>0, CallsSplit DEF Requests, PagesInv, OnRoute
    <3>2. PICK stage : req' = Moved(c, stage) /\ stage # "spend"
      BY <2>8, <3>1, Routes DEF FailOpen, PastLimiter
    <3> QED
      BY <1>0, <1>4, <2>8, <3>2 DEF FailOpen, server
  <2> QED
    BY <1>6, <2>1, <2>2, <2>3, <2>4, <2>5, <2>6, <2>7, <2>8 DEF Handle
<1>7. ASSUME NEW c \in Calls, Deliver(c) \/ Lose(c)
      PROVE  counter'["email"].n = 0 /\ \A d \in Calls : req'[d].at # "spend"
  <2>1. counter' = counter
    BY <1>7 DEF Deliver, Lose, Refreshed, LoggedIn, NotLoggedIn, LoggedOut, Answered, server
  <2>2. ASSUME NEW fresh, Settle(c, fresh) PROVE \A d \in Calls : req'[d].at # "spend"
    <3>1. SettledTo(c, fresh)
      BY <2>2, SettleRequests
    <3> QED
      BY <1>0, <3>1 DEF SettledTo, NoRequest
  <2>3. CASE LoggedIn(c)
    <3>1. req' = [req EXCEPT ![c] = Request("query", req[c].arg)]
      BY <2>3 DEF LoggedIn
    <3> QED
      BY <1>0, <1>1, <1>2, <2>1, <3>1
  <2>4. CASE NotLoggedIn(c) \/ LoggedOut(c) \/ Answered(c)
    BY <1>0, <1>1, <1>3, <2>1, <2>4 DEF NotLoggedIn, LoggedOut, Answered, NoRequest
  <2> QED
    BY <1>0, <1>7, <2>1, <2>2, <2>3, <2>4 DEF Deliver, Refreshed, Lose
<1>8. CASE Tick \/ (\E n \in Pairs : Expire(n)) \/ UNCHANGED vars
  <2>1. counter["email"].ttl \in 0..Window /\ counter["email"] \in Counters
    BY <1>0 DEF Counters, Buckets
  <2>2. Elapse(counter["email"]).n = 0
    BY <1>0, <2>1 DEF Elapse, Counters
  <2> QED
    BY <1>0, <1>8, <2>2 DEF Tick, Expire, vars, server, Buckets
<1> QED
  BY <1>5, <1>6, <1>7, <1>8 DEF Next

(* One call takes up a guess, or has recorded that it was wrong. *)
LEMMA OneMoreGuess ==
    ASSUME IsFiniteSet(Calls), CallsInv, CallsInv', GuessesInv, OwnForm', NEW c \in Calls,
           Guessing' \subseteq Guessing \cup {c}, counter' = counter,
           \/ counter["email"].n < Times["email"] /\ faults' = faults
           \/ faults' = faults + 1
    PROVE  GuessesBounded'
<1>1. Guessing \subseteq Askers /\ Guessing' \subseteq Askers
  BY GuessersAsk DEF GuessesInv
<1>2. /\ IsFiniteSet(Guessing) /\ Cardinality(Guessing) \in Nat
      /\ Cardinality(Guessing') \in Nat /\ Cardinality(Askers) \in Nat
      /\ Cardinality(Guessing') <= Cardinality(Askers)
  BY <1>1, Counted
<1>3. Cardinality(Guessing') <= Cardinality(Guessing) + 1
  <2>1. /\ IsFiniteSet(Guessing \cup {c})
        /\ Cardinality(Guessing \cup {c}) <= Cardinality(Guessing) + 1
    <3>1. IsFiniteSet(Guessing)
      BY <1>2
    <3>2. Cardinality(Guessing \cup {c}) =
             IF c \in Guessing THEN Cardinality(Guessing) ELSE Cardinality(Guessing) + 1
      BY <3>1, FS_AddElement
    <3>3. IsFiniteSet(Guessing \cup {c})
      BY <3>1, FS_AddElement
    <3> QED
      BY <1>2, <3>2, <3>3
  <2>2. Cardinality(Guessing') <= Cardinality(Guessing \cup {c})
        /\ Cardinality(Guessing \cup {c}) \in Nat
    BY <2>1, FS_Subset, FS_CardinalityType
  <2> QED
    BY <1>2, <2>1, <2>2
<1>4. CASE counter["email"].n < Times["email"] /\ faults' = faults
  BY <1>2, <1>4, CountTypes, BoundRead
<1>5. CASE faults' = faults + 1
  BY <1>2, <1>3, <1>5, CountTypes, BoundRead DEF GuessesInv
<1> QED
  BY <1>4, <1>5

LEMMA SpendBounded ==
    ASSUME IsFiniteSet(Calls), CallsInv, CallsInv', GuessesInv, NEW c \in Calls, Spend(c)
    PROVE  GuessesBounded'
<1>1. Guessing \subseteq Askers /\ c \in Guessing
  BY GuessersAsk DEF GuessesInv, Spend, At, Guessing
<1>2. Guessing' = Guessing \ {c}
  BY CallsSplit DEF Spend, Moved, Guessing, PagesInv, PagesOK, Requests
<1>3. /\ Cardinality(Guessing') = Cardinality(Guessing) - 1 /\ Cardinality(Guessing) \in Nat
      /\ Cardinality(Askers) \in Nat
  BY <1>1, <1>2, Counted, FS_RemoveElement
<1>4. counter'["email"].n <= counter["email"].n + 1 /\ faults' = faults
  <2>1. counter'["email"] = Hit(counter["email"])
    BY CallsSplit DEF Spend, ServerOK, Buckets
  <2>2. counter["email"].n \in 0..Ceiling
    BY CountTypes
  <2> QED
    BY <2>1, <2>2 DEF Hit, Spend
<1> QED
  BY <1>3, <1>4, CountTypes, BoundRead DEF GuessesInv

(* With a limiter, a guess is taken up by passing the peek, or by its failing. *)
LEMMA HandleBounded ==
    ASSUME IsFiniteSet(Calls), CallsInv, CallsInv', GuessesInv, OwnForm', Limited,
           NEW c \in Calls, Handle(c) \/ FailOpen(c)
    PROVE  GuessesBounded'
<1>0. /\ req \in [Calls -> Requests] /\ counter \in [Buckets -> Counters]
      /\ counter["email"].n \in 0..Ceiling /\ faults \in Nat
      /\ req[c].at \in Route[req[c].to]
      /\ req[c].to \in {"none", "login", "refresh", "logout", "query"}
  BY CallsSplit, CountTypes DEF PagesInv, PagesOK, ServerOK, OnRoute, Requests
<1>1. ASSUME NEW r, req' = [req EXCEPT ![c] = r], r.at \notin {"verify", "spend"}
      PROVE  Guessing' \subseteq Guessing
  BY <1>0, <1>1 DEF Guessing
<1>2. ASSUME NEW stage, req' = Moved(c, stage)
      PROVE  /\ stage \notin {"verify", "spend"} => Guessing' \subseteq Guessing
             /\ req[c].at \in {"verify", "spend"} => Guessing' \subseteq Guessing
             /\ Guessing' \subseteq Guessing \cup {c}
  BY <1>0, <1>2 DEF Moved, Requests, Guessing
<1>3. ASSUME UNCHANGED <<counter, faults>>, Guessing' \subseteq Guessing PROVE GuessesBounded'
  BY <1>0, <1>3, NoMoreBounded DEF NoMoreGuesses
<1>4. CASE Enforce(c)
  <2>1. req[c].to \in {"login", "refresh"}
        /\ counter' = [counter EXCEPT ![req[c].to] = Hit(@)]
    BY <1>4 DEF Enforce, PastLimiter
  <2>2. counter'["email"] = counter["email"]
    BY <1>0, <2>1
  <2>3. PastLimiter[req[c].to] \notin {"verify", "spend"}
    BY <2>1 DEF PastLimiter
  <2>4. Guessing' \subseteq Guessing /\ faults' = faults
    BY <1>2, <1>4, <2>3 DEF Enforce
  <2> QED
    BY <1>0, <2>2, <2>4, NoMoreBounded DEF NoMoreGuesses
<1>5. CASE Peek(c)
  <2>1. CASE counter["email"].n < Times["email"]
    <3>1. Guessing' \subseteq Guessing \cup {c} /\ counter' = counter /\ faults' = faults
      BY <1>2, <1>5 DEF Peek, server
    <3> QED
      BY <2>1, <3>1, OneMoreGuess
  <2>2. CASE ~(counter["email"].n < Times["email"])
    BY <1>2, <1>3, <1>5, <2>2 DEF Peek, PeekAllowed, server
  <2> QED
    BY <2>1, <2>2
<1>6. CASE Verify(c)
  BY <1>2, <1>3, <1>6 DEF Verify, At, server
<1>7. CASE Reset(c)
  <2>1. counter'["email"] = Gone /\ Gone.n = 0
    BY <1>0, <1>7 DEF Reset, Buckets, Gone
  <2>2. Guessing' \subseteq Guessing /\ faults' = faults
    BY <1>2, <1>7 DEF Reset
  <2> QED
    BY <1>0, <2>1, <2>2, NoMoreBounded DEF NoMoreGuesses
<1>8. CASE Consume(c) \/ Revoke(c) \/ Check(c)
  BY <1>2, <1>3, <1>8 DEF Consume, Revoke, Check, server
<1>9. CASE Store(c)
  BY <1>1, <1>3, <1>9, StoreStep DEF Store, Stored
<1>10. CASE FailOpen(c)
  <2>1. counter' = counter /\ faults' = faults + 1
    BY <1>10 DEF FailOpen, server
  <2>2. PICK stage : req' = Moved(c, stage)
    BY <1>10 DEF FailOpen
  <2> QED
    BY <1>2, <2>1, <2>2, OneMoreGuess
<1> QED
  BY <1>4, <1>5, <1>6, <1>7, <1>8, <1>9, <1>10, SpendBounded DEF Handle

LEMMA PagesBounded ==
    ASSUME IsFiniteSet(Calls), CallsInv, CallsInv', GuessesInv, Limited, NEW c \in Calls,
           Boot(c) \/ (\E kind \in Kinds : Send(c, kind)) \/ Deliver(c) \/ Lose(c)
    PROVE  GuessesBounded'
<1>0. req \in [Calls -> Requests] /\ counter["email"].n \in Nat /\ faults \in Nat
  BY CallsSplit, CountTypes DEF PagesInv, PagesOK
<1>1. counter' = counter /\ faults' \in {faults, faults + 1}
  BY DEF Boot, Send, Deliver, Lose, Refreshed, LoggedIn, NotLoggedIn, LoggedOut, Answered, server
<1>2. ASSUME NEW r, req' = [req EXCEPT ![c] = r], r.at \notin {"verify", "spend"}
      PROVE  Guessing' \subseteq Guessing
  BY <1>0, <1>2 DEF Guessing
<1>3. ASSUME NEW to \in {"login", "refresh", "logout", "query"}, NEW arg
      PROVE  Request(to, arg).at \notin {"verify", "spend"}
  BY DEF Request, Entry, PastLimiter
<1>4. ASSUME Refresh(c, req) PROVE Guessing' \subseteq Guessing
  BY <1>2, <1>3, <1>4 DEF Refresh, NoRequest
<1>5. ASSUME NEW kind \in Kinds, Send(c, kind) PROVE Guessing' \subseteq Guessing
  <2>1. kind \in {"login", "logout", "query"}
    BY <1>5 DEF Send, Kinds
  <2>2. PICK arg : req' = [req EXCEPT ![c] = Request(kind, arg)]
    BY <1>5 DEF Send
  <2> QED
    BY <1>2, <1>3, <2>1, <2>2
<1>6. ASSUME NEW fresh, Settle(c, fresh) PROVE Guessing' \subseteq Guessing
  <2>1. SettledTo(c, fresh)
    BY <1>6, SettleRequests
  <2> QED
    BY <2>1 DEF SettledTo, NoRequest, Guessing
<1>7. ASSUME LoggedIn(c) PROVE Guessing' \subseteq Guessing
  <2>1. req' = [req EXCEPT ![c] = Request("query", req[c].arg)]
    BY <1>7 DEF LoggedIn
  <2> QED
    BY <1>2, <1>3, <2>1
<1>8. ASSUME NotLoggedIn(c) \/ LoggedOut(c) \/ Answered(c) PROVE Guessing' \subseteq Guessing
  BY <1>2, <1>4, <1>8 DEF NotLoggedIn, LoggedOut, Answered, NoRequest
<1>9. Guessing' \subseteq Guessing
  BY <1>4, <1>5, <1>6, <1>7, <1>8 DEF Boot, Deliver, Lose, Refreshed
<1> QED
  BY <1>0, <1>1, <1>9, NoMoreBounded DEF NoMoreGuesses

LEMMA StepGuesses ==
    ASSUME IsFiniteSet(Calls), Times["email"] > 0
    PROVE  CallsInv /\ CallsInv' /\ GuessesInv /\ [Next]_vars => GuessesInv'
<1> SUFFICES ASSUME CallsInv, CallsInv', GuessesInv, [Next]_vars PROVE GuessesInv'
  OBVIOUS
<1>1. OwnForm' /\ NothingCounted'
  BY StepOwnForm, StepNothingCounted DEF GuessesInv
<1>2. ASSUME Tick \/ (\E n \in Pairs : Expire(n)) \/ UNCHANGED vars PROVE GuessesBounded'
  <2>1. Guessing' = Guessing /\ faults' = faults
    BY <1>2 DEF Tick, Expire, vars, Guessing
  <2>2. counter'["email"].n <= counter["email"].n
    <3>1. counter["email"] \in Counters /\ counter["email"].n \in Nat
      BY CallsSplit, CountTypes DEF ServerOK, Buckets
    <3>2. Elapse(counter["email"]).n <= counter["email"].n
      BY <3>1 DEF Elapse, Gone, Counters
    <3> QED
      BY <1>2, <3>1, <3>2 DEF Tick, Expire, vars, server, Buckets
  <2> QED
    BY <2>1, <2>2, CountTypes, NoMoreBounded DEF NoMoreGuesses
<1>3. GuessesBounded'
  <2>1. CASE Limited
    <3>1. ASSUME NEW c \in Calls, Handle(c) \/ FailOpen(c) PROVE GuessesBounded'
      BY <1>1, <2>1, <3>1, HandleBounded
    <3>2. ASSUME NEW c \in Calls,
                 Boot(c) \/ (\E kind \in Kinds : Send(c, kind)) \/ Deliver(c) \/ Lose(c)
          PROVE  GuessesBounded'
      BY <2>1, <3>2, PagesBounded
    <3> QED
      BY <1>2, <3>1, <3>2 DEF Next
  <2>2. CASE ~Limited
    BY <1>1, <2>2, UncountedBounded
  <2> QED
    BY <2>1, <2>2
<1> QED
  BY <1>1, <1>3 DEF GuessesInv

(* Wrong passwords (api/auth.py, login; core/limits.py): the email's counter *)
(* is read before a password is checked and hit after it was wrong, and any *)
(* number of logins may be between the two.  Still, however many run at     *)
(* once, those that get as far as a check stay within the limit, plus one   *)
(* for each other form in flight, plus the limiter calls that failed open.  *)
THEOREM GuessesStayBounded ==
    ASSUME IsFiniteSet(Calls), Times["email"] > 0
    PROVE  Spec => []GuessesBounded
<1>1. Init => GuessesInv
  BY InitGuesses
<1>2. CallsInv /\ CallsInv' /\ GuessesInv /\ [Next]_vars => GuessesInv'
  BY StepGuesses
<1>3. GuessesInv => GuessesBounded
  BY DEF GuessesInv
<1> QED
  BY <1>1, <1>2, <1>3, AlwaysCalls, PTL DEF Spec

-----------------------------------------------------------------------------
(* The tokens.  The invariant follows a pair from the script that records   *)
(* it, through the answer that carries it, to the cookie, and from there to *)
(* the refresh that spends it.  Five kinds of step touch one; every other   *)
(* one is Calm.                                                            *)

(* Numbers: nothing anywhere names a pair that has not been issued.        *)
NamesIssued ==
    /\ live \subseteq 1..issued /\ cookie <= issued
    /\ \A t \in Tabs : token[t] <= issued
    /\ \A c \in Calls : req[c].arg <= issued
    /\ \A n \in Pairs : spender[n] # None => n <= issued
    /\ \A n \in 1..issued : chain[n] \in 1..n

(* Between GETDEL and SET the login a refresh descends from has no good     *)
(* token at all, and no second refresh of it is there.                     *)
Rotation ==
    /\ OneLivePerLogin
    /\ \A c \in Calls : Storing(c) =>
          /\ req[c].arg \in 1..issued
          /\ \A m \in live : chain[m] # chain[req[c].arg]
          /\ \A d \in Calls :
                Storing(d) /\ chain[req[d].arg] = chain[req[c].arg] => d = c

(* A pair on its way to the browser is good, and nobody else knows of it.  *)
Holds(c) == req[c].to \in {"login", "refresh", "logout"}
Fresh(c) == req[c].to \in {"login", "refresh"} /\ req[c].at = "answered"
FreshUnknown ==
    \A c \in Calls : Fresh(c) =>
        /\ req[c].arg \in live /\ spender[req[c].arg] = None
        /\ req[c].arg # cookie
        /\ \A d \in Calls \ {c} : Holds(d) => req[d].arg # req[c].arg

(* While nothing has failed, the tab that spent the cookie's pair is still  *)
(* busy replacing it, so none of its later refreshes carries a spent one.  *)
Replacing(c) == req[c].to = "refresh" /\ req[c].at \in {"store", "answered"}
SpenderReplaces ==
    faults = 0 =>
        /\ cookie # 0 /\ spender[cookie] # None =>
              \E c \in Calls : TabOf[c] = spender[cookie] /\ Replacing(c)
        /\ \A c \in Calls :
              req[c].to = "refresh" /\ req[c].arg # 0 /\ ~Replacing(c)
              => spender[req[c].arg] # TabOf[c]

(* While nothing has failed, a dead cookie is about to be replaced or       *)
(* cleared.                                                                *)
DeadCookieGoes ==
    faults = 0 /\ cookie \notin live \cup {0} =>
        \E c \in Calls : Replacing(c) \/ At(c, "logout", "answered")

TokensInv ==
    NamesIssued /\ Rotation /\ FreshUnknown /\ SpenderReplaces /\ DeadCookieGoes

-----------------------------------------------------------------------------
(* The kinds of step. *)

Kept == UNCHANGED <<live, issued, cookie, chain, spender>>

(* A request that changes without touching a token: it was not replacing the *)
(* cookie's pair nor about to clear the cookie, it does not do so now, and if *)
(* it is new it carries the cookie, and is the only refresh of its tab.    *)
Special(c) == Fresh(c) \/ Replacing(c) \/ At(c, "logout", "answered")
Carries(c, d) == TabOf[d] = TabOf[c] /\ req[d].to = "refresh"

CalmRequest(c) ==
    \/ req'[c] = req[c]
    \/ /\ ~Special(c)' /\ req'[c].arg <= issued
       /\ Replacing(c) \/ At(c, "logout", "answered") => faults' > 0
       /\ Holds(c)' =>
             \/ req'[c].to = req[c].to /\ req'[c].arg = req[c].arg
             \/ req'[c].arg = 0
             \/ /\ req'[c].arg = cookie
                /\ req'[c].to = "refresh" => \A d \in Calls : ~Carries(c, d)

Calm ==
    /\ Kept
    /\ \A t \in Tabs : token'[t] <= issued
    /\ faults' >= faults
    /\ \A c \in Calls : CalmRequest(c)

(* The answer that c carries reaches the browser, or the browser forgets.   *)
OthersAsk(c) ==
    \A d \in Calls \ {c} :
        req'[d] = req[d] \/ (req[d] = NoRequest /\ req'[d].to \in {"none", "query"}
                                             /\ req'[d].arg <= issued)
Takes(c) ==
    /\ UNCHANGED <<live, issued, chain, spender, faults>>
    /\ \A t \in Tabs : token'[t] <= issued
    /\ Fresh(c) /\ cookie' = req[c].arg
    /\ req'[c].to \in {"none", "query"} /\ req'[c].arg <= issued
    /\ OthersAsk(c)

-----------------------------------------------------------------------------
LEMMA TokenTypes ==
    ASSUME CallsInv
    PROVE  /\ issued \in Nat /\ issued <= MaxIssued /\ cookie \in Nat /\ faults \in Nat
           /\ live \subseteq Pairs /\ Pairs \subseteq Nat
           /\ chain \in [Pairs -> 0..MaxIssued] /\ spender \in [Pairs -> Tabs \cup {None}]
           /\ token \in [Tabs -> Nat]
           /\ req \in [Calls -> Requests] /\ \A c \in Calls : req[c].arg \in Nat
BY CallsSplit DEF ServerOK, PagesInv, PagesOK, Requests, Pairs

LEMMA InitTokens == Init => TokensInv
BY DEF Init, TokensInv, NamesIssued, Rotation, OneLivePerLogin, Storing, FreshUnknown, Fresh,
       SpenderReplaces, Replacing, DeadCookieGoes, At, NoRequest, Pairs

LEMMA CalmTokens ==
    ASSUME CallsInv, CallsInv', TokensInv, Calm PROVE TokensInv'
<1> USE TokenTypes DEF Calm, Kept
<1>1. NamesIssued'
  BY DEF TokensInv, NamesIssued, CalmRequest
<1>2. \A c \in Calls : Special(c)' => req'[c] = req[c]
  BY DEF CalmRequest
<1>3. Rotation'
  BY <1>2 DEF TokensInv, Rotation, Storing, Special, Replacing, At, OneLivePerLogin
<1>4. FreshUnknown'
  <2> SUFFICES ASSUME NEW c \in Calls, Fresh(c)', NEW d \in Calls \ {c}, Holds(d)'
               PROVE  req'[d].arg # req'[c].arg
    BY <1>2 DEF TokensInv, FreshUnknown, Fresh, Special
  <2>1. req'[c] = req[c] /\ Fresh(c) /\ req[c].arg \in live /\ req[c].arg # cookie
    BY <1>2 DEF TokensInv, FreshUnknown, Fresh, Special
  <2>2. req[c].arg # 0
    BY <2>1 DEF Pairs
  <2> QED
    BY <2>1, <2>2 DEF TokensInv, FreshUnknown, CalmRequest, Holds
<1>5. \A c \in Calls : Replacing(c) \/ At(c, "logout", "answered")
         => faults' > 0 \/ req'[c] = req[c]
  BY DEF CalmRequest
<1>6. SpenderReplaces'
  <2> SUFFICES ASSUME faults' = 0 PROVE SpenderReplaces'
    BY DEF SpenderReplaces
  <2>1. faults = 0 /\ \A c \in Calls : Replacing(c) => Replacing(c)'
    BY <1>5 DEF Replacing
  <2>2. ASSUME NEW c \in Calls, req'[c].to = "refresh", req'[c].arg # 0, ~Replacing(c)'
        PROVE  spender[req'[c].arg] # TabOf[c]
    <3>1. CASE req[c].to = "refresh" /\ req'[c].arg = req[c].arg
      BY <2>1, <2>2, <3>1 DEF TokensInv, SpenderReplaces
    <3>2. CASE req'[c].arg = cookie /\ \A d \in Calls : ~Carries(c, d)
      BY <2>1, <2>2, <3>2 DEF TokensInv, SpenderReplaces, Carries, Replacing
    <3> QED
      BY <2>2, <3>1, <3>2 DEF CalmRequest, Holds
  <2> QED
    BY <2>1, <2>2 DEF TokensInv, SpenderReplaces
<1>7. DeadCookieGoes'
  BY <1>5 DEF TokensInv, DeadCookieGoes, Replacing, At
<1> QED
  BY <1>1, <1>3, <1>4, <1>6, <1>7 DEF TokensInv

LEMMA TakesTokens ==
    ASSUME CallsInv, CallsInv', TokensInv, NEW c \in Calls, Takes(c) PROVE TokensInv'
<1> USE TokenTypes DEF Takes
<1>1. /\ req[c].arg \in live /\ spender[req[c].arg] = None
      /\ \A d \in Calls \ {c} : Holds(d) => req[d].arg # req[c].arg
  BY DEF TokensInv, FreshUnknown
<1>2. \A d \in Calls : Holds(d)' => d # c /\ req'[d] = req[d] /\ Holds(d)
  BY DEF OthersAsk, Holds
<1>3. NamesIssued'
  BY <1>1 DEF TokensInv, NamesIssued, OthersAsk
<1>4. Rotation'
  BY <1>2 DEF TokensInv, Rotation, Storing, At, OneLivePerLogin, Holds
<1>5. FreshUnknown'
  <2> SUFFICES ASSUME NEW d \in Calls, Fresh(d)'
               PROVE  /\ req'[d].arg \in live /\ spender[req'[d].arg] = None
                      /\ req'[d].arg # cookie'
                      /\ \A e \in Calls \ {d} : Holds(e)' => req'[e].arg # req'[d].arg
    BY DEF FreshUnknown
  <2>1. d # c /\ req'[d] = req[d] /\ Fresh(d) /\ req[d].arg \in live /\ req[d].arg # 0
    BY <1>2 DEF Fresh, Holds, TokensInv, FreshUnknown, Pairs
  <2>2. Holds(c) /\ \A e \in Calls \ {d} : Holds(e)' => req'[e].arg # req[d].arg
    BY <1>2, <2>1 DEF TokensInv, FreshUnknown, Fresh, Holds
  <2> QED
    BY <1>1, <2>1, <2>2 DEF TokensInv, FreshUnknown, Fresh
<1>6. SpenderReplaces'
  BY <1>1, <1>2 DEF TokensInv, SpenderReplaces, Replacing, Holds
<1>7. DeadCookieGoes'
  BY <1>1 DEF DeadCookieGoes
<1> QED
  BY <1>3, <1>4, <1>5, <1>6, <1>7 DEF TokensInv

LEMMA ConsumeTokens ==
    ASSUME CallsInv, TokensInv, NEW c \in Calls, Consume(c) PROVE TokensInv'
<1> DEFINE id == req[c].arg
<1>1. /\ req[c].to = "refresh" /\ req[c].at = "consume" /\ id \in Nat
      /\ live' = live \ {id} /\ UNCHANGED <<issued, cookie, token, chain, faults>>
      /\ id \in live => spender' = [spender EXCEPT ![id] = TabOf[c]]
      /\ id \notin live => spender' = spender
  BY TokenTypes DEF Consume, Consumed, At, server, page
<1>2. \A d \in Calls \ {c} : req'[d] = req[d]
  BY TokenTypes DEF Consume, Moved
<1>3. /\ req'[c].to = "refresh" /\ req'[c].arg = id
      /\ req'[c].at = IF id \in live THEN "store" ELSE "refused"
  BY <1>1, TokenTypes DEF Consume, Moved, Requests
<1> HIDE DEF id
<1> USE TokenTypes
<1>4. id \in live => id \in 1..issued /\ id \in Pairs
  BY DEF TokensInv, NamesIssued
<1>5. \A n \in Pairs : IF n = id /\ id \in live THEN spender'[n] = TabOf[c] ELSE spender'[n] = spender[n]
  BY <1>1
<1>6. \A d \in Calls : req'[d].arg = req[d].arg
  BY <1>2, <1>3 DEF id
<1>7. NamesIssued'
  <2>1. \A n \in Pairs : spender'[n] # None => n <= issued
    BY <1>4, <1>5 DEF TokensInv, NamesIssued
  <2> QED
    BY <1>1, <1>6, <2>1 DEF TokensInv, NamesIssued
<1>8. \A d \in Calls \ {c} : /\ Storing(d)' <=> Storing(d)
                             /\ Fresh(d)' <=> Fresh(d)
                             /\ Replacing(d)' <=> Replacing(d)
  BY <1>2 DEF Storing, Fresh, Replacing, At
<1>9. Rotation'
  <2>1. OneLivePerLogin'
    BY <1>1 DEF TokensInv, Rotation, OneLivePerLogin
  <2>2. \A d \in Calls \ {c} : Storing(d) /\ id \in live => chain[req[d].arg] # chain[id]
    BY DEF TokensInv, Rotation
  <2>3. Storing(c)' => id \in live
    BY <1>3 DEF Storing, At
  <2>4. ASSUME NEW d \in Calls, Storing(d)'
        PROVE  /\ req'[d].arg \in 1..issued
               /\ \A m \in live' : chain[m] # chain[req'[d].arg]
    <3>1. CASE d = c
      BY <1>1, <1>3, <2>3, <2>4, <3>1 DEF TokensInv, Rotation, OneLivePerLogin, NamesIssued
    <3>2. CASE d # c
      BY <1>1, <1>2, <1>8, <2>4, <3>2 DEF TokensInv, Rotation
    <3> QED
      BY <3>1, <3>2
  <2>5. ASSUME NEW d \in Calls, NEW e \in Calls, Storing(d)', Storing(e)',
               chain[req'[d].arg] = chain[req'[e].arg], d # e
        PROVE  FALSE
    BY <1>2, <1>3, <1>8, <2>2, <2>3, <2>5 DEF TokensInv, Rotation
  <2> QED
    BY <1>1, <2>1, <2>4, <2>5 DEF Rotation
<1>10. FreshUnknown'
  <2>1. ~Fresh(c)' /\ (Holds(c)' <=> Holds(c)) /\ Holds(c)
    BY <1>1, <1>3 DEF Fresh, Holds
  <2>2. \A d \in Calls : Holds(d)' <=> Holds(d)
    BY <1>2, <2>1 DEF Holds
  <2>3. \A d \in Calls : req'[d].arg = req[d].arg
    BY <1>2, <1>3 DEF id
  <2> QED
    BY <1>1, <1>8, <2>1, <2>2, <2>3 DEF TokensInv, FreshUnknown, id
<1>11. SpenderReplaces'
  <2> SUFFICES ASSUME faults = 0 PROVE SpenderReplaces'
    BY <1>1 DEF SpenderReplaces
  <2>1. ~Replacing(c) /\ (Replacing(c)' <=> id \in live)
    BY <1>1, <1>3 DEF Replacing
  <2>2. cookie # 0 /\ spender'[cookie] # None =>
           \E d \in Calls : TabOf[d] = spender'[cookie] /\ Replacing(d)'
    <3>1. CASE id \in live /\ cookie = id
      BY <1>1, <2>1, <3>1
    <3>2. CASE ~(id \in live /\ cookie = id)
      <4>1. cookie # 0 => spender'[cookie] = spender[cookie]
        BY <1>5, <3>2 DEF TokensInv, NamesIssued, Pairs
      <4> QED
        BY <1>8, <2>1, <4>1 DEF TokensInv, SpenderReplaces
    <3> QED
      BY <3>1, <3>2
  <2>3. ASSUME NEW d \in Calls, req'[d].to = "refresh", req'[d].arg # 0, ~Replacing(d)'
        PROVE  spender'[req'[d].arg] # TabOf[d]
    <3>1. CASE d = c
      BY <1>1, <1>3, <2>1, <2>3, <3>1 DEF TokensInv, SpenderReplaces, id
    <3>2. CASE d # c
      <4>1. TabOf[d] # TabOf[c]
        BY <1>1, <1>2, <2>3, <3>2 DEF CallsInv, SingleFlight
      <4>2. spender[req[d].arg] # TabOf[d]
        BY <1>2, <1>8, <2>3, <3>2 DEF TokensInv, SpenderReplaces
      <4>3. req[d].arg \in Pairs
        BY <1>2, <2>3, <3>2 DEF TokensInv, NamesIssued, Pairs
      <4> QED
        BY <1>2, <1>5, <3>2, <4>1, <4>2, <4>3
    <3> QED
      BY <3>1, <3>2
  <2> QED
    BY <1>1, <2>2, <2>3 DEF SpenderReplaces
<1>12. DeadCookieGoes'
  <2> SUFFICES ASSUME faults = 0, cookie \notin live' \cup {0}
               PROVE  \E d \in Calls : Replacing(d)' \/ At(d, "logout", "answered")'
    BY <1>1 DEF DeadCookieGoes
  <2>1. CASE id \in live /\ cookie = id
    BY <1>3, <2>1 DEF Replacing
  <2>2. CASE ~(id \in live /\ cookie = id)
    <3>1. PICK d \in Calls : Replacing(d) \/ At(d, "logout", "answered")
      BY <1>1, <2>2 DEF TokensInv, DeadCookieGoes
    <3>2. d # c
      BY <1>1, <3>1 DEF Replacing, At
    <3> QED
      BY <1>2, <3>1, <3>2 DEF Replacing, At
  <2> QED
    BY <2>1, <2>2
<1> QED
  BY <1>7, <1>9, <1>10, <1>11, <1>12 DEF TokensInv

LEMMA StoreTokens ==
    ASSUME CallsInv, TokensInv, NEW c \in Calls, Store(c) PROVE TokensInv'
<1> DEFINE n == issued + 1
<1>1. /\ n \in Pairs /\ issued' = n /\ live' = live \cup {n}
      /\ UNCHANGED <<cookie, token, spender, faults>>
      /\ chain' = [chain EXCEPT ![n] = IF req[c].to = "login" THEN n ELSE chain[req[c].arg]]
      /\ req[c].to \in {"login", "refresh"} /\ req[c].at = "store"
  BY StoreStep DEF Store, page
<1>2. \A d \in Calls \ {c} : req'[d] = req[d]
  BY StoreStep, TokenTypes
<1>3. req'[c].to = req[c].to /\ req'[c].arg = n /\ req'[c].at = "answered"
  BY StoreStep, TokenTypes DEF Stored
<1> USE TokenTypes
<1>4. req[c].to = "refresh" => Storing(c) /\ req[c].arg \in 1..issued
  BY <1>1 DEF Storing, At, TokensInv, Rotation
<1>5. chain'[n] \in 1..n /\ \A m \in 1..issued : chain'[m] = chain[m]
  <2>1. req[c].to = "refresh" => chain[req[c].arg] \in 1..n
    BY <1>4 DEF TokensInv, NamesIssued
  <2> QED
    BY <1>1, <2>1 DEF Pairs
<1> HIDE DEF n
<1>6. NamesIssued'
  <2>1. 1..issued' = 1..issued \cup {n} /\ issued < n
    BY <1>1 DEF n
  <2>2. live' \subseteq 1..issued' /\ \A m \in 1..issued' : chain'[m] \in 1..m
    BY <1>1, <1>5, <2>1 DEF TokensInv, NamesIssued
  <2>3. \A d \in Calls : req'[d].arg <= issued'
    BY <1>1, <1>2, <1>3, <2>1 DEF TokensInv, NamesIssued
  <2>4. /\ cookie' <= issued' /\ \A t \in Tabs : token'[t] <= issued'
        /\ \A m \in Pairs : spender'[m] # None => m <= issued'
    BY <1>1, <2>1 DEF TokensInv, NamesIssued, Pairs
  <2> QED
    BY <2>2, <2>3, <2>4 DEF NamesIssued
<1>7. \A m \in live : m \in 1..issued /\ m # n /\ chain'[m] = chain[m] /\ chain[m] # chain'[n]
  <2>1. live \subseteq 1..issued /\ issued < n
    BY DEF TokensInv, NamesIssued, n
  <2>2. CASE req[c].to = "login"
    <3>1. chain'[n] = n
      BY <1>1, <2>2
    <3> QED
      BY <1>5, <2>1, <3>1 DEF TokensInv, NamesIssued
  <2>3. CASE req[c].to = "refresh"
    <3>1. chain'[n] = chain[req[c].arg]
      BY <1>1, <2>3
    <3> QED
      BY <1>4, <1>5, <2>1, <2>3, <3>1 DEF TokensInv, Rotation
  <2> QED
    BY <1>1, <2>2, <2>3
<1>8. \A d \in Calls : Storing(d)' => d # c /\ Storing(d) /\ req'[d] = req[d]
                       /\ req[d].arg \in 1..issued
  BY <1>2, <1>3 DEF Storing, At, TokensInv, Rotation
<1>9. \A d \in Calls : Storing(d)' => chain'[n] # chain[req[d].arg]
  <2> SUFFICES ASSUME NEW d \in Calls, Storing(d)' PROVE chain'[n] # chain[req[d].arg]
    OBVIOUS
  <2>1. d # c /\ Storing(d) /\ req[d].arg \in 1..issued
    BY <1>8
  <2>2. CASE req[c].to = "login"
    BY <1>1, <2>1, <2>2 DEF TokensInv, NamesIssued, n
  <2>3. CASE req[c].to = "refresh"
    BY <1>1, <1>4, <2>1, <2>3 DEF TokensInv, Rotation
  <2> QED
    BY <1>1, <2>2, <2>3
<1>10. Rotation'
  <2>1. OneLivePerLogin'
    BY <1>1, <1>7 DEF TokensInv, Rotation, OneLivePerLogin
  <2>2. \A d \in Calls : Storing(d)' =>
           /\ req'[d].arg \in 1..issued'
           /\ \A m \in live' : chain'[m] # chain'[req'[d].arg]
    BY <1>1, <1>5, <1>7, <1>8, <1>9 DEF TokensInv, Rotation, n
  <2>3. \A d, e \in Calls : Storing(d)' /\ Storing(e)' /\ chain'[req'[d].arg] = chain'[req'[e].arg]
           => d = e
    BY <1>5, <1>8 DEF TokensInv, Rotation
  <2> QED
    BY <2>1, <2>2, <2>3 DEF Rotation
<1>11. FreshUnknown'
  <2>1. spender[n] = None /\ n # cookie /\ \A d \in Calls : req[d].arg # n
    BY <1>1 DEF TokensInv, NamesIssued, n
  <2>2. \A d \in Calls \ {c} : (Fresh(d)' <=> Fresh(d)) /\ (Holds(d)' <=> Holds(d))
    BY <1>2 DEF Fresh, Holds
  <2> QED
    BY <1>1, <1>2, <1>3, <2>1, <2>2 DEF TokensInv, FreshUnknown
<1>12. \A d \in Calls : /\ Replacing(d) => Replacing(d)'
                        /\ At(d, "logout", "answered") => At(d, "logout", "answered")'
                        /\ Replacing(d)' => Replacing(d)
  BY <1>1, <1>2, <1>3 DEF Replacing, At
<1>13. SpenderReplaces'
  BY <1>1, <1>2, <1>3, <1>12 DEF TokensInv, SpenderReplaces, Replacing
<1>14. DeadCookieGoes'
  BY <1>1, <1>12 DEF TokensInv, DeadCookieGoes
<1> QED
  BY <1>6, <1>10, <1>11, <1>13, <1>14 DEF TokensInv

LEMMA RevokeTokens ==
    ASSUME CallsInv, TokensInv, NEW c \in Calls, Revoke(c) PROVE TokensInv'
<1>1. /\ req[c].to = "logout" /\ req[c].at = "revoke" /\ live' = live \ {req[c].arg}
      /\ UNCHANGED <<issued, cookie, token, chain, spender, faults>>
  BY DEF Revoke, At, page
<1>2. \A d \in Calls \ {c} : req'[d] = req[d]
  BY TokenTypes DEF Revoke, Moved
<1>3. req'[c].to = "logout" /\ req'[c].arg = req[c].arg /\ req'[c].at = "answered"
  BY <1>1, TokenTypes DEF Revoke, Moved, Requests
<1> USE TokenTypes
<1>4. NamesIssued'
  BY <1>1, <1>2, <1>3 DEF TokensInv, NamesIssued
<1>5. \A d \in Calls : /\ Storing(d)' <=> Storing(d)
                       /\ Fresh(d)' <=> Fresh(d)
                       /\ Replacing(d)' <=> Replacing(d)
                       /\ Holds(d)' <=> Holds(d)
                       /\ req'[d].arg = req[d].arg /\ req'[d].to = req[d].to
  BY <1>1, <1>2, <1>3 DEF Storing, Fresh, Replacing, At, Holds
<1>6. Rotation'
  BY <1>1, <1>5 DEF TokensInv, Rotation, OneLivePerLogin
<1>7. FreshUnknown'
  <2>1. \A d \in Calls : Fresh(d) => d # c /\ req[d].arg # req[c].arg
    BY <1>1 DEF TokensInv, FreshUnknown, Fresh, Holds
  <2> QED
    BY <1>1, <1>5, <2>1 DEF TokensInv, FreshUnknown
<1>8. SpenderReplaces'
  BY <1>1, <1>5 DEF TokensInv, SpenderReplaces
<1>9. DeadCookieGoes'
  BY <1>3 DEF DeadCookieGoes, At
<1> QED
  BY <1>4, <1>6, <1>7, <1>8, <1>9 DEF TokensInv

LEMMA LoggedOutTokens ==
    ASSUME CallsInv, TokensInv, NEW c \in Calls, LoggedOut(c) PROVE TokensInv'
<1>1. /\ cookie' = 0 /\ token' = [token EXCEPT ![TabOf[c]] = 0]
      /\ UNCHANGED <<issued, live, chain, spender, faults>>
      /\ req' = [req EXCEPT ![c] = NoRequest]
  BY DEF LoggedOut, server
<1> USE TokenTypes
<1>2. \A d \in Calls : req'[d] = NoRequest \/ (d # c /\ req'[d] = req[d])
  BY <1>1
<1>3. NamesIssued'
  BY <1>1, <1>2 DEF TokensInv, NamesIssued, NoRequest
<1>4. Rotation'
  BY <1>1, <1>2 DEF TokensInv, Rotation, OneLivePerLogin, Storing, At, NoRequest
<1>5. FreshUnknown'
  <2>1. \A d \in Calls : Fresh(d)' \/ Holds(d)' => req'[d] = req[d]
    BY <1>2 DEF Fresh, Holds, NoRequest
  <2> QED
    BY <1>1, <2>1 DEF TokensInv, FreshUnknown, Fresh, Holds, Pairs
<1>6. SpenderReplaces'
  BY <1>1, <1>2 DEF TokensInv, SpenderReplaces, Replacing, NoRequest
<1>7. DeadCookieGoes'
  BY <1>1 DEF DeadCookieGoes
<1> QED
  BY <1>3, <1>4, <1>5, <1>6, <1>7 DEF TokensInv

-----------------------------------------------------------------------------
(* Every other step is Calm, or takes a pair. *)

LEMMA MovedCalm ==
    ASSUME CallsInv, NamesIssued, NEW c \in Calls, NEW stage, req' = Moved(c, stage),
           Kept, UNCHANGED token, faults' \in {faults, faults + 1},
           ~Special(c), stage = "answered" => req[c].to \notin {"login", "refresh", "logout"},
           stage = "store" => req[c].to # "refresh"
    PROVE  Calm
<1> USE TokenTypes
<1>1. \A d \in Calls \ {c} : req'[d] = req[d]
  BY DEF Moved
<1>2. req'[c].to = req[c].to /\ req'[c].arg = req[c].arg /\ req'[c].at = stage
  BY DEF Moved, Requests
<1>3. ~Special(c)'
  BY <1>2 DEF Special, Fresh, Replacing, At
<1>4. CalmRequest(c)
  BY <1>2, <1>3 DEF CalmRequest, NamesIssued, Special
<1> QED
  BY <1>1, <1>4 DEF Calm, CalmRequest, NamesIssued

(* One call's request changes to one that holds nothing, or nothing new.    *)
Changes(c, r) ==
    /\ r \in Requests /\ req' = [req EXCEPT ![c] = r]
    /\ r.at \notin {"store", "answered"} /\ r.arg <= issued
    /\ r.to \notin {"none", "query"} =>
          \/ r.arg = 0
          \/ r.arg = cookie /\ (r.to = "refresh" => \A d \in Calls : ~Carries(c, d))

LEMMA ChangedCalm ==
    ASSUME CallsInv, NamesIssued, NEW c \in Calls, NEW r, Changes(c, r),
           Kept, UNCHANGED <<token, faults>>, ~Special(c) \/ req[c].to = "login"
    PROVE  Calm
<1> USE TokenTypes
<1>1. req'[c] = r /\ \A d \in Calls \ {c} : req'[d] = req[d]
  BY DEF Changes
<1>2. ~Special(c)'
  BY <1>1 DEF Changes, Special, Fresh, Replacing, At
<1>3. ~Replacing(c) /\ ~At(c, "logout", "answered")
  BY DEF Special, Replacing, At
<1>4. CalmRequest(c)
  BY <1>1, <1>2, <1>3 DEF Changes, CalmRequest, Holds
<1> QED
  BY <1>1, <1>4 DEF Calm, CalmRequest, NamesIssued

LEMMA RefreshCalm ==
    ASSUME CallsInv, NamesIssued, NEW c \in Calls, Refresh(c, req),
           Kept, UNCHANGED <<token, faults>>, ~Special(c)
    PROVE  Calm
<1> USE TokenTypes
<1>1. CASE SharesFlight(TabOf[c])
  <2>1. req' = [req EXCEPT ![c] = NoRequest]
    BY <1>1 DEF Refresh
  <2>2. Changes(c, NoRequest)
    BY <2>1, NothingRequested DEF NoRequest, Changes
  <2> QED
    BY <2>2, ChangedCalm
<1>2. CASE ~SharesFlight(TabOf[c])
  <2>1. req' = [req EXCEPT ![c] = Request("refresh", cookie)] /\ flight[TabOf[c]] = None
    BY <1>2 DEF Refresh, SharesFlight
  <2>2. \A d \in Calls : ~Carries(c, d)
    BY <2>1 DEF Carries, CallsInv, SingleFlight
  <2>3. cookie \in 0..MaxIssued
    BY CallsSplit DEF ServerOK
  <2>4. Changes(c, Request("refresh", cookie))
    BY <2>1, <2>2, <2>3, RequestMade DEF NamesIssued, Changes
  <2> QED
    BY <2>4, ChangedCalm
<1> QED
  BY <1>1, <1>2

LEMMA GivesUpCalm ==
    ASSUME CallsInv, NamesIssued, NEW c \in Calls, Settle(c, 0), Kept, req[c].to = "refresh",
           \A t \in Tabs : token'[t] \in {0, token[t]},
           \/ faults' = faults /\ ~Special(c)
           \/ faults' = faults + 1
    PROVE  Calm
<1> USE TokenTypes
<1>0. SettledTo(c, 0)
  BY SettleRequests
<1>1. \A d \in Calls : req'[d] = req[d]
         \/ ((d = c \/ req[d] = NoRequest) /\ req'[d].to \in {"none", "query"} /\ req'[d].arg = 0)
  BY <1>0 DEF SettledTo, NoRequest
<1>2. \A d \in Calls : CalmRequest(d)
  <2> SUFFICES ASSUME NEW d \in Calls, req'[d] # req[d] PROVE CalmRequest(d)
    BY DEF CalmRequest
  <2>1. ~Special(d)' /\ ~Holds(d)' /\ req'[d].arg <= issued
    BY <1>1 DEF Special, Fresh, Replacing, At, Holds
  <2>2. Replacing(d) \/ At(d, "logout", "answered") => faults' > 0
    <3>1. CASE d = c
      BY <3>1 DEF Special
    <3>2. CASE d # c
      BY <1>1, <3>2 DEF Replacing, At, NoRequest
    <3> QED
      BY <3>1, <3>2
  <2> QED
    BY <2>1, <2>2 DEF CalmRequest
<1> QED
  BY <1>2 DEF Calm, NamesIssued

LEMMA HandleTokens ==
    ASSUME CallsInv, CallsInv', TokensInv, NEW c \in Calls, Handle(c) \/ FailOpen(c)
    PROVE  TokensInv'
<1>0. NamesIssued
  BY DEF TokensInv
<1>1. ASSUME NEW stage \in Stages, req' = Moved(c, stage), Kept, UNCHANGED token,
             faults' \in {faults, faults + 1}, ~Special(c),
             stage = "answered" => req[c].to \notin {"login", "refresh", "logout"},
             stage = "store" => req[c].to # "refresh"
      PROVE  TokensInv'
  BY <1>0, <1>1, MovedCalm, CalmTokens
<1> USE DEF Special, Fresh, Replacing, At, Kept, server, page, Stages
<1>2. CASE Enforce(c)
  <2>1. req[c].to \in {"login", "refresh"} /\ PastLimiter[req[c].to] \in {"peek", "verify", "consume"}
    BY <1>2 DEF Enforce, PastLimiter
  <2> QED
    BY <1>1, <1>2, <2>1 DEF Enforce
<1>3. CASE Peek(c)
  BY <1>1, <1>3 DEF Peek
<1>4. CASE Verify(c)
  BY <1>1, <1>4 DEF Verify
<1>5. CASE Spend(c)
  BY <1>1, <1>5 DEF Spend
<1>6. CASE Reset(c)
  BY <1>1, <1>6 DEF Reset
<1>7. CASE Check(c)
  BY <1>1, <1>7 DEF Check
<1>8. CASE FailOpen(c)
  <2>1. req[c].at \in Route[req[c].to]
    BY DEF CallsInv, OnRoute
  <2>2. req[c].to \in {"none", "login", "refresh", "logout", "query"}
    BY TokenTypes DEF Requests
  <2>3. PICK stage \in {"peek", "verify", "consume", "refused", "store"} :
           req' = Moved(c, stage) /\ (stage = "store" => req[c].at = "reset")
    BY <1>8, <2>1, <2>2, Routes DEF FailOpen, PastLimiter
  <2>4. req[c].at \in {"enforce", "peek", "spend", "reset"}
    BY <1>8 DEF FailOpen
  <2>5. req[c].at = "reset" => req[c].to # "refresh"
    BY <2>1, Routes
  <2>6. Kept /\ UNCHANGED token /\ faults' = faults + 1
    BY <1>8 DEF FailOpen
  <2> QED
    BY <1>1, <2>3, <2>4, <2>5, <2>6
<1> QED
  BY <1>2, <1>3, <1>4, <1>5, <1>6, <1>7, <1>8, ConsumeTokens, StoreTokens, RevokeTokens DEF Handle

LEMMA ClientTokens ==
    ASSUME CallsInv, CallsInv', TokensInv, NEW c \in Calls,
           Boot(c) \/ (\E kind \in Kinds : Send(c, kind))
    PROVE  TokensInv'
<1>0. NamesIssued
  BY DEF TokensInv
<1>1. req[c] = NoRequest /\ ~Special(c)
  BY DEF CallsInv, OverIsQuiet, Free, Boot, Send, Special, Fresh, Replacing, At, NoRequest
<1>2. CASE Boot(c)
  <2>1. Calm
    BY <1>0, <1>1, <1>2, RefreshCalm DEF Boot, Kept, server
  <2> QED
    BY <2>1, CalmTokens
<1>3. ASSUME NEW kind \in Kinds, Send(c, kind) PROVE TokensInv'
  <2> DEFINE arg == CASE kind = "login" -> 0 [] kind = "logout" -> cookie
                      [] OTHER -> token[TabOf[c]]
  <2>1. kind \in {"login", "logout", "query"}
    BY <1>3 DEF Send, Kinds
  <2>2. arg \in 0..MaxIssued /\ arg <= issued
    BY <1>0, <2>1, CallsSplit DEF ServerOK, NamesIssued
  <2>3. req' = [req EXCEPT ![c] = Request(kind, arg)]
    BY <1>3 DEF Send
  <2>4. (kind = "login" => arg = 0) /\ (kind = "logout" => arg = cookie)
    BY <2>1
  <2> HIDE DEF arg
  <2>5. Changes(c, Request(kind, arg))
    BY <2>1, <2>2, <2>3, <2>4, RequestMade DEF Changes
  <2>6. Calm
    BY <1>0, <1>1, <1>3, <2>5, ChangedCalm DEF Send, Kept, server
  <2> QED
    BY <2>6, CalmTokens
<1> QED
  BY <1>2, <1>3

LEMMA DeliverTokens ==
    ASSUME CallsInv, CallsInv', TokensInv, NEW c \in Calls, Deliver(c) \/ Lose(c)
    PROVE  TokensInv'
<1>0. NamesIssued
  BY DEF TokensInv
<1> USE TokenTypes
<1>1. ASSUME Calm PROVE TokensInv'
  BY <1>1, CalmTokens
<1>2. CASE Refreshed(c)
  <2>1. CASE req[c].at = "answered"
    <3>1. Settle(c, req[c].arg) /\ cookie' \in {cookie, req[c].arg} /\ token' = [token EXCEPT ![TabOf[c]] = req[c].arg]
      BY <1>2, <2>1 DEF Refreshed
    <3>2. Fresh(c) /\ req[c].arg # 0
      BY <1>2, <2>1 DEF Refreshed, Fresh, TokensInv, FreshUnknown, Pairs
    <3>3. cookie' = req[c].arg
      BY <1>2, <2>1, <3>2 DEF Refreshed
    <3>4. SettledTo(c, req[c].arg)
      BY <3>1, SettleRequests
    <3>5. req'[c].to \in {"none", "query"} /\ req'[c].arg <= issued
      BY <1>0, <3>4 DEF SettledTo, NamesIssued, NoRequest
    <3>6. OthersAsk(c)
      BY <1>0, <3>4 DEF SettledTo, NamesIssued, NoRequest, OthersAsk
    <3>7. Takes(c)
      BY <1>0, <1>2, <3>1, <3>2, <3>3, <3>5, <3>6 DEF Takes, Refreshed, server, NamesIssued
    <3> QED
      BY <3>7, TakesTokens
  <2>2. CASE req[c].at # "answered"
    <3>1. Settle(c, 0) /\ cookie' = cookie /\ token' = [token EXCEPT ![TabOf[c]] = 0]
          /\ req[c].to = "refresh" /\ req[c].at = "refused" /\ faults' = faults
      BY <1>2, <2>2 DEF Refreshed
    <3>2. ~Special(c) /\ Kept /\ \A t \in Tabs : token'[t] \in {0, token[t]}
      BY <1>2, <3>1 DEF Refreshed, Special, Fresh, Replacing, At, Kept, server
    <3> QED
      BY <1>0, <1>1, <3>1, <3>2, GivesUpCalm
  <2> QED
    BY <2>1, <2>2
<1>3. CASE Lose(c)
  <2>1. Settle(c, 0) /\ req[c].to = "refresh" /\ faults' = faults + 1 /\ Kept
    BY <1>3 DEF Lose, Kept, server
  <2>2. \A t \in Tabs : token'[t] \in {0, token[t]}
    BY <1>3 DEF Lose
  <2> QED
    BY <1>0, <1>1, <2>1, <2>2, GivesUpCalm
<1>4. CASE LoggedIn(c)
  <2>1. /\ Fresh(c) /\ cookie' = req[c].arg /\ token' = [token EXCEPT ![TabOf[c]] = req[c].arg]
        /\ req' = [req EXCEPT ![c] = Request("query", req[c].arg)]
        /\ UNCHANGED <<issued, live, chain, spender, faults>>
    BY <1>4 DEF LoggedIn, Fresh, At, server
  <2>2. req[c].arg \in 0..MaxIssued
    BY DEF Requests
  <2>3. req'[c].to = "query" /\ req'[c].arg = req[c].arg
    BY <2>1, <2>2, RequestMade
  <2>4. OthersAsk(c)
    BY <2>1 DEF OthersAsk
  <2>5. Takes(c)
    BY <1>0, <2>1, <2>3, <2>4 DEF Takes, NamesIssued
  <2> QED
    BY <2>5, TakesTokens
<1>5. CASE NotLoggedIn(c)
  <2>1. req' = [req EXCEPT ![c] = NoRequest] /\ req[c].to = "login" /\ Kept /\ UNCHANGED <<token, faults>>
    BY <1>5 DEF NotLoggedIn, At, Kept, server
  <2>2. Changes(c, NoRequest)
    BY <2>1, NothingRequested DEF Changes, NoRequest
  <2> QED
    BY <1>0, <1>1, <2>1, <2>2, ChangedCalm
<1>6. CASE Answered(c)
  <2>1. Kept /\ UNCHANGED <<token, faults>> /\ ~Special(c)
    BY <1>6 DEF Answered, Kept, server, Special, Fresh, Replacing, At
  <2>2. CASE Refresh(c, req)
    BY <1>0, <1>1, <2>1, <2>2, RefreshCalm
  <2>3. CASE req' = [req EXCEPT ![c] = NoRequest]
    <3>1. Changes(c, NoRequest)
      BY <2>3, NothingRequested DEF Changes, NoRequest
    <3> QED
      BY <1>0, <1>1, <2>1, <3>1, ChangedCalm
  <2> QED
    BY <1>6, <2>2, <2>3 DEF Answered
<1> QED
  BY <1>2, <1>3, <1>4, <1>5, <1>6, LoggedOutTokens DEF Deliver

LEMMA StepTokens == CallsInv /\ CallsInv' /\ TokensInv /\ [Next]_vars => TokensInv'
<1> SUFFICES ASSUME CallsInv, CallsInv', TokensInv, [Next]_vars PROVE TokensInv'
  OBVIOUS
<1>1. CASE Tick \/ (\E n \in Pairs : Expire(n)) \/ UNCHANGED vars
  <2>1. UNCHANGED <<live, issued, cookie, chain, spender, token, faults, req>>
    BY <1>1 DEF Tick, Expire, vars, server, page
  <2>2. Calm
    BY <2>1, TokenTypes DEF Calm, Kept, CalmRequest, TokensInv, NamesIssued
  <2> QED
    BY <2>2, CalmTokens
<1> QED
  BY <1>1, HandleTokens, ClientTokens, DeliverTokens DEF Next

LEMMA AlwaysTokens == Spec => []TokensInv
BY InitTokens, StepTokens, AlwaysCalls, PTL DEF Spec

(* Rotation (refresh_tokens.py): however the refreshes of many tabs,        *)
(* logouts, faults and lost answers interleave, at most one refresh token  *)
(* descended from a login is good at any time.                             *)
THEOREM RotationHolds == Spec => []OneLivePerLogin
<1>1. TokensInv => OneLivePerLogin
  BY DEF TokensInv, Rotation
<1> QED
  BY <1>1, AlwaysTokens, PTL

(* A tab does not sign itself out: as long as nothing fails, no refresh it  *)
(* sends is refused because another one of its own has spent the cookie    *)
(* (api.ts, refreshInFlight), whatever other tabs do with that cookie.     *)
THEOREM TabsSpareThemselves == Spec => []NoSelfRefusal
<1>1. TokensInv => NoSelfRefusal
  BY DEF TokensInv, SpenderReplaces, NoSelfRefusal, Replacing, At
<1> QED
  BY <1>1, AlwaysTokens, PTL

(* The browser is never left with a dead cookie: as long as nothing fails,  *)
(* a cookie that no longer works is about to be replaced by the refresh     *)
(* that spent it or cleared by the logout that revoked it, and a refusal by *)
(* the limiter has spent nothing.                                          *)
THEOREM CookieStaysGood == Spec => []CookieWorks
<1>1. TokensInv => CookieWorks
  BY DEF TokensInv, DeadCookieGoes, CookieWorks, Replacing, At
<1> QED
  BY <1>1, AlwaysTokens, PTL

=============================================================================
