---------------------------- MODULE RateLimiter ----------------------------
(***************************************************************************)
(* The fixed-window counters of backend/app/services/rate_limit.py: what   *)
(* the Lua script, GET and DEL do to one counter key, and what passing     *)
(* time does to it.  A key that does not exist is Gone.                    *)
(***************************************************************************)
EXTENDS Naturals

CONSTANTS
    Window,   \* rate_limit_window_seconds
    Ceiling   \* bound: a count above every limit is kept as Ceiling

ASSUME WindowAssumption == Window \in Nat \ {0} /\ Ceiling \in Nat \ {0}

Counters == [n : 0..Ceiling, ttl : 0..Window]
Gone == [n |-> 0, ttl |-> 0]

(* A plausible slip: every hit renews the window.                          *)
HitRenewing(counter) ==
    [n |-> IF counter.n < Ceiling THEN counter.n + 1 ELSE Ceiling,
     ttl |-> Window]

(* INCR, and EXPIRE for the hit that created the key, in one script.       *)
Hit(counter) ==
    [n   |-> IF counter.n < Ceiling THEN counter.n + 1 ELSE Ceiling,
     ttl |-> IF counter.n = 0 THEN Window ELSE counter.ttl]

(* A plausible slip: a peek is judged like a hit.                          *)
PeekAllowedAtLimit(counter, times) == counter.n <= times

(* A hit is judged by the count it produced, a peek by the count it found. *)
HitAllowed(counter, times)  == Hit(counter).n <= times
PeekAllowed(counter, times) == counter.n < times

(* One second passes: the key goes when its TTL runs out.                  *)
Elapse(counter) ==
    IF counter.ttl <= 1 THEN Gone ELSE [counter EXCEPT !.ttl = @ - 1]
=============================================================================
