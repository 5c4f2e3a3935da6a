------------------------------ MODULE MCSignIn ------------------------------
(***************************************************************************)
(* Instances of SignIn for TLC.                                            *)
(***************************************************************************)
EXTENDS SignIn, TLC

CONSTANTS x, y, x1, x2, y1

(* Two tabs of one browser: x loads twice, signs in and out and asks, y    *)
(* only asks.                                                              *)
TabOfTwo == (x1 :> x) @@ (x2 :> x) @@ (y1 :> y)
DoesTwo  == (x1 :> {"boot", "login", "logout"}) @@ (x2 :> {"boot", "query"})
            @@ (y1 :> {"query"})
TimesAny == [b \in Buckets |-> 1]

(* One tab whose two forms are submitted again and again.                  *)
TabOfOne == (x1 :> x) @@ (x2 :> x)
DoesOne  == (x1 :> {"login"}) @@ (x2 :> {"login", "query"})
TimesOne == [login |-> 2, refresh |-> 1, email |-> 1]
=============================================================================
