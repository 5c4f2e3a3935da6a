----------------------------- MODULE MCRaceRoom -----------------------------
(***************************************************************************)
(* Small instances of RaceRoom for TLC: two accounts, ana (the creator, in  *)
(* one tab or two) and ben, on one or two replicas.                        *)
(***************************************************************************)
EXTENDS RaceRoom, TLC

CONSTANTS ana, ben, a1, a2, b1, t1, r1, r2

(* Who each socket authenticates as. *)
OwnerOfTabs == (a1 :> ana) @@ (a2 :> ana) @@ (b1 :> ben)
OwnerSolo   == (a1 :> ana) @@ (b1 :> ben)

RelayOfTabs == [s \in {a1, a2, b1} |-> <<"relay", s>>]
RelaySolo   == [s \in {a1, b1} |-> <<"relay", s>>]

(* Nothing tells the tabs of one account apart but their names. *)
TabsOfAna == Permutations({a1, a2})

(* Where sockets and timers run. *)
OneReplica  == [w \in Sockets \cup Timers |-> r1]
TwoReplicas == [w \in Sockets \cup Timers |-> IF w = b1 THEN r2 ELSE r1]
=============================================================================
