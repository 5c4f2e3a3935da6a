----------------------------- MODULE MCRoomFeed -----------------------------
(***************************************************************************)
(* Small instances of RoomFeed for TLC: ana creates the room, ben comes    *)
(* with a second socket for when the first one drops.                      *)
(***************************************************************************)
EXTENDS RoomFeed, TLC

CONSTANTS ana, ben, a1, b1, b2, tick

OwnerOfTwo == (a1 :> ana) @@ (b1 :> ben) @@ (b2 :> ben)

(* ana runs the room; ben types, drops, and comes back. *)
DoesOfTwo == (a1 :> {"start", "play_again", "leave"})
          @@ (b1 :> {"progress", "drop"})
          @@ (b2 :> {"finish", "leave"})
=============================================================================
