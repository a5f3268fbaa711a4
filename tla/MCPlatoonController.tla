------------------------ MODULE MCPlatoonController ------------------------
(***************************************************************************)
(* Small instances of PlatoonController.                                   *)
(***************************************************************************)
EXTENDS PlatoonController

(* Everything that concerns how the vehicle drives, and what it is told about
   the other members of its platoon. *)
Driving == {"controller", "action", "fixedLane"}
SignedLanes == {-1, 0, 2, 3}
Platooning == {"leader", "preceding", "position", "size", "data"}
=============================================================================
