------------------------ MODULE MCVehicleLifecycle ------------------------
(***************************************************************************)
(* Small instances of VehicleLifecycle.  a, b are vehicles of route files, *)
(* t one with depart="triggered", x a vehicle of the TraCI client and      *)
(* f0, f1 the vehicles of the flow fl.                                      *)
(***************************************************************************)
EXTENDS VehicleLifecycle

CONSTANTS a, b, t, x, f0, f1, f2, f3, fl, ed

Off == -1
FlowIds == [g \in Flow |-> <<f0, f1>>]
FourFlowIds == [g \in Flow |-> <<f0, f1, f2, f3>>]
OneFlowId == [g \in Flow |-> <<f0>>]
TwoRepetitions == [g \in Flow |-> 2]
OneRepetition == [g \in Flow |-> 1]
AtStart == [g \in Flow |-> 0]
EveryStep == [g \in Flow |-> 1]
UntilOne == [g \in Flow |-> 1]
UntilTwo == [g \in Flow |-> 2]
OneEdge == [v \in Veh |-> ed]
NoStops == [v \in Veh |-> "none"]
MixedStops == [v \in Veh |-> IF v = a THEN "triggered"
                             ELSE IF v = b THEN "parking" ELSE "none"]
FileParks == [v \in Veh |-> IF v = a THEN "parking" ELSE "none"]
RoadStop == [v \in Veh |-> IF v = t THEN "road" ELSE "none"]
=============================================================================
