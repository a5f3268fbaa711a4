-------------------------- MODULE MCDepartureQueue --------------------------
(***************************************************************************)
(* A small instance of DepartureQueue.  Only their departures tell the     *)
(* vehicles apart, so one order of the departures stands for all.          *)
(***************************************************************************)
EXTENDS DepartureQueue

InOrder == {d \in [Veh -> Departs] : \A v, w \in Veh : v <= w => d[v] <= d[w]}
=============================================================================
