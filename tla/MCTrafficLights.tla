--------------------------- MODULE MCTrafficLights ---------------------------
(***************************************************************************)
(* A small instance of TrafficLights in units of half a second: a step is  *)
(* one second.  "day" and "odd" are fixed-time programs, the phases of     *)
(* "odd" are no multiples of the step; "act" is actuated.                  *)
(***************************************************************************)
EXTENDS TrafficLights

Fixed(d, s) == [duration |-> d, min |-> d, max |-> d, state |-> s]
Programs == [p \in Loaded |->
    CASE p = "day" -> <<Fixed(4, "G"), Fixed(2, "y")>>
      [] p = "odd" -> <<Fixed(3, "r"), Fixed(2, "G")>>
      [] p = "act" -> <<Fixed(2, "r"), [duration |-> 4, min |-> 3, max |-> 6, state |-> "G"]>>]
OtherPlan == <<Fixed(2, "y"), Fixed(4, "r")>>
Offsets == [p \in Loaded |-> IF p = "odd" THEN -1 ELSE 0]
GSPs == [p \in Loaded |-> IF p = "day" THEN 4 ELSE 2]
WautTo(to, procedure, synchron) ==
    [startProg |-> "day", procedure |-> procedure, synchron |-> synchron,
     switches |-> <<[when |-> 3, to |-> "odd"], [when |-> 6, to |-> to],
                    [when |-> 11, to |-> "day"]>>]
AllProcedures == {WautTo("off", "", FALSE), WautTo("act", "GSP", FALSE), WautTo("act", "GSP", TRUE)}
GSPToOff == {WautTo("off", "GSP", FALSE)}
=============================================================================
