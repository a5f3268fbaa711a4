------------------------- MODULE DepartureSchedule -------------------------
(***************************************************************************)
(* What the insertion control needs of its store of vehicles that are not  *)
(* due yet, whatever the store is made of: in the step at time "now" the   *)
(* vehicles that are due are handed over in batches, none too early, and   *)
(* when the step goes on nobody is left whose departure has come.          *)
(***************************************************************************)
EXTENDS Integers, Sequences, SequencesExt

CONSTANTS Veh,      \* vehicle ids
          DeltaT,   \* DELTA_T, the length of a simulation step
          Departs,  \* the values SUMOVehicleParameter::depart may have
          Demands   \* which vehicle departs when: the possible demands

VARIABLES now, phase,
          depart,   \* the departures of the vehicles that were ever added
          waiting,  \* vehicles that are stored
          emitted   \* vehicles that were handed over, in this order

vars == <<now, phase, depart, waiting, emitted>>

Init == /\ now = 0 /\ phase = "load"
        /\ depart \in Demands
        /\ waiting = {} /\ emitted = <<>>

(* A vehicle is stored, at any time before its step or after it. *)
Add(v) == /\ phase = "load"
          /\ v \notin waiting /\ v \notin ToSet(emitted)
          /\ waiting' = waiting \cup {v}
          /\ UNCHANGED <<now, phase, depart, emitted>>

StartRelease == /\ phase = "load"
                /\ phase' = "release"
                /\ UNCHANGED <<now, depart, waiting, emitted>>

(* A batch of due vehicles is handed over, in any order; who is left departs
   at most a step earlier. *)
Release ==
    LET batch == ToSet(emitted') \ ToSet(emitted)
    IN /\ phase = "release"
       /\ IsPrefix(emitted, emitted')
       /\ batch \subseteq waiting
       /\ \A v \in batch : depart[v] < now + DeltaT
       /\ \A v \in batch, w \in waiting \ batch : depart[v] < depart[w] + DeltaT
       /\ waiting' = waiting \ batch
       /\ UNCHANGED <<now, phase, depart>>

EndRelease == /\ phase = "release"
              /\ \A v \in waiting : depart[v] > now
              /\ phase' = "load"
              /\ now' = now + DeltaT
              /\ UNCHANGED <<depart, waiting, emitted>>

Next == \/ \E v \in Veh : Add(v)
        \/ StartRelease
        \/ Release
        \/ EndRelease

Spec == Init /\ [][Next]_vars
=============================================================================
