---------------------------- MODULE EventControl ----------------------------
(***************************************************************************)
(* MSEventControl: commands that are executed at the begin of a simulation *)
(* step and say themselves after which time they want to be executed       *)
(* again.  The queue is a set here: commands of the same time are executed *)
(* in any order.  A component that owns commands extends this module.      *)
(*                                                                         *)
(* Definitions named X_Y are altered forms of X with the mistake Y.        *)
(***************************************************************************)
EXTENDS Integers

CONSTANT DeltaT  \* DELTA_T, the length of a simulation step

ASSUME DeltaTAssumption == DeltaT \in Nat \ {0}

VARIABLES now,    \* MSNet::myStep
          events  \* myEvents: records with a command and a time

(* addEvent with ADAPT_AFTER_EXECUTION and with NO_CHANGE. *)
AddAdapted(queue, cmd, time) ==
    queue \cup {[command |-> cmd, time |-> IF time <= now THEN now ELSE time]}
AddUnchanged(queue, cmd, time) == queue \cup {[command |-> cmd, time |-> time]}

(* execute: the event its loop takes next, and whether it takes one. *)
IsDue(e) == e.time < now + DeltaT
IsNext(e) == IsDue(e) /\ \A other \in events : e.time <= other.time

(* What is left of the event when its command has returned: the command may
   have changed itself. *)
Requeued_FromNow(e, cmd, returned) ==
    IF returned <= 0 THEN {} ELSE {[command |-> cmd, time |-> now + returned]}
Requeued(e, cmd, returned) ==
    IF returned <= 0 THEN {} ELSE {[command |-> cmd, time |-> e.time + returned]}
=============================================================================
