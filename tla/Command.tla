------------------------------ MODULE Command ------------------------------
(***************************************************************************)
(* The contract between a command and its owner (src/src/command_intf.h):  *)
(* what every implementation of command<T> promises and what every holder  *)
(* of one relies on.  A command is made fresh, is started at most once, is *)
(* cancelled only while it is pending, is dismissed only while it is fresh *)
(* and answers at most once, either as the result of start or through the  *)
(* task_completion it was started with.  The combinators and the leaves of *)
(* the library are shown to implement this module.                         *)
(***************************************************************************)
EXTENDS Naturals

VARIABLES phase,  \* where the command is in its life
          told    \* how many answers it has given

vars == <<phase, told>>

Phases == {"unborn", "fresh", "pending", "gone"}

TypeOK == /\ phase \in Phases
          /\ told \in Nat

Init == /\ phase = "unborn"
        /\ told = 0

(* A task of kind "command" now owns it. *)
Make == /\ phase = "unborn"
        /\ phase' = "fresh"
        /\ UNCHANGED told

(* start returned a task that is not empty: the answer is in it. *)
StartAnswers == /\ phase = "fresh"
                /\ phase' = "gone"
                /\ told' = told + 1

(* start returned an empty task: the answer comes through the sink. *)
StartWaits == /\ phase = "fresh"
              /\ phase' = "pending"
              /\ UNCHANGED told

(* The command called on_completion of the sink it was started with. *)
Notify == /\ phase = "pending"
          /\ phase' = "gone"
          /\ told' = told + 1

(* cancel and dismiss return their result to the owner; the sink stays quiet. *)
Cancel == /\ phase = "pending"
          /\ phase' = "gone"
          /\ UNCHANGED told

Dismiss == /\ phase = "fresh"
           /\ phase' = "gone"
           /\ UNCHANGED told

Next == Make \/ StartAnswers \/ StartWaits \/ Notify \/ Cancel \/ Dismiss

Spec == Init /\ [][Next]_vars

-----------------------------------------------------------------------------

(* A command never gives its owner two answers, and gives none before it   *)
(* has been started: whoever runs the task reads exactly one result.       *)
AtMostOneAnswer == /\ told \in {0, 1}
                   /\ told = 1 => phase = "gone"

=============================================================================
