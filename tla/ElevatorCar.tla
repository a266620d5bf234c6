---------------------------- MODULE ElevatorCar ----------------------------
(***************************************************************************)
(* The car as its controller sees it: an untimed view of                   *)
(* elevator_controller/ElevatorSimulator.cpp.  ElevatorSimulator.tla has   *)
(* the clock, the doors and the timetable of a task, and implements this   *)
(* module.                                                                 *)
(*                                                                         *)
(* A position is even, 2 * f, when the car stands exactly at floor f and   *)
(* odd, 2 * f + 1, anywhere strictly between floors f and f + 1; so the    *)
(* truncated floor the program computes is position \div 2.                *)
(***************************************************************************)
EXTENDS FloorRunHeap

CONSTANT ByteSize    \* number of values of an unsigned char (256)

ASSUME ByteSizeAssumption == ByteSize \in Nat /\ TopFloor + 1 < ByteSize

Byte == 0 .. ByteSize - 1
Position == 0 .. 2 * (ByteSize - 1)

VARIABLES position,
          moving,              \* currentSpeed # 0
          finalDestination,
          task,                \* a task is in progress
          direction

carVars == <<position, moving, finalDestination, task, direction>>

CarTypeOK ==
    /\ position \in Position
    /\ moving \in BOOLEAN
    /\ finalDestination \in Byte
    /\ task \in BOOLEAN
    /\ direction \in Direction

(* The car starts parked at floor 1, nominally heading up. *)
CarInit ==
    /\ position = 2
    /\ moving = FALSE
    /\ finalDestination = 0
    /\ task = FALSE
    /\ direction = UP

CurrentFloor == position \div 2
AtDestination == position = 2 * finalDestination
Parked == ~task /\ position % 2 = 0

-----------------------------------------------------------------------------
Heading(t) == IF position > 2 * t THEN DOWN ELSE UP

(* setFinalDestination: the old task is dropped, wherever the car is and   *)
(* whatever its doors do; the speed is kept.                               *)
SetFinalDestination(t) ==
    /\ finalDestination' = t
    /\ task' = TRUE
    /\ direction' = Heading(t)
    /\ UNCHANGED <<position, moving>>

(* Where the car can be at the next call of calculateValues.  The calls    *)
(* are about one second apart, in which the car makes half a floor; with   *)
(* a late call it makes less than a whole one.  It never overshoots.       *)
Reach ==
    LET goal == 2 * finalDestination
    IN  {p \in Position :
            \/ goal <= p /\ p <= position /\ position - p <= 2
            \/ position <= p /\ p <= goal /\ p - position <= 2}

(* calculateValues on the way: only standing still at the destination      *)
(* ends the motion.                                                        *)
Advance ==
    /\ task
    /\ moving \/ ~AtDestination
    /\ position' \in Reach
    /\ position' = position => position % 2 = 1 \/ AtDestination
    /\ moving' = (position' # 2 * finalDestination)
    /\ UNCHANGED <<finalDestination, task, direction>>

(* Mutant: standing anywhere will do. *)
DoorsDoneAnywhere == task /\ ~moving

(* calculateValues after the time for the doors, and reset: the task is    *)
(* over.                                                                   *)
DoorsDone == task /\ AtDestination /\ ~moving

Reset ==
    /\ finalDestination' = 0
    /\ task' = FALSE
    /\ UNCHANGED <<position, moving, direction>>

Finish == DoorsDone /\ Reset

CarNext == (\E t \in Byte : SetFinalDestination(t)) \/ Advance \/ Finish

CarSpec == CarInit /\ [][CarNext]_carVars
=============================================================================
