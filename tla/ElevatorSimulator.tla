------------------------- MODULE ElevatorSimulator -------------------------
(***************************************************************************)
(* The simulated car with its timetable and doors                          *)
(* (elevator_controller/ElevatorSimulator.cpp).                            *)
(*                                                                         *)
(* Time is counted in half seconds and height in quarters of a floor: at   *)
(* 5 m/s a car makes a quarter of a 10 m floor in half a second.           *)
(* Acceleration (999 m/s2, 5 ms to full speed) is instantaneous here.      *)
(***************************************************************************)
EXTENDS FloorRunHeap

CONSTANTS ByteSize,     \* number of values of an unsigned char
          MaxGap,       \* half seconds between two calls of calculateValues
          MaxPresses    \* bound: presses of the door buttons in a task

ASSUME SimulatorAssumption ==
    /\ ByteSize \in Nat /\ TopFloor + 1 < ByteSize
    /\ MaxGap \in Nat \ {0} /\ MaxPresses \in Nat

DoorOpenTime == 2
InOutTime == 6
DoorCloseTime == 2

VARIABLES
    height,             \* currentPosition
    moving,             \* currentSpeed # 0
    finalDestination, task, direction,
    start,              \* tempCurrentPosition
    elapsed,            \* time since the task was assigned
    gap,                \* time since the last call of calculateValues
    numState,           \* 0 arrived, 1 under way, 2 assigned in place
    travelTime, readyTime,  \* doorOpenedAndReadyTime; the buttons shift it
    doors,              \* which of DoorOpening, DoorOpen, DoorClosing hold
    presses             \* presses of the door buttons in this task

vars == <<height, moving, finalDestination, task, direction, start, elapsed,
          gap, numState, travelTime, readyTime, doors, presses>>

Goal == 4 * finalDestination
OpenedTime == travelTime + DoorOpenTime
ClosedTime == OpenedTime + InOutTime + DoorCloseTime

Init ==
    /\ height = 4 /\ moving = FALSE
    /\ finalDestination = 0 /\ task = FALSE /\ direction = UP
    /\ start = 0 /\ elapsed = 0 /\ gap = 0 /\ numState = 0
    /\ travelTime = 0 /\ readyTime = 0 /\ doors = {} /\ presses = 0

(* Time passes; calculateValues is called every MaxGap at the latest. *)
Tick ==
    /\ gap < MaxGap
    /\ gap' = gap + 1
    /\ elapsed' = IF task THEN elapsed + 1 ELSE 0
    /\ UNCHANGED <<height, moving, finalDestination, task, direction, start,
                   numState, travelTime, readyTime, doors, presses>>

Abs(n) == IF n < 0 THEN -n ELSE n

(* Mutants: the travel time is not made positive; the doors are forgotten. *)
SetFinalDestinationSigned(t) ==
    /\ finalDestination' = t /\ task' = TRUE
    /\ direction' = IF height > 4 * t THEN DOWN ELSE UP
    /\ start' = height /\ elapsed' = 0
    /\ travelTime' = 4 * t - height
    /\ numState' = IF travelTime' > 0 THEN 1 ELSE 2
    /\ readyTime' = travelTime' + DoorOpenTime + InOutTime
    /\ doors' = {} /\ presses' = 0
    /\ UNCHANGED <<height, moving, gap>>

SetFinalDestinationDoors(t) ==
    /\ finalDestination' = t /\ task' = TRUE
    /\ direction' = IF height > 4 * t THEN DOWN ELSE UP
    /\ start' = height /\ elapsed' = 0
    /\ travelTime' = Abs(4 * t - height)
    /\ numState' = IF travelTime' > 0 THEN 1 ELSE 2
    /\ readyTime' = travelTime' + DoorOpenTime + InOutTime
    /\ presses' = 0
    /\ UNCHANGED <<height, moving, gap, doors>>

(* setFinalDestination with the reset it starts with, and findGraph. *)
SetFinalDestination(t) ==
    /\ finalDestination' = t /\ task' = TRUE
    /\ direction' = IF height > 4 * t THEN DOWN ELSE UP
    /\ start' = height /\ elapsed' = 0
    /\ travelTime' = Abs(4 * t - height)
    /\ numState' = IF travelTime' > 0 THEN 1 ELSE 2
    /\ readyTime' = travelTime' + DoorOpenTime + InOutTime
    /\ doors' = {} /\ presses' = 0
    /\ UNCHANGED <<height, moving, gap>>

-----------------------------------------------------------------------------
(* calculateValues.  Under way, the height follows the timetable.          *)
Cruise ==
    /\ numState = 1 /\ elapsed < travelTime
    /\ height' = IF direction = DOWN THEN start - elapsed ELSE start + elapsed
    /\ moving' = (moving \/ elapsed > 0)
    /\ UNCHANGED <<finalDestination, task, numState, travelTime, readyTime,
                   doors>>

(* Past the end of the timetable the height is set to the destination.     *)
AtGoal == numState # 1 \/ elapsed >= travelTime
DoorsOpening == numState = 1 \/ elapsed <= OpenedTime
DoorsOpen == ~DoorsOpening /\ elapsed <= readyTime
DoorsClosing == ~DoorsOpening /\ ~DoorsOpen /\ elapsed <= ClosedTime

(* Mutants: the open doors are still said to open; the height is not       *)
(* corrected on arrival.                                                   *)
StopStillOpening ==
    /\ AtGoal
    /\ height' = Goal /\ moving' = FALSE
    /\ \/ DoorsOpening /\ numState' = 0 /\ doors' = doors \cup {"opening"}
       \/ DoorsOpen /\ doors' = doors \cup {"open"} /\ UNCHANGED numState
       \/ /\ DoorsClosing
          /\ doors' = (doors \ {"open"}) \cup {"closing"}
          /\ UNCHANGED numState
    /\ UNCHANGED <<finalDestination, task, travelTime, readyTime>>

StopOvershooting ==
    /\ AtGoal
    /\ height' = IF numState # 1 THEN height
                 ELSE IF direction = UP THEN start + elapsed
                 ELSE start - elapsed
    /\ moving' = FALSE
    /\ \/ DoorsOpening /\ numState' = 0 /\ doors' = doors \cup {"opening"}
       \/ /\ DoorsOpen
          /\ doors' = (doors \ {"opening"}) \cup {"open"}
          /\ UNCHANGED numState
       \/ /\ DoorsClosing
          /\ doors' = (doors \ {"open"}) \cup {"closing"}
          /\ UNCHANGED numState
    /\ UNCHANGED <<finalDestination, task, travelTime, readyTime>>

Stop ==
    /\ AtGoal
    /\ height' = Goal /\ moving' = FALSE
    /\ \/ /\ DoorsOpening
          /\ numState' = 0
          /\ doors' = doors \cup {"opening"}
       \/ /\ DoorsOpen
          /\ doors' = (doors \ {"opening"}) \cup {"open"}
          /\ UNCHANGED numState
       \/ /\ DoorsClosing
          /\ doors' = (doors \ {"open"}) \cup {"closing"}
          /\ UNCHANGED numState
    /\ UNCHANGED <<finalDestination, task, travelTime, readyTime>>

(* Mutants: the task ends on arrival; the reset forgets the task. *)
FinishAtGoal ==
    /\ AtGoal
    /\ height' = Goal /\ moving' = FALSE
    /\ finalDestination' = 0 /\ task' = FALSE /\ numState' = 0
    /\ travelTime' = 0 /\ doors' = {}
    /\ UNCHANGED readyTime

FinishKeepsTask ==
    /\ AtGoal /\ ~DoorsOpening /\ ~DoorsOpen /\ ~DoorsClosing
    /\ height' = Goal /\ moving' = FALSE
    /\ finalDestination' = 0 /\ numState' = 0
    /\ travelTime' = 0 /\ doors' = {}
    /\ UNCHANGED <<task, readyTime>>

Finish ==
    /\ AtGoal /\ ~DoorsOpening /\ ~DoorsOpen /\ ~DoorsClosing
    /\ height' = Goal /\ moving' = FALSE
    /\ finalDestination' = 0 /\ task' = FALSE /\ numState' = 0
    /\ travelTime' = 0 /\ doors' = {}
    /\ UNCHANGED readyTime

CalculateValues ==
    /\ gap > 0
    /\ gap' = 0
    /\ \/ task /\ (Cruise \/ Stop) /\ UNCHANGED elapsed
       \/ task /\ Finish /\ elapsed' = 0
       \/ /\ ~task
          /\ UNCHANGED <<height, moving, finalDestination, task, elapsed,
                         numState, travelTime, readyTime, doors>>
    /\ UNCHANGED <<direction, start, presses>>

(* setDoorOpen, setDoorClose: effective while the doors open.              *)
PressButton(shift) ==
    /\ doors = {"opening"}
    /\ presses < MaxPresses
    /\ presses' = presses + 1
    /\ readyTime' = readyTime + shift
    /\ UNCHANGED <<height, moving, finalDestination, task, direction, start,
                   elapsed, gap, numState, travelTime, doors>>

SetDoorOpen == PressButton(InOutTime)
SetDoorClose == PressButton(-2)

Assign == \E t \in 0 .. ByteSize - 1 : SetFinalDestination(t)

Next == Tick \/ CalculateValues \/ Assign \/ SetDoorOpen \/ SetDoorClose

Spec == Init /\ [][Next]_vars

FairSpec == Spec /\ WF_vars(Tick) /\ WF_vars(CalculateValues)

-----------------------------------------------------------------------------
(* Properties *)

(* Every variable keeps its type; the height never leaves the building. *)
TypeOK ==
    /\ height \in 0 .. 4 * (ByteSize - 1) /\ start \in 0 .. 4 * (ByteSize - 1)
    /\ moving \in BOOLEAN /\ task \in BOOLEAN
    /\ finalDestination \in 0 .. ByteSize - 1
    /\ direction \in Direction
    /\ elapsed \in Nat /\ gap \in 0 .. MaxGap
    /\ numState \in 0 .. 2 /\ travelTime \in Nat /\ readyTime \in Int
    /\ doors \subseteq {"opening", "open", "closing"}
    /\ presses \in 0 .. MaxPresses

(* At most one door flag holds, as ElevatorSimulatorTest.cpp:34-46 asserts *)
(* at every step, although a late call may skip a phase of the timetable.  *)
OneDoorPhase == \A d, e \in doors : d = e

(* The doors are never anything but shut unless the car stands at the      *)
(* destination of its task; without a task it stands at a floor with its   *)
(* doors shut (ElevatorSimulatorTest.cpp:50).                              *)
DoorsShutOnTheWay ==
    /\ doors # {} => task /\ ~moving /\ height = Goal
    /\ ~task => doors = {} /\ ~moving /\ height % 4 = 0

(* No task ends unless its doors are open or closing at that moment, so    *)
(* that they did open, however late the polls and whichever phase of the   *)
(* timetable they skip.  (That the doors also close is not promised: with  *)
(* setDoorOpen a task can end while they stand open.)                      *)
DoorsOpenedBeforeTaskEnds ==
    [][task /\ ~task' => doors \cap {"open", "closing"} # {}]_vars

(* The timed car implements the untimed one the controller is modelled     *)
(* with: it moves towards its destination, less than a floor at a time,    *)
(* never past it, and ends a task only there.                              *)
Car == INSTANCE ElevatorCar WITH
           position <- IF height % 4 = 0 THEN height \div 2
                                         ELSE 2 * (height \div 4) + 1
ImplementsCar == Car!CarSpec

(* Left alone, the car completes its task. *)
CompletesWhenLeftAlone == <>[][~Assign]_vars => (task ~> ~task)
=============================================================================
