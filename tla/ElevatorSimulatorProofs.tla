---------------------- MODULE ElevatorSimulatorProofs ----------------------
(***************************************************************************)
(* Proofs about ElevatorSimulator, for every height of the building and    *)
(* every width of the byte.  MaxGap, how late calculateValues may be, and  *)
(* MaxPresses are unbounded unless a theorem says so.                      *)
(***************************************************************************)
EXTENDS ElevatorSimulator, TLAPS

-----------------------------------------------------------------------------
(* The inductive invariant, by the phases of a task. *)

(* How far into the task the last call of calculateValues came; 0 if it    *)
(* came before the assignment.                                             *)
LastCall == IF elapsed > gap THEN elapsed - gap ELSE 0

(* Under way the height is the one the timetable had at the last call.     *)
UnderWay ==
    /\ task /\ doors = {}
    /\ direction = IF start > Goal THEN DOWN ELSE UP
    /\ travelTime = Abs(Goal - start) /\ travelTime > 0
    /\ LastCall < travelTime
    /\ height = IF direction = DOWN THEN start - LastCall ELSE start + LastCall

(* Assigned in place, the car is there, and may still have a speed until   *)
(* the first call has come.                                                *)
InPlace ==
    /\ task /\ travelTime = 0 /\ height = Goal
    /\ IF doors = {} THEN elapsed <= gap ELSE ~moving

Arrived ==
    IF task THEN doors # {} /\ ~moving /\ height = Goal
            ELSE /\ doors = {} /\ ~moving
                 /\ \E f \in 0 .. ByteSize - 1 : height = 4 * f

PhaseInv ==
    /\ numState = 1 => UnderWay
    /\ numState = 2 => InPlace
    /\ numState = 0 => Arrived

(* A call that finds the doors opening came while they open by the         *)
(* timetable, or was the first after the arrival.                          *)
OpeningInv ==
    doors = {"opening"} => \/ elapsed - gap <= OpenedTime
                           \/ elapsed - gap < travelTime + MaxGap

(* Each press moves the end of the stay by a second at the most towards    *)
(* its beginning; open and closing doors keep to the timetable.            *)
StayInv ==
    /\ task => readyTime >= OpenedTime + InOutTime - 2 * presses
    /\ "open" \in doors => numState # 1 /\ elapsed - gap > OpenedTime
    /\ "closing" \in doors => /\ numState # 1 /\ elapsed - gap > OpenedTime
                              /\ elapsed - gap > readyTime

-----------------------------------------------------------------------------
(* Every step is an advance of the clock, a call of calculateValues in one *)
(* of its four phases, an assignment or a press of a door button.          *)
Call == gap > 0 /\ gap' = 0 /\ UNCHANGED <<direction, start, presses>>
CruiseCall == Call /\ task /\ Cruise /\ UNCHANGED elapsed
StopCall == Call /\ task /\ Stop /\ UNCHANGED elapsed
FinishCall == Call /\ task /\ Finish /\ elapsed' = 0
IdleCall ==
    /\ Call /\ ~task
    /\ UNCHANGED <<height, moving, finalDestination, task, elapsed, numState,
                   travelTime, readyTime, doors>>

LEMMA NextSplits ==
    ASSUME Next
    PROVE  \/ Tick \/ CruiseCall \/ StopCall \/ FinishCall \/ IdleCall
           \/ \E t \in 0 .. ByteSize - 1 : SetFinalDestination(t)
           \/ \E shift \in {InOutTime, -2} : PressButton(shift)
<1>1. CASE CalculateValues
  BY <1>1 DEF CalculateValues, Call, CruiseCall, StopCall, FinishCall, IdleCall
<1>2. CASE SetDoorOpen \/ SetDoorClose
  BY <1>2 DEF SetDoorOpen, SetDoorClose
<1> QED  BY <1>1, <1>2 DEF Next, Assign

SimInv == TypeOK /\ PhaseInv

(* The car starts as one that has arrived at floor 1. *)
LEMMA InitSimInv ==
    ASSUME Init
    PROVE  SimInv
<1>1. ByteSize \in Nat /\ ByteSize >= 2 /\ MaxGap \in Nat /\ MaxPresses \in Nat
  BY SimulatorAssumption, TopFloorAssumption
<1>2. height = 4 * 1 /\ 1 \in 0 .. ByteSize - 1
  BY <1>1 DEF Init
<1>3. PhaseInv
  BY <1>2 DEF Init, PhaseInv, Arrived
<1>4. /\ height \in 0 .. 4 * (ByteSize - 1) /\ start \in 0 .. 4 * (ByteSize - 1)
      /\ finalDestination \in 0 .. ByteSize - 1
      /\ elapsed \in Nat /\ gap \in 0 .. MaxGap /\ presses \in 0 .. MaxPresses
      /\ numState \in 0 .. 2 /\ travelTime \in Nat /\ readyTime \in Int
  BY <1>1 DEF Init
<1> QED  BY <1>3, <1>4 DEF Init, SimInv, TypeOK, Direction

(* No step takes the car off the timetable of its task.                    *)
LEMMA NextSimInv ==
    ASSUME SimInv, [Next]_vars
    PROVE  SimInv'
<1> USE SimulatorAssumption DEF SimInv, Direction, UP, DOWN
<1>1. CASE Tick
  <2>1. TypeOK'
    BY <1>1 DEF Tick, TypeOK
  <2>2. UnderWay => UnderWay'
    BY <1>1 DEF Tick, TypeOK, UnderWay, LastCall, Goal, Abs
  <2>3. InPlace => InPlace'
    BY <1>1 DEF Tick, TypeOK, InPlace, Goal
  <2>4. Arrived => Arrived'
    BY <1>1 DEF Tick, TypeOK, Arrived, Goal
  <2> QED  BY <1>1, <2>1, <2>2, <2>3, <2>4 DEF Tick, PhaseInv
<1>2. CASE CruiseCall
  <2>1. UnderWay /\ elapsed < travelTime
    BY <1>2 DEF CruiseCall, Cruise, PhaseInv
  <2>2. height' \in 0 .. 4 * (ByteSize - 1)
    BY <1>2, <2>1 DEF CruiseCall, Cruise, UnderWay, TypeOK, Goal, Abs
  <2>3. TypeOK'
    BY <1>2, <2>2 DEF CruiseCall, Call, Cruise, TypeOK
  <2>4. UnderWay'
    BY <1>2, <2>1
       DEF CruiseCall, Call, Cruise, UnderWay, LastCall, TypeOK, Goal
  <2> QED  BY <1>2, <2>3, <2>4 DEF CruiseCall, Cruise, PhaseInv
<1>3. CASE StopCall
  <2>1. doors' # {}
    BY <1>3 DEF StopCall, Stop
  <2>2. TypeOK'
    <3>1. height' \in 0 .. 4 * (ByteSize - 1)
      BY <1>3 DEF StopCall, Stop, TypeOK, Goal
    <3>2. numState' \in 0 .. 2 /\ gap' \in 0 .. MaxGap
      BY <1>3 DEF StopCall, Call, Stop, TypeOK
    <3>3. doors' \subseteq {"opening", "open", "closing"}
      BY <1>3 DEF StopCall, Stop, TypeOK
    <3>4. moving' \in BOOLEAN
      BY <1>3 DEF StopCall, Stop
    <3> QED  BY <1>3, <3>1, <3>2, <3>3, <3>4 DEF StopCall, Call, Stop, TypeOK
  <2>3. numState' = 0 \/ (numState' = 2 /\ numState = 2)
    BY <1>3 DEF StopCall, Stop, DoorsOpen, DoorsClosing, DoorsOpening, TypeOK
  <2>4. task' /\ ~moving' /\ height' = Goal'
    BY <1>3 DEF StopCall, Stop, Goal
  <2>5. numState' = 2 => travelTime' = 0
    BY <1>3, <2>3 DEF StopCall, Stop, PhaseInv, InPlace
  <2> QED  BY <2>1, <2>2, <2>3, <2>4, <2>5 DEF PhaseInv, InPlace, Arrived
<1>4. CASE FinishCall
  <2>1. height' = 4 * finalDestination
    BY <1>4 DEF FinishCall, Finish, Goal
  <2>2. TypeOK'
    <3>1. height' \in 0 .. 4 * (ByteSize - 1) /\ 0 \in 0 .. ByteSize - 1
      BY <2>1 DEF TypeOK
    <3>2. /\ numState' \in 0 .. 2 /\ gap' \in 0 .. MaxGap
          /\ elapsed' \in Nat /\ travelTime' \in Nat
      BY <1>4 DEF FinishCall, Call, Finish
    <3>3. moving' \in BOOLEAN /\ task' \in BOOLEAN
      BY <1>4 DEF FinishCall, Finish
    <3> QED
      BY <1>4, <3>1, <3>2, <3>3 DEF FinishCall, Call, Finish, TypeOK
  <2> QED
    BY <1>4, <2>1, <2>2 DEF FinishCall, Finish, PhaseInv, Arrived, TypeOK
<1>5. CASE IdleCall
  <2>1. TypeOK'
    BY <1>5 DEF IdleCall, Call, TypeOK
  <2>2. numState = 0
    BY <1>5 DEF IdleCall, PhaseInv, UnderWay, InPlace, TypeOK
  <2> QED  BY <1>5, <2>1, <2>2 DEF IdleCall, PhaseInv, Arrived
<1>6. ASSUME NEW t \in 0 .. ByteSize - 1, SetFinalDestination(t)
      PROVE  SimInv'
  <2>1. TypeOK'
    BY <1>6 DEF SetFinalDestination, TypeOK, Abs, DoorOpenTime, InOutTime
  <2>2. CASE height = 4 * t
    <3>1. travelTime' = 0 /\ numState' = 2
      BY <1>6, <2>2 DEF SetFinalDestination, TypeOK, Abs
    <3>2. InPlace'
      BY <1>6, <2>2, <3>1 DEF SetFinalDestination, InPlace, Goal, TypeOK
    <3> QED  BY <2>1, <3>1, <3>2 DEF PhaseInv
  <2>3. CASE height # 4 * t
    <3>1. travelTime' > 0 /\ numState' = 1
      BY <1>6, <2>3 DEF SetFinalDestination, TypeOK, Abs
    <3>2. LastCall' = 0
      BY <1>6 DEF SetFinalDestination, LastCall, TypeOK
    <3>3. UnderWay'
      BY <1>6, <3>1, <3>2 DEF SetFinalDestination, UnderWay, Goal, TypeOK, Abs
    <3> QED  BY <2>1, <3>1, <3>3 DEF PhaseInv
  <2> QED  BY <2>2, <2>3
<1>7. ASSUME NEW shift \in {InOutTime, -2}, PressButton(shift)
      PROVE  SimInv'
  <2>1. TypeOK'
    BY <1>7 DEF PressButton, TypeOK, InOutTime
  <2> QED
    BY <1>7, <2>1
       DEF PressButton, PhaseInv, UnderWay, InPlace, Arrived, LastCall, Goal
<1>8. CASE UNCHANGED vars
  BY <1>8 DEF vars, TypeOK, PhaseInv, UnderWay, InPlace, Arrived, LastCall,
              Goal
<1> QED
  BY <1>1, <1>2, <1>3, <1>4, <1>5, <1>6, <1>7, <1>8, NextSplits

LEMMA SimInvariant == Spec => []SimInv
BY InitSimInv, NextSimInv, PTL DEF Spec

(* Every variable keeps its type; the height never leaves the building,    *)
(* whenever the car is reassigned and however late it is called.           *)
THEOREM TypeCorrect == Spec => []TypeOK
<1>1. SimInv => TypeOK
  BY DEF SimInv
<1> QED  BY <1>1, SimInvariant, PTL

(* The doors are only ever anything but shut where the car has arrived.    *)
THEOREM DoorsAlwaysShutOnTheWay == Spec => []DoorsShutOnTheWay
<1>1. SimInv => DoorsShutOnTheWay
  <2> SUFFICES ASSUME SimInv
               PROVE  DoorsShutOnTheWay
    OBVIOUS
  <2>1. CASE numState = 1
    BY <2>1 DEF SimInv, PhaseInv, UnderWay, DoorsShutOnTheWay
  <2>2. CASE numState = 2
    BY <2>2 DEF SimInv, PhaseInv, InPlace, DoorsShutOnTheWay
  <2>3. CASE numState = 0
    <3>1. \A f \in 0 .. ByteSize - 1 : (4 * f) % 4 = 0
      BY SimulatorAssumption
    <3> QED
      BY <2>3, <3>1 DEF SimInv, PhaseInv, Arrived, DoorsShutOnTheWay
  <2> QED  BY <2>1, <2>2, <2>3 DEF SimInv, TypeOK
<1> QED  BY <1>1, SimInvariant, PTL

-----------------------------------------------------------------------------
DoorsInv == SimInv /\ OpeningInv /\ StayInv

(* The two timings of the doors survive every step.                        *)
LEMMA NextDoorsInv ==
    ASSUME DoorsInv, [Next]_vars
    PROVE  DoorsInv'
<1> USE SimulatorAssumption DEF DoorsInv
<1>0. SimInv'
  BY NextSimInv
<1> SUFFICES OpeningInv' /\ StayInv'
  BY <1>0
<1> USE DEF OpenedTime, DoorOpenTime, InOutTime
<1>1. CASE Tick
  <2>1. CASE task
    BY <1>1, <2>1 DEF Tick, SimInv, TypeOK, OpeningInv, StayInv
  <2>2. CASE ~task
    <3>1. doors = {}
      BY <2>2 DEF SimInv, TypeOK, PhaseInv, UnderWay, InPlace, Arrived
    <3> QED  BY <1>1, <2>2, <3>1 DEF Tick, OpeningInv, StayInv
  <2> QED  BY <2>1, <2>2
<1>2. CASE CruiseCall
  <2>1. doors = {}
    BY <1>2 DEF CruiseCall, Cruise, SimInv, PhaseInv, UnderWay
  <2> QED
    BY <1>2, <2>1 DEF CruiseCall, Call, Cruise, OpeningInv, StayInv
<1>3. CASE StopCall
  <2>0. /\ elapsed' = elapsed /\ gap' = 0 /\ task' = task
        /\ travelTime' = travelTime /\ readyTime' = readyTime
        /\ presses' = presses
    BY <1>3 DEF StopCall, Call, Stop
  <2>1. CASE DoorsOpening /\ numState' = 0 /\ doors' = doors \cup {"opening"}
    <3>1. CASE numState = 1
      <4>1. doors = {} /\ elapsed < travelTime + MaxGap
        BY <3>1 DEF SimInv, TypeOK, PhaseInv, UnderWay, LastCall
      <4> QED
        BY <2>0, <2>1, <4>1 DEF OpeningInv, StayInv, SimInv, TypeOK
    <3>2. CASE numState # 1
      <4>1. elapsed <= OpenedTime
        BY <2>1, <3>2 DEF DoorsOpening
      <4>2. "open" \notin doors /\ "closing" \notin doors
        BY <4>1 DEF StayInv, SimInv, TypeOK
      <4> QED
        BY <2>0, <2>1, <4>1, <4>2 DEF OpeningInv, StayInv, SimInv, TypeOK
    <3> QED  BY <3>1, <3>2
  <2>2. CASE /\ DoorsOpen
             /\ doors' = (doors \ {"opening"}) \cup {"open"}
             /\ UNCHANGED numState
    <3>1. numState # 1 /\ elapsed > OpenedTime /\ elapsed <= readyTime
      BY <2>2 DEF DoorsOpen, DoorsOpening, SimInv, TypeOK
    <3>2. "closing" \notin doors
      BY <3>1 DEF StayInv, SimInv, TypeOK
    <3> QED
      BY <2>0, <2>2, <3>1, <3>2 DEF OpeningInv, StayInv, SimInv, TypeOK
  <2>3. CASE /\ DoorsClosing
             /\ doors' = (doors \ {"open"}) \cup {"closing"}
             /\ UNCHANGED numState
    <3>1. numState # 1 /\ elapsed > OpenedTime /\ elapsed > readyTime
      BY <2>3 DEF DoorsClosing, DoorsOpen, DoorsOpening, SimInv, TypeOK
    <3> QED  BY <2>0, <2>3, <3>1 DEF OpeningInv, StayInv, SimInv, TypeOK
  <2> QED  BY <1>3, <2>1, <2>2, <2>3 DEF StopCall, Stop
<1>4. CASE FinishCall
  BY <1>4 DEF FinishCall, Finish, OpeningInv, StayInv
<1>5. CASE IdleCall
  <2>1. doors = {}
    BY <1>5 DEF IdleCall, SimInv, TypeOK, PhaseInv, UnderWay, InPlace, Arrived
  <2> QED  BY <1>5, <2>1 DEF IdleCall, OpeningInv, StayInv
<1>6. ASSUME NEW t \in 0 .. ByteSize - 1, SetFinalDestination(t)
      PROVE  OpeningInv' /\ StayInv'
  BY <1>6 DEF SetFinalDestination, OpeningInv, StayInv, SimInv, TypeOK, Abs
<1>7. ASSUME NEW shift \in {InOutTime, -2}, PressButton(shift)
      PROVE  OpeningInv' /\ StayInv'
  BY <1>7 DEF PressButton, OpeningInv, StayInv, SimInv, TypeOK
<1>8. CASE UNCHANGED vars
  BY <1>8 DEF vars, OpeningInv, StayInv
<1> QED
  BY <1>1, <1>2, <1>3, <1>4, <1>5, <1>6, <1>7, <1>8, NextSplits

LEMMA DoorsInvariant == Spec => []DoorsInv
<1>1. Init => DoorsInv
  BY InitSimInv DEF Init, DoorsInv, OpeningInv, StayInv
<1> QED  BY <1>1, NextDoorsInv, PTL DEF Spec

(* A task that ends was polled at least once while its doors stood open or *)
(* were closing.                                                           *)
LEMMA FinishAfterOpening ==
    ASSUME DoorsInv, FinishCall, MaxGap <= 5
    PROVE  doors \cap {"open", "closing"} # {}
<1> USE SimulatorAssumption
    DEF DoorsInv, SimInv, TypeOK, OpenedTime, ClosedTime, DoorOpenTime,
        InOutTime, DoorCloseTime
<1>1. numState # 1 /\ task /\ elapsed > ClosedTime
  BY DEF FinishCall, Finish, DoorsOpening, DoorsOpen, DoorsClosing
<1>2. doors # {}
  BY <1>1 DEF PhaseInv, InPlace, Arrived
<1>3. doors # {"opening"}
  BY <1>1 DEF OpeningInv
<1> QED  BY <1>2, <1>3

(* Polled every two and a half seconds at the latest, a car ends no task   *)
(* unless its doors are open or closing at that moment.                    *)
THEOREM DoorsAlwaysOpenedBeforeTaskEnds ==
    ASSUME MaxGap <= 5
    PROVE  Spec => DoorsOpenedBeforeTaskEnds
<1>1. DoorsInv /\ [Next]_vars
        => [task /\ ~task' => doors \cap {"open", "closing"} # {}]_vars
  <2> SUFFICES ASSUME DoorsInv, Next, task, ~task'
               PROVE  doors \cap {"open", "closing"} # {}
    OBVIOUS
  <2>1. FinishCall
    BY NextSplits
       DEF Tick, CruiseCall, Cruise, StopCall, Stop, IdleCall,
           SetFinalDestination, PressButton
  <2> QED  BY <2>1, FinishAfterOpening
<1> QED
  BY <1>1, DoorsInvariant, PTL DEF Spec, DoorsOpenedBeforeTaskEnds

(* Polled often enough for the presses of the door buttons, the car shows  *)
(* one door phase at a time; with a press more the doors can be seen to    *)
(* open and to close at once.                                              *)
THEOREM AlwaysOneDoorPhase ==
    ASSUME MaxGap <= 3, MaxGap + 2 * MaxPresses <= 6
    PROVE  Spec => []OneDoorPhase
<1>1. Init => OneDoorPhase
  BY DEF Init, OneDoorPhase
<1>2. DoorsInv /\ OneDoorPhase /\ [Next]_vars => OneDoorPhase'
  <2> SUFFICES ASSUME DoorsInv, OneDoorPhase, [Next]_vars
               PROVE  OneDoorPhase'
    OBVIOUS
  <2> USE SimulatorAssumption
      DEF DoorsInv, SimInv, OpenedTime, DoorOpenTime, InOutTime
  <2>1. CASE UNCHANGED doors
    BY <2>1 DEF OneDoorPhase
  <2>2. CASE doors' = {}
    BY <2>2 DEF OneDoorPhase
  <2>3. CASE StopCall
    <3>1. CASE DoorsOpening /\ doors' = doors \cup {"opening"}
      <4>1. doors = {} \/ elapsed <= OpenedTime
        BY <3>1 DEF DoorsOpening, PhaseInv, UnderWay
      <4>2. "open" \notin doors /\ "closing" \notin doors
        BY <4>1 DEF StayInv, TypeOK
      <4> QED  BY <3>1, <4>2 DEF OneDoorPhase, TypeOK
    <3>2. CASE /\ DoorsOpen
               /\ doors' = (doors \ {"opening"}) \cup {"open"}
      <4>1. elapsed <= readyTime
        BY <3>2 DEF DoorsOpen
      <4>2. "closing" \notin doors
        BY <4>1 DEF StayInv, TypeOK
      <4> QED  BY <3>2, <4>2 DEF OneDoorPhase, TypeOK
    <3>3. CASE /\ DoorsClosing
               /\ doors' = (doors \ {"open"}) \cup {"closing"}
      <4>1. elapsed > OpenedTime /\ elapsed > readyTime /\ task
        BY <2>3, <3>3 DEF DoorsClosing, DoorsOpen, DoorsOpening, StopCall, TypeOK
      <4>2. doors # {"opening"}
        BY <4>1 DEF OpeningInv, StayInv, TypeOK
      <4>3. "opening" \notin doors
        BY <4>2 DEF OneDoorPhase
      <4> QED  BY <3>3, <4>3 DEF OneDoorPhase, TypeOK
    <3> QED  BY <2>3, <3>1, <3>2, <3>3 DEF StopCall, Stop
  <2> QED
    BY <2>1, <2>2, <2>3, NextSplits
       DEF Tick, CruiseCall, Cruise, FinishCall, Finish, IdleCall,
           SetFinalDestination, PressButton, vars
<1> QED  BY <1>1, <1>2, DoorsInvariant, PTL DEF Spec

-----------------------------------------------------------------------------
(* The refinement of the untimed car. *)

(* The position of the untimed car, as Car's substitution has it.          *)
Pos(h) == IF h % 4 = 0 THEN h \div 2 ELSE 2 * (h \div 4) + 1

(* It is even at a floor and odd between two. *)
LEMMA PosShape ==
    ASSUME NEW h \in Nat
    PROVE  \E f \in Nat : \/ h = 4 * f /\ Pos(h) = 2 * f
                          \/ 4 * f < h /\ h < 4 * f + 4 /\ Pos(h) = 2 * f + 1
<1>1. PICK f \in Nat, r \in 0 .. 3 : h = 4 * f + r
  <2> WITNESS h \div 4 \in Nat, h % 4 \in 0 .. 3
  <2> QED  OBVIOUS
<1>2. CASE r = 0
  <2>1. (4 * f) % 4 = 0 /\ (4 * f) \div 2 = 2 * f
    OBVIOUS
  <2> QED  BY <1>1, <1>2, <2>1 DEF Pos
<1>3. CASE r # 0
  <2>1. (4 * f + r) % 4 = r /\ (4 * f + r) \div 4 = f
    BY <1>3
  <2> QED  BY <1>1, <1>3, <2>1 DEF Pos
<1> QED  BY <1>2, <1>3

(* It is at a floor exactly when the height is. *)
LEMMA PosAtFloor ==
    ASSUME NEW h \in Nat, NEW f \in Nat
    PROVE  /\ Pos(h) \in Nat
           /\ Pos(h) = 2 * f <=> h = 4 * f
           /\ Pos(h) > 2 * f <=> h > 4 * f
           /\ Pos(h) < 2 * f <=> h < 4 * f
BY PosShape

(* In a second at full speed, two quarters of a floor each way, the        *)
(* position changes by 2 at the most; it does change if it was at a floor. *)
LEMMA PosStep ==
    ASSUME NEW h \in Nat, NEW g \in Nat, h - g <= 4, g - h <= 4
    PROVE  /\ Pos(h) - Pos(g) <= 2 /\ Pos(g) - Pos(h) <= 2
           /\ h <= g => Pos(h) <= Pos(g)
           /\ h # g /\ Pos(h) = Pos(g) => Pos(h) % 2 = 1
<1>1. PICK f \in Nat : \/ h = 4 * f /\ Pos(h) = 2 * f
                       \/ 4 * f < h /\ h < 4 * f + 4 /\ Pos(h) = 2 * f + 1
  BY PosShape
<1>2. PICK e \in Nat : \/ g = 4 * e /\ Pos(g) = 2 * e
                       \/ 4 * e < g /\ g < 4 * e + 4 /\ Pos(g) = 2 * e + 1
  BY PosShape
<1>3. (2 * f + 1) % 2 = 1
  OBVIOUS
<1> QED  BY <1>1, <1>2, <1>3

(* What Advance of the untimed car asks of a step, by heights. *)
LEMMA AdvanceByHeight ==
    ASSUME SimInv, task, NEW g \in 0 .. 4 * (ByteSize - 1),
           height' = g, height - g <= 4, g - height <= 4,
           \/ Goal <= g /\ g <= height
           \/ height <= g /\ g <= Goal,
           moving \/ height # Goal,
           g = height => height = Goal,
           moving' = (g # Goal),
           UNCHANGED <<finalDestination, task, direction>>
    PROVE  Car!Advance
<1> DEFINE d == finalDestination
<1>1. height \in Nat /\ g \in Nat /\ d \in Nat /\ ByteSize \in Nat
  BY SimulatorAssumption DEF SimInv, TypeOK
<1>2. Pos(height) = 2 * d <=> height = Goal
  BY <1>1, PosAtFloor DEF Goal
<1>3. Pos(g) = 2 * d <=> g = Goal
  BY <1>1, PosAtFloor DEF Goal
<1>4. Pos(g) \in 0 .. 2 * (ByteSize - 1)
  <2>1. PICK top \in Nat : top = ByteSize - 1
    BY SimulatorAssumption, TopFloorAssumption
  <2>2. g <= 4 * top
    BY <1>1, <2>1
  <2>3. Pos(g) \in Nat /\ ~(Pos(g) > 2 * top)
    BY <1>1, <2>2, PosAtFloor
  <2> QED  BY <2>1, <2>3
<1>5. \/ /\ 2 * d <= Pos(g) /\ Pos(g) <= Pos(height)
         /\ Pos(height) - Pos(g) <= 2
      \/ /\ Pos(height) <= Pos(g) /\ Pos(g) <= 2 * d
         /\ Pos(g) - Pos(height) <= 2
  BY <1>1, PosAtFloor, PosStep DEF Goal
<1>6. Pos(g) = Pos(height) => Pos(height) % 2 = 1 \/ Pos(height) = 2 * d
  BY <1>1, <1>2, PosStep
<1>7. Car!Reach = {p \in 0 .. 2 * (ByteSize - 1) :
          \/ 2 * d <= p /\ p <= Pos(height) /\ Pos(height) - p <= 2
          \/ Pos(height) <= p /\ p <= 2 * d /\ p - Pos(height) <= 2}
  BY DEF Car!Reach, Car!Position, Pos
<1>8. Pos(g) \in Car!Reach
  BY <1>4, <1>5, <1>7
<1>9. /\ moving \/ Pos(height) # 2 * d
      /\ moving' = (Pos(g) # 2 * d)
  BY <1>2, <1>3
<1> QED
  BY <1>6, <1>8, <1>9 DEF Pos, Car!Advance, Car!AtDestination

(* Each step is a step of the untimed car, or none that it sees. *)
LEMMA StepOfCar ==
    ASSUME DoorsInv, Next, MaxGap <= 4
    PROVE  [Car!CarNext]_(Car!carVars)
<1> USE SimulatorAssumption DEF DoorsInv, SimInv, TypeOK
<1>0. ASSUME UNCHANGED <<height, moving, finalDestination, task, direction>>
      PROVE  UNCHANGED Car!carVars
  BY <1>0 DEF Car!carVars
<1>1. CASE Tick \/ IdleCall
  BY <1>0, <1>1 DEF Tick, IdleCall, Call
<1>2. CASE CruiseCall
  <2>1. UnderWay /\ elapsed < travelTime /\ numState = 1
    BY <1>2 DEF CruiseCall, Cruise, PhaseInv
  <2>2. CASE elapsed = 0
    <3>1. height' = height
      BY <1>2, <2>1, <2>2 DEF CruiseCall, Cruise, UnderWay, LastCall
    <3>2. moving' = moving
      BY <1>2, <2>2 DEF CruiseCall, Cruise
    <3> QED  BY <1>0, <1>2, <3>1, <3>2 DEF CruiseCall, Call, Cruise
  <2>3. CASE elapsed > 0
    <3>1. gap > 0 /\ gap <= 4
      BY <1>2 DEF CruiseCall, Call
    <3> DEFINE g == IF direction = DOWN THEN start - elapsed ELSE start + elapsed
    <3>2. /\ height' = g /\ task
          /\ UNCHANGED <<finalDestination, task, direction>>
      BY <1>2 DEF CruiseCall, Call, Cruise
    <3>3. /\ g \in 0 .. 4 * (ByteSize - 1)
          /\ g # height /\ height - g <= 4 /\ g - height <= 4
          /\ \/ Goal <= g /\ g <= height
             \/ height <= g /\ g <= Goal
          /\ height # Goal /\ g # Goal
      BY <2>1, <2>3, <3>1 DEF UnderWay, LastCall, Goal, Abs, Direction, UP, DOWN
    <3>4. moving' = (g # Goal)
      <4>1. moving'
        BY <1>2, <2>3 DEF CruiseCall, Cruise
      <4> HIDE DEF g
      <4> QED  BY <1>2, <3>3, <4>1 DEF CruiseCall, Cruise
    <3> HIDE DEF g
    <3>5. Car!Advance
      BY <3>2, <3>3, <3>4, AdvanceByHeight
    <3> QED  BY <3>5 DEF Car!CarNext
  <2> QED  BY <2>2, <2>3
<1>3. CASE StopCall
  <2>0. /\ task /\ height' = Goal /\ moving' = FALSE /\ gap > 0 /\ gap <= 4
        /\ UNCHANGED <<finalDestination, task, direction>>
    BY <1>3 DEF StopCall, Call, Stop
  <2>1. CASE height = Goal /\ ~moving
    BY <1>0, <2>0, <2>1
  <2>2. CASE moving \/ height # Goal
    <3>1. height - Goal <= 4 /\ Goal - height <= 4
      <4>1. CASE numState = 1
        <5>1. elapsed >= travelTime
          BY <1>3, <4>1 DEF StopCall, Stop, AtGoal
        <5> QED
          BY <2>0, <4>1, <5>1
             DEF PhaseInv, UnderWay, LastCall, Goal, Abs, Direction, UP, DOWN
      <4>2. CASE numState # 1
        BY <2>0, <4>2 DEF PhaseInv, InPlace, Arrived, Goal
      <4> QED  BY <4>1, <4>2
    <3>2. Goal \in 0 .. 4 * (ByteSize - 1)
      BY DEF Goal
    <3>3. moving' = (Goal # Goal)
      BY <2>0
    <3>4. Car!Advance
      BY <2>0, <2>2, <3>1, <3>2, <3>3, AdvanceByHeight
    <3> QED  BY <3>4 DEF Car!CarNext
  <2> QED  BY <2>1, <2>2
<1>4. CASE FinishCall
  <2>1. doors # {}
    BY <1>4, FinishAfterOpening
  <2>2. task /\ ~moving /\ height = Goal /\ height' = Goal /\ moving' = FALSE
    <3>1. numState = 0 \/ numState = 2
      BY <1>4 DEF FinishCall, Finish, DoorsOpening
    <3>2. task /\ height' = Goal /\ moving' = FALSE
      BY <1>4 DEF FinishCall, Finish, Goal
    <3>3. CASE numState = 2
      BY <2>1, <3>2, <3>3 DEF PhaseInv, InPlace
    <3>4. CASE numState = 0
      BY <2>1, <3>2, <3>4 DEF PhaseInv, Arrived
    <3> QED  BY <3>1, <3>3, <3>4
  <2>3. /\ UNCHANGED <<height, moving, direction>>
        /\ finalDestination' = 0 /\ task' = FALSE
    <3>1. moving = FALSE
      BY <2>2
    <3> QED  BY <1>4, <2>2, <3>1 DEF FinishCall, Call, Finish
  <2>4. Pos(height) = 2 * finalDestination
    BY <2>2, PosAtFloor DEF Goal
  <2>5. Car!Finish
    BY <2>2, <2>3, <2>4
       DEF Pos, Car!Finish, Car!DoorsDone, Car!AtDestination, Car!Reset
  <2> QED  BY <2>5 DEF Car!CarNext
<1>5. ASSUME NEW t \in 0 .. ByteSize - 1, SetFinalDestination(t)
      PROVE  Car!CarNext
  <2>1. Pos(height) > 2 * t <=> height > 4 * t
    BY PosAtFloor
  <2>2. direction' = IF Pos(height) > 2 * t THEN DOWN ELSE UP
    BY <1>5, <2>1 DEF SetFinalDestination
  <2>3. Car!SetFinalDestination(t)
    BY <1>5, <2>2
       DEF SetFinalDestination, Pos, Car!SetFinalDestination, Car!Heading,
           Car!UP, Car!DOWN, UP, DOWN
  <2> QED  BY <2>3 DEF Car!CarNext, Car!Byte
<1>6. ASSUME NEW shift \in {InOutTime, -2}, PressButton(shift)
      PROVE  UNCHANGED Car!carVars
  BY <1>0, <1>6 DEF PressButton
<1> QED  BY <1>1, <1>2, <1>3, <1>4, <1>5, <1>6, NextSplits

(* Polled every two seconds at the latest, the timed car moves and stops   *)
(* as the untimed one the controller is modelled with: calculateValues     *)
(* moves it by a floor at the most, never past its destination, and ends   *)
(* no task on the way.                                                     *)
THEOREM SimulatorImplementsCar ==
    ASSUME MaxGap <= 4
    PROVE  Spec => ImplementsCar
<1>1. Init => Car!CarInit
  <2> SUFFICES ASSUME Init
               PROVE  Car!CarInit
    OBVIOUS
  <2>1. height = 4 * 1
    BY DEF Init
  <2>2. Pos(height) = 2
    BY <2>1, PosAtFloor
  <2> QED  BY <2>2 DEF Init, Pos, Car!CarInit, Car!UP, UP
<1>2. DoorsInv /\ [Next]_vars => [Car!CarNext]_(Car!carVars)
  BY StepOfCar DEF vars, Car!carVars
<1> QED
  BY <1>1, <1>2, DoorsInvariant, PTL DEF Spec, ImplementsCar, Car!CarSpec
=============================================================================
