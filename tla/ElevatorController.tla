------------------------- MODULE ElevatorController -------------------------
(***************************************************************************)
(* One elevator controller: elevator_controller/ElevatorController.cpp     *)
(* with its car, driven by the real-time tasks main.cpp starts for it.     *)
(*                                                                         *)
(*   st    updateStatus   every 75 ms, under the mutex                     *)
(*   fr    floorRun       waits on freeCond, under the mutex               *)
(*   sv    supervise      every 20 s, under the mutex                      *)
(*   comm  communicate    hall calls from the dispatcher, NO lock          *)
(*   udp   UDPView::run   floor selections from the GUI, NO lock           *)
(*   rv    runValues      moves the car about every second, NO lock        *)
(*                                                                         *)
(* A task is split into actions where another task can act in between and  *)
(* make a difference.  Some of the unlocked windows are a few instructions *)
(* wide; Races says which of them the scheduler is allowed to hit.         *)
(***************************************************************************)
EXTENDS ElevatorCar

CONSTANTS
    MaxFloors,      \* MAX_FLOORS, where the supervisor turns the car round
    HallCalls,      \* the <<floor, direction>> pairs the dispatcher may send
    Selections,     \* the floors the GUI may select
    MaxRequests,    \* bound: hall calls and selections in a behaviour
    DispatcherMayFail,
    Races

ASSUME ControllerAssumption ==
    /\ MaxFloors \in Nat \ {0} /\ MaxFloors < ByteSize - 1
    /\ HallCalls \subseteq Floor \X Direction
    /\ Selections \subseteq Floor
    /\ MaxRequests \in Nat
    /\ DispatcherMayFail \in BOOLEAN
    /\ Races \subseteq {"flush", "reset", "vector", "wakeup", "overshoot", "lag"}

VARIABLES
    upHeap, downHeap,   \* floors to visit on an upward and a downward run
    missed,             \* missedHallCalls
    eStat,              \* ElevatorStatus: what the tasks know of the car
    topItem,            \* floorRun's local, Unset until first assigned
    mutex,              \* "free" or the task that holds it between actions
    st, fr, sv, rv,     \* where each task stands
    call, selection,    \* what comm and udp have classified, not yet pushed
    requests            \* hall calls and selections received so far

ctlVars == <<upHeap, downHeap, missed, eStat, topItem, mutex, st, fr, sv, rv,
             call, selection, requests>>
vars == <<carVars, ctlVars>>

Unset == -1
Nothing == [into |-> "nothing", floor |-> 0]
Placement == [into : {"up", "down", "missed"}, floor : Floor] \cup {Nothing}

Status == [currentFloor : Byte, moving : BOOLEAN, direction : Direction,
           taskAssigned : BOOLEAN, destination : Byte,
           serviceDirection : Direction,
           GDFailed : BOOLEAN, GDFailedEmptyHeap : BOOLEAN]

Init ==
    /\ CarInit
    /\ upHeap = EmptyHeap /\ downHeap = EmptyHeap /\ missed = EmptyBag
    /\ eStat = [currentFloor |-> 0, moving |-> FALSE, direction |-> UP,
                taskAssigned |-> FALSE, destination |-> 0,
                serviceDirection |-> UP,
                GDFailed |-> FALSE, GDFailedEmptyHeap |-> FALSE]
    /\ topItem = Unset
    /\ mutex = "free"
    /\ st = "wait" /\ fr = "top" /\ sv = "ready" /\ rv = "poll"
    /\ call = Nothing /\ selection = Nothing
    /\ requests = 0

HeapOf(d) == IF d = UP THEN upHeap ELSE downHeap
HeapsEmpty == Contents(upHeap) \cup Contents(downHeap) = {}

-----------------------------------------------------------------------------
(* comm and udp.  A request is classified on what eStat says at that       *)
(* moment and pushed later: updateStatus and floorRun run in between.      *)

(* A car that stands may still stop at floor f on a run in direction d if  *)
(* f is not behind it; a moving one needs a floor more than one ahead.     *)
CanStopAt(f, d) ==
    LET at == eStat.currentFloor
    IN  CASE d = UP   /\ ~eStat.moving -> at <= f
          [] d = UP   /\ eStat.moving  -> at < f - 1
          [] d = DOWN /\ ~eStat.moving -> at >= f
          [] d = DOWN /\ eStat.moving  -> at > f + 1

(* addHallCall: a call against the service direction waits in its own      *)
(* heap; a call along it that cannot be met is set aside as missed.        *)
PlaceHallCall(f, d) ==
    [into |-> IF d = eStat.serviceDirection /\ ~CanStopAt(f, d)
                THEN "missed" ELSE d,
     floor |-> f]

(* Mutant: a selection the car cannot meet is set aside like a hall call.  *)
PlaceSelectionAsMissed(f) ==
    LET d == eStat.serviceDirection
    IN  [into |-> IF CanStopAt(f, d) THEN d ELSE "missed", floor |-> f]

(* addFloorSelection: this run if the car can still stop, else the next.   *)
PlaceSelection(f) ==
    LET d == eStat.serviceDirection
    IN  [into |-> IF CanStopAt(f, d) THEN d ELSE Opposite(d), floor |-> f]

ReceiveHallCall(f, d) ==
    /\ ~eStat.GDFailed
    /\ call = Nothing
    /\ requests < MaxRequests
    /\ call' = PlaceHallCall(f, d)
    /\ requests' = requests + 1
    /\ UNCHANGED <<carVars, upHeap, downHeap, missed, eStat, topItem, mutex,
                   st, fr, sv, rv, selection>>

ReceiveSelection(f) ==
    /\ selection = Nothing
    /\ requests < MaxRequests
    /\ selection' = PlaceSelection(f)
    /\ requests' = requests + 1
    /\ UNCHANGED <<carVars, upHeap, downHeap, missed, eStat, topItem, mutex,
                   st, fr, sv, rv, call>>

(* updateMissedFloor copies the missed calls before it clears them.  A     *)
(* call pushed between the two steps is cleared unseen.                    *)
InFlush == st = "clear" \/ fr = "clear"

PushHallCallTo(into, f) ==
    /\ upHeap' = IF into = UP THEN PushHallCall(upHeap, f) ELSE upHeap
    /\ downHeap' = IF into = DOWN THEN PushHallCall(downHeap, f) ELSE downHeap
    /\ missed' = IF into = "missed" THEN Push(missed, f) ELSE missed

CommPush ==
    /\ call # Nothing
    /\ call.into = "missed" /\ InFlush => "flush" \in Races
    /\ PushHallCallTo(call.into, call.floor)
    /\ call' = Nothing
    /\ UNCHANGED <<carVars, eStat, topItem, mutex, st, fr, sv, rv, selection,
                   requests>>

UdpPush ==
    LET into == selection.into
        f == selection.floor
    IN  /\ selection # Nothing
        /\ upHeap' = IF into = UP THEN PushFloorRequest(upHeap, f) ELSE upHeap
        /\ downHeap' = IF into = DOWN THEN PushFloorRequest(downHeap, f)
                                      ELSE downHeap
        /\ selection' = Nothing
        /\ UNCHANGED <<carVars, missed, eStat, topItem, mutex, st, fr, sv, rv,
                       call, requests>>

(* Neither push takes the mutex.  One that runs into a task working on the *)
(* same std::vector is a data race; of its outcomes the model has the      *)
(* mildest, that the pushed element is lost.                               *)
LoseCall ==
    /\ "vector" \in Races /\ mutex # "free"
    /\ call # Nothing
    /\ call' = Nothing
    /\ UNCHANGED <<carVars, upHeap, downHeap, missed, eStat, topItem, mutex,
                   st, fr, sv, rv, selection, requests>>

LoseSelection ==
    /\ "vector" \in Races /\ mutex # "free"
    /\ selection # Nothing
    /\ selection' = Nothing
    /\ UNCHANGED <<carVars, upHeap, downHeap, missed, eStat, topItem, mutex,
                   st, fr, sv, rv, call, requests>>

(* waitForGDRequest: recv failed.  The comm task ends, for good. *)
DispatcherFails ==
    /\ DispatcherMayFail /\ ~eStat.GDFailed
    /\ call = Nothing
    /\ eStat' = [eStat EXCEPT !.GDFailed = TRUE]
    /\ UNCHANGED <<carVars, upHeap, downHeap, missed, topItem, mutex, st, fr,
                   sv, rv, call, selection, requests>>

-----------------------------------------------------------------------------
(* Mutant: the missed calls of a downward run are not passed on. *)
UpdateMissedFloorUp(d) ==
    /\ upHeap' = IF d = UP THEN PushHallCallVector(upHeap, missed) ELSE upHeap
    /\ downHeap' = downHeap

(* updateMissedFloor(d): the missed calls join the heap of direction d     *)
(* (missedFloorSelections is never filled).  The clear is a later action.  *)
UpdateMissedFloor(d) ==
    /\ upHeap' = IF d = UP THEN PushHallCallVector(upHeap, missed) ELSE upHeap
    /\ downHeap' = IF d = DOWN THEN PushHallCallVector(downHeap, missed)
                               ELSE downHeap

(* updateStatus, first part: sample the car, then pop a heap whose front   *)
(* is the floor where the car stands with no task left.  calculateValues   *)
(* writes the extrapolated position, and the floor it rounds to, before it *)
(* finds that the car has arrived and corrects both; a sample between the  *)
(* two writes of currentFloor reads any byte.                              *)
SampledFloor ==
    {CurrentFloor} \cup (IF "overshoot" \in Races /\ moving THEN Byte ELSE {})

(* Mutant: the front is popped whatever the car is doing. *)
PopPassed(d, h, f) ==
    IF Contents(h) # {} /\ f = Peek(d, h) THEN Pop(d, h) ELSE h

PopServed(d, h, f) ==
    IF Contents(h) # {} /\ ~task /\ f = Peek(d, h) THEN Pop(d, h) ELSE h

StSample ==
    /\ st = "wait" /\ mutex = "free"
    /\ fr = "woken" => "wakeup" \in Races
    /\ \E f \in SampledFloor :
         /\ eStat' = [eStat EXCEPT !.currentFloor = f, !.taskAssigned = task,
                                   !.moving = moving, !.direction = direction,
                                   !.GDFailedEmptyHeap = @ \/ HeapsEmpty]
         /\ upHeap' = PopServed(UP, upHeap, f)
         /\ downHeap' = PopServed(DOWN, downHeap, f)
    /\ mutex' = "st" /\ st' = "direct"
    /\ UNCHANGED <<carVars, missed, topItem, fr, sv, rv, call, selection,
                   requests>>

(* Keep serving the car's direction while its heap holds a floor, else the *)
(* other one; with both empty the missed calls come back.                  *)
ServiceDirection ==
    LET d == eStat.direction
    IN  IF Contents(HeapOf(d)) # {} THEN d
        ELSE IF Contents(HeapOf(Opposite(d))) # {} THEN Opposite(d)
        ELSE eStat.serviceDirection

StDirect ==
    /\ st = "direct"
    /\ eStat' = [eStat EXCEPT !.serviceDirection = ServiceDirection]
    /\ \/ /\ HeapsEmpty
          /\ UpdateMissedFloor(eStat.direction)
          /\ st' = "clear"
       \/ /\ ~HeapsEmpty
          /\ UNCHANGED <<upHeap, downHeap>>
          /\ st' = "signal"
    /\ UNCHANGED <<carVars, missed, topItem, mutex, fr, sv, rv, call,
                   selection, requests>>

StClear ==
    /\ st = "clear"
    /\ missed' = EmptyBag
    /\ st' = "signal"
    /\ UNCHANGED <<carVars, upHeap, downHeap, eStat, topItem, mutex, fr, sv,
                   rv, call, selection, requests>>

(* Mutants: the signal is given with nothing to do; the flag that keeps    *)
(* floorRun spinning is never cleared.                                     *)
StSignalAlways ==
    /\ st = "signal"
    /\ eStat' = [eStat EXCEPT !.GDFailedEmptyHeap = FALSE]
    /\ fr' = IF fr = "waiting" THEN "woken" ELSE fr
    /\ mutex' = "free" /\ st' = "wait" /\ sv' = "ready"
    /\ rv' = IF rv = "asleep" THEN "poll" ELSE rv
    /\ UNCHANGED <<carVars, upHeap, downHeap, missed, topItem, call,
                   selection, requests>>

StSignalKeepsFlag ==
    /\ st = "signal"
    /\ fr' = IF fr = "waiting" /\ ~HeapsEmpty THEN "woken" ELSE fr
    /\ mutex' = "free" /\ st' = "wait" /\ sv' = "ready"
    /\ rv' = IF rv = "asleep" THEN "poll" ELSE rv
    /\ UNCHANGED <<carVars, upHeap, downHeap, missed, eStat, topItem, call,
                   selection, requests>>

(* releaseFreeCond and the release of the mutex.  A signal nobody waits    *)
(* for is lost.  The supervisor and runValues, which sleep for 20 s and    *)
(* 1 s, sleep through at least one such period of 75 ms.                   *)
StSignal ==
    /\ st = "signal"
    /\ \/ /\ HeapsEmpty
          /\ UNCHANGED <<eStat, fr>>
       \/ /\ ~HeapsEmpty
          /\ eStat' = [eStat EXCEPT !.GDFailedEmptyHeap = FALSE]
          /\ fr' = IF fr = "waiting" THEN "woken" ELSE fr
    /\ mutex' = "free" /\ st' = "wait" /\ sv' = "ready"
    /\ rv' = IF rv = "asleep" THEN "poll" ELSE rv
    /\ UNCHANGED <<carVars, upHeap, downHeap, missed, topItem, call,
                   selection, requests>>

-----------------------------------------------------------------------------
(* floorRun spins at the top of its loop while the heaps were last seen    *)
(* empty, then takes the mutex and waits for freeCond.                     *)
FrCheck ==
    /\ fr = "top" /\ ~eStat.GDFailedEmptyHeap
    /\ fr' = "acquire"
    /\ UNCHANGED <<carVars, upHeap, downHeap, missed, eStat, topItem, mutex,
                   st, sv, rv, call, selection, requests>>

FrWait ==
    /\ fr = "acquire" /\ mutex = "free"
    /\ fr' = "waiting"
    /\ UNCHANGED <<carVars, upHeap, downHeap, missed, eStat, topItem, mutex,
                   st, sv, rv, call, selection, requests>>

(* The floor to head for: the front of the heap being served, else of the  *)
(* other one.  With both empty topItem keeps its value, which is arbitrary *)
(* until it is first assigned.                                             *)
NextItem ==
    LET d == eStat.serviceDirection
    IN  IF Contents(HeapOf(d)) # {} THEN {Peek(d, HeapOf(d))}
        ELSE IF Contents(HeapOf(Opposite(d))) # {}
          THEN {Peek(Opposite(d), HeapOf(Opposite(d)))}
        ELSE IF topItem = Unset THEN Byte ELSE {topItem}

(* The destination is assigned only when it differs from the last one; the *)
(* missed calls come back when the car, as last sampled, turned round.     *)
FrRun ==
    /\ fr = "woken" /\ mutex = "free"
    /\ \E t \in NextItem :
         /\ topItem' = t
         /\ eStat' = [eStat EXCEPT !.destination = t,
                                   !.GDFailedEmptyHeap = @ \/ HeapsEmpty]
         /\ IF t # eStat.destination THEN SetFinalDestination(t)
                                     ELSE UNCHANGED carVars
    /\ \/ /\ eStat.direction # direction'
          /\ UpdateMissedFloor(eStat.direction)
          /\ mutex' = "fr" /\ fr' = "clear"
       \/ /\ eStat.direction = direction'
          /\ fr' = "top"
          /\ UNCHANGED <<upHeap, downHeap, mutex>>
    /\ UNCHANGED <<missed, st, sv, rv, call, selection, requests>>

FrClear ==
    /\ fr = "clear"
    /\ missed' = EmptyBag
    /\ mutex' = "free" /\ fr' = "top"
    /\ UNCHANGED <<carVars, upHeap, downHeap, eStat, topItem, st, sv, rv,
                   call, selection, requests>>

-----------------------------------------------------------------------------
(* Mutant: no turn at floor 0. *)
PatrolPastGround ==
    LET at == eStat.destination
    IN  IF eStat.direction = DOWN \/ at = MaxFloors
          THEN (at + ByteSize - 1) % ByteSize ELSE (at + 1) % ByteSize

(* supervise: with the dispatcher gone and nothing to do, an idle car is   *)
(* sent one floor on, and turns round at floor 0 and at MaxFloors.  A car  *)
(* that was last sent above MaxFloors goes on up until the destination, an *)
(* unsigned char, wraps round to 0.                                        *)
Patrol ==
    LET at == eStat.destination
    IN  IF (eStat.direction = DOWN /\ at # 0) \/ at = MaxFloors
          THEN at - 1 ELSE (at + 1) % ByteSize

(* Mutant: the car's task is not asked after. *)
SvRunAnyTime ==
    /\ sv = "ready" /\ mutex = "free"
    /\ IF eStat.GDFailed /\ eStat.GDFailedEmptyHeap
         THEN /\ eStat' = [eStat EXCEPT !.destination = Patrol]
              /\ SetFinalDestination(Patrol)
         ELSE UNCHANGED <<carVars, eStat>>
    /\ sv' = "asleep"
    /\ UNCHANGED <<upHeap, downHeap, missed, topItem, mutex, st, fr, rv, call,
                   selection, requests>>

SvRun ==
    /\ sv = "ready" /\ mutex = "free"
    /\ \/ /\ eStat.GDFailed /\ eStat.GDFailedEmptyHeap /\ ~eStat.taskAssigned
          /\ eStat' = [eStat EXCEPT !.destination = Patrol]
          /\ SetFinalDestination(Patrol)
       \/ /\ ~(eStat.GDFailed /\ eStat.GDFailedEmptyHeap
                 /\ ~eStat.taskAssigned)
          /\ UNCHANGED <<carVars, eStat>>
    /\ sv' = "asleep"
    /\ UNCHANGED <<upHeap, downHeap, missed, topItem, mutex, st, fr, rv, call,
                   selection, requests>>

-----------------------------------------------------------------------------
(* runValues calls calculateValues without the mutex, once a second or,    *)
(* with updateStatus lagging behind, more often than that runs.            *)
AfterPoll == IF "lag" \in Races THEN "poll" ELSE "asleep"

RvAdvance ==
    /\ rv = "poll"
    /\ Advance
    /\ rv' = AfterPoll
    /\ UNCHANGED <<upHeap, downHeap, missed, eStat, topItem, mutex, st, fr, sv,
                   call, selection, requests>>

(* Between its decision that the task is over and its reset, floorRun or   *)
(* supervise may assign the next task, which the reset then wipes out.     *)
RvFinish ==
    /\ rv = "poll"
    /\ \/ Finish /\ rv' = AfterPoll
       \/ "reset" \in Races /\ DoorsDone /\ UNCHANGED carVars /\ rv' = "reset"
    /\ UNCHANGED <<upHeap, downHeap, missed, eStat, topItem, mutex, st, fr, sv,
                   call, selection, requests>>

RvReset ==
    /\ rv = "reset"
    /\ Reset
    /\ rv' = AfterPoll
    /\ UNCHANGED <<upHeap, downHeap, missed, eStat, topItem, mutex, st, fr, sv,
                   call, selection, requests>>

-----------------------------------------------------------------------------
Comm == (\E c \in HallCalls : ReceiveHallCall(c[1], c[2])) \/ CommPush
            \/ LoseCall \/ DispatcherFails
Udp == (\E f \in Selections : ReceiveSelection(f)) \/ UdpPush \/ LoseSelection
UpdateStatus == StSample \/ StDirect \/ StClear \/ StSignal
FloorRun == FrCheck \/ FrWait \/ FrRun \/ FrClear
RunValues == RvAdvance \/ RvFinish \/ RvReset

Next == Comm \/ Udp \/ UpdateStatus \/ FloorRun \/ SvRun \/ RunValues

Spec == Init /\ [][Next]_vars

(* Every task runs again and again; nobody has to send a request.  A task  *)
(* that queues for the mutex gets it in turn (strong fairness), and the    *)
(* car does not stay between two floors for ever.                          *)
Headway == RvAdvance /\ position' # position

Fairness ==
    /\ SF_vars(CommPush) /\ WF_vars(UdpPush)
    /\ SF_vars(UpdateStatus) /\ SF_vars(FloorRun) /\ SF_vars(SvRun)
    /\ SF_vars(RunValues) /\ SF_vars(Headway)

FairSpec == Spec /\ Fairness

-----------------------------------------------------------------------------
(* Properties *)

(* Everything keeps its type; in particular no heap hands out a floor it   *)
(* does not hold and the destination stays a byte.                         *)
TypeOK ==
    /\ CarTypeOK
    /\ upHeap \in Heap /\ downHeap \in Heap /\ missed \in Bag
    /\ eStat \in Status
    /\ topItem \in Byte \cup {Unset}
    /\ mutex \in {"free", "st", "fr"}
    /\ st \in {"wait", "direct", "clear", "signal"}
    /\ fr \in {"top", "acquire", "waiting", "woken", "clear"}
    /\ sv \in {"ready", "asleep"}
    /\ rv \in {"poll", "asleep", "reset"}
    /\ call \in Placement
    /\ selection \in Placement /\ selection.into # "missed"
    /\ requests \in 0 .. MaxRequests

(* The controller's destination is where the car goes, and where it stands *)
(* when it has no task: floorRun skips setFinalDestination when the next   *)
(* floor equals it, and relies on that.  (At start-up the controller       *)
(* believes the car at floor 0 and it stands at floor 1.)                  *)
CarFollowsOrders ==
    /\ task => finalDestination = eStat.destination
    /\ ~task => \/ position = 2 * eStat.destination
                \/ position = 2 /\ eStat.destination = 0

(* The floors somebody waits for: in a heap, missed, or on the way there. *)
InHand(p) == IF p = Nothing THEN {} ELSE {p.floor}
Asked == Contents(upHeap) \cup Contents(downHeap) \cup Support(missed)
           \cup InHand(call) \cup InHand(selection)

(* The car only ever makes for a floor somebody waits for, as long as the  *)
(* dispatcher lives: whatever was popped, flushed or pushed meanwhile.     *)
HeadsForAskedFloor == task /\ ~eStat.GDFailed => eStat.destination \in Asked

(* When floorRun wakes there is a floor to head for, so it never assigns   *)
(* the uninitialised or outdated topItem.                                  *)
WakesWithWork == fr = "woken" => ~HeapsEmpty

(* A floor leaves the set of asked floors only while the car stands there  *)
(* idle: no call is lost between the heaps, the missed calls and the       *)
(* tasks' hands, except by two unlocked windows the code leaves open, the  *)
(* clear of updateMissedFloor and a push into a vector in use ("flush" and *)
(* "vector" in Races).                                                     *)
Standing == IF Parked THEN CurrentFloor ELSE -1
Service == INSTANCE ElevatorService WITH
               Floors <- Byte, asked <- Asked, standing <- Standing
ImplementsService == Service!Spec

(* The supervisor acts on eStat.taskAssigned and GDFailedEmptyHeap, sampled *)
(* up to a period ago; it never diverts a car that has a task.             *)
SupervisorMovesIdleCar == [][SvRun => ~task \/ UNCHANGED carVars]_vars

(* Whoever asks for a floor is served, as often as he asks, unless the car *)
(* is turned round for ever: floorRun heads for the front of the heap of   *)
(* the service direction, that follows the car's direction, and the car's  *)
(* direction follows the floor it heads for.  With one upward call and two *)
(* selections the three can chase each other without end, and no task is   *)
(* completed.                                                              *)
Settles == <>[](direction = UP) \/ <>[](direction = DOWN)
ServedUnlessTurned == Settles => []<>(Asked = {})

(* With the dispatcher gone and nobody asking, the supervisor shows the    *)
(* idle car at every floor from 0 to MAX_FLOORS, over and over, even when  *)
(* it was left at a floor above MAX_FLOORS.                                *)
PatrolsEveryFloor ==
    \A f \in 0 .. MaxFloors : eStat.GDFailed ~> Standing = f
=============================================================================
