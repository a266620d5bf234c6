# A verification project for the elevator control system

The repository is an elevator control system in two programs:

* `elevator_controller/` (C++ on Xenomai): elevator controllers (EC), each with a
  simulated car, in one process (`NUM_ELEVATORS` of `main.cpp`, as committed one);
* `src/main/` (Java): the group dispatcher (GD), which spreads hall calls over
  the controllers, and the GUI, which shows every car and sends its buttons.

This directory holds TLA+ modules for parts of it, TLC configurations that
check them on small instances, and proofs that TLAPS checks for every instance.
`PROJECT.json` maps each definition to the lines it models.

## 1. Inventory

### Components

| Component | State | Operations |
|---|---|---|
| Floor-run heaps (`Heap.cpp`, `Heap.hpp`) | two vectors per heap: hall calls, floor requests | `peek`, `pop`, `push…`, `push…Vector` |
| Elevator controller (`ElevatorController.cpp`) | up and down heap, missed hall calls, `ElevatorStatus`, mutex, condition `freeCond` | `communicate`/`addHallCall`, `addFloorSelection`, `updateStatus`, `floorRun`, `supervise`, `sendStatus` |
| Elevator simulator (`ElevatorSimulator.cpp`) | position, speed, destination, task, direction, timetable, door flags | `setFinalDestination`, `calculateValues`, `reset`, door buttons |
| Tasks (`main.cpp`) | six real-time tasks per elevator | start-up, `runValues` |
| UDP view (`UDPView.cpp`) | socket to the GUI | `run` (selections, doors, emergency), `notifyFloorReached`, `notifyDirectionChanged` |
| C++ messages (`Message.cpp`) | none | serialising, parsing |
| Group dispatcher (`GroupDispatcher.java`) | elevators with last known status, a polling runnable for each, timer | `onConnectionCreated`, `onHallCall`, `updateECStatus`, `removeElevator` |
| Dispatch strategy (`SimpleDispatchStrategy.java`) | none | `dispatch`: nearest car, preferring its direction |
| GD connections (`UpdaterRunnable`, `TCPConnectionManager`, UDP) | sockets, pool of threads | poll a status, receive with a time-out, accept |
| GUI (`ViewControl`, panels) | button lights, floor and direction shown per car | handlers of notifications, button presses |
| Java messages, model, utilities | none of their own | serialising, parsing, constants, logging |

### How they interact

The dispatcher polls each controller over TCP every half second and sends it
hall calls on the same stream; a controller answers polls with its status. The
GUI sends floor selections to a controller and hall calls to the dispatcher by
UDP, and receives floor, direction and hall-call notifications by UDP, each
handled in a thread of its own. Inside a controller the tasks share the heaps,
the missed calls, `ElevatorStatus` and the car:

| Task | Period | Mutex | Effect |
|---|---|---|---|
| `communicate` | on receipt | no | pushes a hall call, answers a poll; ends when `recv` fails |
| `UDPView::run` | on receipt | no | pushes a floor selection |
| `updateStatus` | 75 ms | yes | samples the car, pops a served floor, sets the service direction, signals `freeCond` |
| `floorRun` | on `freeCond` | yes | gives the car the next floor, returns the missed calls when it turns |
| `supervise` | 20 s | yes | moves the idle car when the dispatcher is gone |
| `runValues` | 1 s | no | `calculateValues`: moves the car, ends tasks |

### What is hard

The unlocked tasks race with the locked ones; a request is classified on a status
that is up to 75 ms old; signals can be lost; the direction of the car and the
service direction feed back into each other; a task can be replaced at any
moment; the destination is a byte. On the Java side polls time out and pile up,
elevators disappear, and datagrams overtake each other. `hazards` in
`PROJECT.json` lists each of these at its line.

### What makes each component correct

* Heaps: drain in order of the run, never lose or invent a floor.
* Controller: an asked floor stays asked until the car stands there; the car
  goes where the controller believes; it is moved for a reason; it is eventually
  there.
* Simulator: doors shut unless standing at the destination, one door phase at a
  time, never past the destination, every task ends.
* Supervisor: never diverts a busy car, visits every floor up to `MAX_FLOORS`.
* Dispatcher: every hall call is at some live elevator until served; an elevator
  that failed is removed, once; the status it knows is one the controller had.
* GUI: a dark button waits for something; what it shows is what the controller
  last said; no notification kills it.

## 2. Modules

```
FloorRunHeap ── ElevatorCar ── ElevatorController ── ElevatorControllerProofs
     │                │               └ INSTANCE ElevatorService (abstract)
     │                └ INSTANCE, abstract, in ElevatorSimulator ── ElevatorSimulatorProofs
     └── HeapRun (INSTANCE FloorQueue, abstract) ── HeapRunProofs
     └── FloorRunHeapProofs (lemmas, used by both proof modules)
                      └── View (the car of ElevatorCar, with the GUI) ── ViewProofs
GroupDispatcher ── GroupDispatcherProofs
StatusLink ── StatusLinkProofs
CollectionLemmas (ranges, removals and concatenations of sequences; used by the last two proof modules)
MCHeapRun, MCElevatorController, MCElevatorSimulator, MCGroupDispatcher, MCStatusLink,
MCView: sets for the configurations
```

**FloorRunHeap** has the operators of `Heap.cpp`. A part of a heap is a bag: the
program reads nothing of a vector kept by `push_heap`/`pop_heap` but its front
(the status message lists it all, in an order that means nothing; `StatusLink` has the lists). `Pop` keeps
the two kinds of removal of the code: one copy when the other part is empty, all
copies otherwise. **HeapRun** drives one heap with pushes, batches and pops;
**FloorQueue** is the set it should look like.

**ElevatorCar** is the car as the controller sees it, untimed: a position is
even at a floor and odd between two. **ElevatorSimulator** has the clock, the
timetable and the door windows and is shown to implement it. Time is in half
seconds and height in quarters of a floor (a car makes 5 m/s, a floor is 10 m).

**ElevatorController** is one controller with its car. `st`, `fr`, `sv`, `rv`
say where each task stands, `mutex` who holds the lock between two actions, and
`call` and `selection` are requests that `addHallCall` and `addFloorSelection`
have classified but not yet pushed. A task is cut into actions where another
task can act in between and make a difference:

| Task | Actions |
|---|---|
| `communicate` | `ReceiveHallCall`, `CommPush` (or `LoseCall`), `DispatcherFails` |
| `UDPView::run` | `ReceiveSelection`, `UdpPush` (or `LoseSelection`) |
| `updateStatus` | `StSample`, `StDirect`, `StClear`, `StSignal` |
| `floorRun` | `FrCheck`, `FrWait`, `FrRun`, `FrClear` |
| `supervise` | `SvRun` |
| `runValues` | `RvAdvance`, `RvFinish` (or its decision and `RvReset`) |

`updateMissedFloor` is split at the point that matters, between the copy of the
missed calls (in `StDirect` and `FrRun`) and the clear (`StClear`, `FrClear`).

**ElevatorService** is what a passenger expects of the elevator: a set of asked
floors, and a floor leaves the set only while the car stands there idle. It is
the abstract specification `ImplementsService` refers to, with a floor asked when
it is in a heap, among the missed calls, or in the hands of a receiving task.

**GroupDispatcher** is the Java dispatcher with its elevators reduced to the hall
calls they hold. `known` and `polled` are its two maps (`elevatorCars`,
`updaterRunnables`), `assigned` the hall calls of each elevator's last status, `queue`
and `run` the thread pool, `inHand` the calls of `onHallCall` in progress, `toEC` and
`fromEC` the two directions of each TCP stream.

| Thread | Actions |
|---|---|
| elevator | `AnswerPoll`, `AcceptCall`, `Serve`, `Fail` |
| registration (`onConnectionCreated`) | `Register`, `StoreModel`, `StoreRunnable` |
| hall call (`onHallCall`) | `HallCall`, `Walk`, `Dispatch` or `DispatchNull`, `Discard`, `Deliver` |
| timer | `Tick` |
| pool (`UpdaterRunnable.run`) | `TakeRun`, `ReceiveStatus`, `ReceiveGarbled`, `ReceiveEnd`, `ReceiveReset`, `TimeOut`, then `UpdateECStatus` or `RemoveElevator` |

A hall call is cut at each place where a removal can come between: the walk of the
map in `dispatch`, the choice, the send. `DispatchNull` is the walk that holds the key
of an elevator removed before its data are read. `ReceiveGarbled` is one of two runs
reading the same stream byte by byte. After `fatal` the dispatcher does nothing.

**StatusLink** is the TCP stream between one controller and the dispatcher, in bytes.
`sendStatus` takes no mutex and meets the other tasks at two points, which cut it in three:

| Process | Actions |
|---|---|
| `communicate` | `AddHallCall`; `CopyHeaps`, `Count`, `Fill` (`sendStatus`) |
| other tasks, as environment | `Serve`, `UpdateMissedFloor`, `AddFloorSelection` |
| dispatcher | `SendHallCall`, `SendPoll`, then `UpdateECStatus`, `IgnoreMessage` or `RemoveElevator` |

The heaps are copied (`getHallCalls`), the missed calls are counted and later written as they are by
then, and the message is as long as the counts said: if a flush comes in between, its end is stack
memory (`Garbage`). A status with n hall calls and m floor requests has 8+2n+m bytes. The counts of the
downward and of the missed floor requests overwrite the last byte before them, so that the parsed floor
requests are never those of the heaps, where `MessageTest.java:180` expects a message to give back its
floor selections; nothing reads them. The model shows that the hall calls before them survive and that
the parser stays in its buffer. `receiveData` reads to the delimiter or one byte past its buffer of 50. `spoilt`
records the three things that break a status: `flush` (the missed calls return to a heap while a status is
made), `overshoot` (floor 255, the delimiter, is sampled), `long` (more than 51 bytes: more than 21 calls).
`recv` takes any number of whole messages and only the first is looked at, so polls and calls get lost.
`steady` and `seen` are history variables: floors called all the time since the poll went out, and ever
since. Directions are not compared, as a missed call goes out with the direction of the car.

**View** is the GUI with one elevator and the dispatcher. The elevator is the car of `ElevatorCar` with
the set of asked buttons.

| Thread | Actions |
|---|---|
| start-up (`main`) | `ConnectToGD`, `OnElevatorRegister`, `FirstSample` |
| controller and car | `FloorRun`, `CarMoves`, `Serve`, `AddFloorSelection` |
| dispatcher | `OnHallCall`, `UpdateECStatus`, `RemoveElevator` |
| one thread per datagram | `OnFloorReached`, `OnElevatorDirectionChange`, `OnHallCallServiced`, `OnElevatorError` |
| event thread | `PressHallButton`, `PressFloorButton`, `RunNext` |

A button goes dark when it is pressed. A floor button is re-lit by a notification of its floor; a hall
button by the dispatcher, which infers from two polls that a car has stopped or turned. Both kinds of news
come in any order, and reach the screen through the event queue `edt`. `excused` keeps the dark buttons for
which the code sends no news: a floor button pressed where the car stands (`ElevatorController.cpp:167`), a
hall button pressed where the idle car stands, a hall call that a car heading the other way has served
(`GroupDispatcher.java:149` reports the car's direction), and a call lost with its elevator before a poll
reported it, pending or served (`RemoveElevator`). Nor does a button come back when the program ends (`Doomed`). A dark hall button that is not excused waits for its call to
arrive or to be served, for news or the event queue, or for the next poll: that will report a stop or a turn
it finds (`ReportDue`, `GroupDispatcher.java:147`). The first poll after the start reports the standing car as a turn,
since `last.direction` is then neither direction. `LampComesBack` drops the excuses and fails.

An elevator is polled from the moment it is stored, by a timer that knows nothing of its start-up, and answers
from the start of its tasks on; the first sample comes up to 75 ms later (`life = "started"`). An answer in that
window says floor 0 and direction up, which the dispatcher, whose record has direction 0, takes for a turn and
reports; floor 0 has no panel, and the program ends. `GuiSurvives` fails for this (`MCEarly`), with no race.

`updateStatus` notifies every sampled floor that differs from the one before. A car that is just arriving may be
sampled with any byte for a floor (`overshoot`); `Notify` then has two notifications, of that floor and, a period
later, of the right one. The GUI makes an existing floor's button bright, and throws in the event thread
(`setButtonPressed` has no button) for one that does not exist; the thread goes on with the next event.

`Races` names what the scheduler of a run, or a theorem, is allowed to hit: `overshoot`; `earlyRemoval`, the
elevator fails and is removed between its registration and its first sample; `slowEDT`, a notification is handled
before the event thread has made the panel. The last two end the program as well (`ViewControl.java` finds no
panel) and are closed in the runs, so that `MCEarly` shows the poll. `FloorButtonsLit`, `HallButtonsLit` and
`TypeOK` are proved with all three open, `DisplayCurrent` without `slowEDT`.

### The races

Some unlocked windows are a few instructions wide, others are as wide as a
period. `Races` names those the scheduler is allowed to hit, so that a run or a
theorem says which it needs closed:

| Race | Window |
|---|---|
| `flush` | a hall call is pushed to the missed calls between copy and clear |
| `reset` | a task is assigned between `calculateValues`' decision to end the old one and its reset |
| `vector` | an unlocked push runs into a task that works on the same vector; its outcomes are cut down to the mildest, the loss of the element |
| `wakeup` | `floorRun`, signalled, runs only after the next `updateStatus`, 75 ms later |
| `overshoot` | `updateStatus` reads the car's floor between the extrapolation and its correction on arrival, and sees any byte |
| `lag` | `calculateValues` runs twice between two runs of `updateStatus`, which is late by a second |

Without `wakeup` the model assumes that a signalled `floorRun` runs within 75
ms, without `lag` that `updateStatus` runs between two polls of the car. The
supervisor, which sleeps 20 s (the overload `sleep(unsigned)` of the C library, not
`main.cpp`'s), always sleeps through a status period: that period would have to be
some 266 times late to break this.

## 3. Runs

| Run | Question | Result |
|---|---|---|
| `MCHeapRun` | does a heap drain in order and behave as a set? | yes |
| `MCController` | is a request ever forgotten, the car sent where nobody waits, or a busy car moved by the supervisor, while the dispatcher may fail? | no, with `overshoot`, `lag` and `reset` open, `flush`, `vector` and `wakeup` closed |
| `MCServed` | do controller and car agree, and is every asked floor served, though requests get lost? | yes, unless the car turns round for ever; with `vector`, `flush`, `overshoot` and `lag` open, `reset` and `wakeup` closed |
| `MCIdlePatrol` | does the patrol show the car at every floor up to `MAX_FLOORS`? | yes, even from above it |
| `MCSimulator` | doors, positions, the untimed car; does a task end if left alone? | yes |
| `MCDispatcher` | is a hall call dropped when an elevator fails in any of three ways? | not a reported one, except by a dispatch that meets the removal |
| `MCRemoval` | is an elevator that failed removed in the end? | yes, if it was reset or fell silent, unless the program ends first |
| `MCStatus` | does the dispatcher decode what the controller holds, in step, within its buffer? | yes, but for a flush, an overshoot or a long status |
| `MCView` | do the buttons come back, is the display right in the end? | yes, with the excuses above |
| `MCSilent` | does the dispatcher survive the removal of a silent elevator? | no |
| `MCLamp` | does a hall button come back without excuses? | no |
| `MCEarly` | does the GUI survive an early poll? | no |

`MCHeapRun` runs the downward heap; the upward one mirrors it and is covered
by the theorems. "Remove duplicates from the top of the heap", as `Heap.cpp:54` has it,
is not a property: with one part empty, `pop` returns before it gets there, having
taken a single copy, and a floor asked for twice stays in the heap. The race `wakeup` is open
in no run: the theorems say what survives it.

### Bounds, and why they are enough

* `TopFloor` 3 (four floors): the placement of a request distinguishes floors
  behind the car, at it, next to it, and further ahead; a car at floor 1 has
  floors 0, 2 and 3. The GUI numbers its floors from 1, so the requests start there;
  floor 0 is reached only by the supervisor and is the controller's first guess
  of the car's place.
* `ByteSize` 5 or 6 instead of 256: larger than
  the floors, so that the destination has values above the building, and small
  enough that the supervisor's arithmetic wraps.
* `MaxFloors` 2 below `TopFloor` 3 in `MCController` and `MCIdlePatrol`, as 25 below 30 in the
  program: a car that is left at a floor above `MAX_FLOORS` when the dispatcher goes away goes on up
  until its destination wraps round the byte, and only then patrols. In `MCIdlePatrol` one selection of the
  top floor gets it there.
* `MaxRequests` 3: the races need one request in a heap and one or two in
  the hands of the tasks, from an upward call at 1, a downward call at 2 and a selection of 3 in `MCController`. In
  `MCServed` an upward call and two selections can already keep the car turning. Requests are the only thing bounded.
* `MaxCopies` 2: a duplicate is what `pop` tells apart from a single copy.
* `MaxGap` (half seconds between two polls) 3, later than `main.cpp`'s one second;
  the tests of the simulator poll every second (Test 1), half second (Tests 2 and 3) or quarter of a
  second (Test 4), and pauses shorter than the unit of time add no order of events.
* `MaxPresses` 1: the door buttons; one press is what the timetable takes. `setDoorClose`
  (`ElevatorSimulator.cpp:180`) has no lower bound, so that `OneDoorPhase` fails with more presses; nothing in
  the program calls it. The theorem has the limit,
  `MaxGap <= 3` and `MaxGap + 2 * MaxPresses <= 6`; TLC finds the property violated just beyond, with
  `MaxGap` 3 and two presses, 2 and three, or 4 and one.
* `MCDispatcher`: two elevators (one fails, one takes over), one hall call, two workers
  and three waiting runs (`MaxQueue`), so that a silent elevator can occupy the
  pool, runs of either elevator pile up, and two of them read one connection. Calls do not
  interfere but in `DispatchNull`, which drops the calls of one removal together and is excused; the theorem has
  any number of them. `MCRemoval`: the same without calls, but both elevators may fail.
* `MCStatus`: two floors, two hall calls (`MaxPending` lets both wait at a time), one selection, two polls. `MaxMessageLength` 10 (50 in the
  program): a status with two calls has 12 or 13 bytes, so that one that fits, one that just fits and one that does not
  occur; `ByteSize` 10 puts the delimiter above every count and floor. `SocketBuffer` 2: at most one more status is
  written while bytes are unread.
* `MCView`: three floors, so that a hall call at floor 2 lies above, below or at the car and can be passed; both hall
  buttons of that floor and the floor buttons of the outer floors. `ByteSize` 5: an overshooting sample may read
  floor 0 and floor 4, which have no button. `MaxPresses` 2 meets a second press of a button that
  came back. `MaxBacklog` 2: the car and the polls wait while two news are pending (one step of theirs may add three
  more), which is enough for one to overtake another; a car takes a second for what a thread does in a millisecond.
  `MCLamp` adds a hall button at the top and has the floor buttons below. `MCEarly` needs no button at all.

Floors are ordered, so there is no symmetry in the controller's runs; elevators and hall
calls of the dispatcher are alike and its runs use that.

### What the dispatcher's model takes for granted

* An elevator that has not failed answers within 150 s (`TimeOut`). It may be as slow as that: `Tick` queues a
  run every half second whatever became of the ones before, so that runs for it pile up and share its connection.
* The timer queues the runs in any order, and the pool is first in, first out.
* An elevator reads one message per `recv`, registers once, and one after the other, as
  `main.cpp` waits for each acknowledgment.
* `dispatch` may choose any elevator. Two presses of a button are two calls.
* The reassigned calls of one removal are dispatched in any order, and the worker is free
  meanwhile; an exception in one of them drops those not yet dispatched.

### What StatusLink and View take for granted

* A message is not split between two `recv`, and `send` writes all of it.
* One poll of an elevator is out at a time, as long as it answers (`GroupDispatcher` has the polls that pile up).
* `Polled`: a poll sees every state of the car, which changes once a second while polls are sent twice a
  second.
* No datagram is lost on the local network; `setFloor` and `setDirection` do not run into each other in
  the middle (each reads one field and writes both).
* The supervisor does not move the car of a removed elevator; floor 0 is then never notified.

### Fairness

Each task runs on its own real-time thread for ever, so each takes a step again and again if it can again and
again (`UpdateStatus`, `FloorRun`, `SvRun`, `RunValues`, `CommPush` are strongly fair, `UdpPush` weakly). That is
strong fairness because most need the mutex, which others take again and again: Xenomai's mutex serves its
waiters in priority order and each holder sleeps in between. Nothing is assumed of which step a task takes. The car's headway is strongly fair: `calculateValues`
moves a car by the clock, so that a car that is polled again and again does not
stay in one place. No request is fair: nobody has to press a button. In the
simulator time and the polls are weakly fair. In the dispatcher (`FairSpec` of `GroupDispatcher`) the
timer, the threads of the pool, a registration that has begun, and the elevators that have not failed go on;
none has to register, to fail or to serve a call.

That every asked floor is served cannot be had without an assumption, as the car can be turned for ever (section 4).
`ServedUnlessTurned` says that this is the only way: if from some moment on the car's direction stays the same
(`Settles`), every asked floor is served. `MCServed` has the bounds in which both happen. `CompletesWhenLeftAlone` assumes that assignments stop.

## 4. Findings

1. An elevator that falls silent ends the dispatcher: the runs queued for it time out one
   after the other, and the second removal is fatal (`MCSilent`, `GroupDispatcher.java:167`).
2. A hall call served by a car that heads the other way leaves its button dark (`MCLamp`,
   `GroupDispatcher.java:149`). At the top and bottom floor the button of the reported direction does not exist
   and `FloorPanel.java:61` raises a `NullPointerException` in the event thread.
3. A poll that a controller answers before it has sampled its car ends the program of the dispatcher and the GUI:
   it reports a stop at floor 0, which has no panel (`MCEarly`, `GroupDispatcher.java:147`, `ViewControl.java:75`).

Three more limits are visible as assumptions of the properties and theorems, each with a counterexample when it is
dropped; no text of the repository says otherwise:

* `Settles`: with floors asked on both sides of it, the car can be turned round for ever and no task completes.
  `floorRun` reverses the car, which changes its direction, so that `updateStatus` serves the other heap
  (`ElevatorController.cpp:205-208`) and `floorRun` reverses it again before it has arrived. An upward call at 1 and a
  downward call at 3 are enough, or one upward call and two selections: floor 3 is served, the car heads down for the
  call at 1, floor 3 is selected again just below it, goes to the downward heap (`ElevatorController.cpp:589-601`), and
  the two heaps take turns.
* `flush`: a hall call pushed to the missed calls between the copy and the clear of `updateMissedFloor` is lost
  (`ElevatorController.cpp:663`; `ImplementsService` fails with `Races = {"flush"}` and three requests).
* `reset`: a task assigned between `calculateValues`' decision to end the old one and its reset is wiped out
  and never assigned again (`ElevatorSimulator.cpp:143`; `CarFollowsOrders` fails).

And two that no property forbids. A car left above floor 25 (`MAX_FLOORS`, where the GUI has 30 floors) when the
dispatcher goes away is sent up to floor 255 before the patrol reaches the building again
(`ElevatorController.cpp:141`); `PatrolsEveryFloor` holds all the same. And line 69 of `ElevatorSimulatorTest.cpp`,
which asserts the direction up, is also reached after the car was diverted down (line 74), when
`setFinalDestination` has set the direction down (`ElevatorSimulator.cpp:157-163`).

## 5. Proofs

The modules named `...Proofs` prove, for every value of the constants that the assumptions admit (every height
of the building and width of the byte, any number of requests, elevators, hall calls, workers, polls, presses):

| Theorem | Statement | Assumes |
|---|---|---|
| `HeapRunProofs!TypeCorrect` | a part stays a bag | |
| `DrainedInOrder` | the heap drains in the order of its run | |
| `HeapImplementsQueue` | the heap implements `FloorQueue` | |
| `ElevatorControllerProofs!TypeCorrect` | `[]TypeOK` | |
| `ControllerImplementsService` | the controller implements `ElevatorService` | no `flush`, no `vector` |
| `AlwaysWakesWithWork` | `floorRun` wakes to a floor | no `wakeup` |
| `AlwaysHeadsForAskedFloor` | the car makes for an asked floor | no `flush`, `vector`, `wakeup` |
| `CarAlwaysFollowsOrders` | car and controller agree | no `reset` |
| `SupervisorNeverDiverts` | the supervisor moves an idle car | no `wakeup` |
| `ElevatorSimulatorProofs!TypeCorrect` | `[]TypeOK` | |
| `DoorsAlwaysShutOnTheWay` | doors are shut but at the destination | |
| `DoorsAlwaysOpenedBeforeTaskEnds` | no task ends unless its doors are open or closing | `MaxGap <= 5` |
| `AlwaysOneDoorPhase` | one door phase at a time | `MaxGap <= 3`, `MaxGap + 2 * MaxPresses <= 6` |
| `SimulatorImplementsCar` | the timed car implements `ElevatorCar` | `MaxGap <= 4` |
| `GroupDispatcherProofs!TypeCorrect` | `[]TypeOK` | |
| `CallsAlwaysKept` | a hall call is dropped in the listed ways only | |
| `StatusLinkProofs!TypeCorrect` | `[]TypeOK` | |
| `StreamAlwaysInStep` | the stream is read as the messages it was written as | |
| `RemovesOnlySpoilt` | no elevator is removed for a status that was not spoilt | |
| `CallsAlwaysReported` | a status reports the calls that stood since its poll | |
| `ViewProofs!TypeCorrect` | `[]TypeOK` | |
| `FloorButtonsAlwaysLit` | a dark floor button waits for something | |
| `HallButtonsAlwaysLit` | so does a dark hall button, unless the program is about to end | |
| `DisplayAlwaysCurrent` | with all news handled in order the panel is right | no `slowEDT` |

What a theorem assumes is a race that breaks the property in the model, or a limit on how late the car is polled
(`MaxGap`, in half seconds; `main.cpp` polls every second, so 2). The assumptions on the constants
(`TopFloorAssumption`, `ByteSizeAssumption`, `ControllerAssumption`, `RunAssumption`, `MaxCopiesAssumption`,
`SimulatorAssumption`, `DispatcherAssumption`, `NamesApart`, `LinkAssumption`, `ViewAssumption`) are evaluated by
TLC on every run. `LinkAssumption` has the calls, and the selections, that are not served yet (`MaxPending`)
stay below the delimiter, since their counts are bytes: 254 at a time, of any number in a run. A status of more
than 51 bytes is spoilt (`long`) long before that; that `sendStatus` computes its length in a `char`, so that
the length overflows beyond 127 bytes (`ElevatorController.cpp:300`), is not in the model.

### The argument

`FloorRunHeapProofs` shows what the heap operators do: `Front` of a non-empty set
of floors exists and comes first (by a minimum or maximum of a finite interval),
`Peek` of a non-empty heap is a floor it holds that no other comes before, a push
adds a floor to the contents, and `Pop` takes away at most the floor peeked at.
The heap theorems follow.

None of the controller's properties is inductive. The strengthenings:

* `Locked`: who holds `mutex` agrees with where `st` and `fr` stand, so that at most
  one of the two is inside its critical section. Everything below uses it.
* `IdleStands`: a car that is not moving stands exactly at a floor or is under way
  with a task; hence the floor sampled from an idle car is where it stands.
* `Flushed` (for the service): between copy and clear every missed call is also in a
  heap, so the clear forgets nothing. `flush` breaks exactly this.
  `ServiceInv` is their conjunction; every step then maps to a step of
  `ElevatorService` or a stutter.
* `Awake`: when `floorRun` is woken, or the status task is about to signal it, the
  heaps hold a floor; nothing pops between signal and wake-up without `wakeup`.
* `HeadingInv`: the destination of a car with a task is an asked floor, because
  a floor is popped only when the car has none.
* `OrdersInv`: between two flows of control the car's destination equals the
  controller's, and an idle car stands there; `Finish` happens only there, and
  `floorRun` skips an assignment only when it equals the present one.
* for the supervisor: when its flags say idle and empty, no task has been assigned since they were sampled.

For the simulator, `PhaseInv` says where car and timetable stand: `UnderWay`, `InPlace` or `Arrived`, by
`numState` and the time since the start. The doors and the end of a task need to know when the last poll came:
`OpeningInv` says that doors seen opening were seen so early enough for one more poll before they close
(hence the limits on `MaxGap`), `StayInv` that a press moves the end of the stay by a second at most (hence the
one on `MaxPresses`). For the refinement, quarters of a floor map to positions (`Pos`), and a call moves the car
by at most a floor (four quarters), as far as a step of `ElevatorCar` may go.

For the dispatcher, types need only that whoever works has an elevator (`Busy`, `Leaving`).
`CallsKept` is a property of steps: each action either leaves a call in the same place or a nearer one (`KeptIf`), or
drops it in a listed way. The one thing it needs of earlier steps is `OnlyConnected`: whoever a call may be given
to has connected, so that it is alive and carries the call from then on, or has failed.

For the status link, `LinkInv`: the poll is in one place at a time (`InStep`: on its way, being answered, or
its answer in the stream), so that the bytes of the stream are one answer; an `Answer` has its delimiter at the
end only, because floors, directions and counts are below it (`MessageAnswers`, from the layout of the two parts,
`HallCallPartLists` and `FloorRequestPartFits`); and what is copied, counted, and written
lies `Between` the floors called all the time since the poll and those ever called (`Copied`, `Watched`).
The length written equals the length counted unless a flush came in between. `CutInStream` and `AnswerDecoded` then
say that the parser gives back what was laid out.

For the GUI, each property has its own invariant on top of `TypeInv` (what is in which queue) and `PanelInv` (the
panel is ordered before there are news to show on it). `FloorButtonInv`: a button that is dark, or about to be
darkened, is `Waiting`: selected with the car elsewhere, or news of its floor are pending, or it is re-lit in the event
queue after the last darkening. `DisplayInv`: of the notifications, the fields and the event queue, the newest that
says anything `Tells` what is so; overtaking breaks exactly this. `HallButtonInv`: a dark hall button is `Owed` its
light, or its call is known and the last poll has not `Seen` the car stand there heading its way; so that whatever
serves it leaves a stop or a turn for the next poll, a first poll before the first sample included (`PolledInTime`).
Once a report without a panel is among the news it stays there until it ends the program (`DoomedStays`).

### What is only model-checked

Liveness: `ServedUnlessTurned`, `PatrolsEveryFloor`, `CompletesWhenLeftAlone` and `FailedRemoved` (with the bounds of
their runs), as the prover has no fairness or ENABLED. The three violations of section 4 are TLC's. Every other property
of a passing run is a theorem.

## 6. Not modelled

* `openDoor`, `closeDoor`, `emergencyStop` only print; the status buffer is never read;
  `randomRun` and `supervisorStartUp` are commented out of `main`.
* Acceleration (5 ms to full speed) is instantaneous; time and height are discrete.
* A race on a vector can do anything; the model has the loss of the element.
* The unlocked steps inside `setFinalDestination` (see the plan).
* Socket set-up, signal handlers, Swing layout, message classes that carry their
  fields unchanged, the vendored UnitTest++.
* `dispatch`'s distances and a controller that restarts under its old id, so far.
* The start menu and tabs of the GUI, several elevators in it, the tear inside
  `ElevatorPanel.setFloorAndDirection`, datagrams that are lost or come from elsewhere.
* The end of the whole controller process when a `send` fails (`ElevatorController.cpp:410`): whichever call
  meets the broken connection first, the model has the dispatcher fail.

## 7. Plan

Done: heaps, car, controller, simulator, the dispatcher's threads, the status link and the GUI, with
proofs of every property but liveness. Next, in order:

1. `DispatchStrategy`: `dispatch` as an operator, checked against nearest-car over all
   small maps, and used by `GroupDispatcher`.
2. `GroupDispatcher`: a restart under the old id.
3. `setFinalDestination` against `calculateValues`, unlocked, step by step.
4. `ElevatorGroup`: the dispatcher over abstract elevators (`ElevatorService`).
5. The controller with the windows `flush` and `vector` open: what of `ElevatorService` survives them.
