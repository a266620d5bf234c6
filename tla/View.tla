-------------------------------- MODULE View --------------------------------
(***************************************************************************)
(* The graphical interface (src/main/view) with one elevator and the       *)
(* dispatcher: what becomes of a pressed button, and what the panel shows. *)
(*                                                                         *)
(* A button is darkened when it is pressed and re-lit on news of the car.  *)
(* News come two ways: the controller notifies floors and directions       *)
(* (UDPView.cpp), and the dispatcher infers from its polls that hall calls *)
(* were served.  Every datagram is handled by a thread of its own, and     *)
(* what changes the screen is queued for the event thread (EDT).           *)
(*                                                                         *)
(* The controller is the car with a set of asked buttons                   *)
(* (ElevatorController has the heaps); updateStatus, which samples the car *)
(* every 75 ms, is part of the steps of the car.  The dispatcher polls     *)
(* twice a second and the car changes once a second: every change is seen  *)
(* by a poll before the next.                                              *)
(***************************************************************************)
EXTENDS ElevatorCar, Sequences, FiniteSets, Functions

Seqs == INSTANCE SequencesExt

CONSTANTS
    HallButtons,    \* hall buttons in use, each a <<floor, direction>>
    FloorButtons,   \* floor buttons in use in the car, each a <<floor>>
    MaxPresses,     \* bound: buttons pressed
    MaxBacklog,     \* bound: news pending when the car or a poll makes more
    Races           \* what the scheduler is allowed to hit

(* "earlyRemoval": the elevator fails, and is removed, before its panel is *)
(* ordered and its status sampled.  "slowEDT": news are handled before the *)
(* event thread has made the panel they are about.  "overshoot":           *)
(* updateStatus samples a car that arrives between the extrapolated floor  *)
(* and its correction.                                                     *)
ASSUME ViewAssumption ==
    /\ HallButtons \subseteq (1 .. TopFloor) \X Direction
    /\ \A b \in FloorButtons : \E f \in 1 .. TopFloor : b = <<f>>
    /\ MaxPresses \in Nat /\ MaxBacklog \in Nat
    /\ Races \subseteq {"earlyRemoval", "slowEDT", "overshoot"}

VARIABLES
    life,           \* how far the elevator's start-up, and its end, are
    asked,          \* buttons the controller has to serve
    toEC, toGD,     \* pressed buttons on their way
    fromEC, fromGD, \* news on their way to the interface
    last, assigned, \* the dispatcher's record of the elevator
    edt,            \* queue of the event thread
    panel,          \* of the elevator: "none", "shown" or "removed"
    pair, shown,    \* its fields and its indicator: <<floor, direction>>
    dark,           \* buttons that are disabled
    fatal,          \* Main.onFatalError was called
    presses,
    excused,        \* dark buttons no news will come for, see Unlit
    overtaken       \* a notification has overtaken another

gdVars == <<last, assigned, fromGD>>
screenVars == <<panel, shown, dark>>
pressVars == <<toEC, toGD, presses>>
vars == <<carVars, life, asked, fromEC, pressVars, gdVars, edt, screenVars,
          pair, fatal, excused, overtaken>>

Init ==
    /\ CarInit
    /\ life = "off" /\ asked = {}
    /\ toEC = <<>> /\ toGD = <<>> /\ fromEC = <<>> /\ fromGD = <<>>
    /\ last = [direction |-> "none", moving |-> FALSE] /\ assigned = {}
    /\ edt = <<>> /\ panel = "none" /\ pair = <<0, UP>> /\ shown = <<0, UP>>
    /\ dark = {} /\ fatal = FALSE
    /\ presses = 0 /\ excused = {} /\ overtaken = FALSE

Known == life \notin {"off", "removed"}     \* to the dispatcher
Sampled == life \in {"running", "removed"}
KnownCalls == asked \cap HallButtons

-----------------------------------------------------------------------------
(* Start-up: the controller connects to the dispatcher, registers with the *)
(* interface, and starts its tasks when that has acknowledged: polls are   *)
(* answered from then on, the first status, floor 1 after 0, is sampled    *)
(* 75 ms later.                                                            *)
ConnectToGD ==
    /\ life = "off"
    /\ life' = "registering"
    /\ fromEC' = Append(fromEC, <<"registration">>)
    /\ UNCHANGED <<carVars, asked, pressVars, gdVars, edt, screenVars, pair,
                   fatal, excused, overtaken>>

OnElevatorRegister ==
    /\ ~fatal /\ life = "registering" /\ fromEC # <<>>
    /\ fromEC' = Tail(fromEC)
    /\ edt' = Append(edt, <<"addElevatorPanel">>)
    /\ life' = "started"
    /\ UNCHANGED <<carVars, asked, pressVars, gdVars, screenVars, pair, fatal,
                   excused, overtaken>>

FirstSample ==
    /\ life = "started"
    /\ life' = "running"
    /\ fromEC' = Append(fromEC, <<"floor", CurrentFloor>>)
    /\ UNCHANGED <<carVars, asked, pressVars, gdVars, edt, screenVars, pair,
                   fatal, excused, overtaken>>

-----------------------------------------------------------------------------
(* The controller and its car.  updateStatus notifies a floor if it is     *)
(* another one than it last sampled, floorRun a direction if it is.  A     *)
(* sample of a car that arrives may read any byte and the next one, 75 ms  *)
(* later, the floor where it stands.                                       *)
FloorNews(before, now) == IF now # before THEN <<<<"floor", now>>>> ELSE <<>>

SampledOnTheWay ==
    {CurrentFloor} \cup
        (IF "overshoot" \in Races /\ moving /\ ~moving' THEN Byte ELSE {})

Notify ==
    \E f \in SampledOnTheWay :
        fromEC' = fromEC
            \o FloorNews(CurrentFloor, f) \o FloorNews(f, CurrentFloor')
            \o (IF direction' # direction THEN <<<<"direction", direction'>>>> ELSE <<>>)

(* A poll has seen what the car does. *)
Polled == life = "running" => last = [direction |-> direction, moving |-> moving]

KeepsUp == Len(fromEC) + Len(fromGD) + Len(edt) < MaxBacklog

carRest == <<life, pressVars, gdVars, edt, screenVars, pair, fatal, overtaken>>

FloorRun ==
    /\ Sampled /\ KeepsUp
    /\ \E b \in asked : b[1] # finalDestination /\ SetFinalDestination(b[1])
    /\ Notify
    /\ UNCHANGED <<asked, excused, carRest>>

CarMoves ==
    /\ Polled /\ KeepsUp
    /\ \/ Advance /\ (moving \/ moving')
       \/ Finish
    /\ Notify
    /\ UNCHANGED <<asked, excused, carRest>>

(* updateStatus pops the floor where the car stands from its heaps, one    *)
(* part or several.  A hall call served by a car that heads the other way  *)
(* is not the one the dispatcher will report.                              *)
Serve ==
    /\ Sampled /\ Parked
    /\ \E served \in SUBSET {b \in asked : b[1] = CurrentFloor} \ {{}} :
         /\ asked' = asked \ served
         /\ excused' = excused \cup
              {b \in served \cap HallButtons \cap dark : b[2] # direction}
    /\ UNCHANGED <<carVars, fromEC, carRest>>

AddFloorSelection ==
    /\ Sampled /\ toEC # <<>>
    /\ asked' = asked \cup {Head(toEC)}
    /\ toEC' = Tail(toEC)
    /\ UNCHANGED <<carVars, life, fromEC, toGD, presses, gdVars, edt,
                   screenVars, pair, fatal, excused, overtaken>>

-----------------------------------------------------------------------------
(* The dispatcher, which runs in the program of the interface.  Without an *)
(* elevator it re-lights the button of a call by itself.                   *)
OnHallCall ==
    /\ ~fatal /\ toGD # <<>>
    /\ toGD' = Tail(toGD)
    /\ IF Known
         THEN asked' = asked \cup {Head(toGD)} /\ UNCHANGED edt
         ELSE edt' = Append(edt, <<"enable", Head(toGD)>>) /\ UNCHANGED asked
    /\ UNCHANGED <<carVars, life, fromEC, toEC, presses, gdVars, screenVars,
                   pair, fatal, excused, overtaken>>

(* updateECStatus reports that the elevator has stopped, or has turned     *)
(* where it stands.                                                        *)
HallCallServicedOnStop(floor) ==    \* mutant: a turn is not reported
    IF ~moving /\ last.moving
      THEN fromGD' = Append(fromGD, <<"serviced", <<floor, direction>>>>)
      ELSE UNCHANGED fromGD

HallCallServiced(floor) ==
    IF ~moving /\ (last.moving \/ last.direction # direction)
      THEN fromGD' = Append(fromGD, <<"serviced", <<floor, direction>>>>)
      ELSE UNCHANGED fromGD

(* A poll and its answer.  Before the first sample the floor is 0. *)
UpdateECStatus ==
    /\ ~fatal /\ life \in {"started", "running"} /\ KeepsUp
    /\ HallCallServiced(IF Sampled THEN CurrentFloor ELSE 0)
    /\ last' = [direction |-> direction, moving |-> moving]
    /\ assigned' = KnownCalls
    /\ UNCHANGED <<carVars, life, asked, fromEC, pressVars, edt, screenVars,
                   pair, fatal, excused, overtaken>>

(* A stop or a turn that the next poll will report, with this call. *)
ReportDue(b) ==
    /\ Known /\ ~moving /\ position = 2 * b[1] /\ direction = b[2]
    /\ last.moving \/ last.direction # direction

(* The elevator answers no more: its calls go to another one, or, as there *)
(* is none, are re-lit; the calls no poll has reported, pending or just    *)
(* served, are forgotten.                                                  *)
RemoveElevator ==
    /\ ~fatal /\ Known
    /\ life = "running" \/ "earlyRemoval" \in Races
    /\ life' = "removed"
    /\ \E calls \in [1 .. Cardinality(assigned) -> assigned] :
          /\ Range(calls) = assigned
          /\ edt' = edt \o [i \in DOMAIN calls |-> <<"enable", calls[i]>>]
    /\ fromGD' = Append(fromGD, <<"removed">>)
    /\ excused' = excused \cup
         {b \in (HallButtons \cap dark) \ assigned : b \in asked \/ ReportDue(b)}
    /\ UNCHANGED <<carVars, asked, fromEC, pressVars, last, assigned,
                   screenVars, pair, fatal, overtaken>>

-----------------------------------------------------------------------------
(* The threads that handle the news, until onFatalError ends the program   *)
(* of the interface and the dispatcher.                                    *)
PanelReady == "slowEDT" \in Races \/ <<"addElevatorPanel">> \notin Range(edt)

Handle(i) ==
    /\ ~fatal /\ PanelReady
    /\ i \in DOMAIN fromEC /\ fromEC[i] # <<"registration">>
    /\ fromEC' = Seqs!RemoveAt(fromEC, i)
    /\ overtaken' = (overtaken \/ i # 1)
    /\ UNCHANGED <<carVars, life, asked, pressVars, gdVars, screenVars, excused>>

(* Mutant: the button of the floor shown so far is re-lit. *)
OnFloorReachedLate(i) ==
    /\ Handle(i) /\ fromEC[i][1] = "floor"
    /\ pair' = <<fromEC[i][2], pair[2]>>
    /\ edt' = edt \o <<<<"enable", <<pair[1]>>>>, <<"setText", pair'>>>>
    /\ UNCHANGED fatal

(* setButtonPressed(floor, false), then setFloor; without a panel, fatal. *)
OnFloorReached(i) ==
    /\ Handle(i) /\ fromEC[i][1] = "floor"
    /\ LET floor == fromEC[i][2]
       IN  IF panel = "none"
             THEN fatal' = TRUE /\ UNCHANGED <<edt, pair>>
             ELSE /\ pair' = <<floor, pair[2]>>
                  /\ edt' = edt \o <<<<"enable", <<floor>>>>, <<"setText", pair'>>>>
                  /\ UNCHANGED fatal

(* Mutant: the direction is shown and not kept. *)
OnElevatorDirectionChangeOnce(i) ==
    /\ Handle(i) /\ fromEC[i][1] = "direction"
    /\ edt' = Append(edt, <<"setText", <<pair[1], fromEC[i][2]>>>>)
    /\ UNCHANGED <<pair, fatal>>

OnElevatorDirectionChange(i) ==
    /\ Handle(i) /\ fromEC[i][1] = "direction"
    /\ IF panel = "none"
         THEN fatal' = TRUE /\ UNCHANGED <<edt, pair>>
         ELSE /\ pair' = <<pair[1], fromEC[i][2]>>
              /\ edt' = Append(edt, <<"setText", pair'>>)
              /\ UNCHANGED fatal

HandleGD(i) ==
    /\ ~fatal /\ i \in DOMAIN fromGD
    /\ fromGD' = Seqs!RemoveAt(fromGD, i)
    /\ UNCHANGED <<carVars, life, asked, fromEC, pressVars, last, assigned,
                   screenVars, pair, excused, overtaken>>

(* No panel shows floor 0. *)
OnHallCallServiced(i) ==
    /\ HandleGD(i) /\ fromGD[i][1] = "serviced"
    /\ IF fromGD[i][2][1] \in 1 .. TopFloor
         THEN edt' = Append(edt, <<"enable", fromGD[i][2]>>) /\ UNCHANGED fatal
         ELSE fatal' = TRUE /\ UNCHANGED edt

OnElevatorError(i) ==
    /\ PanelReady
    /\ HandleGD(i) /\ fromGD[i][1] = "removed"
    /\ IF panel = "none"
         THEN fatal' = TRUE /\ UNCHANGED edt
         ELSE edt' = Append(edt, <<"remove">>) /\ UNCHANGED fatal

-----------------------------------------------------------------------------
(* The event thread: a user's click, or the next of the queue. *)

(* onHallCall: the event thread darkens the button itself.  A call from    *)
(* the floor where the car stands is served without a stop to report.      *)
PressHallButton(b) ==
    /\ ~fatal /\ presses < MaxPresses /\ b \in HallButtons \ dark
    /\ presses' = presses + 1
    /\ dark' = dark \cup {b}
    /\ toGD' = Append(toGD, b)
    /\ excused' = IF Known /\ position = 2 * b[1] /\ ~moving
                    THEN excused \cup {b} ELSE excused
    /\ UNCHANGED <<carVars, life, asked, fromEC, toEC, gdVars, edt, panel,
                   shown, pair, fatal, overtaken>>

PressFloorButtonByIndex(b) ==   \* mutant: floors numbered from 0
    /\ ~fatal /\ panel = "shown"
    /\ presses < MaxPresses /\ b \in FloorButtons \ dark
    /\ presses' = presses + 1
    /\ edt' = Append(edt, <<"darken", <<b[1] - 1>>>>)
    /\ toEC' = Append(toEC, b)
    /\ UNCHANGED <<carVars, life, asked, fromEC, toGD, gdVars, screenVars,
                   pair, fatal, excused, overtaken>>

(* onFloorSelection: the darkening is queued.  A floor that is selected    *)
(* where the car is already is not notified.                               *)
PressFloorButton(b) ==
    /\ ~fatal /\ panel = "shown"
    /\ presses < MaxPresses /\ b \in FloorButtons \ dark
    /\ presses' = presses + 1
    /\ edt' = Append(edt, <<"darken", b>>)
    /\ toEC' = Append(toEC, b)
    /\ excused' = IF b[1] = CurrentFloor THEN excused \cup {b} ELSE excused
    /\ UNCHANGED <<carVars, life, asked, fromEC, toGD, gdVars, screenVars,
                   pair, fatal, overtaken>>

(* A removed panel is taken off the screen; the map of panels keeps it.    *)
(* Re-lighting the button of a floor that does not exist throws in the     *)
(* event thread, which goes on with the next.                              *)
RunNext ==
    /\ ~fatal /\ edt # <<>>
    /\ edt' = Tail(edt)
    /\ LET run == Head(edt)
       IN  CASE run[1] = "addElevatorPanel" ->
                  panel' = "shown" /\ UNCHANGED <<shown, dark, excused>>
             [] run[1] = "remove" ->
                  panel' = "removed" /\ UNCHANGED <<shown, dark, excused>>
             [] run[1] = "setText" ->
                  shown' = run[2] /\ UNCHANGED <<panel, dark, excused>>
             [] run[1] = "darken" ->
                  dark' = dark \cup {run[2]} /\ UNCHANGED <<panel, shown, excused>>
             [] run[1] = "enable" ->
                  /\ dark' = dark \ {run[2]}
                  /\ excused' = IF <<"darken", run[2]>> \in Range(edt') THEN excused
                                 ELSE excused \ {run[2]}
                  /\ UNCHANGED <<panel, shown>>
    /\ UNCHANGED <<carVars, life, asked, fromEC, pressVars, gdVars, pair,
                   fatal, overtaken>>

-----------------------------------------------------------------------------
Next ==
    \/ ConnectToGD \/ OnElevatorRegister \/ FirstSample
    \/ FloorRun \/ CarMoves \/ Serve \/ AddFloorSelection
    \/ OnHallCall \/ UpdateECStatus \/ RemoveElevator
    \/ \E i \in DOMAIN fromEC : OnFloorReached(i) \/ OnElevatorDirectionChange(i)
    \/ \E i \in DOMAIN fromGD : OnHallCallServiced(i) \/ OnElevatorError(i)
    \/ \E b \in HallButtons : PressHallButton(b)
    \/ \E b \in FloorButtons : PressFloorButton(b)
    \/ RunNext

Spec == Init /\ [][Next]_vars

-----------------------------------------------------------------------------
(* Only existing buttons are asked for, darkened and assigned:             *)
(* onFloorSelection and the panels number floors from 1, like the          *)
(* controller.                                                             *)
TypeOK ==
    /\ CarTypeOK
    /\ life \in {"off", "registering", "started", "running", "removed"}
    /\ asked \cup dark \cup excused \subseteq HallButtons \cup FloorButtons
    /\ assigned \subseteq HallButtons
    /\ Range(toEC) \subseteq FloorButtons /\ Range(toGD) \subseteq HallButtons
    /\ panel \in {"none", "shown", "removed"}
    /\ pair[1] \in Byte /\ pair[2] \in Direction
    /\ shown[1] \in Byte /\ shown[2] \in Direction

-----------------------------------------------------------------------------
(* What a dark button waits for. *)
Enabling(b) == <<"enable", b>> \in Range(edt)

SelectionPending(b) ==
    \/ b \in Range(toEC) \cup asked
    \/ <<"floor", b[1]>> \in Range(fromEC) \/ Enabling(b)

HallCallPending(b) ==
    \/ b \in Range(toGD) \/ (b \in asked /\ Known)
    \/ ReportDue(b) \/ <<"serviced", b>> \in Range(fromGD) \/ Enabling(b)

(* A floor button stays dark only while its floor is selected and not      *)
(* served, or the news that re-lights it are under way, in whatever order  *)
(* the threads that handle them run; unless it was pressed where the car   *)
(* already was.                                                            *)
FloorButtonsLit ==
    panel = "shown" =>
        \A b \in (dark \cap FloorButtons) \ excused : SelectionPending(b)

(* The program ends, or news that will end it are under way: the report of *)
(* a stop at a floor without a panel.                                      *)
Doomed ==
    \/ fatal
    \/ \E n \in Range(fromGD) : n[1] = "serviced" /\ n[2][1] \notin 1 .. TopFloor

(* So does a hall button, although the dispatcher infers what was served   *)
(* from the stops and turns between two polls; unless it was pressed where *)
(* the car stood, served by a car that headed the other way, or its call   *)
(* was lost with the elevator; and as long as the program runs.            *)
HallButtonsLit ==
    Doomed \/ \A b \in (dark \cap HallButtons) \ excused : HallCallPending(b)

(* The same without exceptions, while there is an elevator. *)
LampComesBack ==
    life = "running" /\ ~Doomed => \A b \in dark \cap HallButtons : HallCallPending(b)

(* When no news are under way the panel shows where the car is and heads,  *)
(* unless one notification has overtaken another.                          *)
DisplayCurrent ==
    /\ life = "running" /\ panel = "shown"
    /\ fromEC = <<>> /\ \A i \in DOMAIN edt : edt[i][1] # "setText"
    /\ ~overtaken
    => shown = <<CurrentFloor, direction>>

(* Every floor reported has a panel, so no news end the program.  (A poll  *)
(* answered before the first status is sampled says floor 0, and that the  *)
(* car heads up, where the dispatcher's record says 0: a turn, reported of *)
(* a floor that has none.)                                                 *)
GuiSurvives == ~fatal
=============================================================================
