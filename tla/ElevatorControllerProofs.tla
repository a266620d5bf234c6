---------------------- MODULE ElevatorControllerProofs ----------------------
(***************************************************************************)
(* Proofs about ElevatorController, for every building, every set of       *)
(* requests and every interleaving of the tasks.                           *)
(***************************************************************************)
EXTENDS ElevatorController, FloorRunHeapProofs

(* Every step belongs to one of the actions of the tasks. *)
LEMMA NextSplits ==
    ASSUME Next
    PROVE  \/ \E f \in Floor, d \in Direction : ReceiveHallCall(f, d)
           \/ \E f \in Floor : ReceiveSelection(f)
           \/ CommPush \/ UdpPush \/ LoseCall \/ LoseSelection
           \/ DispatcherFails
           \/ StSample \/ StDirect \/ StClear \/ StSignal
           \/ FrCheck \/ FrWait \/ FrRun \/ FrClear
           \/ SvRun
           \/ RvAdvance \/ RvFinish \/ RvReset
<1>1. CASE \E c \in HallCalls : ReceiveHallCall(c[1], c[2])
  BY <1>1, ControllerAssumption
<1>2. CASE \E f \in Selections : ReceiveSelection(f)
  BY <1>2, ControllerAssumption
<1> QED
  BY <1>1, <1>2 DEF Next, Comm, Udp, UpdateStatus, FloorRun, RunValues

(* A floor is one of the values of an unsigned char. *)
LEMMA FloorsAreBytes == Floor \subseteq Byte /\ 0 \in Byte /\ 0 \in Floor
BY TopFloorAssumption, ByteSizeAssumption DEF Floor, Byte

(* A popped heap is a heap that lost at most the floor popped. *)
LEMMA PopServedTakesFirst ==
    ASSUME NEW d, NEW h \in Heap, NEW f
    PROVE  /\ PopServed(d, h, f) \in Heap
           /\ Contents(PopServed(d, h, f)) \subseteq Contents(h)
           /\ Contents(h) \ {f} \subseteq Contents(PopServed(d, h, f))
           /\ task => PopServed(d, h, f) = h
BY PopTakesFirst DEF PopServed

(* Whatever updateStatus samples and floorRun picks is a byte. *)
LEMMA SamplesAreBytes ==
    ASSUME TypeOK
    PROVE  SampledFloor \subseteq Byte
<1>1. CurrentFloor \in Byte
  BY ByteSizeAssumption, TopFloorAssumption
     DEF TypeOK, CarTypeOK, CurrentFloor, Position, Byte
<1> QED  BY <1>1 DEF SampledFloor

(* HeapOf hands out one of the two heaps. *)
LEMMA HeapOfIsHeap ==
    ASSUME TypeOK, NEW d
    PROVE  HeapOf(d) \in Heap
BY DEF TypeOK, HeapOf

(* What floorRun may pick is a byte, even with both heaps empty. *)
LEMMA ItemsAreBytes ==
    ASSUME TypeOK
    PROVE  NextItem \subseteq Byte
<1> DEFINE d == eStat.serviceDirection
           e == Opposite(d)
<1>1. HeapOf(d) \in Heap /\ HeapOf(e) \in Heap
  BY HeapOfIsHeap
<1>2. Contents(HeapOf(d)) # {} => Peek(d, HeapOf(d)) \in Byte
  BY <1>1, PeekIsFirst, FloorsAreBytes
<1>3. Contents(HeapOf(e)) # {} => Peek(e, HeapOf(e)) \in Byte
  BY <1>1, PeekIsFirst, FloorsAreBytes
<1>4. topItem # Unset => topItem \in Byte
  BY DEF TypeOK
<1> QED  BY <1>2, <1>3, <1>4 DEF NextItem

(* The supervisor's next floor stays within the unsigned char. *)
LEMMA PatrolIsByte ==
    ASSUME TypeOK
    PROVE  Patrol \in Byte
<1>1. eStat.destination \in Byte
  BY DEF TypeOK, Status
<1>2. (eStat.destination + 1) % ByteSize \in Byte
  BY <1>1, ByteSizeAssumption, TopFloorAssumption DEF Byte
<1> QED  BY <1>1, <1>2, ControllerAssumption, ByteSizeAssumption DEF Patrol, Byte

(* The flush hands the missed calls to one of the heaps. *)
LEMMA FlushKeepsHeaps ==
    ASSUME TypeOK, NEW d, UpdateMissedFloor(d)
    PROVE  upHeap' \in Heap /\ downHeap' \in Heap
BY PushVectorAdds DEF TypeOK, UpdateMissedFloor

(* addHallCall and addFloorSelection put a floor where it belongs. *)
LEMMA PlacementsAreTyped ==
    ASSUME NEW f \in Floor
    PROVE  /\ \A d \in Direction : PlaceHallCall(f, d) \in Placement
           /\ eStat.serviceDirection \in Direction =>
                /\ PlaceSelection(f) \in Placement
                /\ PlaceSelection(f).into # "missed"
BY DEF PlaceHallCall, PlaceSelection, Placement, Direction, Opposite, UP, DOWN

-----------------------------------------------------------------------------
(* No step of any task spoils a type. *)
LEMMA StepKeepsType ==
    ASSUME TypeOK, Next
    PROVE  TypeOK'
<1> USE DEF TypeOK, CarTypeOK, carVars
<1>1. ASSUME NEW f \in Floor, NEW d \in Direction, ReceiveHallCall(f, d)
      PROVE  TypeOK'
  <2>1. PlaceHallCall(f, d) \in Placement
    BY PlacementsAreTyped
  <2> QED  BY <1>1, <2>1, ControllerAssumption DEF ReceiveHallCall
<1>2. ASSUME NEW f \in Floor, ReceiveSelection(f)
      PROVE  TypeOK'
  <2>1. PlaceSelection(f) \in Placement /\ PlaceSelection(f).into # "missed"
    BY PlacementsAreTyped DEF Status
  <2> QED  BY <1>2, <2>1, ControllerAssumption DEF ReceiveSelection
<1>3. CASE CommPush
  <2>1. call.floor \in Floor
    BY <1>3 DEF CommPush, Placement
  <2>2. upHeap' \in Heap /\ downHeap' \in Heap /\ missed' \in Bag
    BY <1>3, <2>1, PushHallCallAdds, PushAdds DEF CommPush, PushHallCallTo
  <2> QED  BY <1>3, <2>2 DEF CommPush, Placement, Nothing
<1>4. CASE UdpPush
  <2>1. selection.floor \in Floor
    BY <1>4 DEF UdpPush, Placement
  <2>2. upHeap' \in Heap /\ downHeap' \in Heap
    BY <1>4, <2>1, PushFloorRequestAdds DEF UdpPush
  <2> QED  BY <1>4, <2>2 DEF UdpPush, Placement, Nothing
<1>5. CASE LoseCall
  BY <1>5 DEF LoseCall, Placement
<1>6. CASE LoseSelection
  BY <1>6 DEF LoseSelection, Placement, Nothing
<1>7. CASE DispatcherFails
  <2>1. eStat' \in Status
    BY <1>7 DEF DispatcherFails, Status
  <2> QED  BY <1>7, <2>1 DEF DispatcherFails
<1>8. CASE StSample
  <2>1. PICK f \in SampledFloor :
          /\ eStat' = [eStat EXCEPT !.currentFloor = f, !.taskAssigned = task,
                                    !.moving = moving, !.direction = direction,
                                    !.GDFailedEmptyHeap = @ \/ HeapsEmpty]
          /\ upHeap' = PopServed(UP, upHeap, f)
          /\ downHeap' = PopServed(DOWN, downHeap, f)
    BY <1>8 DEF StSample
  <2>2. eStat' \in Status
    BY <2>1, SamplesAreBytes DEF Status
  <2>3. upHeap' \in Heap /\ downHeap' \in Heap
    BY <2>1, PopServedTakesFirst
  <2> QED  BY <1>8, <2>2, <2>3 DEF StSample
<1>9. CASE StDirect
  <2>1. upHeap' \in Heap /\ downHeap' \in Heap
    BY <1>9, FlushKeepsHeaps DEF StDirect
  <2>2. ServiceDirection \in Direction
    BY DEF ServiceDirection, Status, Direction, Opposite
  <2>3. eStat' \in Status
    BY <1>9, <2>2 DEF StDirect, Status
  <2> QED  BY <1>9, <2>1, <2>3 DEF StDirect
<1>10. CASE StClear
  BY <1>10, EmptyHeapIsEmpty DEF StClear
<1>11. CASE StSignal
  <2>1. eStat' \in Status
    BY <1>11 DEF StSignal, Status
  <2> QED  BY <1>11, <2>1 DEF StSignal
<1>12. CASE FrCheck
  BY <1>12 DEF FrCheck
<1>13. CASE FrWait
  BY <1>13 DEF FrWait
<1>14. CASE FrRun
  <2>1. upHeap' \in Heap /\ downHeap' \in Heap
    BY <1>14, FlushKeepsHeaps DEF FrRun
  <2>2. PICK t \in NextItem :
          /\ topItem' = t
          /\ eStat' = [eStat EXCEPT !.destination = t,
                                    !.GDFailedEmptyHeap = @ \/ HeapsEmpty]
          /\ IF t # eStat.destination THEN SetFinalDestination(t)
                                      ELSE UNCHANGED carVars
    BY <1>14 DEF FrRun
  <2>3. t \in Byte
    BY ItemsAreBytes
  <2>4. eStat' \in Status
    BY <2>2, <2>3 DEF Status
  <2>5. CarTypeOK'
    BY <2>2, <2>3 DEF SetFinalDestination, Heading, Direction
  <2> QED  BY <1>14, <2>1, <2>2, <2>3, <2>4, <2>5 DEF FrRun
<1>15. CASE FrClear
  BY <1>15, EmptyHeapIsEmpty DEF FrClear
<1>16. CASE SvRun
  <2>1. Patrol \in Byte
    BY PatrolIsByte
  <2>2. eStat' \in Status
    BY <1>16, <2>1 DEF SvRun, Status
  <2>3. CarTypeOK'
    BY <1>16, <2>1 DEF SvRun, SetFinalDestination, Heading, Direction
  <2> QED  BY <1>16, <2>2, <2>3 DEF SvRun
<1>17. CASE RvAdvance
  <2>1. CarTypeOK'
    BY <1>17 DEF RvAdvance, Advance, Reach
  <2> QED  BY <1>17, <2>1 DEF RvAdvance, AfterPoll
<1>18. CASE RvFinish
  <2>1. CarTypeOK'
    BY <1>18, FloorsAreBytes DEF RvFinish, Finish, Reset
  <2> QED  BY <1>18, <2>1 DEF RvFinish, AfterPoll
<1>19. CASE RvReset
  <2>1. CarTypeOK'
    BY <1>19, FloorsAreBytes DEF RvReset, Reset
  <2> QED  BY <1>19, <2>1 DEF RvReset, AfterPoll
<1> QED
  BY <1>1, <1>2, <1>3, <1>4, <1>5, <1>6, <1>7, <1>8, <1>9, <1>10, <1>11,
     <1>12, <1>13, <1>14, <1>15, <1>16, <1>17, <1>18, <1>19, NextSplits

(* The initial state is well typed. *)
LEMMA InitIsTyped ==
    ASSUME Init
    PROVE  TypeOK
<1>1. CarTypeOK
  <2>1. 2 \in Position
    BY ByteSizeAssumption, TopFloorAssumption DEF Position
  <2> QED  BY <2>1, FloorsAreBytes DEF Init, CarInit, CarTypeOK, Direction
<1>2. eStat \in Status
  BY FloorsAreBytes DEF Init, Status, Direction
<1>3. requests \in 0 .. MaxRequests
  BY ControllerAssumption DEF Init
<1> QED
  BY <1>1, <1>2, <1>3, EmptyHeapIsEmpty DEF Init, TypeOK, Placement, Nothing

(* Every variable keeps its type, whichever races the scheduler hits: no   *)
(* heap hands out a floor it lacks and every destination is a byte.        *)
THEOREM TypeCorrect == Spec => []TypeOK
<1>1. TypeOK /\ [Next]_vars => TypeOK'
  <2> SUFFICES ASSUME TypeOK, [Next]_vars
               PROVE  TypeOK'
    OBVIOUS
  <2>1. CASE UNCHANGED vars
    BY <2>1 DEF vars, carVars, ctlVars, TypeOK, CarTypeOK
  <2> QED  BY <2>1, StepKeepsType
<1> QED  BY <1>1, InitIsTyped, PTL DEF Spec

-----------------------------------------------------------------------------
(* The mutex is held exactly by the task that is between two actions of    *)
(* its critical section.                                                   *)
Locked ==
    /\ mutex = "st" <=> st # "wait"
    /\ mutex = "fr" <=> fr = "clear"

(* A car without a task stands at a floor, and so does one whose task      *)
(* calculateValues is about to reset, even if a new one was assigned.      *)
IdleStands ==
    /\ ~task => ~moving /\ position % 2 = 0
    /\ rv = "reset" => task /\ ~moving /\ position % 2 = 0

(* Between the copy and the clear of updateMissedFloor, every missed call  *)
(* is in a heap.                                                           *)
Flushed == InFlush => Support(missed) \subseteq Contents(upHeap) \cup Contents(downHeap)

(* updateStatus and floorRun exclude each other. *)
LEMMA NextKeepsLock ==
    ASSUME TypeOK, Locked, [Next]_vars
    PROVE  Locked'
<1> USE DEF Locked, TypeOK
<1>1. ASSUME NEW f \in Floor, NEW d \in Direction, ReceiveHallCall(f, d)
      PROVE  Locked'
  BY <1>1 DEF ReceiveHallCall
<1>2. ASSUME NEW f \in Floor, ReceiveSelection(f)
      PROVE  Locked'
  BY <1>2 DEF ReceiveSelection
<1>3. CASE CommPush \/ UdpPush \/ LoseCall \/ LoseSelection \/ DispatcherFails
  BY <1>3 DEF CommPush, UdpPush, LoseCall, LoseSelection, DispatcherFails
<1>4. CASE StSample
  BY <1>4 DEF StSample
<1>5. CASE StDirect
  BY <1>5 DEF StDirect
<1>6. CASE StClear
  BY <1>6 DEF StClear
<1>7. CASE StSignal
  BY <1>7 DEF StSignal
<1>8. CASE FrCheck \/ FrWait
  BY <1>8 DEF FrCheck, FrWait
<1>9. CASE FrRun
  BY <1>9 DEF FrRun
<1>10. CASE FrClear
  BY <1>10 DEF FrClear
<1>11. CASE SvRun
  BY <1>11 DEF SvRun
<1>12. CASE RvAdvance \/ RvFinish \/ RvReset
  BY <1>12 DEF RvAdvance, RvFinish, RvReset
<1>13. CASE UNCHANGED vars
  BY <1>13 DEF vars, ctlVars
<1> QED
  BY <1>1, <1>2, <1>3, <1>4, <1>5, <1>6, <1>7, <1>8, <1>9, <1>10, <1>11,
     <1>12, <1>13, NextSplits

(* Only four actions move the car or give it a task. *)
LEMMA OthersLeaveCarAlone ==
    ASSUME Next, ~FrRun, ~SvRun, ~RvAdvance, ~RvFinish, ~RvReset
    PROVE  (UNCHANGED carVars /\ rv' # "reset") \/ UNCHANGED <<carVars, rv>>
<1>1. ASSUME NEW f \in Floor, NEW d \in Direction, ReceiveHallCall(f, d)
      PROVE  UNCHANGED <<carVars, rv>>
  BY <1>1 DEF ReceiveHallCall
<1>2. ASSUME NEW f \in Floor, ReceiveSelection(f)
      PROVE  UNCHANGED <<carVars, rv>>
  BY <1>2 DEF ReceiveSelection
<1>3. CASE CommPush \/ UdpPush \/ LoseCall \/ LoseSelection \/ DispatcherFails
  BY <1>3 DEF CommPush, UdpPush, LoseCall, LoseSelection, DispatcherFails
<1>4. CASE StSample \/ StDirect \/ StClear
  BY <1>4 DEF StSample, StDirect, StClear
<1>5. CASE StSignal
  BY <1>5 DEF StSignal
<1>6. CASE FrCheck \/ FrWait \/ FrClear
  BY <1>6 DEF FrCheck, FrWait, FrClear
<1> QED  BY <1>1, <1>2, <1>3, <1>4, <1>5, <1>6, NextSplits

(* No task leaves an idle car between two floors. *)
LEMMA NextKeepsIdleStands ==
    ASSUME TypeOK, IdleStands, [Next]_vars
    PROVE  IdleStands'
<1> USE DEF IdleStands, carVars
<1>1. CASE FrRun
  BY <1>1 DEF FrRun, SetFinalDestination
<1>2. CASE SvRun
  BY <1>2 DEF SvRun, SetFinalDestination
<1>3. CASE RvAdvance
  BY <1>3 DEF RvAdvance, Advance, AfterPoll
<1>4. CASE RvFinish
  <2>1. finalDestination \in Int
    BY ByteSizeAssumption DEF TypeOK, CarTypeOK, Byte
  <2>2. position % 2 = 0 /\ ~moving /\ task
    BY <1>4, <2>1 DEF RvFinish, Finish, DoorsDone, AtDestination
  <2>3. CASE Reset /\ rv' = AfterPoll
    BY <2>2, <2>3 DEF Reset, AfterPoll
  <2>4. CASE UNCHANGED carVars
    BY <2>2, <2>4
  <2> QED  BY <1>4, <2>3, <2>4 DEF RvFinish, Finish
<1>5. CASE RvReset
  BY <1>5 DEF RvReset, Reset, AfterPoll
<1>6. CASE Next /\ ~FrRun /\ ~SvRun /\ ~RvAdvance /\ ~RvFinish /\ ~RvReset
  BY <1>6, OthersLeaveCarAlone
<1>7. CASE UNCHANGED vars
  BY <1>7 DEF vars, ctlVars
<1> QED  BY <1>1, <1>2, <1>3, <1>4, <1>5, <1>6, <1>7

-----------------------------------------------------------------------------
(* The next-state values of Asked and Flushed, spelled out. *)
LEMMA AskedNext ==
    /\ Asked' = Contents(upHeap') \cup Contents(downHeap') \cup Support(missed')
                  \cup InHand(call') \cup InHand(selection')
    /\ Flushed' <=> (st' = "clear" \/ fr' = "clear" =>
                       Support(missed') \subseteq
                         Contents(upHeap') \cup Contents(downHeap'))
BY DEF Asked, Flushed, InFlush, Contents, Support, InHand

(* A flush adds the missed calls to the floors in the heaps. *)
LEMMA FlushCopies ==
    ASSUME TypeOK, NEW d \in Direction, UpdateMissedFloor(d)
    PROVE  Contents(upHeap') \cup Contents(downHeap')
             = Contents(upHeap) \cup Contents(downHeap) \cup Support(missed)
<1>1. CASE d = UP
  BY <1>1, PushVectorAdds DEF TypeOK, UpdateMissedFloor, UP, DOWN
<1>2. CASE d = DOWN
  BY <1>2, PushVectorAdds DEF TypeOK, UpdateMissedFloor, UP, DOWN
<1> QED  BY <1>1, <1>2 DEF Direction

(* What becomes of the floors somebody asked for: a step adds one, keeps   *)
(* them, or takes away the floor at which the car stands without a task.   *)
OneAsks == UNCHANGED carVars /\ \E f \in Floor : Asked' = Asked \cup {f}
StandingServed ==
    UNCHANGED carVars /\ Parked /\ Asked' = Asked \ {CurrentFloor}

(* What each task may do to the set of asked floors. *)
LEMMA StepOfAsked ==
    ASSUME TypeOK, Locked, IdleStands, Flushed, Next,
           "flush" \notin Races, "vector" \notin Races
    PROVE  Flushed' /\ (OneAsks \/ Asked' = Asked \/ StandingServed)
<1> DEFINE U == Contents(upHeap)
           D == Contents(downHeap)
           M == Support(missed)
<1>0. /\ Asked = U \cup D \cup M \cup InHand(call) \cup InHand(selection)
      /\ Flushed <=> (st = "clear" \/ fr = "clear" => M \subseteq U \cup D)
  BY DEF Asked, Flushed, InFlush
<1>1. ASSUME NEW f \in Floor, NEW d \in Direction, ReceiveHallCall(f, d)
      PROVE  Flushed' /\ OneAsks
  <2>1. call' # Nothing /\ call'.floor = f
    BY <1>1 DEF ReceiveHallCall, PlaceHallCall, Nothing, Direction, UP, DOWN
  <2>2. Asked' = Asked \cup {f}
    BY <1>0, <1>1, <2>1, AskedNext DEF ReceiveHallCall, InHand
  <2> QED  BY <1>0, <1>1, <2>2, AskedNext DEF ReceiveHallCall, OneAsks
<1>2. ASSUME NEW f \in Floor, ReceiveSelection(f)
      PROVE  Flushed' /\ OneAsks
  <2>1. selection' # Nothing /\ selection'.floor = f
    BY <1>2 DEF ReceiveSelection, PlaceSelection, Nothing, Opposite, TypeOK,
                Status, Direction, UP, DOWN
  <2>2. Asked' = Asked \cup {f}
    BY <1>0, <1>2, <2>1, AskedNext DEF ReceiveSelection, InHand
  <2> QED  BY <1>0, <1>2, <2>2, AskedNext DEF ReceiveSelection, OneAsks
<1>3. ASSUME CommPush
      PROVE  Flushed' /\ Asked' = Asked
  <2> DEFINE f == call.floor
  <2>1. f \in Floor /\ InHand(call) = {f} /\ InHand(call') = {}
    BY <1>3 DEF CommPush, TypeOK, Placement, InHand
  <2>2. /\ Contents(upHeap') = U \cup (IF call.into = UP THEN {f} ELSE {})
        /\ Contents(downHeap') = D \cup (IF call.into = DOWN THEN {f} ELSE {})
        /\ Support(missed') = M \cup (IF call.into = "missed" THEN {f} ELSE {})
    BY <1>3, <2>1, PushHallCallAdds, PushAdds
       DEF CommPush, PushHallCallTo, TypeOK
  <2>3. call.into \in {UP, DOWN, "missed"}
    BY <1>3 DEF CommPush, TypeOK, Placement, UP, DOWN
  <2>4. call.into = "missed" => st' # "clear" /\ fr' # "clear"
    BY <1>3 DEF CommPush, InFlush
  <2> HIDE DEF f, U, D, M
  <2>5. Asked' = Asked
    BY <1>0, <1>3, <2>1, <2>2, <2>3, AskedNext DEF CommPush
  <2>6. Flushed'
    BY <1>0, <1>3, <2>2, <2>4, AskedNext DEF CommPush
  <2> QED  BY <2>5, <2>6
<1>4. ASSUME UdpPush
      PROVE  Flushed' /\ Asked' = Asked
  <2> DEFINE f == selection.floor
  <2>1. f \in Floor /\ InHand(selection) = {f} /\ InHand(selection') = {}
    BY <1>4 DEF UdpPush, TypeOK, Placement, InHand
  <2>2. /\ Contents(upHeap') = U \cup (IF selection.into = UP THEN {f} ELSE {})
        /\ Contents(downHeap')
             = D \cup (IF selection.into = DOWN THEN {f} ELSE {})
    BY <1>4, <2>1, PushFloorRequestAdds DEF UdpPush, TypeOK
  <2>3. selection.into \in {UP, DOWN}
    BY <1>4 DEF UdpPush, TypeOK, Placement, UP, DOWN
  <2> HIDE DEF f, U, D
  <2>5. Asked' = Asked
    BY <1>0, <1>4, <2>1, <2>2, <2>3, AskedNext DEF UdpPush
  <2>6. Flushed'
    BY <1>0, <1>4, <2>2, AskedNext DEF UdpPush
  <2> QED  BY <2>5, <2>6
<1>5. ASSUME StSample
      PROVE  Flushed' /\ (Asked' = Asked \/ StandingServed)
  <2>1. PICK f \in SampledFloor :
          /\ upHeap' = PopServed(UP, upHeap, f)
          /\ downHeap' = PopServed(DOWN, downHeap, f)
    BY <1>5 DEF StSample
  <2>2. UNCHANGED <<carVars, missed, call, selection>> /\ st' # "clear"
    BY <1>5 DEF StSample
  <2>3. fr' # "clear"
    BY <1>5 DEF StSample, Locked
  <2>4. /\ Contents(upHeap') \subseteq U /\ U \ {f} \subseteq Contents(upHeap')
        /\ Contents(downHeap') \subseteq D
        /\ D \ {f} \subseteq Contents(downHeap')
        /\ task => Contents(upHeap') = U /\ Contents(downHeap') = D
    BY <2>1, PopServedTakesFirst DEF TypeOK
  <2>5. /\ Support(missed') = M
        /\ InHand(call') = InHand(call) /\ InHand(selection') = InHand(selection)
    BY <2>2
  <2> DEFINE Rest == M \cup InHand(call) \cup InHand(selection)
             U2 == Contents(upHeap')
             D2 == Contents(downHeap')
  <2>6. Asked = U \cup D \cup Rest /\ Asked' = U2 \cup D2 \cup Rest /\ Flushed'
    BY <1>0, <2>2, <2>3, <2>5, AskedNext
  <2> HIDE DEF U, D, M, Rest, U2, D2
  <2>7. CASE task
    BY <2>4, <2>6, <2>7 DEF U2, D2
  <2>8. CASE ~task
    <3>1. f = CurrentFloor /\ Parked
      BY <2>8 DEF SampledFloor, IdleStands, Parked
    <3>2. U2 \subseteq U /\ U \ {f} \subseteq U2 /\ D2 \subseteq D /\ D \ {f} \subseteq D2
      BY <2>4 DEF U2, D2
    <3>3. CASE f \in Asked'
      BY <2>6, <3>2, <3>3
    <3>4. CASE f \notin Asked'
      <4>1. Asked' = Asked \ {f}
        BY <2>6, <3>2, <3>4
      <4> QED  BY <2>2, <2>6, <3>1, <4>1 DEF StandingServed
    <3> QED  BY <3>3, <3>4
  <2> QED  BY <2>7, <2>8
<1>6. ASSUME StDirect
      PROVE  Flushed' /\ Asked' = Asked
  <2>0. eStat.direction \in Direction
    BY DEF TypeOK, Status
  <2>1. fr' # "clear" /\ UNCHANGED <<missed, call, selection>>
    BY <1>6 DEF StDirect, Locked
  <2>2. CASE UpdateMissedFloor(eStat.direction)
    BY <1>0, <2>0, <2>1, <2>2, FlushCopies, AskedNext
  <2>3. CASE UNCHANGED <<upHeap, downHeap>> /\ st' = "signal"
    BY <1>0, <2>1, <2>3, AskedNext
  <2> QED  BY <1>6, <2>2, <2>3 DEF StDirect
<1>7. ASSUME StClear \/ FrClear
      PROVE  Flushed' /\ Asked' = Asked
  <2>1. M \subseteq U \cup D
    BY <1>0, <1>7 DEF StClear, FrClear
  <2>2. Support(missed') = {}
    BY <1>7, EmptyHeapIsEmpty DEF StClear, FrClear
  <2>3. UNCHANGED <<upHeap, downHeap, call, selection>>
    BY <1>7 DEF StClear, FrClear
  <2> QED  BY <1>0, <2>1, <2>2, <2>3, AskedNext
<1>8. ASSUME FrRun
      PROVE  Flushed' /\ Asked' = Asked
  <2>0. eStat.direction \in Direction
    BY DEF TypeOK, Status
  <2>1. st' # "clear" /\ UNCHANGED <<missed, call, selection>>
    BY <1>8 DEF FrRun, Locked
  <2>2. CASE UpdateMissedFloor(eStat.direction)
    BY <1>0, <2>0, <2>1, <2>2, FlushCopies, AskedNext
  <2>3. CASE UNCHANGED <<upHeap, downHeap>> /\ fr' = "top"
    BY <1>0, <2>1, <2>3, AskedNext
  <2> QED  BY <1>8, <2>2, <2>3 DEF FrRun
<1>9. ASSUME \/ StSignal \/ DispatcherFails \/ FrCheck \/ FrWait \/ SvRun
             \/ RvAdvance \/ RvFinish \/ RvReset
      PROVE  Flushed' /\ Asked' = Asked
  <2>1. UNCHANGED <<upHeap, downHeap, missed, call, selection>>
    BY <1>9 DEF StSignal, DispatcherFails, FrCheck, FrWait, SvRun, RvAdvance,
                RvFinish, RvReset
  <2>2. (st' = "clear" => st = "clear") /\ (fr' = "clear" => fr = "clear")
    BY <1>9 DEF StSignal, DispatcherFails, FrCheck, FrWait, SvRun, RvAdvance,
                RvFinish, RvReset
  <2> QED  BY <1>0, <2>1, <2>2, AskedNext
<1>10. ~LoseCall /\ ~LoseSelection
  BY DEF LoseCall, LoseSelection
<1> QED
  BY <1>1, <1>2, <1>3, <1>4, <1>5, <1>6, <1>7, <1>8, <1>9, <1>10, NextSplits
(* The invariant behind the service: nothing in it depends on the races    *)
(* but the last conjunct, which needs that no call slips into the flush.   *)
ServiceInv == TypeOK /\ Locked /\ IdleStands /\ Flushed

(* The strengthening for the service holds initially ... *)
LEMMA InitServiceInv ==
    ASSUME Init
    PROVE  ServiceInv
<1>1. Locked
  BY DEF Init, Locked
<1>2. IdleStands
  BY DEF Init, CarInit, IdleStands
<1>3. Flushed
  BY DEF Init, Flushed, InFlush
<1> QED  BY <1>1, <1>2, <1>3, InitIsTyped DEF ServiceInv

(* ... and every step keeps it. *)
LEMMA NextServiceInv ==
    ASSUME "flush" \notin Races, "vector" \notin Races, ServiceInv, [Next]_vars
    PROVE  ServiceInv'
<1> USE DEF ServiceInv
<1>1. CASE UNCHANGED vars
  <2>1. TypeOK'
    BY <1>1 DEF vars, carVars, ctlVars, TypeOK, CarTypeOK
  <2>2. Flushed'
    BY <1>1 DEF vars, ctlVars, Flushed, InFlush, Contents, Support
  <2> QED  BY <2>1, <2>2, NextKeepsLock, NextKeepsIdleStands
<1>2. CASE Next
  BY <1>2, StepKeepsType, NextKeepsLock, NextKeepsIdleStands, StepOfAsked
<1> QED  BY <1>1, <1>2

(* How the car's part of a step looks to a passenger. *)
LEMMA StepOfStanding ==
    ASSUME TypeOK, IdleStands, Next
    PROVE  \/ Standing' = Standing
           \/ /\ FrRun \/ SvRun \/ RvFinish \/ RvReset
              /\ \/ Standing # -1 /\ Standing' = -1
                 \/ Standing = -1 /\ Standing' # -1
<1> USE DEF Standing, Parked, CurrentFloor, carVars
<1>1. CASE FrRun \/ SvRun
  <2>1. task' = TRUE \/ UNCHANGED carVars
    BY <1>1 DEF FrRun, SvRun, SetFinalDestination
  <2> QED  BY <1>1, <2>1
<1>2. CASE RvAdvance
  <2>1. task /\ task' = task
    BY <1>2 DEF RvAdvance, Advance
  <2> QED  BY <2>1
<1>3. CASE RvFinish \/ RvReset
  <2>1. task \/ UNCHANGED carVars
    BY <1>3 DEF RvFinish, Finish, DoorsDone, RvReset, IdleStands
  <2> QED  BY <1>3, <2>1
<1>4. CASE Next /\ ~FrRun /\ ~SvRun /\ ~RvAdvance /\ ~RvFinish /\ ~RvReset
  BY <1>4, OthersLeaveCarAlone
<1> QED  BY <1>1, <1>2, <1>3, <1>4

(* Every step of the controller is a step of the service, or none. *)
LEMMA StepOfService ==
    ASSUME "flush" \notin Races, "vector" \notin Races, ServiceInv, [Next]_vars
    PROVE  [Service!Next]_(Service!svars)
<1> SUFFICES Service!Next \/ (Asked' = Asked /\ Standing' = Standing)
  BY DEF Service!svars
<1> USE DEF ServiceInv, Service!Next
<1>1. CASE UNCHANGED vars
  BY <1>1 DEF vars, carVars, ctlVars, Asked, InHand, Contents, Support,
              Standing, Parked, CurrentFloor
<1>2. CASE Next
  <2>1. CASE OneAsks
    <3>1. Standing' = Standing
      BY <2>1 DEF OneAsks, Standing, Parked, CurrentFloor, carVars
    <3> QED  BY <2>1, <3>1, FloorsAreBytes DEF OneAsks, Service!Ask
  <2>2. CASE StandingServed
    <3>1. Standing' = Standing /\ Standing = CurrentFloor
      BY <2>2 DEF StandingServed, Standing, Parked, CurrentFloor, carVars
    <3> QED  BY <2>2, <3>1 DEF StandingServed, Service!Serve
  <2>3. CASE Asked' = Asked
    BY <1>2, <2>3, StepOfStanding DEF Service!Depart, Service!Arrive,
                                      Service!Nowhere
  <2> QED  BY <1>2, <2>1, <2>2, <2>3, StepOfAsked
<1> QED  BY <1>1, <1>2

(* Provided no call slips into the two lines between the copy and the      *)
(* clear of updateMissedFloor and no push collides with a vector in use,   *)
(* the six tasks together implement the service: a floor that was asked    *)
(* for stays asked for until the car stands there.  The polls of the car   *)
(* may lag, run ahead or tear, and the supervisor may interfere.           *)
THEOREM ControllerImplementsService ==
    ASSUME "flush" \notin Races, "vector" \notin Races
    PROVE  Spec => ImplementsService
<1>1. Init => Service!Init
  <2> SUFFICES ASSUME Init PROVE Service!Init
    OBVIOUS
  <2>1. Asked = {}
    BY EmptyHeapIsEmpty DEF Init, Asked, InHand
  <2>2. Standing \in Byte
    BY ByteSizeAssumption, TopFloorAssumption
       DEF Init, CarInit, Standing, Parked, CurrentFloor, Byte
  <2> QED  BY <2>1, <2>2 DEF Service!Init
<1>2. Init => ServiceInv
  BY InitServiceInv
<1>3. ServiceInv /\ [Next]_vars => ServiceInv'
  BY NextServiceInv
<1>4. ServiceInv /\ [Next]_vars => [Service!Next]_(Service!svars)
  BY StepOfService
<1> QED
  BY <1>1, <1>2, <1>3, <1>4, PTL DEF Spec, ImplementsService, Service!Spec
-----------------------------------------------------------------------------
(* floorRun has been woken and has not yet run: nothing was popped since.  *)
Awake == fr = "woken" => st = "wait" /\ ~HeapsEmpty /\ ~eStat.GDFailedEmptyHeap

(* HeapsEmpty depends on the two heaps only. *)
LEMMA HeapsEmptyNext ==
    HeapsEmpty' <=> Contents(upHeap') \cup Contents(downHeap') = {}
BY DEF HeapsEmpty, Contents, Support

(* A woken floorRun keeps a floor to head for until it runs. *)
LEMMA NextKeepsAwake ==
    ASSUME "wakeup" \notin Races, TypeOK, Locked, Awake, [Next]_vars
    PROVE  Awake'
<1> USE DEF Awake
<1>1. ASSUME NEW f \in Floor, NEW d \in Direction, ReceiveHallCall(f, d)
      PROVE  Awake'
  BY <1>1, HeapsEmptyNext DEF ReceiveHallCall, HeapsEmpty
<1>2. ASSUME NEW f \in Floor, ReceiveSelection(f)
      PROVE  Awake'
  BY <1>2, HeapsEmptyNext DEF ReceiveSelection, HeapsEmpty
<1>3. CASE CommPush
  <2>1. call.floor \in Floor
    BY <1>3 DEF CommPush, TypeOK, Placement
  <2>2. /\ Contents(upHeap) \subseteq Contents(upHeap')
        /\ Contents(downHeap) \subseteq Contents(downHeap')
    BY <1>3, <2>1, PushHallCallAdds DEF CommPush, PushHallCallTo, TypeOK
  <2> QED  BY <1>3, <2>2, HeapsEmptyNext DEF CommPush, HeapsEmpty
<1>4. CASE UdpPush
  <2>1. selection.floor \in Floor
    BY <1>4 DEF UdpPush, TypeOK, Placement
  <2>2. /\ Contents(upHeap) \subseteq Contents(upHeap')
        /\ Contents(downHeap) \subseteq Contents(downHeap')
    BY <1>4, <2>1, PushFloorRequestAdds DEF UdpPush, TypeOK
  <2> QED  BY <1>4, <2>2, HeapsEmptyNext DEF UdpPush, HeapsEmpty
<1>5. CASE LoseCall \/ LoseSelection \/ DispatcherFails
  BY <1>5, HeapsEmptyNext
     DEF LoseCall, LoseSelection, DispatcherFails, HeapsEmpty, TypeOK, Status
<1>6. CASE StSample
  BY <1>6 DEF StSample
<1>7. CASE StDirect \/ StClear
  BY <1>7 DEF StDirect, StClear
<1>8. CASE StSignal
  <2>1. fr # "woken"
    BY <1>8 DEF StSignal
  <2> QED
    BY <1>8, <2>1, HeapsEmptyNext DEF StSignal, HeapsEmpty, TypeOK, Status
<1>9. CASE FrCheck \/ FrWait
  BY <1>9 DEF FrCheck, FrWait
<1>10. CASE FrRun \/ FrClear
  BY <1>10 DEF FrRun, FrClear
<1>11. CASE SvRun
  BY <1>11, HeapsEmptyNext DEF SvRun, HeapsEmpty, TypeOK, Status
<1>12. CASE RvAdvance \/ RvFinish \/ RvReset
  BY <1>12, HeapsEmptyNext DEF RvAdvance, RvFinish, RvReset, HeapsEmpty
<1>13. CASE UNCHANGED vars
  BY <1>13, HeapsEmptyNext DEF vars, ctlVars, HeapsEmpty
<1> QED
  BY <1>1, <1>2, <1>3, <1>4, <1>5, <1>6, <1>7, <1>8, <1>9, <1>10, <1>11,
     <1>12, <1>13, NextSplits

AwakeInv == TypeOK /\ Locked /\ Awake

(* So the strengthening for the wake-up is an invariant. *)
LEMMA AwakeInvariant ==
    ASSUME "wakeup" \notin Races
    PROVE  Spec => []AwakeInv
<1>1. Init => AwakeInv
  BY InitIsTyped, InitServiceInv DEF Init, AwakeInv, Awake, ServiceInv
<1>2. AwakeInv /\ [Next]_vars => AwakeInv'
  <2> SUFFICES ASSUME AwakeInv, [Next]_vars
               PROVE  AwakeInv'
    OBVIOUS
  <2>1. TypeOK'
    BY StepKeepsType DEF AwakeInv, vars, carVars, ctlVars, TypeOK, CarTypeOK
  <2> QED  BY <2>1, NextKeepsLock, NextKeepsAwake DEF AwakeInv
<1> QED  BY <1>1, <1>2, PTL DEF Spec

(* Provided floorRun, once signalled, gets the mutex before updateStatus   *)
(* runs again 75 ms later, it always wakes to a floor to head for: the     *)
(* uninitialised topItem is never used.                                    *)
THEOREM AlwaysWakesWithWork ==
    ASSUME "wakeup" \notin Races
    PROVE  Spec => []WakesWithWork
<1>1. AwakeInv => WakesWithWork
  BY DEF AwakeInv, Awake, WakesWithWork
<1> QED  BY <1>1, AwakeInvariant, PTL

(* The floor floorRun picks when there is one is in a heap. *)
LEMMA PicksFromHeaps ==
    ASSUME TypeOK, ~HeapsEmpty, NEW t \in NextItem
    PROVE  t \in Contents(upHeap) \cup Contents(downHeap)
<1> DEFINE d == eStat.serviceDirection
           e == Opposite(d)
<1>1. d \in Direction
  BY DEF TypeOK, Status
<1>2. HeapOf(d) \in Heap /\ HeapOf(e) \in Heap
  BY HeapOfIsHeap
<1>3. Contents(upHeap) \cup Contents(downHeap)
        = Contents(HeapOf(d)) \cup Contents(HeapOf(e))
  BY <1>1 DEF HeapOf, Opposite, Direction, UP, DOWN
<1> QED  BY <1>2, <1>3, PeekIsFirst DEF NextItem, HeapsEmpty

(* Two actions alone assign destinations, and no other gives the car a     *)
(* task or brings back the dispatcher.                                     *)
LEMMA OthersAssignNothing ==
    ASSUME TypeOK, Next, ~FrRun, ~SvRun
    PROVE  /\ eStat'.destination = eStat.destination
           /\ eStat.GDFailed => eStat'.GDFailed
           /\ task' => task /\ finalDestination' = finalDestination
<1> USE DEF TypeOK, Status, carVars
<1>1. ASSUME \/ \E f \in Floor, d \in Direction : ReceiveHallCall(f, d)
             \/ \E f \in Floor : ReceiveSelection(f)
             \/ CommPush \/ UdpPush \/ LoseCall \/ LoseSelection
             \/ StClear \/ FrCheck \/ FrWait \/ FrClear
      PROVE  UNCHANGED <<carVars, eStat>>
  BY <1>1 DEF ReceiveHallCall, ReceiveSelection, CommPush, UdpPush, LoseCall,
              LoseSelection, StClear, FrCheck, FrWait, FrClear
<1>2. CASE DispatcherFails
  BY <1>2 DEF DispatcherFails
<1>3. CASE StSample
  BY <1>3 DEF StSample
<1>4. CASE StDirect
  BY <1>4 DEF StDirect
<1>5. CASE StSignal
  BY <1>5 DEF StSignal
<1>6. CASE RvAdvance
  BY <1>6 DEF RvAdvance, Advance
<1>7. CASE RvFinish \/ RvReset
  <2>1. UNCHANGED eStat /\ (Reset \/ UNCHANGED carVars)
    BY <1>7 DEF RvFinish, Finish, RvReset
  <2> QED  BY <2>1 DEF Reset
<1> QED  BY <1>1, <1>2, <1>3, <1>4, <1>5, <1>6, <1>7, NextSplits

HeadingInv == ServiceInv /\ Awake /\ HeadsForAskedFloor

(* Provided, further, that no call is lost on the way, the car makes for a *)
(* floor somebody waits for whenever it has a task and the dispatcher      *)
(* lives.                                                                  *)
THEOREM AlwaysHeadsForAskedFloor ==
    ASSUME Races \subseteq {"overshoot", "lag", "reset"}
    PROVE  Spec => []HeadsForAskedFloor
<1>1. Init => HeadingInv
  BY InitServiceInv
     DEF Init, CarInit, HeadingInv, Awake, HeadsForAskedFloor
<1>2. HeadingInv /\ [Next]_vars => HeadingInv'
  <2> SUFFICES ASSUME HeadingInv, [Next]_vars
               PROVE  HeadingInv'
    OBVIOUS
  <2> USE DEF HeadingInv, ServiceInv
  <2>1. ServiceInv' /\ Awake'
    BY NextServiceInv, NextKeepsAwake
  <2>2. CASE UNCHANGED vars
    BY <2>1, <2>2 DEF vars, carVars, ctlVars, HeadsForAskedFloor, Asked,
                      InHand, Contents, Support
  <2>3. CASE Next
    <3>1. (task => Asked \subseteq Asked') /\ (~task /\ task' => Asked \subseteq Asked')
      BY <2>3, StepOfAsked DEF OneAsks, StandingServed, Parked, carVars
    <3>2. CASE FrRun
      <4>1. PICK t \in NextItem :
              /\ eStat' = [eStat EXCEPT !.destination = t,
                                        !.GDFailedEmptyHeap = @ \/ HeapsEmpty]
              /\ t = eStat.destination => UNCHANGED carVars
        BY <3>2 DEF FrRun
      <4>2. t \in Asked
        BY <3>2, PicksFromHeaps DEF FrRun, Awake, Asked
      <4>3. eStat'.destination = t
        BY <4>1 DEF TypeOK, Status
      <4>4. HeadsForAskedFloor'
        BY <3>1, <4>2, <4>3 DEF HeadsForAskedFloor
      <4> QED  BY <2>1, <4>4
    <3>3. CASE SvRun
      <4>1. eStat.GDFailed \/ UNCHANGED <<carVars, eStat>>
        BY <3>3 DEF SvRun
      <4>2. eStat.GDFailed => eStat'.GDFailed
        BY <3>3 DEF SvRun, TypeOK, Status
      <4> QED  BY <2>1, <3>1, <4>1, <4>2 DEF HeadsForAskedFloor, carVars
    <3>4. CASE ~FrRun /\ ~SvRun
      BY <2>1, <2>3, <3>1, <3>4, OthersAssignNothing DEF HeadsForAskedFloor
    <3> QED  BY <3>2, <3>3, <3>4
  <2> QED  BY <2>2, <2>3
<1>3. HeadingInv => HeadsForAskedFloor
  BY DEF HeadingInv
<1> QED  BY <1>1, <1>2, <1>3, PTL DEF Spec
-----------------------------------------------------------------------------
(* Provided no assignment lands between the end of a task and its reset,   *)
(* the controller's destination is the car's, and floorRun may go by it.   *)
OrdersInv == TypeOK /\ rv # "reset" /\ CarFollowsOrders

(* floorRun and supervise change the car's destination only together with  *)
(* eStat's, and floorRun skips setFinalDestination only when they already  *)
(* agree: controller and car stay of one mind.                             *)
THEOREM CarAlwaysFollowsOrders ==
    ASSUME "reset" \notin Races
    PROVE  Spec => []CarFollowsOrders
<1>1. Init => OrdersInv
  <2> SUFFICES ASSUME Init PROVE OrdersInv
    OBVIOUS
  <2>1. CarFollowsOrders /\ rv # "reset"
    BY DEF Init, CarInit, CarFollowsOrders
  <2> QED  BY <2>1, InitIsTyped DEF OrdersInv
<1>2. OrdersInv /\ [Next]_vars => OrdersInv'
  <2> SUFFICES ASSUME OrdersInv, [Next]_vars
               PROVE  OrdersInv'
    OBVIOUS
  <2> USE DEF OrdersInv, CarFollowsOrders
  <2>1. TypeOK'
    BY StepKeepsType DEF vars, carVars, ctlVars, TypeOK, CarTypeOK
  <2>2. rv' # "reset" /\ ~RvReset
    <3>1. RvAdvance \/ RvFinish => rv' # "reset"
      BY DEF RvAdvance, RvFinish, AfterPoll
    <3>2. Next /\ ~FrRun /\ ~SvRun /\ ~RvAdvance /\ ~RvFinish => rv' # "reset"
      BY OthersLeaveCarAlone DEF RvReset
    <3>3. FrRun \/ SvRun \/ UNCHANGED vars => rv' = rv
      BY DEF FrRun, SvRun, vars, ctlVars
    <3> QED  BY <3>1, <3>2, <3>3 DEF RvReset
  <2>3. CASE FrRun
    <3>1. PICK t \in NextItem :
            /\ eStat' = [eStat EXCEPT !.destination = t,
                                      !.GDFailedEmptyHeap = @ \/ HeapsEmpty]
            /\ IF t # eStat.destination THEN SetFinalDestination(t)
                                        ELSE UNCHANGED carVars
      BY <2>3 DEF FrRun
    <3>2. eStat'.destination = t
      BY <3>1 DEF TypeOK, Status
    <3> QED
      BY <2>1, <2>2, <3>1, <3>2 DEF SetFinalDestination, carVars
  <2>4. CASE SvRun
    <3>1. CASE UNCHANGED <<carVars, eStat>>
      BY <2>1, <2>2, <3>1 DEF carVars
    <3>2. CASE /\ eStat' = [eStat EXCEPT !.destination = Patrol]
               /\ SetFinalDestination(Patrol)
      <4>1. eStat'.destination = Patrol
        BY <3>2 DEF TypeOK, Status
      <4> QED  BY <2>1, <2>2, <3>2, <4>1 DEF SetFinalDestination
    <3> QED  BY <2>4, <3>1, <3>2 DEF SvRun
  <2>5. CASE RvFinish
    <3>1. DoorsDone /\ Reset /\ UNCHANGED eStat
      BY <2>2, <2>5 DEF RvFinish, Finish
    <3> QED  BY <2>1, <2>2, <3>1 DEF DoorsDone, AtDestination, Reset
  <2>6. CASE RvAdvance
    BY <2>1, <2>2, <2>6 DEF RvAdvance, Advance
  <2>7. CASE Next /\ ~FrRun /\ ~SvRun /\ ~RvAdvance /\ ~RvFinish
    <3>1. UNCHANGED carVars
      BY <2>2, <2>7, OthersLeaveCarAlone
    <3>2. eStat'.destination = eStat.destination
      BY <2>7, OthersAssignNothing
    <3> QED  BY <2>1, <2>2, <3>1, <3>2 DEF carVars
  <2>8. CASE UNCHANGED vars
    BY <2>1, <2>2, <2>8 DEF vars, carVars, ctlVars
  <2> QED  BY <2>3, <2>4, <2>5, <2>6, <2>7, <2>8
<1>3. OrdersInv => CarFollowsOrders
  BY DEF OrdersInv
<1> QED  BY <1>1, <1>2, <1>3, PTL DEF Spec

-----------------------------------------------------------------------------
(* What the supervisor goes by is outdated only in a harmless way: while   *)
(* it may run, a car last seen idle, with the heaps last seen empty, is    *)
(* idle.                                                                   *)
Fresh ==
    /\ eStat.GDFailedEmptyHeap /\ ~eStat.taskAssigned
    /\ st # "wait" \/ sv = "ready"
    => ~task

(* What the supervisor read of the car stays true until it acts. *)
LEMMA NextKeepsFresh ==
    ASSUME TypeOK, Locked, Awake, Fresh, Next
    PROVE  Fresh'
<1> USE DEF Fresh, TypeOK, Status, carVars
<1>1. ASSUME \/ \E f \in Floor, d \in Direction : ReceiveHallCall(f, d)
             \/ \E f \in Floor : ReceiveSelection(f)
             \/ CommPush \/ UdpPush \/ LoseCall \/ LoseSelection
             \/ FrCheck \/ FrWait \/ FrClear
      PROVE  UNCHANGED <<carVars, eStat, st, sv>>
  BY <1>1 DEF ReceiveHallCall, ReceiveSelection, CommPush, UdpPush, LoseCall,
              LoseSelection, FrCheck, FrWait, FrClear
<1>2. CASE UNCHANGED <<carVars, eStat, st, sv>>
  BY <1>2
<1>3. CASE DispatcherFails
  BY <1>3 DEF DispatcherFails
<1>4. CASE StSample
  <2>1. eStat'.taskAssigned = task /\ task' = task
    BY <1>4 DEF StSample
  <2> QED  BY <2>1
<1>5. CASE StDirect
  BY <1>5 DEF StDirect
<1>6. CASE StClear
  BY <1>6 DEF StClear
<1>7. CASE StSignal
  BY <1>7 DEF StSignal
<1>8. CASE FrRun
  <2>1. ~eStat'.GDFailedEmptyHeap
    BY <1>8 DEF FrRun, Awake
  <2> QED  BY <2>1
<1>9. CASE SvRun
  <2>1. sv' = "asleep" /\ st' = "wait"
    BY <1>9 DEF SvRun, Locked
  <2> QED  BY <2>1
<1>10. CASE RvAdvance \/ RvFinish \/ RvReset
  <2>1. UNCHANGED <<eStat, st, sv>>
    BY <1>10 DEF RvAdvance, RvFinish, RvReset
  <2>2. task' => task
    BY <1>10, OthersAssignNothing DEF RvAdvance, RvFinish, RvReset, FrRun, SvRun
  <2> QED  BY <2>1, <2>2
<1> QED
  BY <1>1, <1>2, <1>3, <1>4, <1>5, <1>6, <1>7, <1>8, <1>9, <1>10, NextSplits

(* With the same proviso as AlwaysWakesWithWork, the supervisor never      *)
(* diverts a car that has a task, although it decides on flags that are up *)
(* to a period old.                                                        *)
THEOREM SupervisorNeverDiverts ==
    ASSUME "wakeup" \notin Races
    PROVE  Spec => SupervisorMovesIdleCar
<1>1. Init => Fresh
  BY DEF Init, CarInit, Fresh
<1>2. AwakeInv /\ Fresh /\ [Next]_vars => Fresh'
  <2> SUFFICES ASSUME AwakeInv, Fresh, [Next]_vars
               PROVE  Fresh'
    OBVIOUS
  <2>1. CASE UNCHANGED vars
    BY <2>1 DEF vars, carVars, ctlVars, Fresh
  <2> QED  BY <2>1, NextKeepsFresh DEF AwakeInv
<1>3. AwakeInv /\ Fresh /\ [Next]_vars
        => [SvRun => ~task \/ UNCHANGED carVars]_vars
  BY DEF SvRun, Fresh
<1> QED
  BY <1>1, <1>2, <1>3, AwakeInvariant, PTL DEF Spec, SupervisorMovesIdleCar

=============================================================================
