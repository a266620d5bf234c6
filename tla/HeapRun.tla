------------------------------ MODULE HeapRun ------------------------------
(***************************************************************************)
(* One floor-run heap as its callers drive it: hall calls and floor        *)
(* requests are pushed in any order, batches of missed hall calls are      *)
(* appended, and floors are popped while the heap is not empty             *)
(* (ElevatorController::updateStatus peeks before it pops).                *)
(***************************************************************************)
EXTENDS FloorRunHeap

CONSTANTS Run,          \* direction of the run
          MaxCopies     \* bound: copies of a floor that a part may reach

ASSUME RunAssumption == Run \in Direction
ASSUME MaxCopiesAssumption == MaxCopies \in Nat \ {0}

VARIABLES heap,
          last          \* floor popped since the last push, or NoFloor

vars == <<heap, last>>

NoFloor == -1

Init == heap = EmptyHeap /\ last = NoFloor

Room(b, f) == b[f] < MaxCopies

HallCall(f) ==
    /\ Room(heap.hallCalls, f)
    /\ heap' = PushHallCall(heap, f)
    /\ last' = NoFloor

FloorRequest(f) ==
    /\ Room(heap.floorRequests, f)
    /\ heap' = PushFloorRequest(heap, f)
    /\ last' = NoFloor

(* A batch of one floor, possibly twice: the same call missed twice. *)
Batch(f, n) ==
    /\ heap.hallCalls[f] + n <= MaxCopies
    /\ heap' = PushHallCallVector(heap, [EmptyBag EXCEPT ![f] = n])
    /\ last' = NoFloor

PopFloor ==
    /\ Contents(heap) # {}
    /\ last' = Peek(Run, heap)
    /\ heap' = Pop(Run, heap)

Next == \/ \E f \in Floor : HallCall(f) \/ FloorRequest(f)
        \/ \E f \in Floor, n \in 1 .. 2 : Batch(f, n)
        \/ PopFloor

Spec == Init /\ [][Next]_vars

-----------------------------------------------------------------------------
(* Every part stays a bag: no pop takes a copy that is not there. *)
TypeOK == heap \in Heap /\ last \in Floor \cup {NoFloor}

(* Draining the heap yields the floors in the order of the run: nothing    *)
(* left behind comes before the floor popped last, whichever part each     *)
(* floor was in and whichever branch of pop ran.                           *)
DrainsInOrder ==
    last # NoFloor => \A g \in Contents(heap) : NoLater(Run, last, g)

(* The heap, seen as the set of floors it holds, is a FloorQueue: a pop    *)
(* never loses a floor other than the first of the run.                    *)
Queue == INSTANCE FloorQueue WITH waiting <- Contents(heap)
ImplementsFloorQueue == Queue!Spec
=============================================================================
