---------------------------- MODULE FloorRunHeap ----------------------------
(***************************************************************************)
(* The two priority queues in which an elevator controller keeps the       *)
(* floors it still has to visit (elevator_controller/Heap.cpp,             *)
(* include/Heap.hpp).  An upward run visits the lowest floor first, a      *)
(* downward run the highest.  Each queue has two parts, hall calls and     *)
(* floor requests, and each part may hold a floor several times.           *)
(*                                                                         *)
(* A part is a std::vector kept in heap order by std::push_heap and        *)
(* std::pop_heap.  Nothing outside reads that order, only the front        *)
(* element, so a part is a bag: how many copies of each floor it holds.    *)
(***************************************************************************)
EXTENDS Integers

CONSTANT TopFloor    \* highest floor a passenger can ask for

ASSUME TopFloorAssumption == TopFloor \in Nat \ {0}

Floor == 0 .. TopFloor

UP == "up"
DOWN == "down"
Direction == {UP, DOWN}
Opposite(d) == IF d = UP THEN DOWN ELSE UP

Bag == [Floor -> Nat]
EmptyBag == [f \in Floor |-> 0]
Support(b) == {f \in Floor : b[f] > 0}

Heap == [hallCalls : Bag, floorRequests : Bag]
EmptyHeap == [hallCalls |-> EmptyBag, floorRequests |-> EmptyBag]
Contents(h) == Support(h.hallCalls) \cup Support(h.floorRequests)

-----------------------------------------------------------------------------
(* MinHeap orders an upward run, MaxHeap a downward one.                   *)
NoLater(d, f, g) == IF d = UP THEN f <= g ELSE f >= g

Front(d, S) == CHOOSE f \in S : \A g \in S : NoLater(d, f, g)

(* Mutant: the fronts are not compared, hall calls always go first.        *)
PeekHallCallsFirst(d, h) ==
    Front(d, IF Support(h.hallCalls) # {} THEN Support(h.hallCalls)
                                          ELSE Support(h.floorRequests))

(* FloorRunHeap::peek: an empty part is skipped, otherwise the better of   *)
(* the two fronts.  Only called on a heap that is not empty.               *)
Peek(d, h) ==
    LET hc == Support(h.hallCalls)
        fr == Support(h.floorRequests)
    IN  IF fr = {} THEN Front(d, hc)
        ELSE IF hc = {} THEN Front(d, fr)
        ELSE Front(d, {Front(d, hc), Front(d, fr)})

RemoveOne(b, f) == [b EXCEPT ![f] = @ - 1]
RemoveAll(b, f) == [b EXCEPT ![f] = 0]

(* Mutants: a copy is taken off a part that may not hold the floor; each   *)
(* part loses its own front.                                               *)
PopBothParts(d, h) ==
    LET top == Peek(d, h)
    IN  [hallCalls |-> RemoveOne(h.hallCalls, top),
         floorRequests |-> RemoveOne(h.floorRequests, top)]

PopBothFronts(d, h) ==
    LET hc == Support(h.hallCalls)
        fr == Support(h.floorRequests)
    IN  [hallCalls |-> IF hc = {} THEN h.hallCalls
                       ELSE RemoveAll(h.hallCalls, Front(d, hc)),
         floorRequests |-> IF fr = {} THEN h.floorRequests
                           ELSE RemoveAll(h.floorRequests, Front(d, fr))]

(* FloorRunHeap::pop: with one part empty the early returns take a single  *)
(* copy off the other part; the loops that strip every duplicate run only  *)
(* when both parts hold something.                                         *)
Pop(d, h) ==
    LET top == Peek(d, h)
    IN  IF Support(h.floorRequests) = {}
          THEN [h EXCEPT !.hallCalls = RemoveOne(@, top)]
        ELSE IF Support(h.hallCalls) = {}
          THEN [h EXCEPT !.floorRequests = RemoveOne(@, top)]
        ELSE [hallCalls |-> RemoveAll(h.hallCalls, top),
              floorRequests |-> RemoveAll(h.floorRequests, top)]

Push(b, f) == [b EXCEPT ![f] = @ + 1]
PushHallCall(h, f) == [h EXCEPT !.hallCalls = Push(@, f)]
PushFloorRequest(h, f) == [h EXCEPT !.floorRequests = Push(@, f)]

(* pushVector appends every element of a vector and heapifies once. *)
PushHallCallVector(h, b) ==
    [h EXCEPT !.hallCalls = [f \in Floor |-> @[f] + b[f]]]
=============================================================================
