--------------------------- MODULE HeapRunProofs ---------------------------
(***************************************************************************)
(* Proofs about HeapRun, for any number of floors and copies.              *)
(***************************************************************************)
EXTENDS HeapRun, FloorRunHeapProofs

(* A batch is a bag that holds its floor only. *)
LEMMA BatchIsBag ==
    ASSUME NEW f \in Floor, NEW n \in 1 .. 2
    PROVE  [EmptyBag EXCEPT ![f] = n] \in Bag
BY DEF Bag, EmptyBag

(* What one step of the heap does to the floors it holds. *)
LEMMA StepOfHeap ==
    ASSUME TypeOK, Next
    PROVE  /\ TypeOK'
           /\ \/ /\ last' = NoFloor
                 /\ \E f \in Floor : Contents(heap') = Contents(heap) \cup {f}
              \/ /\ Contents(heap) # {}
                 /\ last' = Peek(Run, heap)
                 /\ Contents(heap') \subseteq Contents(heap)
                 /\ Contents(heap) \ {last'} \subseteq Contents(heap')
<1> USE DEF TypeOK
<1>1. CASE \E f \in Floor : HallCall(f) \/ FloorRequest(f)
  <2>1. PICK f \in Floor : HallCall(f) \/ FloorRequest(f)
    BY <1>1
  <2> QED
    BY <2>1, PushHallCallAdds, PushFloorRequestAdds DEF HallCall, FloorRequest
<1>2. CASE \E f \in Floor, n \in 1 .. 2 : Batch(f, n)
  <2>1. PICK f \in Floor, n \in 1 .. 2 : Batch(f, n)
    BY <1>2
  <2> DEFINE b == [EmptyBag EXCEPT ![f] = n]
  <2>2. b \in Bag
    BY BatchIsBag
  <2>3. Support(b) = {f}
    BY DEF Support, EmptyBag
  <2>4. heap' = PushHallCallVector(heap, b) /\ last' = NoFloor
    BY <2>1 DEF Batch
  <2> HIDE DEF b
  <2> QED  BY <2>2, <2>3, <2>4, PushVectorAdds
<1>3. CASE PopFloor
  BY <1>3, PopTakesFirst, PeekIsFirst DEF PopFloor
<1> QED  BY <1>1, <1>2, <1>3 DEF Next

(* The parts of a heap stay bags, whatever is pushed and popped. *)
THEOREM TypeCorrect == Spec => []TypeOK
<1>1. Init => TypeOK
  BY EmptyHeapIsEmpty DEF Init, TypeOK
<1>2. TypeOK /\ [Next]_vars => TypeOK'
  <2> SUFFICES ASSUME TypeOK, [Next]_vars
               PROVE  TypeOK'
    OBVIOUS
  <2>1. CASE Next
    BY <2>1, StepOfHeap
  <2>2. CASE UNCHANGED vars
    BY <2>2 DEF vars, TypeOK
  <2> QED  BY <2>1, <2>2
<1> QED  BY <1>1, <1>2, PTL DEF Spec

(* What is left in the heap never comes before the floor popped last. *)
THEOREM DrainedInOrder == Spec => []DrainsInOrder
<1>1. Init => DrainsInOrder
  BY DEF Init, DrainsInOrder
<1>2. TypeOK /\ DrainsInOrder /\ [Next]_vars => DrainsInOrder'
  <2> SUFFICES ASSUME TypeOK, DrainsInOrder, [Next]_vars
               PROVE  DrainsInOrder'
    OBVIOUS
  <2>1. CASE Next
    <3>1. CASE last' = NoFloor
      BY <3>1 DEF DrainsInOrder
    <3>2. CASE /\ Contents(heap) # {}
               /\ last' = Peek(Run, heap)
               /\ Contents(heap') \subseteq Contents(heap)
      BY <3>2, PeekIsFirst DEF DrainsInOrder, TypeOK
    <3> QED  BY <2>1, <3>1, <3>2, StepOfHeap
  <2>2. CASE UNCHANGED vars
    BY <2>2 DEF vars, DrainsInOrder
  <2> QED  BY <2>1, <2>2
<1> QED  BY <1>1, <1>2, TypeCorrect, PTL DEF Spec

(* The two-part heap with its early returns implements the queue of floors *)
(* in the order of the run.                                                *)
THEOREM HeapImplementsQueue == Spec => ImplementsFloorQueue
<1>1. Init => Queue!Init
  BY EmptyHeapIsEmpty DEF Init, Queue!Init
<1>2. TypeOK /\ [Next]_vars => [Queue!Next]_(Contents(heap))
  <2> SUFFICES ASSUME TypeOK, [Next]_vars
               PROVE  Queue!Next \/ UNCHANGED Contents(heap)
    OBVIOUS
  <2>0. Contents(heap)' = Contents(heap')
    BY DEF Contents, Support
  <2>1. CASE \E f \in Floor : Contents(heap') = Contents(heap) \cup {f}
    BY <2>0, <2>1 DEF Queue!Next, Queue!Add, Queue!Floor, Floor
  <2>2. CASE /\ Next
             /\ Contents(heap) # {}
             /\ last' = Peek(Run, heap)
             /\ Contents(heap') \subseteq Contents(heap)
             /\ Contents(heap) \ {last'} \subseteq Contents(heap')
    <3>1. /\ last' \in Contents(heap)
          /\ \A g \in Contents(heap) : NoLater(Run, last', g)
      BY <2>2, PeekIsFirst DEF TypeOK
    <3>2. CASE last' \in Contents(heap')
      BY <2>0, <2>2, <3>2
    <3>3. CASE last' \notin Contents(heap')
      <4>1. Contents(heap') = Contents(heap) \ {last'}
        BY <2>2, <3>3
      <4> QED  BY <2>0, <3>1, <4>1
           DEF Queue!Next, Queue!Take, Queue!NoLater, NoLater, Queue!UP, UP
    <3> QED  BY <3>2, <3>3
  <2>3. CASE UNCHANGED vars
    BY <2>3 DEF vars
  <2> QED  BY <2>1, <2>2, <2>3, StepOfHeap
<1> QED  BY <1>1, <1>2, TypeCorrect, PTL DEF Spec, ImplementsFloorQueue, Queue!Spec
=============================================================================
