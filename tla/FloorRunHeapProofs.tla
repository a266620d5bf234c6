------------------------- MODULE FloorRunHeapProofs -------------------------
(***************************************************************************)
(* What the operators of FloorRunHeap return, for every building.          *)
(***************************************************************************)
EXTENDS FloorRunHeap, CollectionLemmas

(* A nonempty set of floors has a greatest one: mirror the building. *)
LEMMA GreatestFloor ==
    ASSUME NEW S \in SUBSET Floor, S # {}
    PROVE  \E x \in S : \A y \in S : x >= y
<1> DEFINE M == {TopFloor - f : f \in S}
<1>1. M \in SUBSET Nat /\ M # {}
  <2>1. \A f \in S : TopFloor - f \in Nat
    BY TopFloorAssumption DEF Floor
  <2>2. PICK f \in S : TRUE
    OBVIOUS
  <2>3. TopFloor - f \in M
    OBVIOUS
  <2> QED  BY <2>1, <2>3
<1>2. PICK m \in M : \A k \in M : m <= k
  <2> HIDE DEF M
  <2> QED  BY <1>1, LeastElement
<1>3. PICK x \in S : m = TopFloor - x
  BY <1>2
<1>4. \A y \in S : TopFloor - x <= TopFloor - y
  BY <1>2, <1>3
<1> QED  BY <1>3, <1>4, TopFloorAssumption DEF Floor

(* The front of a nonempty part exists, is in it and is the first floor of *)
(* the run.                                                                *)
LEMMA FrontIsFirst ==
    ASSUME NEW d, NEW S \in SUBSET Floor, S # {}
    PROVE  /\ Front(d, S) \in S
           /\ \A g \in S : NoLater(d, Front(d, S), g)
<1>1. \E f \in S : \A g \in S : NoLater(d, f, g)
  <2>1. CASE d = UP
    BY <2>1, LeastElement, TopFloorAssumption DEF NoLater, Floor
  <2>2. CASE d # UP
    BY <2>2, GreatestFloor DEF NoLater
  <2> QED  BY <2>1, <2>2
<1> QED  BY <1>1 DEF Front

(* The order of a run is transitive. *)
LEMMA NoLaterTransitive ==
    ASSUME NEW d, NEW f \in Floor, NEW g \in Floor, NEW h \in Floor,
           NoLater(d, f, g), NoLater(d, g, h)
    PROVE  NoLater(d, f, h)
BY TopFloorAssumption DEF NoLater, Floor

(* A heap holds floors only. *)
LEMMA ContentsAreFloors ==
    ASSUME NEW h \in Heap
    PROVE  /\ Support(h.hallCalls) \in SUBSET Floor
           /\ Support(h.floorRequests) \in SUBSET Floor
           /\ Contents(h) \in SUBSET Floor
BY DEF Contents, Support

(* peek returns the first floor of the run among both parts. *)
LEMMA PeekIsFirst ==
    ASSUME NEW d, NEW h \in Heap, Contents(h) # {}
    PROVE  /\ Peek(d, h) \in Contents(h)
           /\ Peek(d, h) \in Floor
           /\ \A g \in Contents(h) : NoLater(d, Peek(d, h), g)
<1> DEFINE hc == Support(h.hallCalls)
           fr == Support(h.floorRequests)
           P == Peek(d, h)
<1>0. /\ hc \in SUBSET Floor /\ fr \in SUBSET Floor
      /\ Contents(h) = hc \cup fr
  BY ContentsAreFloors DEF Contents
<1>1. CASE fr = {}
  <2>1. P = Front(d, hc)
    BY <1>1 DEF Peek
  <2> QED  BY <1>0, <1>1, <2>1, FrontIsFirst
<1>2. CASE fr # {} /\ hc = {}
  <2>1. P = Front(d, fr)
    BY <1>2 DEF Peek
  <2> QED  BY <1>0, <1>2, <2>1, FrontIsFirst
<1>3. CASE fr # {} /\ hc # {}
  <2> DEFINE a == Front(d, hc)
             b == Front(d, fr)
  <2>1. P = Front(d, {a, b})
    BY <1>3 DEF Peek
  <2>2. a \in hc /\ \A g \in hc : NoLater(d, a, g)
    BY <1>0, <1>3, FrontIsFirst
  <2>3. b \in fr /\ \A g \in fr : NoLater(d, b, g)
    BY <1>0, <1>3, FrontIsFirst
  <2> HIDE DEF a, b, hc, fr, P
  <2>4. {a, b} \in SUBSET Floor /\ {a, b} # {}
    BY <1>0, <2>2, <2>3
  <2>5. P \in {a, b} /\ NoLater(d, P, a) /\ NoLater(d, P, b)
    BY <2>1, <2>4, FrontIsFirst
  <2>6. \A g \in hc : NoLater(d, P, g)
    BY <1>0, <2>2, <2>4, <2>5, NoLaterTransitive
  <2>7. \A g \in fr : NoLater(d, P, g)
    BY <1>0, <2>3, <2>4, <2>5, NoLaterTransitive
  <2> QED  BY <1>0, <2>2, <2>3, <2>5, <2>6, <2>7 DEF P
<1> QED  BY <1>1, <1>2, <1>3

(* pop yields a heap, and the only floor it may take out is the first one. *)
LEMMA PopTakesFirst ==
    ASSUME NEW d, NEW h \in Heap, Contents(h) # {}
    PROVE  /\ Pop(d, h) \in Heap
           /\ Contents(Pop(d, h)) \subseteq Contents(h)
           /\ Contents(h) \ {Peek(d, h)} \subseteq Contents(Pop(d, h))
<1> DEFINE P == Peek(d, h)
<1>1. P \in Contents(h) /\ P \in Floor
  BY PeekIsFirst
<1>2. CASE Support(h.floorRequests) = {}
  <2>1. Pop(d, h) = [h EXCEPT !.hallCalls = RemoveOne(@, P)]
    BY <1>2 DEF Pop
  <2>2. P \in Support(h.hallCalls)
    BY <1>1, <1>2 DEF Contents
  <2> HIDE DEF P
  <2> QED  BY <1>1, <2>1, <2>2 DEF Heap, Bag, RemoveOne, Contents, Support, P
<1>3. CASE Support(h.floorRequests) # {} /\ Support(h.hallCalls) = {}
  <2>1. Pop(d, h) = [h EXCEPT !.floorRequests = RemoveOne(@, P)]
    BY <1>3 DEF Pop
  <2>2. P \in Support(h.floorRequests)
    BY <1>1, <1>3 DEF Contents
  <2> HIDE DEF P
  <2> QED  BY <1>1, <2>1, <2>2 DEF Heap, Bag, RemoveOne, Contents, Support, P
<1>4. CASE Support(h.floorRequests) # {} /\ Support(h.hallCalls) # {}
  <2>1. Pop(d, h) = [hallCalls |-> RemoveAll(h.hallCalls, P),
                     floorRequests |-> RemoveAll(h.floorRequests, P)]
    BY <1>4 DEF Pop
  <2> HIDE DEF P
  <2> QED  BY <1>1, <2>1 DEF Heap, Bag, RemoveAll, Contents, Support, P
<1> QED  BY <1>2, <1>3, <1>4

(* The empty heap is a heap, and holds nothing. *)
LEMMA EmptyHeapIsEmpty ==
    /\ EmptyHeap \in Heap /\ Contents(EmptyHeap) = {}
    /\ EmptyBag \in Bag /\ Support(EmptyBag) = {}
BY DEF EmptyHeap, Heap, Bag, EmptyBag, Contents, Support

(* A pushed hall call is in the heap, with all that was there. *)
LEMMA PushAdds ==
    ASSUME NEW b \in Bag, NEW f \in Floor
    PROVE  Push(b, f) \in Bag /\ Support(Push(b, f)) = Support(b) \cup {f}
BY DEF Push, Bag, Support

(* A push adds its floor and nothing else. *)
LEMMA PushHallCallAdds ==
    ASSUME NEW h \in Heap, NEW f \in Floor
    PROVE  /\ PushHallCall(h, f) \in Heap
           /\ Contents(PushHallCall(h, f)) = Contents(h) \cup {f}
BY PushAdds DEF PushHallCall, Heap, Contents

(* The same for a floor request. *)
LEMMA PushFloorRequestAdds ==
    ASSUME NEW h \in Heap, NEW f \in Floor
    PROVE  /\ PushFloorRequest(h, f) \in Heap
           /\ Contents(PushFloorRequest(h, f)) = Contents(h) \cup {f}
BY PushAdds DEF PushFloorRequest, Heap, Contents

(* pushVector adds every floor of the vector and nothing else. *)
LEMMA PushVectorAdds ==
    ASSUME NEW h \in Heap, NEW b \in Bag
    PROVE  /\ PushHallCallVector(h, b) \in Heap
           /\ Contents(PushHallCallVector(h, b)) = Contents(h) \cup Support(b)
<1> DEFINE s == [f \in Floor |-> h.hallCalls[f] + b[f]]
<1>1. PushHallCallVector(h, b) = [h EXCEPT !.hallCalls = s]
  BY DEF PushHallCallVector
<1>2. s \in Bag /\ Support(s) = Support(h.hallCalls) \cup Support(b)
  BY DEF Heap, Bag, Support
<1> HIDE DEF s
<1> QED  BY <1>1, <1>2 DEF Heap, Contents
=============================================================================
