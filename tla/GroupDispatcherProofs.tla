----------------------- MODULE GroupDispatcherProofs -----------------------
(***************************************************************************)
(* Theorems about GroupDispatcher, for any number of elevators, calls and  *)
(* workers: its types, and that a hall call is dropped in the listed ways  *)
(* only.                                                                   *)
(***************************************************************************)
EXTENDS GroupDispatcher, FiniteSetTheorems, TLAPS

Runs == [elevator : Elevators, at : {"receive", "update", "remove"},
         status : SUBSET Calls]
InHands == [call : Calls, from : Elevators \cup {Nobody},
            keys : SUBSET Elevators, target : Elevators \cup {Nobody}]

(* A run that does anything has an elevator. *)
LEMMA Busy ==
    ASSUME TypeOK, NEW w \in Workers, run[w].at # "idle"
    PROVE  run[w] \in Runs /\ Client(w) \in Elevators
  BY DEF TypeOK, Runs, Idle, Client

(* A run that goes on to remove its elevator is still a run of it. *)
LEMMA Leaving ==
    ASSUME TypeOK, NEW w \in Workers, run[w] \in Runs, Goto(w, "remove")
    PROVE  /\ run' \in [Workers -> {Idle} \cup Runs]
           /\ run'[w].elevator = run[w].elevator
           /\ \A v \in Workers \ {w} : run'[v] = run[v]
  <1> DEFINE r == [run[w] EXCEPT !.at = "remove"]
  <1>1. r \in Runs /\ r.elevator = run[w].elevator
    BY DEF Runs
  <1>2. run \in [Workers -> {Idle} \cup Runs]
    BY DEF TypeOK, Runs
  <1>3. run' = [run EXCEPT ![w] = r]
    BY DEF Goto
  <1> HIDE DEF r
  <1> QED
    BY <1>1, <1>2, <1>3

(* So is one that was given a status. *)
LEMMA Updating ==
    ASSUME TypeOK, NEW w \in Workers, run[w] \in Runs, NEW s \in SUBSET Calls,
           run' = [run EXCEPT ![w].at = "update", ![w].status = s]
    PROVE  /\ run' \in [Workers -> {Idle} \cup Runs]
           /\ run'[w].elevator = run[w].elevator /\ run'[w].at = "update"
           /\ \A v \in Workers \ {w} : run'[v] = run[v]
  <1> DEFINE r == [run[w] EXCEPT !.at = "update", !.status = s]
  <1>1. r \in Runs /\ r.elevator = run[w].elevator /\ r.at = "update"
    BY DEF Runs
  <1>2. run \in [Workers -> {Idle} \cup Runs]
    BY DEF TypeOK, Runs
  <1>3. run' = [run EXCEPT ![w] = r]
    BY <1>2
  <1> HIDE DEF r
  <1> QED
    BY <1>1, <1>2, <1>3

LEMMA Ending ==
    ASSUME TypeOK, NEW w \in Workers, EndRun(w)
    PROVE  /\ run' \in [Workers -> {Idle} \cup Runs]
           /\ run'[w] = Idle
           /\ \A v \in Workers \ {w} : run'[v] = run[v]
  BY DEF TypeOK, EndRun, Runs

LEMMA TypedInit ==
    ASSUME Init
    PROVE  TypeOK
  <1>1. run \in [Workers -> {Idle} \cup Runs]
    BY DEF Init
  <1>2. /\ toEC \in [Elevators -> Seq(Calls \cup {Poll})]
        /\ fromEC \in [Elevators -> Seq(SUBSET Calls)]
        /\ queue \in Seq(Elevators)
    BY DEF Init
  <1>3. inHand \subseteq InHands
    BY DEF Init
  <1>4. /\ up \in [Elevators -> {"off", "on", "reset", "closed", "silent"}]
        /\ holds \in [Elevators -> SUBSET Calls]
        /\ registered \in [Elevators -> {"no", "acknowledged", "known", "polled"}]
        /\ known \subseteq Elevators /\ polled \subseteq Elevators
        /\ assigned \in [Elevators -> SUBSET Calls]
        /\ pressed \subseteq Calls /\ fatal \in BOOLEAN
    BY DEF Init
  <1> QED
    BY <1>1, <1>2, <1>3, <1>4 DEF TypeOK, Runs, InHands

(* The steps of an elevator. *)
LEMMA TypedElevator ==
    ASSUME TypeOK, NEW e \in Elevators, Elevator(e)
    PROVE  TypeOK'
  <1>1. CASE AnswerPoll(e)
    BY <1>1 DEF TypeOK, AnswerPoll
  <1>2. CASE AcceptCall(e)
    <2>1. Head(toEC[e]) \in Calls /\ toEC' \in [Elevators -> Seq(Calls \cup {Poll})]
      BY <1>2 DEF TypeOK, AcceptCall
    <2>2. holds' \in [Elevators -> SUBSET Calls]
      BY <1>2, <2>1 DEF TypeOK, AcceptCall
    <2> QED
      BY <1>2, <2>1, <2>2 DEF TypeOK, AcceptCall
  <1>3. CASE \E c \in Calls : Serve(e, c)
    BY <1>3 DEF TypeOK, Serve
  <1>4. CASE \E how \in Failures : Fail(e, how)
    <2>1. PICK how \in Failures : Fail(e, how)
      BY <1>4
    <2>2. how \in {"reset", "closed", "silent"}
      BY DispatcherAssumption
    <2> QED
      BY <2>1, <2>2 DEF TypeOK, Fail
  <1> QED
    BY <1>1, <1>2, <1>3, <1>4 DEF Elevator

LEMMA TypedRegistration ==
    ASSUME TypeOK, NEW e \in Elevators, Registration(e)
    PROVE  TypeOK'
  <1>1. CASE Register(e)
    BY <1>1 DEF TypeOK, Register
  <1>2. CASE StoreModel(e)
    BY <1>2 DEF TypeOK, StoreModel, elevatorVars
  <1>3. CASE StoreRunnable(e)
    BY <1>3 DEF TypeOK, StoreRunnable, elevatorVars
  <1> QED
    BY <1>1, <1>2, <1>3 DEF Registration

(* A call in hand changes its keys and its target, and is sent. *)
LEMMA TypedHallCall ==
    ASSUME TypeOK, OnHallCall
    PROVE  TypeOK'
  <1>1. CASE \E c \in Calls : HallCall(c)
    <2>1. PICK c \in Calls : HallCall(c)
      BY <1>1
    <2>2. InHand(c, Nobody) \in InHands
      BY DEF InHand, InHands
    <2> QED
      BY <2>1, <2>2 DEF TypeOK, HallCall, InHands, elevatorVars
  <1>2. ASSUME NEW h \in inHand, Walk(h)
        PROVE  TypeOK'
    <2>1. h \in InHands /\ known \in SUBSET Elevators
      BY DEF TypeOK, InHands
    <2>2. [h EXCEPT !.keys = known] \in InHands
      BY <2>1 DEF InHands
    <2> QED
      BY <1>2, <2>2 DEF TypeOK, Walk, InHands, elevatorVars
  <1>3. ASSUME NEW h \in inHand, Dispatch(h)
        PROVE  TypeOK'
    <2>1. PICK e \in h.keys \cup known :
             inHand' = (inHand \ {h}) \cup {[h EXCEPT !.keys = {}, !.target = e]}
      BY <1>3 DEF Dispatch
    <2>2. h \in InHands /\ e \in Elevators
      BY DEF TypeOK, InHands
    <2>3. [h EXCEPT !.keys = {}, !.target = e] \in InHands
      BY <2>2 DEF InHands
    <2> QED
      BY <1>3, <2>1, <2>3 DEF TypeOK, Dispatch, InHands, elevatorVars
  <1>4. ASSUME NEW h \in inHand, DispatchNull(h) \/ Discard(h)
        PROVE  TypeOK'
    BY <1>4 DEF TypeOK, DispatchNull, Discard, elevatorVars
  <1>5. ASSUME NEW h \in inHand, Deliver(h)
        PROVE  TypeOK'
    <2>1. h.target \in Elevators /\ h.call \in Calls
      BY <1>5 DEF TypeOK, Deliver
    <2>2. toEC' \in [Elevators -> Seq(Calls \cup {Poll})]
      BY <1>5, <2>1 DEF TypeOK, Deliver, Send
    <2> QED
      BY <1>5, <2>2 DEF TypeOK, Deliver
  <1> QED
    BY <1>1, <1>2, <1>3, <1>4, <1>5 DEF OnHallCall

(* The timer appends an enumeration of the polled elevators. *)
LEMMA OrdersAreSequences ==
    ASSUME TypeOK, NEW s \in Orders(polled)
    PROVE  s \in Seq(Elevators)
  <1>1. IsFiniteSet(polled)
    BY DispatcherAssumption, FS_Subset DEF TypeOK
  <1>2. Cardinality(polled) \in Nat
    BY <1>1, FS_CardinalityType
  <1>3. s \in [1 .. Cardinality(polled) -> Elevators]
    BY DEF TypeOK, Orders
  <1> QED
    BY <1>2, <1>3

LEMMA TypedTick ==
    ASSUME TypeOK, Tick
    PROVE  TypeOK'
  <1>1. PICK s \in Orders(polled) : queue' = queue \o s
    BY DEF Tick
  <1>2. queue' \in Seq(Elevators)
    BY <1>1, OrdersAreSequences DEF TypeOK
  <1> QED
    BY <1>2 DEF TypeOK, Tick, elevatorVars

LEMMA TypedUpdater ==
    ASSUME TypeOK, NEW w \in Workers, UpdaterRunnable(w)
    PROVE  TypeOK'
  <1>1. CASE TakeRun(w)
    <2>1. Head(queue) \in Elevators /\ queue' \in Seq(Elevators)
      BY <1>1 DEF TypeOK, TakeRun
    <2>2. Polling(Head(queue)) \in Runs
      BY <2>1 DEF Polling, Runs
    <2>3. run' \in [Workers -> {Idle} \cup Runs]
      BY <1>1, <2>2 DEF TypeOK, TakeRun, Runs
    <2>4. toEC' \in [Elevators -> Seq(Calls \cup {Poll})]
      BY <1>1, <2>1 DEF TypeOK, TakeRun, Send
    <2> QED
      BY <1>1, <2>1, <2>3, <2>4 DEF TypeOK, TakeRun, Runs
  <1>2. CASE run[w].at # "idle"
    <2>0. run[w] \in Runs /\ Client(w) \in Elevators
      BY <1>2, Busy
    <2>1. CASE ReceiveStatus(w)
      <3>1. Head(Reply(w)) \in SUBSET Calls /\ Tail(Reply(w)) \in Seq(SUBSET Calls)
        BY <2>0, <2>1 DEF TypeOK, ReceiveStatus, Reply
      <3>2. run' \in [Workers -> {Idle} \cup Runs]
        BY <2>0, <2>1, <3>1, Updating DEF ReceiveStatus
      <3>3. fromEC' \in [Elevators -> Seq(SUBSET Calls)]
        BY <2>0, <2>1, <3>1 DEF TypeOK, ReceiveStatus, Reply
      <3> QED
        BY <2>1, <3>2, <3>3 DEF TypeOK, ReceiveStatus, Runs
    <2>2. CASE ReceiveGarbled(w)
      <3>1. run' \in [Workers -> {Idle} \cup Runs]
        BY <2>0, <2>2, Leaving, Updating, Ending DEF ReceiveGarbled
      <3>2. fromEC' \in [Elevators -> Seq(SUBSET Calls)]
        BY <2>0, <2>2 DEF TypeOK, ReceiveGarbled, Reply
      <3> QED
        BY <2>2, <3>1, <3>2 DEF TypeOK, ReceiveGarbled, Runs
    <2>3. CASE ReceiveEnd(w)
      BY <2>3 DEF TypeOK, ReceiveEnd, EndRun, elevatorVars
    <2>4. CASE ReceiveReset(w) \/ TimeOut(w)
      <3>1. run' \in [Workers -> {Idle} \cup Runs]
        BY <2>0, <2>4, Leaving DEF ReceiveReset, TimeOut
      <3> QED
        BY <2>4, <3>1 DEF TypeOK, ReceiveReset, TimeOut, Runs, elevatorVars
    <2>5. CASE UpdateECStatus(w)
      <3>1. assigned' \in [Elevators -> SUBSET Calls]
        BY <2>0, <2>5 DEF TypeOK, UpdateECStatus, Runs
      <3> QED
        BY <2>5, <3>1 DEF TypeOK, UpdateECStatus, EndRun, elevatorVars
    <2>6. CASE RemoveElevator(w)
      <3>1. inHand' \subseteq InHands
        BY <2>0, <2>6 DEF TypeOK, RemoveElevator, InHand, InHands
      <3>2. run' \in [Workers -> {Idle} \cup Runs] /\ fatal' \in BOOLEAN
        BY <2>6 DEF TypeOK, RemoveElevator, EndRun, Runs
      <3> QED
        BY <2>6, <3>1, <3>2 DEF TypeOK, RemoveElevator, Runs, InHands, elevatorVars
    <2>7. CASE TakeRun(w)
      BY <1>1, <2>7
    <2> QED
      BY <2>1, <2>2, <2>3, <2>4, <2>5, <2>6, <2>7 DEF UpdaterRunnable
  <1>3. TakeRun(w) \/ run[w].at # "idle"
    BY DEF UpdaterRunnable, ReceiveStatus, ReceiveGarbled, ReceiveEnd,
           ReceiveReset, TimeOut, UpdateECStatus, RemoveElevator, Waiting
  <1> QED
    BY <1>1, <1>2, <1>3

(* Every variable of the dispatcher keeps its type, whatever fails and     *)
(* whichever polling runs pile up.                                         *)
THEOREM TypeCorrect == Spec => []TypeOK
  <1>1. TypeOK /\ [Next]_vars => TypeOK'
    <2> SUFFICES ASSUME TypeOK, [Next]_vars PROVE TypeOK'
      OBVIOUS
    <2>1. CASE UNCHANGED vars
      BY <2>1 DEF TypeOK, vars, elevatorVars
    <2> QED
      BY <2>1, TypedElevator, TypedRegistration, TypedHallCall, TypedTick,
         TypedUpdater DEF Next
  <1> QED
    BY <1>1, TypedInit, PTL DEF Spec

-----------------------------------------------------------------------------
(* Why hall calls are kept: an elevator that a call is, or may be, given   *)
(* to has connected, so that it is either alive and carries the call from  *)
(* then on, or has failed.                                                 *)
Connected(e) == up[e] # "off"

OnlyConnected ==
    /\ \A e \in Elevators : registered[e] # "no" => Connected(e)
    /\ \A e \in known : Connected(e)
    /\ \A h \in inHand : \A e \in h.keys : Connected(e)

(* An elevator that has connected never goes back to not having done so.   *)
LEMMA ConnectedLasts ==
    ASSUME TypeOK, Next, NEW e \in Elevators, Connected(e)
    PROVE  Connected(e)'
  <1>1. CASE UNCHANGED up
    BY <1>1 DEF Connected
  <1>2. ASSUME NEW d \in Elevators, \/ Register(d)
                                    \/ \E how \in Failures : Fail(d, how)
        PROVE  Connected(e)'
    <2>1. CASE Register(d)
      BY <2>1 DEF Register, TypeOK, Connected
    <2>2. ASSUME NEW how \in Failures, Fail(d, how)
          PROVE  Connected(e)'
      <3>1. how \in {"reset", "closed", "silent"}
        BY DispatcherAssumption
      <3> QED
        BY <2>2, <3>1 DEF Fail, TypeOK, Connected
    <2> QED
      BY <1>2, <2>1, <2>2
  <1>3. ASSUME NEW d \in Elevators,
               \/ AnswerPoll(d) \/ AcceptCall(d) \/ StoreModel(d)
               \/ StoreRunnable(d) \/ \E c \in Calls : Serve(d, c)
        PROVE  UNCHANGED up
    BY <1>3 DEF AnswerPoll, AcceptCall, StoreModel, StoreRunnable, Serve,
                elevatorVars
  <1>4. OnHallCall \/ Tick => UNCHANGED up
    BY DEF OnHallCall, HallCall, Walk, Dispatch, DispatchNull, Discard,
           Deliver, Tick, elevatorVars
  <1>5. ASSUME NEW w \in Workers, UpdaterRunnable(w)
        PROVE  UNCHANGED up
    BY <1>5 DEF UpdaterRunnable, TakeRun, ReceiveStatus, ReceiveGarbled,
                ReceiveEnd, ReceiveReset, TimeOut, UpdateECStatus,
                RemoveElevator, elevatorVars
  <1> QED
    BY <1>1, <1>2, <1>3, <1>4, <1>5 DEF Next, Elevator, Registration

LEMMA OnlyConnectedStep ==
    ASSUME TypeOK, OnlyConnected, Next
    PROVE  OnlyConnected'
  <1>1. \A e \in Elevators : Connected(e) => Connected(e)'
    BY ConnectedLasts
  <1>2. \A h \in inHand : h.keys \subseteq Elevators
    BY DEF TypeOK
  <1>3. CASE UNCHANGED <<registered, known, inHand>>
    BY <1>1, <1>2, <1>3 DEF OnlyConnected, TypeOK
  <1>4. ASSUME NEW e \in Elevators, Registration(e)
        PROVE  OnlyConnected'
    <2>1. CASE Register(e)
      <3>1. Connected(e)' /\ \A d \in Elevators \ {e} : registered'[d] = registered[d]
        BY <2>1 DEF Register, TypeOK, Connected
      <3> QED
        BY <1>1, <1>2, <2>1, <3>1 DEF Register, OnlyConnected, TypeOK
    <2>2. CASE StoreModel(e)
      <3>1. Connected(e) /\ \A d \in Elevators \ {e} : registered'[d] = registered[d]
        BY <2>2 DEF StoreModel, OnlyConnected, TypeOK
      <3> QED
        BY <1>1, <1>2, <2>2, <3>1 DEF StoreModel, OnlyConnected, TypeOK
    <2>3. CASE StoreRunnable(e)
      <3>1. Connected(e) /\ \A d \in Elevators \ {e} : registered'[d] = registered[d]
        BY <2>3 DEF StoreRunnable, OnlyConnected, TypeOK
      <3> QED
        BY <1>1, <1>2, <2>3, <3>1 DEF StoreRunnable, OnlyConnected, TypeOK
    <2> QED
      BY <1>4, <2>1, <2>2, <2>3 DEF Registration
  <1>5. ASSUME UNCHANGED <<registered, known>>,
               \A g \in inHand' : g \in inHand \/ g.keys \subseteq known
        PROVE  OnlyConnected'
    BY <1>1, <1>2, <1>5 DEF OnlyConnected, TypeOK
  <1>6. CASE OnHallCall
    <2>1. ASSUME NEW c \in Calls, HallCall(c)
          PROVE  OnlyConnected'
      BY <1>5, <2>1 DEF HallCall, InHand
    <2>2. ASSUME NEW h \in inHand, Walk(h)
          PROVE  OnlyConnected'
      <3>1. [h EXCEPT !.keys = known].keys = known
        BY DEF TypeOK
      <3> QED
        BY <1>5, <2>2, <3>1 DEF Walk
    <2>3. ASSUME NEW h \in inHand, Dispatch(h)
          PROVE  OnlyConnected'
      <3>1. \A e : [h EXCEPT !.keys = {}, !.target = e].keys = {}
        BY DEF TypeOK
      <3> QED
        BY <1>5, <2>3, <3>1 DEF Dispatch
    <2>4. ASSUME NEW h \in inHand, DispatchNull(h) \/ Discard(h) \/ Deliver(h)
          PROVE  OnlyConnected'
      BY <1>5, <2>4 DEF DispatchNull, Discard, Deliver
    <2> QED
      BY <1>6, <2>1, <2>2, <2>3, <2>4 DEF OnHallCall
  <1>7. ASSUME NEW w \in Workers, RemoveElevator(w)
        PROVE  OnlyConnected'
    <2>1. known' \subseteq known /\ UNCHANGED registered
      BY <1>7 DEF RemoveElevator
    <2>2. \A g \in inHand' : g \in inHand \/ g.keys = {}
      BY <1>7 DEF RemoveElevator, InHand
    <2> QED
      BY <1>1, <1>2, <2>1, <2>2 DEF OnlyConnected, TypeOK
  <1>8. ASSUME NEW e \in Elevators, Elevator(e)
        PROVE  UNCHANGED <<registered, known, inHand>>
    BY <1>8 DEF Elevator, AnswerPoll, AcceptCall, Serve, Fail
  <1>9. Tick => UNCHANGED <<registered, known, inHand>>
    BY DEF Tick
  <1>10. ASSUME NEW w \in Workers, UpdaterRunnable(w), ~RemoveElevator(w)
         PROVE  UNCHANGED <<registered, known, inHand>>
    BY <1>10 DEF UpdaterRunnable, TakeRun, ReceiveStatus, ReceiveGarbled,
                 ReceiveEnd, ReceiveReset, TimeOut, UpdateECStatus
  <1> QED
    BY <1>3, <1>4, <1>6, <1>7, <1>8, <1>9, <1>10 DEF Next

(* Where a call is that somebody cares about.                              *)
Given(c, t) == \E h \in inHand : h.target = t /\ h.call = c
Sent(c, e) == \E i \in DOMAIN toEC[e] : toEC[e][i] = c
OnBooks(c, e) == e \in known /\ c \in assigned[e]

LEMMA CarriedMeans ==
    ASSUME NEW c \in Calls, NEW e
    PROVE  /\ c \in Carried(e) <=> c \in holds[e] \/ Sent(c, e) \/ Given(c, e)
           /\ c \in Carried(e)' <=>
                c \in holds'[e] \/ Sent(c, e)' \/ Given(c, e)'
  BY DEF Carried, Sent, Given

LEMMA KeptMeans ==
    ASSUME TypeOK, TypeOK', NEW c \in Calls
    PROVE  /\ c \in Kept <=>
                \/ Given(c, Nobody)
                \/ \E e \in Elevators : Alive(e) /\ c \in Carried(e)
                \/ \E e \in Elevators : Failed(e) /\ OnBooks(c, e)
           /\ c \in Kept' <=>
                \/ Given(c, Nobody)'
                \/ \E e \in Elevators : Alive(e)' /\ c \in Carried(e)'
                \/ \E e \in Elevators : Failed(e)' /\ OnBooks(c, e)'
  <1>1. known \subseteq Elevators /\ known' \subseteq Elevators
    BY DEF TypeOK
  <1>2. /\ c \in {h.call : h \in {g \in inHand : g.target = Nobody}}
             <=> Given(c, Nobody)
        /\ c \in {h.call : h \in {g \in inHand : g.target = Nobody}}'
             <=> Given(c, Nobody)'
    BY DEF Given
  <1>3. /\ c \in UNION {Carried(e) : e \in {d \in Elevators : Alive(d)}}
             <=> \E e \in Elevators : Alive(e) /\ c \in Carried(e)
        /\ c \in UNION {Carried(e) : e \in {d \in Elevators : Alive(d)}}'
             <=> \E e \in Elevators : Alive(e)' /\ c \in Carried(e)'
    OBVIOUS
  <1>4. /\ c \in UNION {assigned[e] : e \in {d \in known : Failed(d)}}
             <=> \E e \in Elevators : Failed(e) /\ OnBooks(c, e)
        /\ c \in UNION {assigned[e] : e \in {d \in known : Failed(d)}}'
             <=> \E e \in Elevators : Failed(e)' /\ OnBooks(c, e)'
    BY <1>1 DEF OnBooks
  <1> QED
    BY <1>2, <1>3, <1>4 DEF Kept

(* Only hall calls are kept.                                               *)
LEMMA KeptAreCalls ==
    ASSUME TypeOK
    PROVE  Kept \subseteq Calls
  <1>1. \A e \in Elevators : Carried(e) \subseteq Calls
    BY DEF TypeOK, Carried
  <1>2. {h.call : h \in {g \in inHand : g.target = Nobody}} \subseteq Calls
    BY DEF TypeOK
  <1>3. UNION {assigned[e] : e \in {d \in known : Failed(d)}} \subseteq Calls
    BY DEF TypeOK
  <1>4. UNION {Carried(e) : e \in {d \in Elevators : Alive(d)}} \subseteq Calls
    BY <1>1
  <1> QED
    BY <1>2, <1>3, <1>4 DEF Kept

(* Who has connected is alive or has failed.                               *)
LEMMA AliveOrFailed ==
    ASSUME TypeOK, NEW e \in Elevators, Connected(e)
    PROVE  Alive(e) \/ Failed(e)
  BY DEF TypeOK, Connected, Alive, Failed

(* A step that leaves a call where it is, or brings it nearer, keeps it.   *)
LEMMA KeptIf ==
    ASSUME TypeOK, TypeOK', NEW c \in Calls, c \in Kept, UNCHANGED up,
           Given(c, Nobody) => Given(c, Nobody)' \/ c \in Kept',
           \A e \in Elevators : Alive(e) /\ c \in Carried(e) =>
                                c \in Carried(e)' \/ c \in Kept',
           \A e \in Elevators : Failed(e) /\ OnBooks(c, e) =>
                                OnBooks(c, e)' \/ c \in Kept'
    PROVE  c \in Kept'
  <1>1. \A e \in Elevators : /\ Alive(e)' <=> Alive(e)
                            /\ Failed(e)' <=> Failed(e)
    BY DEF Alive, Failed
  <1>2. CASE Given(c, Nobody)
    BY <1>2, KeptMeans
  <1>3. ASSUME NEW e \in Elevators, Alive(e), c \in Carried(e)
        PROVE  c \in Kept'
    <2>1. Alive(e)'
      BY <1>3 DEF Alive
    <2>2. c \in Carried(e)' \/ c \in Kept'
      BY <1>3
    <2> QED
      BY <2>1, <2>2, KeptMeans
  <1>4. ASSUME NEW e \in Elevators, Failed(e), OnBooks(c, e)
        PROVE  c \in Kept'
    BY <1>1, <1>4, KeptMeans
  <1> QED
    BY <1>2, <1>3, <1>4, KeptMeans

(* The ways in which a call may be dropped.                                *)
MayDrop(c) ==
    \/ \E e \in Elevators : Serve(e, c)
    \/ \E h \in inHand : DispatchNull(h) \/ (Discard(h) /\ h.call = c)
    \/ \E e \in Elevators :
         /\ c \in Carried(e) \cup Carried(e)' \cup assigned[e]
         /\ Failed(e)'
         /\ e \in known => c \notin assigned'[e]

(* With an elevator that has failed, a call is dropped only if it is not   *)
(* on the books.                                                           *)
LEMMA DroppedWith ==
    ASSUME TypeOK, TypeOK', NEW c \in Calls, c \notin Kept',
           NEW e \in Elevators, Failed(e)', known \subseteq known',
           c \in Carried(e) \cup Carried(e)' \cup assigned[e]
    PROVE  MayDrop(c)
  <1>1. ~OnBooks(c, e)'
    BY KeptMeans
  <1>2. e \in known => c \notin assigned'[e]
    BY <1>1 DEF OnBooks
  <1> QED
    BY <1>2 DEF MayDrop

(* An elevator drops a call by serving it or by failing.                   *)
LEMMA ElevatorKeeps ==
    ASSUME TypeOK, TypeOK', NEW c \in Calls, c \in Kept, c \notin Kept',
           NEW e \in Elevators, Elevator(e)
    PROVE  MayDrop(c)
  <1>1. CASE AnswerPoll(e) \/ AcceptCall(e)
    <2>1. /\ UNCHANGED <<up, known, assigned, inHand>>
          /\ toEC[e] \in Seq(Calls \cup {Poll}) /\ toEC[e] # <<>>
          /\ toEC'[e] = Tail(toEC[e]) /\ holds[e] \subseteq holds'[e]
          /\ Head(toEC[e]) = Poll \/ Head(toEC[e]) \in holds'[e]
          /\ \A d \in Elevators \ {e} : toEC'[d] = toEC[d] /\ holds'[d] = holds[d]
      BY <1>1 DEF AnswerPoll, AcceptCall, TypeOK
    <2>2. Sent(c, e) => Sent(c, e)' \/ c \in holds'[e]
      <3> SUFFICES ASSUME NEW i \in DOMAIN toEC[e], toEC[e][i] = c, i # 1
                   PROVE  Sent(c, e)'
        BY <2>1, NamesApart DEF Sent
      <3>1. i - 1 \in DOMAIN Tail(toEC[e]) /\ Tail(toEC[e])[i - 1] = c
        BY <2>1
      <3> QED
        BY <2>1, <3>1 DEF Sent
    <2>3. \A d \in Elevators : Given(c, d) <=> Given(c, d)'
      BY <2>1 DEF Given
    <2>4. \A d \in Elevators \ {e} : Sent(c, d) => Sent(c, d)'
      BY <2>1 DEF Sent
    <2>5. \A d \in Elevators : c \in Carried(d) => c \in Carried(d)'
      BY <2>1, <2>2, <2>3, <2>4, CarriedMeans
    <2> QED
      BY <2>1, <2>5, KeptIf DEF Given, OnBooks
  <1>2. ASSUME NEW b \in Calls, Serve(e, b)
        PROVE  MayDrop(c)
    <2>1. CASE b = c
      BY <1>2, <2>1 DEF MayDrop
    <2>2. CASE b # c
      <3>1. /\ UNCHANGED <<up, known, assigned, inHand, toEC>>
            /\ \A d \in Elevators : c \in holds[d] => c \in holds'[d]
        BY <1>2, <2>2 DEF Serve, TypeOK
      <3>2. \A d \in Elevators : c \in Carried(d) => c \in Carried(d)'
        BY <3>1, CarriedMeans DEF Sent, Given
      <3> QED
        BY <3>1, <3>2, KeptIf DEF Given, OnBooks
    <2> QED
      BY <2>1, <2>2
  <1>3. ASSUME NEW how \in Failures, Fail(e, how)
        PROVE  MayDrop(c)
    <2>1. /\ UNCHANGED <<known, assigned, inHand>>
          /\ Alive(e) /\ Failed(e)'
          /\ \A d \in Elevators \ {e} :
                toEC'[d] = toEC[d] /\ holds'[d] = holds[d] /\ up'[d] = up[d]
      BY <1>3, DispatcherAssumption DEF Fail, Alive, Failed, TypeOK
    <2>2. \A d \in Elevators \ {e} : c \in Carried(d) => c \in Carried(d)'
      BY <2>1, CarriedMeans DEF Sent, Given
    <2>3. \A d \in Elevators : Failed(d) => Failed(d)'
      BY <2>1 DEF Alive, Failed
    <2>4. \A d \in Elevators \ {e} : Alive(d) => Alive(d)'
      BY <2>1 DEF Alive
    <2>5. c \in Carried(e)
      BY <2>1, <2>2, <2>3, <2>4, KeptMeans DEF Given, OnBooks
    <2> QED
      BY <2>1, <2>5, DroppedWith
  <1> QED
    BY <1>1, <1>2, <1>3 DEF Elevator

(* A registration starts from empty books.                                 *)
LEMMA RegistrationKeeps ==
    ASSUME TypeOK, TypeOK', NEW c \in Calls, c \in Kept, c \notin Kept',
           NEW e \in Elevators, Registration(e)
    PROVE  MayDrop(c)
  <1>1. CASE Register(e)
    <2>1. /\ UNCHANGED <<known, assigned, inHand, toEC, holds>>
          /\ \A d \in Elevators : /\ Alive(d) => Alive(d)'
                                  /\ Failed(d) => Failed(d)'
      BY <1>1 DEF Register, Alive, Failed, TypeOK
    <2>2. \A d \in Elevators : c \in Carried(d) => c \in Carried(d)'
      BY <2>1, CarriedMeans DEF Sent, Given
    <2> QED
      BY <2>1, <2>2, KeptMeans DEF Given, OnBooks
  <1>2. CASE StoreModel(e)
    <2>1. /\ UNCHANGED <<up, toEC, holds, inHand>> /\ known \subseteq known'
          /\ \A d \in Elevators \ {e} : assigned'[d] = assigned[d]
      BY <1>2 DEF StoreModel, elevatorVars, TypeOK
    <2>2. \A d \in Elevators : c \in Carried(d) => c \in Carried(d)'
      BY <2>1, CarriedMeans DEF Sent, Given
    <2>3. CASE Failed(e) /\ c \in assigned[e]
      <3>1. Failed(e)'
        BY <2>1, <2>3 DEF Failed
      <3> QED
        BY <2>1, <2>3, <3>1, DroppedWith
    <2>4. CASE ~(Failed(e) /\ c \in assigned[e])
      <3>1. \A d \in Elevators : Failed(d) /\ OnBooks(c, d) => OnBooks(c, d)'
        BY <2>1, <2>4 DEF OnBooks
      <3> QED
        BY <2>1, <2>2, <3>1, KeptIf DEF Given
    <2> QED
      BY <2>3, <2>4
  <1>3. CASE StoreRunnable(e)
    <2>1. UNCHANGED <<up, toEC, holds, inHand, known, assigned>>
      BY <1>3 DEF StoreRunnable, elevatorVars
    <2>2. \A d \in Elevators : c \in Carried(d) => c \in Carried(d)'
      BY <2>1, CarriedMeans DEF Sent, Given
    <2> QED
      BY <2>1, <2>2, KeptIf DEF Given, OnBooks
  <1> QED
    BY <1>1, <1>2, <1>3 DEF Registration

(* A hall call is sent to where it was dispatched, while onHallCall has it *)
(* in hand all the time.                                                   *)
LEMMA HallCallKeeps ==
    ASSUME TypeOK, TypeOK', OnlyConnected, NEW c \in Calls, c \in Kept,
           c \notin Kept', OnHallCall
    PROVE  MayDrop(c)
  <1>1. \A e : OnBooks(c, e) => OnBooks(c, e)'
    BY DEF OnBooks, OnHallCall, HallCall, Walk, Dispatch, DispatchNull,
           Discard, Deliver
  <1>2. UNCHANGED <<up, known, assigned, holds>>
    BY DEF OnHallCall, HallCall, Walk, Dispatch, DispatchNull, Discard,
           Deliver, elevatorVars
  <1>3. ASSUME NEW b \in Calls, HallCall(b)
        PROVE  FALSE
    <2>1. UNCHANGED toEC /\ inHand \subseteq inHand'
      BY <1>3 DEF HallCall, elevatorVars
    <2>2. \A t : Given(c, t) => Given(c, t)'
      BY <2>1 DEF Given
    <2>3. \A e \in Elevators : Sent(c, e) => Sent(c, e)'
      BY <2>1 DEF Sent
    <2>4. \A e \in Elevators : c \in Carried(e) => c \in Carried(e)'
      BY <1>2, <2>2, <2>3, CarriedMeans
    <2> QED
      BY <1>1, <1>2, <2>2, <2>4, KeptIf
  <1>4. ASSUME NEW h \in inHand, Walk(h)
        PROVE  FALSE
    <2>1. PICK g \in inHand' : g.call = h.call /\ g.target = h.target
      <3>1. /\ [h EXCEPT !.keys = known].call = h.call
            /\ [h EXCEPT !.keys = known].target = h.target
        BY DEF TypeOK
      <3> QED
        BY <1>4, <3>1 DEF Walk
    <2>2. UNCHANGED toEC /\ inHand \ {h} \subseteq inHand'
      BY <1>4 DEF Walk, elevatorVars
    <2>3. \A t : Given(c, t) => Given(c, t)'
      BY <2>1, <2>2 DEF Given
    <2>4. \A e \in Elevators : Sent(c, e) => Sent(c, e)'
      BY <2>2 DEF Sent
    <2>5. \A e \in Elevators : c \in Carried(e) => c \in Carried(e)'
      BY <1>2, <2>3, <2>4, CarriedMeans
    <2> QED
      BY <1>1, <1>2, <2>3, <2>5, KeptIf
  <1>5. ASSUME NEW h \in inHand, Dispatch(h)
        PROVE  MayDrop(c)
    <2>1. PICK e \in h.keys \cup known :
             inHand' = (inHand \ {h}) \cup {[h EXCEPT !.keys = {}, !.target = e]}
      BY <1>5 DEF Dispatch
    <2>2. e \in Elevators /\ Connected(e)
      BY DEF OnlyConnected, TypeOK
    <2>3. PICK g \in inHand' : g.call = h.call /\ g.target = e
      <3>1. /\ [h EXCEPT !.keys = {}, !.target = e].call = h.call
            /\ [h EXCEPT !.keys = {}, !.target = e].target = e
        BY DEF TypeOK
      <3> QED
        BY <2>1, <3>1
    <2>4. UNCHANGED toEC /\ h.target = Nobody
      BY <1>5 DEF Dispatch, elevatorVars
    <2>5. \A t : Given(c, t) => Given(c, t)' \/ (t = Nobody /\ h.call = c)
      BY <2>1, <2>4 DEF Given
    <2>6. \A d \in Elevators : Sent(c, d) => Sent(c, d)'
      BY <2>4 DEF Sent
    <2>7. \A d \in Elevators : c \in Carried(d) => c \in Carried(d)'
      BY <1>2, <2>5, <2>6, CarriedMeans, NamesApart
    <2>8. h.call = c
      BY <1>1, <1>2, <2>5, <2>7, KeptIf
    <2>9. c \in Carried(e)'
      BY <2>2, <2>3, <2>8, CarriedMeans DEF Given
    <2>10. Failed(e)'
      BY <1>2, <2>2, <2>9, KeptMeans, AliveOrFailed DEF Alive, Failed
    <2> QED
      BY <1>2, <2>2, <2>9, <2>10, DroppedWith
  <1>6. ASSUME NEW h \in inHand, Discard(h)
        PROVE  MayDrop(c)
    <2>1. CASE h.call = c
      BY <1>6, <2>1 DEF MayDrop
    <2>2. CASE h.call # c
      <3>1. UNCHANGED toEC /\ inHand \ {h} \subseteq inHand'
        BY <1>6 DEF Discard, elevatorVars
      <3>2. \A t : Given(c, t) => Given(c, t)'
        BY <2>2, <3>1 DEF Given
      <3>3. \A e \in Elevators : Sent(c, e) => Sent(c, e)'
        BY <3>1 DEF Sent
      <3>4. \A e \in Elevators : c \in Carried(e) => c \in Carried(e)'
        BY <1>2, <3>2, <3>3, CarriedMeans
      <3> QED
        BY <1>1, <1>2, <3>2, <3>4, KeptIf
    <2> QED
      BY <2>1, <2>2
  <1>7. ASSUME NEW h \in inHand, Deliver(h)
        PROVE  FALSE
    <2>1. /\ h.target \in Elevators /\ h.target # Nobody
          /\ inHand' = inHand \ {h} /\ Send(h.target, h.call)
      BY <1>7 DEF Deliver, TypeOK
    <2>2. \A t : Given(c, t) => Given(c, t)' \/ (t = h.target /\ h.call = c)
      BY <2>1 DEF Given
    <2>3. /\ \A d \in Elevators : Sent(c, d) => Sent(c, d)'
          /\ Alive(h.target) => Sent(h.call, h.target)'
      <3>1. CASE ~Alive(h.target)
        BY <2>1, <3>1 DEF Send, Sent
      <3>2. CASE Alive(h.target)
        <4>1. /\ toEC[h.target] \in Seq(Calls \cup {Poll}) /\ h.call \in Calls
              /\ toEC'[h.target] = Append(toEC[h.target], h.call)
              /\ \A d \in Elevators \ {h.target} : toEC'[d] = toEC[d]
          BY <2>1, <3>2 DEF Send, TypeOK
        <4>2. Sent(h.call, h.target)'
          BY <4>1 DEF Sent
        <4>3. Sent(c, h.target) => Sent(c, h.target)'
          BY <4>1 DEF Sent
        <4>4. \A d \in Elevators \ {h.target} : Sent(c, d) => Sent(c, d)'
          BY <4>1 DEF Sent
        <4> QED
          BY <4>2, <4>3, <4>4
      <3> QED
        BY <3>1, <3>2
    <2>4. \A e \in Elevators : Alive(e) /\ c \in Carried(e) => c \in Carried(e)'
      BY <1>2, <2>2, <2>3, CarriedMeans
    <2> QED
      BY <1>1, <1>2, <2>1, <2>2, <2>4, KeptIf
  <1>8. ASSUME NEW h \in inHand, DispatchNull(h)
        PROVE  MayDrop(c)
    BY <1>8 DEF MayDrop
  <1> QED
    BY <1>3, <1>4, <1>5, <1>6, <1>7, <1>8 DEF OnHallCall

(* A run loses what was on the books of a failed elevator when it stores a *)
(* last status that came late; what was on the books of a removed one goes *)
(* to onHallCall again.                                                    *)
LEMMA UpdaterKeeps ==
    ASSUME TypeOK, TypeOK', NEW c \in Calls, c \in Kept, c \notin Kept',
           NEW w \in Workers, UpdaterRunnable(w)
    PROVE  MayDrop(c)
  <1>1. UNCHANGED <<up, holds>>
    BY DEF UpdaterRunnable, TakeRun, ReceiveStatus, ReceiveGarbled,
           ReceiveEnd, ReceiveReset, TimeOut, UpdateECStatus, RemoveElevator,
           elevatorVars
  <1>2. CASE TakeRun(w)
    <2>1. UNCHANGED <<known, assigned, inHand>> /\ Send(Head(queue), Poll)
      BY <1>2 DEF TakeRun
    <2>2. ASSUME NEW d \in Elevators, Sent(c, d)
          PROVE  Sent(c, d)'
      <3>1. CASE toEC'[d] = toEC[d]
        BY <2>2, <3>1 DEF Sent
      <3>2. CASE toEC'[d] = Append(toEC[d], Poll)
        <4>1. toEC[d] \in Seq(Calls \cup {Poll})
          BY DEF TypeOK
        <4> QED
          BY <2>2, <3>2, <4>1 DEF Sent
      <3> QED
        BY <2>1, <3>1, <3>2 DEF Send, TypeOK
    <2>3. \A d \in Elevators : c \in Carried(d) => c \in Carried(d)'
      BY <1>1, <2>1, <2>2, CarriedMeans DEF Given
    <2> QED
      BY <1>1, <2>1, <2>3, KeptIf DEF Given, OnBooks
  <1>3. CASE \/ ReceiveStatus(w) \/ ReceiveGarbled(w) \/ ReceiveEnd(w)
             \/ ReceiveReset(w) \/ TimeOut(w)
    <2>1. UNCHANGED <<known, assigned, inHand, toEC>>
      BY <1>3 DEF ReceiveStatus, ReceiveGarbled, ReceiveEnd, ReceiveReset,
                  TimeOut, elevatorVars
    <2>2. \A d \in Elevators : c \in Carried(d) => c \in Carried(d)'
      BY <1>1, <2>1, CarriedMeans DEF Given, Sent
    <2> QED
      BY <1>1, <2>1, <2>2, KeptIf DEF Given, OnBooks
  <1>4. CASE UpdateECStatus(w) \/ RemoveElevator(w)
    <2> DEFINE e == Client(w)
    <2>1. e \in Elevators
      BY <1>4, Busy DEF UpdateECStatus, RemoveElevator
    <2>2. /\ UNCHANGED toEC /\ inHand \subseteq inHand'
          /\ known' \subseteq known /\ known \subseteq known' \cup {e}
          /\ \A d \in Elevators \ {e} : assigned'[d] = assigned[d]
      BY <1>4, <2>1 DEF UpdateECStatus, RemoveElevator, elevatorVars, TypeOK
    <2>3. \A t : Given(c, t) => Given(c, t)'
      BY <2>2 DEF Given
    <2>4. \A d \in Elevators : c \in Carried(d) => c \in Carried(d)'
      BY <1>1, <2>2, <2>3, CarriedMeans DEF Sent
    <2>5. Failed(e) /\ OnBooks(c, e)
      <3>1. \A d \in Elevators \ {e} : OnBooks(c, d) => OnBooks(c, d)'
        BY <2>2 DEF OnBooks
      <3> QED
        BY <1>1, <2>3, <2>4, <3>1, KeptIf
    <2>6. CASE UpdateECStatus(w)
      <3>1. Failed(e) /\ c \in assigned[e] /\ UNCHANGED <<up, known>>
        BY <1>1, <2>5, <2>6 DEF UpdateECStatus, OnBooks
      <3> QED
        BY <2>1, <3>1, DroppedWith DEF Failed
    <2>7. CASE RemoveElevator(w)
      <3>1. InHand(c, e) \in inHand'
        BY <2>5, <2>7 DEF RemoveElevator, OnBooks
      <3>2. Given(c, Nobody)'
        BY <3>1 DEF Given, InHand
      <3> QED
        BY <3>2, KeptMeans
    <2> QED
      BY <1>4, <2>6, <2>7
  <1> QED
    BY <1>2, <1>3, <1>4 DEF UpdaterRunnable

LEMMA TickKeeps ==
    ASSUME TypeOK, TypeOK', NEW c \in Calls, c \in Kept, Tick \/ UNCHANGED vars
    PROVE  c \in Kept'
  <1>1. UNCHANGED <<up, toEC, holds, inHand, known, assigned>>
    BY DEF Tick, vars, elevatorVars
  <1>2. \A d \in Elevators : c \in Carried(d) => c \in Carried(d)'
    BY <1>1, CarriedMeans DEF Given, Sent
  <1> QED
    BY <1>1, <1>2, KeptIf DEF Given, OnBooks

(* A hall call is only dropped by the elevator that serves it, because no  *)
(* elevator is known, by a dispatch that meets a removal, or with a failed *)
(* elevator that is gone or whose last status does not list it, however    *)
(* many elevators fail, and whatever runs are executed meanwhile.          *)
THEOREM CallsAlwaysKept == Spec => CallsKept
  <1>1. Init => OnlyConnected
    BY DEF Init, OnlyConnected
  <1>2. TypeOK /\ OnlyConnected /\ [Next]_vars => OnlyConnected'
    <2>1. UNCHANGED vars /\ OnlyConnected => OnlyConnected'
      BY DEF vars, elevatorVars, OnlyConnected, Connected
    <2> QED
      BY <2>1, OnlyConnectedStep
  <1>3. ASSUME TypeOK, TypeOK', OnlyConnected, [Next]_vars, NEW c \in Kept \ Kept'
        PROVE  MayDrop(c)
    <2>1. c \in Calls /\ c \in Kept /\ c \notin Kept'
      BY <1>3, KeptAreCalls
    <2> QED
      BY <1>3, <2>1, ElevatorKeeps, RegistrationKeeps, HallCallKeeps,
         UpdaterKeeps, TickKeeps DEF Next
  <1>4. TypeOK /\ TypeOK' /\ OnlyConnected /\ [Next]_vars =>
          [\A c \in Kept \ Kept' :
             \/ \E e \in Elevators : Serve(e, c)
             \/ \E h \in inHand : DispatchNull(h) \/ (Discard(h) /\ h.call = c)
             \/ \E e \in Elevators :
                  /\ c \in Carried(e) \cup Carried(e)' \cup assigned[e]
                  /\ Failed(e)'
                  /\ e \in known => c \notin assigned'[e]]_vars
    BY <1>3 DEF MayDrop
  <1> QED
    BY <1>1, <1>2, <1>4, TypeCorrect, PTL DEF Spec, CallsKept
=============================================================================
