-------------------------- MODULE GroupDispatcher --------------------------
(***************************************************************************)
(* The group dispatcher (main/groupDispatcher): it gives each hall call to *)
(* one elevator, polls the elevators for their status, and removes one     *)
(* that fails, passing on the hall calls of its last status.               *)
(*                                                                         *)
(* Its threads: a timer that queues a polling run per elevator every half  *)
(* second, a pool of Workers that execute the runs (UpdaterRunnable), a    *)
(* thread per registration and a thread per hall call from the GUI.  They  *)
(* share two concurrent maps, elevatorCars and updaterRunnables.           *)
(*                                                                         *)
(* An elevator is reduced to the hall calls it holds; ElevatorController   *)
(* has the rest.  Which elevator a call is given to depends on positions   *)
(* and directions that are left out here: it may be any that is known.     *)
(* Two presses of one button are two calls, which one stop may serve.      *)
(***************************************************************************)
EXTENDS Integers, Sequences, FiniteSets

CONSTANTS
    Elevators,
    Calls,          \* hall calls: presses of a hall button, each its own
    PoolSize,       \* threads of the pool, one per elevator in the code
    Failures,       \* the ways in which an elevator may fail
    MaxFailures,    \* bound: elevators that fail
    MaxQueue        \* bound: polling runs waiting for a worker

ASSUME DispatcherAssumption ==
    /\ IsFiniteSet(Elevators) /\ PoolSize \in Nat \ {0}
    /\ Failures \subseteq {"reset", "closed", "silent"}
    /\ MaxFailures \in Nat /\ MaxQueue \in Nat

VARIABLES
    up,         \* "off", "on", or how the elevator failed
    toEC,       \* per elevator: polls and hall calls on their way to it
    fromEC,     \* per elevator: statuses on their way back
    holds,      \* per elevator: hall calls it has taken over
    registered, \* per elevator: how far onConnectionCreated has come
    known,      \* keys of elevatorCars
    polled,     \* keys of updaterRunnables
    assigned,   \* per elevator: hall calls of its last status (ElevatorData)
    queue,      \* polling runs waiting for a worker
    run,        \* per worker: the polling run it executes
    inHand,     \* calls of onHallCall in progress
    pressed,    \* hall calls received from the GUI so far
    fatal       \* Main.onFatalError has ended the program

elevatorVars == <<up, toEC, fromEC, holds>>
vars == <<elevatorVars, registered, known, polled, assigned, queue, run,
          inHand, pressed, fatal>>

Workers == 1 .. PoolSize
Nobody == "nobody"
Poll == "poll"

\* the poll has a message type of its own, and null is no elevator
ASSUME NamesApart == Nobody \notin Elevators /\ Poll \notin Calls

Idle == [elevator |-> Nobody, at |-> "idle", status |-> {}]
Polling(e) == [elevator |-> e, at |-> "receive", status |-> {}]

Alive(e) == up[e] = "on"
Failed(e) == up[e] \in {"reset", "closed", "silent"}

Init ==
    /\ up = [e \in Elevators |-> "off"]
    /\ toEC = [e \in Elevators |-> <<>>]
    /\ fromEC = [e \in Elevators |-> <<>>]
    /\ holds = [e \in Elevators |-> {}]
    /\ registered = [e \in Elevators |-> "no"]
    /\ known = {} /\ polled = {}
    /\ assigned = [e \in Elevators |-> {}]
    /\ queue = <<>>
    /\ run = [w \in Workers |-> Idle]
    /\ inHand = {} /\ pressed = {}
    /\ fatal = FALSE

-----------------------------------------------------------------------------
(* The elevators.  The communication task of one takes a message at a time *)
(* and answers a poll with the hall calls it holds.                        *)
AnswerPoll(e) ==
    /\ Alive(e)
    /\ toEC[e] # <<>> /\ Head(toEC[e]) = Poll
    /\ toEC' = [toEC EXCEPT ![e] = Tail(@)]
    /\ fromEC' = [fromEC EXCEPT ![e] = Append(@, holds[e])]
    /\ UNCHANGED <<up, holds, registered, known, polled, assigned, queue, run,
                   inHand, pressed, fatal>>

(* Mutant: the type of the message is not looked at. *)
AcceptAnything(e) ==
    /\ Alive(e)
    /\ toEC[e] # <<>>
    /\ toEC' = [toEC EXCEPT ![e] = Tail(@)]
    /\ holds' = [holds EXCEPT ![e] = @ \cup {Head(toEC[e])}]
    /\ UNCHANGED <<up, fromEC, registered, known, polled, assigned, queue,
                   run, inHand, pressed, fatal>>

AcceptCall(e) ==
    /\ Alive(e)
    /\ toEC[e] # <<>> /\ Head(toEC[e]) # Poll
    /\ toEC' = [toEC EXCEPT ![e] = Tail(@)]
    /\ holds' = [holds EXCEPT ![e] = @ \cup {Head(toEC[e])}]
    /\ UNCHANGED <<up, fromEC, registered, known, polled, assigned, queue,
                   run, inHand, pressed, fatal>>

Serve(e, c) ==
    /\ Alive(e)
    /\ c \in holds[e]
    /\ holds' = [holds EXCEPT ![e] = @ \ {c}]
    /\ UNCHANGED <<up, toEC, fromEC, registered, known, polled, assigned,
                   queue, run, inHand, pressed, fatal>>

(* The connection is reset, losing what was not read, or closed, or the    *)
(* elevator falls silent.  What it held, and had yet to read, is lost.     *)
Fail(e, how) ==
    /\ Alive(e) /\ registered[e] = "polled"
    /\ Cardinality({d \in Elevators : Failed(d)}) < MaxFailures
    /\ up' = [up EXCEPT ![e] = how]
    /\ fromEC' = IF how = "reset" THEN [fromEC EXCEPT ![e] = <<>>] ELSE fromEC
    /\ toEC' = [toEC EXCEPT ![e] = <<>>]
    /\ holds' = [holds EXCEPT ![e] = {}]
    /\ UNCHANGED <<registered, known, polled, assigned, queue, run, inHand,
                   pressed, fatal>>

-----------------------------------------------------------------------------
(* onConnectionCreated: the connection is stored and acknowledged, then    *)
(* the elevator becomes known, then it is polled.  Elevators register one  *)
(* after the other: main waits for each acknowledgment.                    *)
Register(e) ==
    /\ ~fatal
    /\ up[e] = "off"
    /\ up' = [up EXCEPT ![e] = "on"]
    /\ registered' = [registered EXCEPT ![e] = "acknowledged"]
    /\ UNCHANGED <<toEC, fromEC, holds, known, polled, assigned, queue, run,
                   inHand, pressed, fatal>>

StoreModel(e) ==
    /\ ~fatal
    /\ registered[e] = "acknowledged"
    /\ registered' = [registered EXCEPT ![e] = "known"]
    /\ known' = known \cup {e}
    /\ assigned' = [assigned EXCEPT ![e] = {}]
    /\ UNCHANGED <<elevatorVars, polled, queue, run, inHand, pressed, fatal>>

StoreRunnable(e) ==
    /\ ~fatal
    /\ registered[e] = "known"
    /\ registered' = [registered EXCEPT ![e] = "polled"]
    /\ polled' = polled \cup {e}
    /\ UNCHANGED <<elevatorVars, known, assigned, queue, run, inHand, pressed,
                   fatal>>

-----------------------------------------------------------------------------
(* onHallCall, in a thread of its own for a call from the GUI.  dispatch   *)
(* walks the map of elevators and chooses one; only then is the call sent, *)
(* and by that time the elevator may be gone: a failed send is logged and  *)
(* forgotten.                                                              *)
InHand(c, e) == [call |-> c, from |-> e, keys |-> {}, target |-> Nobody]

HallCall(c) ==
    /\ ~fatal
    /\ c \notin pressed
    /\ pressed' = pressed \cup {c}
    /\ inHand' = inHand \cup {InHand(c, Nobody)}
    /\ UNCHANGED <<elevatorVars, registered, known, polled, assigned, queue,
                   run, fatal>>

Walk(h) ==
    /\ ~fatal
    /\ h.target = Nobody /\ h.keys = {} /\ known # {}
    /\ inHand' = (inHand \ {h}) \cup {[h EXCEPT !.keys = known]}
    /\ UNCHANGED <<elevatorVars, registered, known, polled, assigned, queue,
                   run, pressed, fatal>>

(* The walk may see an elevator that is removed, or added, meanwhile.      *)
Dispatch(h) ==
    /\ ~fatal
    /\ h.target = Nobody /\ h.keys # {}
    /\ \E e \in h.keys \cup known :
         inHand' = (inHand \ {h}) \cup {[h EXCEPT !.keys = {}, !.target = e]}
    /\ UNCHANGED <<elevatorVars, registered, known, polled, assigned, queue,
                   run, pressed, fatal>>

(* The walk has the key of an elevator that is removed before get: null.   *)
(* The exception ends the thread, and with it what else it had to dispatch.*)
DispatchNull(h) ==
    /\ ~fatal
    /\ h.target = Nobody /\ h.keys \ known # {}
    /\ inHand' = inHand \ {g \in inHand :
                              g = h \/ /\ g.from = h.from /\ h.from # Nobody
                                       /\ g.target = Nobody}
    /\ UNCHANGED <<elevatorVars, registered, known, polled, assigned, queue,
                   run, pressed, fatal>>

(* "No elevators connected.  Hall call discarded." *)
Discard(h) ==
    /\ ~fatal
    /\ h.target = Nobody
    /\ known = {}
    /\ inHand' = inHand \ {h}
    /\ UNCHANGED <<elevatorVars, registered, known, polled, assigned, queue,
                   run, pressed, fatal>>

Send(e, m) == toEC' = IF Alive(e) THEN [toEC EXCEPT ![e] = Append(@, m)]
                                  ELSE toEC

Deliver(h) ==
    /\ ~fatal
    /\ h.target # Nobody
    /\ Send(h.target, h.call)
    /\ inHand' = inHand \ {h}
    /\ UNCHANGED <<up, fromEC, holds, registered, known, polled, assigned,
                   queue, run, pressed, fatal>>

-----------------------------------------------------------------------------
(* The timer queues a run for every runnable of the map, however many runs *)
(* for the same elevator are waiting or being executed.                    *)
Orders(S) == {s \in [1 .. Cardinality(S) -> S] :
                 \A i, j \in DOMAIN s : i # j => s[i] # s[j]}

Tick ==
    /\ ~fatal
    /\ Len(queue) + Cardinality(polled) <= MaxQueue
    /\ \E s \in Orders(polled) : queue' = queue \o s
    /\ UNCHANGED <<elevatorVars, registered, known, polled, assigned, run,
                   inHand, pressed, fatal>>

(* A worker (the first idle one: they are alike) takes the next run and    *)
(* asks for the status.                                                    *)
TakeRun(w) ==
    /\ ~fatal
    /\ run[w] = Idle /\ \A v \in Workers : run[v] = Idle => w <= v
    /\ queue # <<>>
    /\ queue' = Tail(queue)
    /\ run' = [run EXCEPT ![w] = Polling(Head(queue))]
    /\ Send(Head(queue), Poll)
    /\ UNCHANGED <<up, fromEC, holds, registered, known, polled, assigned,
                   inHand, pressed, fatal>>

Goto(w, at) == run' = [run EXCEPT ![w].at = at]
EndRun(w) == run' = [run EXCEPT ![w] = Idle]

Waiting(w) == ~fatal /\ run[w].at = "receive"
Client(w) == run[w].elevator
Reply(w) == fromEC[Client(w)]

ReceiveStatus(w) ==
    /\ Waiting(w)
    /\ Reply(w) # <<>>
    /\ run' = [run EXCEPT ![w].at = "update", ![w].status = Head(Reply(w))]
    /\ fromEC' = [fromEC EXCEPT ![Client(w)] = Tail(@)]
    /\ UNCHANGED <<up, toEC, holds, registered, known, polled, assigned,
                   queue, inHand, pressed, fatal>>

(* Two runs that read the same connection share its bytes out between      *)
(* them.  What one gets is no message, or a status with wrong contents, or *)
(* one whose counts lead beyond its end (UnexpectedEndOfMessageException). *)
ReceiveGarbled(w) ==
    /\ Waiting(w)
    /\ Reply(w) # <<>>
    /\ \E v \in Workers \ {w} : Waiting(v) /\ Client(v) = Client(w)
    /\ \/ EndRun(w)
       \/ \E s \in SUBSET Calls :
            run' = [run EXCEPT ![w].at = "update", ![w].status = s]
       \/ Goto(w, "remove")
    /\ fromEC' = [fromEC EXCEPT ![Client(w)] = Tail(@)]
    /\ UNCHANGED <<up, toEC, holds, registered, known, polled, assigned,
                   queue, inHand, pressed, fatal>>

(* receiveData takes the end of the stream for a delimiter and returns an  *)
(* empty message, which run logs.                                          *)
ReceiveEnd(w) ==
    /\ Waiting(w)
    /\ up[Client(w)] = "closed" /\ Reply(w) = <<>>
    /\ EndRun(w)
    /\ UNCHANGED <<elevatorVars, registered, known, polled, assigned, queue,
                   inHand, pressed, fatal>>

(* Mutant: the exception is logged and that is all. *)
ReceiveResetLogged(w) ==
    /\ Waiting(w)
    /\ up[Client(w)] \in {"closed", "reset"}
    /\ EndRun(w)
    /\ UNCHANGED <<elevatorVars, registered, known, polled, assigned, queue,
                   inHand, pressed, fatal>>

(* SocketException. *)
ReceiveReset(w) ==
    /\ Waiting(w)
    /\ up[Client(w)] \in {"closed", "reset"}
    /\ Goto(w, "remove")
    /\ UNCHANGED <<elevatorVars, registered, known, polled, assigned, queue,
                   inHand, pressed, fatal>>

(* SocketTimeoutException.  150 s are enough for an elevator that answers. *)
TimeOut(w) ==
    /\ Waiting(w)
    /\ up[Client(w)] = "silent" /\ Reply(w) = <<>>
    /\ Goto(w, "remove")
    /\ UNCHANGED <<elevatorVars, registered, known, polled, assigned, queue,
                   inHand, pressed, fatal>>

(* updateECStatus.  If the elevator was removed in the meantime, a         *)
(* NullPointerException ends the run.                                      *)
UpdateECStatus(w) ==
    /\ ~fatal
    /\ run[w].at = "update"
    /\ assigned' = IF Client(w) \in known
                     THEN [assigned EXCEPT ![Client(w)] = run[w].status]
                     ELSE assigned
    /\ EndRun(w)
    /\ UNCHANGED <<elevatorVars, registered, known, polled, queue, inHand,
                   pressed, fatal>>

(* Mutant: the hall calls of the removed elevator are not passed on.       *)
RemoveWithoutReassigning(w) ==
    LET e == Client(w)
    IN  /\ ~fatal
        /\ run[w].at = "remove"
        /\ polled' = polled \ {e}
        /\ known' = known \ {e}
        /\ UNCHANGED inHand
        /\ fatal' = (e \notin known)
        /\ EndRun(w)
        /\ UNCHANGED <<elevatorVars, registered, assigned, queue, pressed>>

(* removeElevator.  Removing an elevator that is not there is fatal; the   *)
(* hall calls of the last status each go through onHallCall again (one     *)
(* after the other in the code, in any order here).                        *)
RemoveElevator(w) ==
    LET e == Client(w)
    IN  /\ ~fatal
        /\ run[w].at = "remove"
        /\ polled' = polled \ {e}
        /\ known' = known \ {e}
        /\ inHand' = IF e \in known
                       THEN inHand \cup {InHand(c, e) : c \in assigned[e]}
                       ELSE inHand
        /\ fatal' = (e \notin known)
        /\ EndRun(w)
        /\ UNCHANGED <<elevatorVars, registered, assigned, queue, pressed>>

-----------------------------------------------------------------------------
Elevator(e) ==
    \/ AnswerPoll(e) \/ AcceptCall(e)
    \/ \E c \in Calls : Serve(e, c)
    \/ \E how \in Failures : Fail(e, how)

Registration(e) == Register(e) \/ StoreModel(e) \/ StoreRunnable(e)

OnHallCall ==
    \/ \E c \in Calls : HallCall(c)
    \/ \E h \in inHand : \/ Walk(h) \/ Dispatch(h) \/ DispatchNull(h)
                         \/ Discard(h) \/ Deliver(h)

UpdaterRunnable(w) ==
    \/ TakeRun(w)
    \/ ReceiveStatus(w) \/ ReceiveGarbled(w) \/ ReceiveEnd(w)
    \/ ReceiveReset(w) \/ TimeOut(w)
    \/ UpdateECStatus(w) \/ RemoveElevator(w)

Next ==
    \/ \E e \in Elevators : Elevator(e) \/ Registration(e)
    \/ OnHallCall
    \/ Tick
    \/ \E w \in Workers : UpdaterRunnable(w)

Spec == Init /\ [][Next]_vars

(* The dispatcher's threads and those of an elevator that has not failed   *)
(* go on; no elevator has to register or fail, and no button is pressed.   *)
Fairness ==
    /\ \A e \in Elevators :
         /\ WF_vars(AnswerPoll(e)) /\ WF_vars(AcceptCall(e))
         /\ WF_vars(StoreModel(e)) /\ WF_vars(StoreRunnable(e))
    /\ WF_vars(Tick)
    /\ \A w \in Workers : WF_vars(UpdaterRunnable(w))

FairSpec == Spec /\ Fairness

-----------------------------------------------------------------------------
(* Properties *)

(* Every variable keeps its type: what an elevator holds and reports are   *)
(* hall calls, and every run has an elevator.                              *)
TypeOK ==
    /\ up \in [Elevators -> {"off", "on", "reset", "closed", "silent"}]
    /\ toEC \in [Elevators -> Seq(Calls \cup {Poll})]
    /\ fromEC \in [Elevators -> Seq(SUBSET Calls)]
    /\ holds \in [Elevators -> SUBSET Calls]
    /\ registered \in
         [Elevators -> {"no", "acknowledged", "known", "polled"}]
    /\ known \subseteq Elevators /\ polled \subseteq Elevators
    /\ assigned \in [Elevators -> SUBSET Calls]
    /\ queue \in Seq(Elevators)
    /\ run \in [Workers -> {Idle} \cup
                  [elevator : Elevators, at : {"receive", "update", "remove"},
                   status : SUBSET Calls]]
    /\ inHand \subseteq [call : Calls, from : Elevators \cup {Nobody},
                         keys : SUBSET Elevators,
                         target : Elevators \cup {Nobody}]
    /\ pressed \subseteq Calls
    /\ fatal \in BOOLEAN

(* The hall calls that are on their way to an elevator or with it.         *)
Carried(e) ==
    holds[e] \cup {c \in Calls : \E i \in DOMAIN toEC[e] : toEC[e][i] = c}
      \cup {h.call : h \in {g \in inHand : g.target = e}}

(* The hall calls that somebody still cares about: those being dispatched, *)
(* those a live elevator carries, and those a failed one has reported, for *)
(* as long as the dispatcher has it on its books.                          *)
Kept ==
    {h.call : h \in {g \in inHand : g.target = Nobody}}
      \cup (UNION {Carried(e) : e \in {d \in Elevators : Alive(d)}})
      \cup (UNION {assigned[e] : e \in {d \in known : Failed(d)}})

(* Whatever fails and whoever is polled, removed or chosen meanwhile, a    *)
(* hall call is only ever dropped by the elevator that serves it, because  *)
(* no elevator is known, by a dispatch that meets a removal, or with an    *)
(* elevator that failed and has been removed or whose last status does not *)
(* list the call.                                                          *)
CallsKept ==
    [][\A c \in Kept \ Kept' :
          \/ \E e \in Elevators : Serve(e, c)
          \/ \E h \in inHand : DispatchNull(h) \/ (Discard(h) /\ h.call = c)
          \/ \E e \in Elevators :
               /\ c \in Carried(e) \cup Carried(e)' \cup assigned[e]
               /\ Failed(e)'
               /\ e \in known => c \notin assigned'[e]]_vars

(* An elevator that is reset or falls silent is removed in the end, unless *)
(* the program ends first: however many runs pile up, share a connection   *)
(* or occupy the pool, one of them gets to see the failure.  (A connection *)
(* closed in order may read as empty messages for ever, see ReceiveEnd.)   *)
FailedRemoved ==
    \A e \in Elevators :
        up[e] \in {"reset", "silent"} ~> fatal \/ e \notin known

(* GroupDispatcher.java:167 asserts that only an elevator that is there is *)
(* removed.  The piled-up polls of a silent one each time out.             *)
DispatcherSurvives == ~fatal
=============================================================================
