----------------------------- MODULE StatusLink -----------------------------
(***************************************************************************)
(* The TCP connection between one controller and the dispatcher, byte by   *)
(* byte: how ElevatorController::sendStatus lays out a status, how         *)
(* TCPConnectionManager.receiveData cuts the stream into messages and how  *)
(* ECStatusMessage reads one.  The layout is the subject here: counts are  *)
(* written over list elements, lists are read twice without a lock, and a  *)
(* byte that happens to be 255 is a delimiter.                             *)
(*                                                                         *)
(* comm, the task that answers polls and takes hall calls, is one process; *)
(* the tasks that serve, flush and sample are its environment.  The        *)
(* dispatcher has one poll on its way at a time (GroupDispatcher has the   *)
(* polls that pile up).                                                    *)
(***************************************************************************)
EXTENDS Integers, Sequences, SequencesExt

CONSTANTS
    TopFloor,
    ByteSize,           \* number of values of a byte; the last one delimits
    MaxMessageLength,   \* MAX_MESSAGE_LENGTH, of the dispatcher
    HallCalls, Selections,      \* what may be called and selected
    MaxCalls, MaxSelections, MaxPolls,  \* bounds: calls, selections, polls
    MaxPending,         \* bound: calls, and selections, not served yet
    SocketBuffer        \* bound: with more bytes unread, send blocks

UP == 1
DOWN == 2
STATUS_RESPONSE == 5

ASSUME LinkAssumption ==
    /\ TopFloor \in Nat \ {0} /\ MaxCalls \in Nat /\ MaxSelections \in Nat
    /\ ByteSize \in Nat /\ STATUS_RESPONSE < ByteSize - 1
    /\ TopFloor < ByteSize - 1
    /\ MaxPending \in Nat /\ MaxPending < ByteSize - 1
    /\ HallCalls \subseteq (1 .. TopFloor) \X {UP, DOWN}
    /\ Selections \subseteq 1 .. TopFloor
    /\ SocketBuffer \in Nat
    /\ MaxMessageLength \in Nat /\ MaxMessageLength > 7

Byte == 0 .. ByteSize - 1
MESSAGE_TERMINATOR == ByteSize - 1
Floor == 1 .. TopFloor
Direction == {UP, DOWN}

VARIABLES
    up, down, missed,           \* hall calls: the two heaps, missedHallCalls
    upRequests, downRequests,   \* floor requests of the two heaps
    comm,                       \* where the communication task stands
    copy,                       \* its copies of the lists, and their counts
    toEC,                       \* polls and hall calls on their way
    toGD,                       \* bytes on their way to the dispatcher
    poller,                     \* "idle", "waiting" or the elevator "removed"
    assigned,                   \* hall calls of the last status, as decoded
    calls, selections, polls,   \* hall calls, selections and polls so far
    steady, seen,   \* floors called all the time, and ever, since the poll
    spoilt          \* why statuses may be wrong from now on

listVars == <<up, down, missed, upRequests, downRequests>>
auxVars == <<steady, seen, spoilt>>
linkVars == <<comm, copy, toEC, toGD, poller, assigned, calls, selections, polls>>
vars == <<listVars, linkVars, auxVars>>

Poll == <<>>     \* a status request; a hall call is <<floor, direction>>
NoCopy == [up |-> <<>>, down |-> <<>>, upRequests |-> <<>>,
           downRequests |-> <<>>, calls |-> 0]

Init ==
    /\ up = <<>> /\ down = <<>> /\ missed = <<>>
    /\ upRequests = <<>> /\ downRequests = <<>>
    /\ comm = "recv" /\ copy = NoCopy
    /\ toEC = <<>> /\ toGD = <<>>
    /\ poller = "idle" /\ assigned = {}
    /\ calls = 0 /\ selections = 0 /\ polls = 0
    /\ steady = {} /\ seen = {} /\ spoilt = {}

CalledFloors == Range(up) \cup Range(down) \cup Range(missed)

(* What has to be served: calls, on their way or listed, and selections.   *)
CallsIn(s) == {i \in DOMAIN s : s[i] # Poll}
PendingCalls == Len(up) + Len(down) + Len(missed) + Cardinality(CallsIn(toEC))
PendingRequests == Len(upRequests) + Len(downRequests)

-----------------------------------------------------------------------------
(* The other tasks: updateStatus pops what was served, updateMissedFloor   *)
(* returns the missed calls to the heap of a direction, a passenger may    *)
(* select a floor.                                                         *)
Serve ==
    /\ \/ \E i \in DOMAIN up : up' = RemoveAt(up, i)
          /\ UNCHANGED <<down, upRequests, downRequests>>
       \/ \E i \in DOMAIN down : down' = RemoveAt(down, i)
          /\ UNCHANGED <<up, upRequests, downRequests>>
       \/ \E i \in DOMAIN upRequests : upRequests' = RemoveAt(upRequests, i)
          /\ UNCHANGED <<up, down, downRequests>>
       \/ \E i \in DOMAIN downRequests : downRequests' = RemoveAt(downRequests, i)
          /\ UNCHANGED <<up, down, upRequests>>
    /\ UNCHANGED <<missed, linkVars, spoilt>>

UpdateMissedFloor(d) ==
    /\ missed # <<>>
    /\ up' = IF d = UP THEN up \o missed ELSE up
    /\ down' = IF d = DOWN THEN down \o missed ELSE down
    /\ missed' = <<>>
    /\ spoilt' = IF comm = "recv" THEN spoilt ELSE spoilt \cup {"flush"}
    /\ UNCHANGED <<upRequests, downRequests, linkVars>>

AddFloorSelection(f) ==
    /\ selections < MaxSelections /\ PendingRequests < MaxPending
    /\ selections' = selections + 1
    /\ \/ upRequests' = Append(upRequests, f) /\ UNCHANGED downRequests
       \/ downRequests' = Append(downRequests, f) /\ UNCHANGED upRequests
    /\ UNCHANGED <<up, down, missed, comm, copy, toEC, toGD, poller,
                   assigned, calls, polls, spoilt>>

-----------------------------------------------------------------------------
(* comm.  recv returns the messages of a segment, and waitForGDRequest     *)
(* looks at the first of them only.                                        *)
Receive(first) ==
    /\ comm = "recv" /\ toEC # <<>> /\ Head(toEC) = first
    /\ \E n \in 1 .. Len(toEC) : toEC' = SubSeq(toEC, n + 1, Len(toEC))

AddHallCall(call) ==
    /\ Receive(call)
    /\ \/ up' = Append(up, call[1]) /\ call[2] = UP /\ UNCHANGED <<down, missed>>
       \/ down' = Append(down, call[1]) /\ call[2] = DOWN /\ UNCHANGED <<up, missed>>
       \/ missed' = Append(missed, call[1]) /\ UNCHANGED <<up, down>>
    /\ UNCHANGED <<upRequests, downRequests, comm, copy, toGD, poller,
                   assigned, calls, selections, polls, spoilt>>

(* sendStatus copies the heaps, then counts, with the missed calls as they *)
(* are, and then builds the message, with the missed calls as they are by  *)
(* that time.                                                              *)
CopyHeaps ==
    /\ Receive(Poll)
    /\ comm' = "count"
    /\ copy' = [NoCopy EXCEPT !.up = up, !.down = down,
                              !.upRequests = upRequests,
                              !.downRequests = downRequests]
    /\ UNCHANGED <<listVars, toGD, poller, assigned, calls, selections,
                   polls, spoilt>>

(* Mutants: the missed calls are not counted; bytes are, instead of calls. *)
CountHeaps ==
    /\ comm = "count"
    /\ comm' = "fill"
    /\ copy' = [copy EXCEPT !.calls = Len(copy.up) + Len(copy.down)]
    /\ UNCHANGED <<listVars, toEC, toGD, poller, assigned, calls,
                   selections, polls, spoilt>>

CountBytes ==
    /\ comm = "count"
    /\ comm' = "fill"
    /\ copy' = [copy EXCEPT !.calls =
                    2 * (Len(copy.up) + Len(copy.down) + Len(missed))]
    /\ UNCHANGED <<listVars, toEC, toGD, poller, assigned, calls,
                   selections, polls, spoilt>>

Count ==
    /\ comm = "count"
    /\ comm' = "fill"
    /\ copy' = [copy EXCEPT !.calls = Len(copy.up) + Len(copy.down) + Len(missed)]
    /\ UNCHANGED <<listVars, toEC, toGD, poller, assigned, calls,
                   selections, polls, spoilt>>

Pairs(floors, d) ==
    [i \in 1 .. 2 * Len(floors) |->
        IF i % 2 = 1 THEN floors[(i + 1) \div 2] ELSE d]

(* The missed calls go out with the direction of the car. *)
HallCallPart(direction) ==
    Pairs(copy.up, UP) \o Pairs(copy.down, DOWN) \o Pairs(missed, direction)

(* The counts of the downward and of the missed floor requests (there are  *)
(* none) are each written over the element before them.                    *)
OverwriteLastIndex(s, n) == [s EXCEPT ![Len(s)] = n - 1]   \* mutant

OverwriteLast(s, n) == [s EXCEPT ![Len(s)] = n]

FloorRequestPart ==
    LET m == Len(copy.upRequests) + Len(copy.downRequests)
    IN  OverwriteLast(OverwriteLast(<<m>> \o copy.upRequests,
                                    Len(copy.downRequests))
                        \o copy.downRequests, 0)

Message(floor, direction) ==
    <<STATUS_RESPONSE, 1, floor, direction, 0, copy.calls>>
      \o HallCallPart(direction) \o FloorRequestPart \o <<MESSAGE_TERMINATOR>>

(* The buffer is as long as the counts say: after a flush its last bytes   *)
(* are whatever the stack held.                                            *)
Garbage(n) == [1 .. n -> {0, MESSAGE_TERMINATOR}]

(* The floor and the direction are those updateStatus last sampled, which  *)
(* may be any; a passing overshoot below floor 0 reads as 255.             *)
Fill ==
    /\ comm = "fill" /\ Len(toGD) <= SocketBuffer
    /\ comm' = "recv" /\ copy' = NoCopy
    /\ \E floor \in {TopFloor, MESSAGE_TERMINATOR}, direction \in Direction :
         LET message == Message(floor, direction)
         IN  /\ \E g \in Garbage(2 * copy.calls - Len(HallCallPart(direction))) :
                  toGD' = toGD \o message \o g
             /\ spoilt' = spoilt
                  \cup (IF floor = MESSAGE_TERMINATOR THEN {"overshoot"} ELSE {})
                  \cup (IF Len(message) > MaxMessageLength + 1 THEN {"long"} ELSE {})
    /\ UNCHANGED <<listVars, toEC, poller, assigned, calls, selections, polls>>

-----------------------------------------------------------------------------
(* The dispatcher. *)
SendHallCall(call) ==
    /\ poller # "removed" /\ calls < MaxCalls /\ PendingCalls < MaxPending
    /\ calls' = calls + 1
    /\ toEC' = Append(toEC, call)
    /\ UNCHANGED <<listVars, comm, copy, toGD, poller, assigned,
                   selections, polls, spoilt>>

SendPoll ==
    /\ poller = "idle" /\ polls < MaxPolls
    /\ poller' = "waiting" /\ polls' = polls + 1
    /\ toEC' = Append(toEC, Poll)
    /\ UNCHANGED <<listVars, comm, copy, toGD, assigned, calls, selections,
                   spoilt>>

(* receiveData reads up to a delimiter, or as many bytes as its buffer     *)
(* holds and one more, which it drops.                                     *)
CutEarly ==     \* mutant: no byte is read beyond the buffer
    LET ends == {i \in DOMAIN toGD : \/ toGD[i] = MESSAGE_TERMINATOR
                                     \/ i = MaxMessageLength}
    IN  IF ends = {} THEN 0 ELSE CHOOSE i \in ends : \A j \in ends : i <= j

Cut ==
    LET ends == {i \in DOMAIN toGD : \/ toGD[i] = MESSAGE_TERMINATOR
                                     \/ i = MaxMessageLength + 1}
    IN  IF ends = {} THEN 0 ELSE CHOOSE i \in ends : \A j \in ends : i <= j

(* The buffer, zero where nothing was received. *)
Data == [i \in 0 .. MaxMessageLength - 1 |-> IF i + 1 < Cut THEN toGD[i + 1] ELSE 0]

ReceiveData ==
    /\ poller = "waiting" /\ Cut > 0
    /\ toGD' = SubSeq(toGD, Cut + 1, Len(toGD))

(* ECStatusMessage.deserialize: a list of hall calls, a list of floors.    *)
FloorCountAt == 6 + 2 * Data[5]
EndOfMessage == FloorCountAt + Data[FloorCountAt]
Fits == FloorCountAt < MaxMessageLength /\ EndOfMessage < MaxMessageLength
DecodedCalls == {<<Data[4 + 2 * i], Data[5 + 2 * i]>> : i \in 1 .. Data[5]}

(* updateECStatus; a message of another type is ignored; counts that lead  *)
(* beyond the buffer (UnexpectedEndOfMessage) have the elevator removed.   *)
UpdateECStatus ==
    /\ ReceiveData
    /\ Data[0] = STATUS_RESPONSE /\ Fits
    /\ assigned' = DecodedCalls
    /\ poller' = "idle"
    /\ UNCHANGED <<listVars, comm, copy, toEC, calls, selections, polls,
                   spoilt>>

IgnoreMessage ==
    /\ ReceiveData
    /\ Data[0] # STATUS_RESPONSE
    /\ poller' = "idle"
    /\ UNCHANGED <<listVars, comm, copy, toEC, assigned, calls,
                   selections, polls, spoilt>>

RemoveElevator ==
    /\ ReceiveData
    /\ Data[0] = STATUS_RESPONSE /\ ~Fits
    /\ poller' = "removed"
    /\ UNCHANGED <<listVars, comm, copy, toEC, assigned, calls,
                   selections, polls, spoilt>>

-----------------------------------------------------------------------------
Controller ==
    \/ Serve
    \/ \E d \in Direction : UpdateMissedFloor(d)
    \/ \E f \in Selections : AddFloorSelection(f)
    \/ \E call \in HallCalls : AddHallCall(call)
    \/ CopyHeaps \/ Count \/ Fill

Dispatcher ==
    \/ \E call \in HallCalls : SendHallCall(call)
    \/ SendPoll
    \/ UpdateECStatus \/ IgnoreMessage \/ RemoveElevator

(* While a poll is out: the floors called all the time since, and ever. *)
Watch ==
    CASE poller' # "waiting" -> steady' = {} /\ seen' = {}
      [] poller' = "waiting" /\ poller # "waiting" ->
            steady' = CalledFloors /\ seen' = CalledFloors
      [] OTHER -> /\ steady' = steady \cap CalledFloors'
                  /\ seen' = seen \cup CalledFloors'

Next == (Controller \/ Dispatcher) /\ Watch

Spec == Init /\ [][Next]_vars
-----------------------------------------------------------------------------
(* Every count and floor that sendStatus writes, over what it overwrites   *)
(* too, is a byte, and what the dispatcher decodes from any bytes it may   *)
(* read as a message are pairs of bytes.                                   *)
TypeOK ==
    /\ \A list \in {up, down, missed, upRequests, downRequests} :
          Range(list) \subseteq Floor
    /\ comm \in {"recv", "count", "fill"}
    /\ copy.calls \in 0 .. MaxPending
    /\ Range(toEC) \subseteq HallCalls \cup {Poll}
    /\ Range(toGD) \subseteq Byte
    /\ poller \in {"idle", "waiting", "removed"}
    /\ assigned \subseteq Byte \X Byte
    /\ spoilt \subseteq {"flush", "overshoot", "long"}

(* Although the lists are counted and copied at different times, and what  *)
(* follows the calls is overwritten, the dispatcher learns of every floor  *)
(* that was called all the time since the poll, and of none that was not   *)
(* called at all; unless the missed calls were flushed while a status was  *)
(* made, a floor was read as the delimiter, or a status was too long.      *)
CallsReported ==
    [][UpdateECStatus /\ spoilt = {} =>
          LET floors == {call[1] : call \in assigned'}
          IN  steady \subseteq floors /\ floors \subseteq seen]_vars

(* With the same exceptions, the bytes of one status are all taken by the  *)
(* poll it answers: no later poll reads an answer that is not its own.     *)
StreamInStep == poller = "idle" /\ spoilt = {} => toGD = <<>>

(* An elevator that answers is removed only for those reasons: what        *)
(* sendStatus writes over its floor requests never leads the parser beyond *)
(* the end of its buffer.                                                  *)
OnlySpoiltRemoved == poller = "removed" => spoilt # {}
=============================================================================
