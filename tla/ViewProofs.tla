----------------------------- MODULE ViewProofs -----------------------------
(***************************************************************************)
(* Proofs about View, for every building, set of buttons, number of        *)
(* presses, backlog of news and interleaving of the threads.               *)
(***************************************************************************)
EXTENDS View, CollectionLemmas, FiniteSetTheorems

-----------------------------------------------------------------------------
(* The inductive invariants. *)

(* The car keeps to the floors of the building, and before the first       *)
(* sample it stands where it was built.                                    *)
InBuilding ==
    /\ CarTypeOK
    /\ position \in 2 .. 2 * TopFloor
    /\ task => finalDestination \in 1 .. TopFloor
    /\ ~Sampled => ~task /\ position = 2 /\ ~moving /\ direction = UP

(* What is on its way, to the event thread too, and where it is from.  A   *)
(* notified floor is whatever byte was sampled.                            *)
FloorMessages == {<<"floor", f>> : f \in Byte}
DirectionNews == {<<"direction", d>> : d \in Direction}
Serviced == {<<"serviced", b>> : b \in Floor \X Direction}
Buttons == ((1 .. TopFloor) \X Direction) \cup {<<f>> : f \in Byte}
Enables == {<<"enable", b>> : b \in Buttons}
Darkens == {<<"darken", b>> : b \in FloorButtons}
Texts == {<<"setText", text>> : text \in Byte \X Direction}

ECNews == {<<"registration">>} \cup FloorMessages \cup DirectionNews
GDNews == {<<"removed">>} \cup Serviced
Runs == {<<"addElevatorPanel">>, <<"remove">>} \cup Enables \cup Darkens \cup Texts

Typed ==
    /\ life \in {"off", "registering", "started", "running", "removed"}
    /\ asked \in SUBSET (HallButtons \cup FloorButtons)
    /\ dark \in SUBSET (HallButtons \cup FloorButtons)
    /\ excused \in SUBSET (HallButtons \cup FloorButtons)
    /\ assigned \in SUBSET HallButtons
    /\ toEC \in Seq(FloorButtons) /\ toGD \in Seq(HallButtons)
    /\ fromEC \in Seq(ECNews) /\ fromGD \in Seq(GDNews) /\ edt \in Seq(Runs)
    /\ panel \in {"none", "shown", "removed"}
    /\ pair \in Byte \X Direction /\ shown \in Byte \X Direction
    /\ overtaken \in BOOLEAN /\ fatal \in BOOLEAN

TypeInv == InBuilding /\ Typed

(* There is a panel, or it is ordered, before there are news to show on it. *)
Ordered == panel # "none" \/ <<"addElevatorPanel">> \in Range(edt)

Registered ==
    life \in {"started", "running"} \/ (life = "removed" /\ "earlyRemoval" \notin Races)

PanelInv ==
    /\ life = "off" => fromEC = <<>>
    /\ life = "registering" => fromEC = <<<<"registration">>>>
    /\ Registered =>
          /\ Ordered
          /\ <<"registration">> \notin Range(fromEC)
    /\ <<"removed">> \in Range(fromGD) => life = "removed"
    /\ panel = "none" =>
          /\ dark \cap FloorButtons = {}
          /\ \A b \in FloorButtons : <<"darken", b>> \notin Range(edt)

(* The newest news of a kind tell what is so; without any, it is known.    *)
Newest(queue, kind, i) ==
    /\ i \in DOMAIN queue /\ queue[i][1] = kind
    /\ \A j \in DOMAIN queue : j > i => queue[j][1] # kind

Tells(queue, kind, value, known) ==
    \/ \E i \in DOMAIN queue : Newest(queue, kind, i) /\ queue[i][2] = value
    \/ (\A i \in DOMAIN queue : queue[i][1] # kind) /\ known = value

DisplayInv ==
    ~overtaken /\ life # "removed" =>
        /\ life = "running" => Tells(fromEC, "floor", CurrentFloor, pair[1])
        /\ Tells(fromEC, "direction", direction, pair[2])
        /\ Tells(edt, "setText", pair, shown)

(* A floor button that is dark, or will be: the car has yet to come to its *)
(* floor, or its arrival is news, or it will be re-lit for good.           *)
Darkened(b) == b \in dark \/ <<"darken", b>> \in Range(edt)

Relights(queue, b) ==
    \E i \in DOMAIN queue :
        /\ queue[i] = <<"enable", b>>
        /\ \A j \in DOMAIN queue : j > i => queue[j] # <<"darken", b>>

Relit(b) == Relights(edt, b)

Waiting(b) ==
    \/ b \in Range(toEC) \cup asked /\ CurrentFloor # b[1]
    \/ <<"floor", b[1]>> \in Range(fromEC)
    \/ Relit(b)

FloorButtonInv == \A b \in FloorButtons \ excused : Darkened(b) => Waiting(b)

(* A hall call the last poll has not seen served: the car was not standing *)
(* at its floor, heading its way.                                          *)
Seen(b) ==
    position = 2 * b[1] /\ ~moving /\ ~last.moving /\ last.direction = b[2]

(* A dark hall button: its call is on its way and the car has yet to come, *)
(* or the first poll will find the car there, or it is about to be re-lit. *)
Owed(b) ==
    \/ Known /\ last.direction = "none" /\ b = <<1, UP>>
    \/ <<"serviced", b>> \in Range(fromGD)
    \/ Enabling(b)

HallButtonInv ==
    \A b \in (dark \cap HallButtons) \ excused :
        \/ Owed(b)
        \/ b \in Range(toGD) /\ (life = "removed" \/ ~Seen(b))
        \/ b \in asked /\ Known /\ ~Seen(b)

(* Polls keep up with the car: one that is parked was polled, or has never *)
(* been and is where it was built.  A poll before the first sample dooms   *)
(* the program.                                                            *)
PollInv ==
    /\ last.moving \in BOOLEAN /\ last.direction \in Direction \cup {"none"}
    /\ life \in {"off", "registering"} \/ (life = "started" /\ ~Doomed) =>
          last.direction = "none" /\ ~last.moving
    /\ Known /\ last.direction = "none" =>
          position = 2 /\ ~moving /\ direction = UP /\ ~last.moving
    /\ Known /\ last.direction # "none" /\ ~task =>
          ~moving /\ ~last.moving /\ last.direction = direction

-----------------------------------------------------------------------------
(* The car. *)

LEMMA Parameters ==
    /\ TopFloor \in Nat \ {0} /\ ByteSize \in Nat /\ TopFloor + 1 < ByteSize
    /\ Floor = 0 .. TopFloor /\ 1 .. TopFloor \subseteq Floor
    /\ Floor \subseteq Byte /\ 1 .. TopFloor \subseteq Byte
    /\ Byte = 0 .. ByteSize - 1 /\ Position = 0 .. 2 * (ByteSize - 1)
    /\ UP \in Direction /\ DOWN \in Direction
    /\ HallButtons \subseteq Buttons /\ FloorButtons \subseteq Buttons
    /\ HallButtons \subseteq (1 .. TopFloor) \X Direction
    /\ \A b \in FloorButtons : b[1] \in 1 .. TopFloor /\ b = <<b[1]>>
    /\ \A b \in HallButtons : b[1] \in 1 .. TopFloor
<1>1. /\ TopFloor \in Nat \ {0} /\ ByteSize \in Nat /\ TopFloor + 1 < ByteSize
      /\ HallButtons \subseteq (1 .. TopFloor) \X Direction
      /\ \A b \in FloorButtons : \E f \in 1 .. TopFloor : b = <<f>>
  BY TopFloorAssumption, ByteSizeAssumption, ViewAssumption
<1>2. UP \in Direction /\ DOWN \in Direction
  BY DEF Direction
<1>3. \A b \in FloorButtons : b[1] \in 1 .. TopFloor /\ b = <<b[1]>>
  BY <1>1
<1>7. Floor \subseteq Byte /\ 1 .. TopFloor \subseteq Byte
  BY <1>1 DEF Floor, Byte
<1>4. HallButtons \subseteq Buttons /\ FloorButtons \subseteq Buttons
  BY <1>1, <1>7 DEF Buttons
<1>5. \A b \in HallButtons : b[1] \in 1 .. TopFloor
  BY <1>1
<1>6. 1 .. TopFloor \subseteq Floor
  BY <1>1 DEF Floor
<1> QED  BY <1>1, <1>2, <1>3, <1>4, <1>5, <1>6, <1>7 DEF Floor, Byte, Position

(* A position between floors belongs to the one below. *)
LEMMA FloorOfPosition ==
    ASSUME NEW p \in Nat
    PROVE  /\ p \div 2 \in Nat
           /\ p = 2 * (p \div 2) \/ p = 2 * (p \div 2) + 1
           /\ \A f \in Nat : p = 2 * f => p \div 2 = f
OBVIOUS

LEMMA FloorInBuilding ==
    ASSUME NEW p \in 2 .. 2 * TopFloor
    PROVE  p \div 2 \in 1 .. TopFloor /\ p \div 2 \in Floor
<1>1. p \in Nat
  BY Parameters
<1>2. PICK f \in Nat : f = p \div 2 /\ (p = 2 * f \/ p = 2 * f + 1)
  BY <1>1, FloorOfPosition
<1>3. f \in 1 .. TopFloor
  BY <1>1, <1>2, Parameters
<1> QED  BY <1>2, <1>3, Parameters

LEMMA CurrentInBuilding ==
    ASSUME InBuilding
    PROVE  /\ CurrentFloor \in 1 .. TopFloor /\ CurrentFloor \in Floor
           /\ CurrentFloor \in Byte /\ direction \in Direction
BY FloorInBuilding, Parameters DEF InBuilding, CarTypeOK, CurrentFloor

(* A new task leaves the car where it is. *)
LEMMA FloorRunStays ==
    ASSUME TypeInv, FloorRun
    PROVE  /\ InBuilding' /\ CurrentFloor' = CurrentFloor /\ task'
           /\ UNCHANGED <<position, moving, life>> /\ Sampled
           /\ position = 2 => direction' = UP
<1>1. /\ UNCHANGED <<position, moving, life>> /\ Sampled
      /\ CurrentFloor' = CurrentFloor /\ task'
  BY DEF FloorRun, SetFinalDestination, carRest, CurrentFloor
<1>2. PICK b \in asked : SetFinalDestination(b[1])
  BY DEF FloorRun
<1>3. b[1] \in 1 .. TopFloor
  BY <1>2, Parameters DEF TypeInv, Typed
<1>4. /\ finalDestination' = b[1] /\ finalDestination' \in Byte /\ task' = TRUE
      /\ direction' = IF position > 2 * b[1] THEN DOWN ELSE UP
  BY <1>2, <1>3, Parameters DEF SetFinalDestination, Heading
<1>5. direction' \in Direction
  BY <1>4, Parameters
<1>6. InBuilding'
  BY <1>1, <1>3, <1>4, <1>5
     DEF InBuilding, CarTypeOK, TypeInv, Sampled
<1>7. position = 2 => direction' = UP
  BY <1>3, <1>4, Parameters
<1> QED  BY <1>1, <1>6, <1>7

(* The car moves between the floors of its task, and only in a task.       *)
LEMMA CarMovesOn ==
    ASSUME TypeInv, CarMoves
    PROVE  /\ InBuilding' /\ task /\ UNCHANGED <<direction, life>> /\ Sampled
           /\ moving \/ moving' \/ (UNCHANGED <<position, moving>> /\ ~moving)
           /\ ~task' => ~moving'
<1>1. task /\ UNCHANGED <<direction, life>> /\ Polled
  BY DEF CarMoves, Advance, Finish, DoorsDone, Reset, carRest
<1>2. Sampled /\ Sampled'
  BY <1>1 DEF TypeInv, InBuilding, Sampled
<1>3. /\ finalDestination \in 1 .. TopFloor /\ position \in 2 .. 2 * TopFloor
      /\ CarTypeOK
  BY <1>1 DEF TypeInv, InBuilding
<1>4. CASE Advance /\ (moving \/ moving')
  <2>1. /\ position' \in Reach /\ moving' \in BOOLEAN
        /\ UNCHANGED <<finalDestination, task>>
    BY <1>4 DEF Advance
  <2>2. position' \in 2 .. 2 * TopFloor /\ position' \in Position
    <3>1. /\ position' \in Position
          /\ \/ 2 * finalDestination <= position' /\ position' <= position
             \/ position <= position' /\ position' <= 2 * finalDestination
      BY <2>1 DEF Reach
    <3>2. position' \in Int /\ TopFloor \in Nat
      BY <3>1, Parameters
    <3> QED  BY <1>3, <3>1, <3>2
  <2>3. InBuilding'
    BY <1>1, <1>2, <1>3, <2>1, <2>2 DEF InBuilding, CarTypeOK
  <2> QED  BY <1>1, <1>2, <1>4, <2>1, <2>3
<1>5. CASE Finish
  <2>1. /\ finalDestination' = 0 /\ task' = FALSE /\ ~moving
        /\ UNCHANGED <<position, moving, direction>>
    BY <1>5 DEF Finish, DoorsDone, Reset
  <2>2. 0 \in Byte
    BY Parameters
  <2>3. InBuilding'
    BY <1>1, <1>2, <1>3, <2>1, <2>2 DEF InBuilding, CarTypeOK
  <2> QED  BY <1>1, <1>2, <2>1, <2>3
<1> QED  BY <1>4, <1>5 DEF CarMoves

-----------------------------------------------------------------------------
(* The queues. *)

LEMMA KindsOfNews ==
    /\ <<"registration">> \in ECNews /\ <<"removed">> \in GDNews
    /\ \A f \in Byte : <<"floor", f>> \in ECNews
    /\ \A d \in Direction : <<"direction", d>> \in ECNews
    /\ \A b \in Floor \X Direction : <<"serviced", b>> \in GDNews
    /\ \A news \in ECNews :
          /\ news[1] = "floor" => news[2] \in Byte /\ news = <<"floor", news[2]>>
          /\ news[1] = "direction" =>
                news[2] \in Direction /\ news = <<"direction", news[2]>>
          /\ news # <<"registration">> => news[1] \in {"floor", "direction"}
    /\ \A news \in GDNews :
          /\ news[1] = "serviced" =>
                news[2] \in Floor \X Direction /\ news = <<"serviced", news[2]>>
          /\ news[1] = "removed" => news = <<"removed">>
BY DEF ECNews, GDNews, FloorMessages, DirectionNews, Serviced

LEMMA KindsOfRuns ==
    /\ <<"addElevatorPanel">> \in Runs /\ <<"remove">> \in Runs
    /\ \A b \in Buttons : <<"enable", b>> \in Runs
    /\ \A b \in FloorButtons : <<"darken", b>> \in Runs
    /\ \A text \in Byte \X Direction : <<"setText", text>> \in Runs
    /\ \A run \in Runs :
          /\ run[1] \in {"addElevatorPanel", "remove", "enable", "darken", "setText"}
          /\ run[1] = "addElevatorPanel" => run = <<"addElevatorPanel">>
          /\ run[1] = "enable" => run[2] \in Buttons /\ run = <<"enable", run[2]>>
          /\ run[1] = "darken" => run[2] \in FloorButtons /\ run = <<"darken", run[2]>>
          /\ run[1] = "setText" => run[2] \in Byte \X Direction
BY DEF Runs, Enables, Darkens, Texts

LEMMA MoreNews ==
    ASSUME NEW queue \in Seq(ECNews), NEW news \in ECNews, NEW some \in BOOLEAN
    PROVE  LET t == queue \o (IF some THEN <<news>> ELSE <<>>)
           IN  t = (IF some THEN Append(queue, news) ELSE queue) /\ t \in Seq(ECNews)
<1>1. Append(queue, news) = queue \o <<news>> /\ Append(queue, news) \in Seq(ECNews)
  BY AppendIsConcat, AppendProperties
<1>2. queue \o <<>> = queue
  BY ConcatEmptySeq
<1> QED  BY <1>1, <1>2

(* Notify appends the floor it samples on the way, the one where the car   *)
(* stands, and the direction, as far as they are new.                      *)
LEMMA Notified ==
    ASSUME TypeInv, Notify, InBuilding'
    PROVE  \E f \in Byte, q \in Seq(ECNews), r \in Seq(ECNews) :
              /\ q = IF f # CurrentFloor THEN Append(fromEC, <<"floor", f>>) ELSE fromEC
              /\ r = IF CurrentFloor' # f
                       THEN Append(q, <<"floor", CurrentFloor'>>) ELSE q
              /\ fromEC' = IF direction' # direction
                             THEN Append(r, <<"direction", direction'>>) ELSE r
              /\ fromEC' \in Seq(ECNews)
<1>1. PICK f \in SampledOnTheWay :
         fromEC' = fromEC
            \o FloorNews(CurrentFloor, f) \o FloorNews(f, CurrentFloor')
            \o (IF direction' # direction THEN <<<<"direction", direction'>>>> ELSE <<>>)
  BY DEF Notify
<1>2. f \in Byte
  BY CurrentInBuilding, Parameters DEF SampledOnTheWay, TypeInv
<1> DEFINE v == <<"floor", f>>
           x == <<"floor", CurrentFloor'>>
           y == <<"direction", direction'>>
           q == fromEC \o (IF f # CurrentFloor THEN <<v>> ELSE <<>>)
           r == q \o (IF CurrentFloor' # f THEN <<x>> ELSE <<>>)
<1>3. v \in ECNews /\ x \in ECNews /\ y \in ECNews /\ fromEC \in Seq(ECNews)
  <2>1. CurrentFloor' \in Byte /\ direction' \in Direction
    BY FloorInBuilding, Parameters DEF InBuilding, CarTypeOK, CurrentFloor
  <2> QED  BY <1>2, <2>1, KindsOfNews DEF TypeInv, Typed
<1>4. fromEC' = r \o (IF direction' # direction THEN <<y>> ELSE <<>>)
  BY <1>1 DEF FloorNews
<1> HIDE DEF v, x, y
<1>5. q = (IF f # CurrentFloor THEN Append(fromEC, v) ELSE fromEC) /\ q \in Seq(ECNews)
  BY <1>3, MoreNews
<1> HIDE DEF q
<1>6. r = (IF CurrentFloor' # f THEN Append(q, x) ELSE q) /\ r \in Seq(ECNews)
  BY <1>3, <1>5, MoreNews
<1> HIDE DEF r
<1>7. /\ fromEC' = IF direction' # direction THEN Append(r, y) ELSE r
      /\ fromEC' \in Seq(ECNews)
  BY <1>3, <1>4, <1>6, MoreNews
<1> QED  BY <1>2, <1>5, <1>6, <1>7 DEF v, x, y

(* A thread takes one of the news. *)
LEMMA Handled ==
    ASSUME TypeInv, NEW i \in DOMAIN fromEC, Handle(i)
    PROVE  /\ fromEC' \in Seq(ECNews) /\ fromEC[i] \in ECNews
           /\ fromEC[i][1] \in {"floor", "direction"}
           /\ Range(fromEC') \subseteq Range(fromEC)
           /\ Range(fromEC) \subseteq Range(fromEC') \cup {fromEC[i]}
           /\ i \in 1 .. Len(fromEC) /\ Len(fromEC) \in Nat
           /\ DOMAIN fromEC = 1 .. Len(fromEC)
           /\ DOMAIN fromEC' = 1 .. Len(fromEC) - 1
           /\ \A j \in 1 .. Len(fromEC) - 1 :
                 fromEC'[j] = IF j < i THEN fromEC[j] ELSE fromEC[j + 1]
<1>1. /\ fromEC \in Seq(ECNews) /\ DOMAIN fromEC = 1 .. Len(fromEC)
      /\ Len(fromEC) \in Nat /\ fromEC[i] \in ECNews
  BY LenProperties DEF TypeInv, Typed
<1>2. fromEC' = SubSeq(fromEC, 1, i - 1) \o SubSeq(fromEC, i + 1, Len(fromEC))
  BY DEF Handle, Seqs!RemoveAt
<1>3. /\ fromEC' \in Seq(ECNews) /\ Len(fromEC') = Len(fromEC) - 1
      /\ \A j \in 1 .. Len(fromEC') :
            fromEC'[j] = IF j < i THEN fromEC[j] ELSE fromEC[j + 1]
      /\ Range(fromEC') \subseteq Range(fromEC)
      /\ Range(fromEC) \subseteq Range(fromEC') \cup {fromEC[i]}
  <2> DEFINE t == SubSeq(fromEC, 1, i - 1) \o SubSeq(fromEC, i + 1, Len(fromEC))
  <2>1. /\ t \in Seq(ECNews) /\ Len(t) = Len(fromEC) - 1
        /\ \A j \in 1 .. Len(t) :
              t[j] = IF j < i THEN fromEC[j] ELSE fromEC[j + 1]
        /\ Range(t) \subseteq Range(fromEC)
        /\ Range(fromEC) \subseteq Range(t) \cup {fromEC[i]}
    BY <1>1, WithoutOne
  <2> HIDE DEF t
  <2> QED  BY <1>2, <2>1 DEF t
<1>4. DOMAIN fromEC' = 1 .. Len(fromEC) - 1
  BY <1>3, LenProperties
<1>5. fromEC[i][1] \in {"floor", "direction"}
  <2>1. fromEC[i] # <<"registration">>
    BY DEF Handle
  <2> QED  BY <1>1, <2>1, KindsOfNews
<1> QED  BY <1>1, <1>3, <1>4, <1>5

LEMMA HandledGD ==
    ASSUME TypeInv, NEW i \in DOMAIN fromGD, HandleGD(i)
    PROVE  /\ fromGD' \in Seq(GDNews) /\ fromGD[i] \in GDNews
           /\ fromGD[i] \in Range(fromGD)
           /\ Range(fromGD') \subseteq Range(fromGD)
           /\ Range(fromGD) \subseteq Range(fromGD') \cup {fromGD[i]}
<1>1. /\ fromGD \in Seq(GDNews) /\ DOMAIN fromGD = 1 .. Len(fromGD)
      /\ Len(fromGD) \in Nat /\ fromGD[i] \in GDNews
  BY LenProperties DEF TypeInv, Typed
<1>2. fromGD' = SubSeq(fromGD, 1, i - 1) \o SubSeq(fromGD, i + 1, Len(fromGD))
  BY DEF HandleGD, Seqs!RemoveAt
<1>3. /\ fromGD' \in Seq(GDNews)
      /\ Range(fromGD') \subseteq Range(fromGD)
      /\ Range(fromGD) \subseteq Range(fromGD') \cup {fromGD[i]}
  BY <1>1, <1>2, WithoutOne
<1>4. fromGD[i] \in Range(fromGD)
  BY DEF Range
<1> QED  BY <1>1, <1>3, <1>4

(* One more news is sent. *)
LEMMA Sent ==
    ASSUME NEW queue \in Seq(ECNews), NEW news \in ECNews
    PROVE  LET t == Append(queue, news)
           IN  /\ t \in Seq(ECNews) /\ Len(queue) \in Nat
               /\ DOMAIN queue = 1 .. Len(queue) /\ DOMAIN t = 1 .. Len(queue) + 1
               /\ \A i \in 1 .. Len(queue) : t[i] = queue[i]
               /\ t[Len(queue) + 1] = news
               /\ Range(t) = Range(queue) \cup {news}
BY AppendOne

(* The event thread is given one more thing to run. *)
LEMMA Queued ==
    ASSUME NEW queue \in Seq(Runs), NEW run \in Runs
    PROVE  LET t == Append(queue, run)
           IN  /\ t \in Seq(Runs) /\ Len(queue) \in Nat
               /\ DOMAIN queue = 1 .. Len(queue) /\ DOMAIN t = 1 .. Len(queue) + 1
               /\ \A i \in 1 .. Len(queue) : t[i] = queue[i]
               /\ t[Len(queue) + 1] = run
               /\ Range(t) = Range(queue) \cup {run}
BY AppendOne

(* The news of a floor re-light its button and have it shown. *)
LEMMA FloorShown ==
    ASSUME TypeInv, NEW i \in DOMAIN fromEC, OnFloorReached(i), panel # "none"
    PROVE  LET floor == fromEC[i][2]
               q == Append(edt, <<"enable", <<floor>>>>)
           IN  /\ q \in Seq(Runs) /\ edt' = Append(q, <<"setText", pair'>>)
               /\ floor \in Byte /\ fromEC[i] = <<"floor", floor>>
               /\ <<"enable", <<floor>>>> \in Runs /\ <<"setText", pair'>> \in Runs
               /\ pair' = <<floor, pair[2]>> /\ pair' \in Byte \X Direction
               /\ edt' \in Seq(Runs) /\ fatal' = fatal
<1> DEFINE floor == fromEC[i][2]
<1>1. floor \in Byte /\ fromEC[i] = <<"floor", floor>>
  <2>1. fromEC[i] \in ECNews /\ fromEC[i][1] = "floor"
    BY Handled DEF OnFloorReached
  <2> QED  BY <2>1, KindsOfNews
<1>2. pair' = <<floor, pair[2]>> /\ fatal' = fatal
      /\ edt' = edt \o <<<<"enable", <<floor>>>>, <<"setText", pair'>>>>
  BY DEF OnFloorReached
<1> HIDE DEF floor
<1>3. pair' \in Byte \X Direction
  BY <1>1, <1>2, Parameters DEF TypeInv, Typed
<1>4. <<"enable", <<floor>>>> \in Runs /\ <<"setText", pair'>> \in Runs
  <2>1. <<floor>> \in Buttons
    BY <1>1 DEF Buttons
  <2> QED  BY <1>3, <2>1, KindsOfRuns
<1>5. edt \in Seq(Runs)
  BY DEF TypeInv, Typed
<1>6. /\ Append(edt, <<"enable", <<floor>>>>) \in Seq(Runs)
      /\ edt' = Append(Append(edt, <<"enable", <<floor>>>>), <<"setText", pair'>>)
      /\ edt' \in Seq(Runs)
  BY <1>2, <1>4, <1>5, AppendTwo, AppendProperties
<1> QED  BY <1>1, <1>2, <1>3, <1>4, <1>6 DEF floor

LEMMA DirectionShown ==
    ASSUME TypeInv, NEW i \in DOMAIN fromEC, OnElevatorDirectionChange(i),
           panel # "none"
    PROVE  LET d == fromEC[i][2]
           IN  /\ edt' = Append(edt, <<"setText", pair'>>) /\ edt' \in Seq(Runs)
               /\ d \in Direction /\ fromEC[i] = <<"direction", d>>
               /\ <<"setText", pair'>> \in Runs
               /\ pair' = <<pair[1], d>> /\ pair' \in Byte \X Direction
               /\ fatal' = fatal
<1>1. fromEC[i][2] \in Direction /\ fromEC[i] = <<"direction", fromEC[i][2]>>
  <2>1. fromEC[i] \in ECNews /\ fromEC[i][1] = "direction"
    BY Handled DEF OnElevatorDirectionChange
  <2> QED  BY <2>1, KindsOfNews
<1>2. /\ pair' = <<pair[1], fromEC[i][2]>> /\ fatal' = fatal
      /\ edt' = Append(edt, <<"setText", pair'>>)
  BY DEF OnElevatorDirectionChange
<1>3. pair' \in Byte \X Direction
  BY <1>1, <1>2 DEF TypeInv, Typed
<1>4. <<"setText", pair'>> \in Runs
  BY <1>3, KindsOfRuns
<1>5. edt \in Seq(Runs)
  BY DEF TypeInv, Typed
<1> QED  BY <1>1, <1>2, <1>3, <1>4, <1>5, AppendProperties

LEMMA ShownRange ==
    ASSUME TypeInv, NEW i \in DOMAIN fromEC,
           OnFloorReached(i) \/ OnElevatorDirectionChange(i)
    PROVE  /\ Range(edt) \subseteq Range(edt')
           /\ \A b : <<"darken", b>> \in Range(edt') => <<"darken", b>> \in Range(edt)
<1>0. edt \in Seq(Runs)
  BY DEF TypeInv, Typed
<1>1. CASE panel = "none"
  BY <1>1 DEF OnFloorReached, OnElevatorDirectionChange
<1>2. CASE panel # "none" /\ OnFloorReached(i)
  <2> DEFINE x == <<"enable", <<fromEC[i][2]>>>>
             y == <<"setText", pair'>>
             q == Append(edt, x)
  <2>1. q \in Seq(Runs) /\ edt' = Append(q, y) /\ x \in Runs /\ y \in Runs
    BY <1>2, FloorShown
  <2>2. \A b : <<"darken", b>> # x /\ <<"darken", b>> # y
    OBVIOUS
  <2> HIDE DEF x, y
  <2>3. Range(q) = Range(edt) \cup {x}
    BY <1>0, <2>1, Queued
  <2> HIDE DEF q
  <2>4. Range(edt') = Range(q) \cup {y}
    BY <2>1, Queued
  <2> QED  BY <2>2, <2>3, <2>4
<1>3. CASE panel # "none" /\ OnElevatorDirectionChange(i)
  <2>1. edt' = Append(edt, <<"setText", pair'>>) /\ <<"setText", pair'>> \in Runs
    BY <1>3, DirectionShown
  <2>2. Range(edt') = Range(edt) \cup {<<"setText", pair'>>}
    BY <1>0, <2>1, Queued
  <2> QED  BY <2>2
<1> QED  BY <1>1, <1>2, <1>3

(* The news of the dispatcher have a button re-lit or the panel removed. *)
LEMMA NewsOfGD ==
    ASSUME TypeInv, NEW i \in DOMAIN fromGD,
           OnHallCallServiced(i) \/ OnElevatorError(i)
    PROVE  \/ edt' = edt
           \/ \E run \in Runs :
                 run[1] \notin {"darken", "setText"} /\ edt' = Append(edt, run)
<1>1. CASE OnHallCallServiced(i)
  <2>1. CASE fromGD[i][2][1] \in 1 .. TopFloor
    <3>1. fromGD[i][2] \in Floor \X Direction
      BY <1>1, HandledGD, KindsOfNews DEF OnHallCallServiced
    <3>2. fromGD[i][2] \in Buttons
      BY <2>1, <3>1 DEF Buttons
    <3>3. <<"enable", fromGD[i][2]>> \in Runs
      BY <3>2, KindsOfRuns
    <3> QED  BY <1>1, <2>1, <3>3 DEF OnHallCallServiced
  <2>2. CASE fromGD[i][2][1] \notin 1 .. TopFloor
    BY <1>1, <2>2 DEF OnHallCallServiced
  <2> QED  BY <2>1, <2>2
<1>2. CASE OnElevatorError(i)
  BY <1>2, KindsOfRuns DEF OnElevatorError
<1> QED  BY <1>1, <1>2

(* The calls of a removed elevator are re-lit. *)
LEMMA CallsRelit ==
    ASSUME TypeInv, RemoveElevator
    PROVE  \E more \in Seq(Runs) :
              /\ edt' = edt \o more
              /\ \A call \in assigned : <<"enable", call>> \in Range(more)
              /\ \A run \in Range(more) : run[1] = "enable"
<1>1. PICK relit \in [1 .. Cardinality(assigned) -> assigned] :
         /\ Range(relit) = assigned
         /\ edt' = edt \o [i \in DOMAIN relit |-> <<"enable", relit[i]>>]
  BY DEF RemoveElevator
<1>2. Cardinality(assigned) \in Nat
  <2>1. IsFiniteSet(1 .. TopFloor)
    BY Parameters, FS_Interval
  <2>2. IsFiniteSet(Direction)
    <3>1. IsFiniteSet({UP} \cup {DOWN})
      <4>1. IsFiniteSet({UP})
        BY FS_Singleton
      <4> QED  BY <4>1, FS_AddElement
    <3>2. Direction = {UP} \cup {DOWN}
      BY DEF Direction
    <3> QED  BY <3>1, <3>2
  <2>3. IsFiniteSet((1 .. TopFloor) \X Direction)
    BY <2>1, <2>2, FS_Product
  <2>4. assigned \in SUBSET ((1 .. TopFloor) \X Direction)
    BY Parameters DEF TypeInv, Typed
  <2>5. IsFiniteSet(assigned)
    BY <2>3, <2>4, FS_Subset
  <2> QED  BY <2>5, FS_CardinalityType
<1> DEFINE n == Cardinality(assigned)
           more == [i \in 1 .. n |-> <<"enable", relit[i]>>]
<1>3. \A call \in assigned : <<"enable", call>> \in Runs
  BY Parameters, KindsOfRuns DEF TypeInv, Typed
<1>4. more \in [1 .. n -> Runs] /\ edt' = edt \o more
  BY <1>1, <1>3
<1>5. \A call \in assigned : \E i \in 1 .. n : more[i] = <<"enable", call>>
  BY <1>1 DEF Range
<1>6. \A i \in 1 .. n : more[i][1] = "enable"
  OBVIOUS
<1> HIDE DEF n, more
<1>7. more \in Seq(Runs) /\ DOMAIN more = 1 .. n
  BY <1>2, <1>4, FunctionIsSeq DEF n
<1>8. \A call \in assigned : <<"enable", call>> \in Range(more)
  BY <1>5, <1>7 DEF Range
<1>9. \A run \in Range(more) : run[1] = "enable"
  BY <1>6, <1>7 DEF Range
<1> QED  BY <1>4, <1>7, <1>8, <1>9

-----------------------------------------------------------------------------
(* Types. *)

LEMMA CarStays ==
    ASSUME InBuilding, UNCHANGED carVars, Sampled => Sampled'
    PROVE  InBuilding' /\ CurrentFloor' = CurrentFloor
BY DEF InBuilding, CarTypeOK, carVars, CurrentFloor

LEMMA TypeStep ==
    ASSUME TypeInv, Next
    PROVE  TypeInv'
<1> USE DEF TypeInv
<1>1. CASE ConnectToGD
  <2>1. InBuilding'
    BY <1>1, CarStays DEF ConnectToGD, Sampled
  <2>2. fromEC' \in Seq(ECNews)
    BY <1>1, KindsOfNews, AppendProperties DEF ConnectToGD, Typed
  <2> QED  BY <1>1, <2>1, <2>2 DEF ConnectToGD, Typed, pressVars, gdVars, screenVars
<1>2. CASE OnElevatorRegister
  <2>1. InBuilding'
    BY <1>2, CarStays DEF OnElevatorRegister, Sampled
  <2>2. fromEC' \in Seq(ECNews)
    BY <1>2, ButFirst DEF OnElevatorRegister, Typed
  <2>3. edt' \in Seq(Runs)
    BY <1>2, KindsOfRuns, AppendProperties DEF OnElevatorRegister, Typed
  <2> QED  BY <1>2, <2>1, <2>2, <2>3
           DEF OnElevatorRegister, Typed, pressVars, gdVars, screenVars
<1>3. CASE FirstSample
  <2>1. InBuilding'
    BY <1>3, CarStays DEF FirstSample, Sampled
  <2>2. fromEC' \in Seq(ECNews)
    BY <1>3, CurrentInBuilding, KindsOfNews, AppendProperties DEF FirstSample, Typed
  <2> QED  BY <1>3, <2>1, <2>2 DEF FirstSample, Typed, pressVars, gdVars, screenVars
<1>4. CASE FloorRun
  <2>1. InBuilding' /\ Notify
    BY <1>4, FloorRunStays DEF FloorRun
  <2>2. fromEC' \in Seq(ECNews)
    BY <2>1, Notified
  <2> QED  BY <1>4, <2>1, <2>2
           DEF FloorRun, Typed, carRest, pressVars, gdVars, screenVars
<1>5. CASE CarMoves
  <2>1. InBuilding' /\ Notify
    BY <1>5, CarMovesOn DEF CarMoves
  <2>2. fromEC' \in Seq(ECNews)
    BY <2>1, Notified
  <2> QED  BY <1>5, <2>1, <2>2
           DEF CarMoves, Typed, carRest, pressVars, gdVars, screenVars
<1>6. CASE Serve
  <2>1. InBuilding'
    BY <1>6, CarStays DEF Serve, Sampled, carRest
  <2>2. /\ asked' \subseteq asked
        /\ excused' \subseteq excused \cup HallButtons
    BY <1>6 DEF Serve
  <2> QED  BY <1>6, <2>1, <2>2
           DEF Serve, Typed, carRest, pressVars, gdVars, screenVars
<1>7. CASE AddFloorSelection
  <2>1. InBuilding'
    BY <1>7, CarStays DEF AddFloorSelection, Sampled
  <2>2. toEC' \in Seq(FloorButtons) /\ asked' \in SUBSET (HallButtons \cup FloorButtons)
    <3>1. toEC \in Seq(FloorButtons) /\ toEC # <<>>
      BY <1>7 DEF AddFloorSelection, Typed
    <3>2. Tail(toEC) \in Seq(FloorButtons) /\ Head(toEC) \in FloorButtons
      BY <3>1, ButFirst
    <3> QED  BY <1>7, <3>2 DEF AddFloorSelection, Typed
  <2> QED  BY <1>7, <2>1, <2>2 DEF AddFloorSelection, Typed, gdVars, screenVars
<1>8. CASE OnHallCall
  <2>1. InBuilding'
    BY <1>8, CarStays DEF OnHallCall, Sampled
  <2>2. Tail(toGD) \in Seq(HallButtons) /\ Head(toGD) \in HallButtons
    <3>1. toGD \in Seq(HallButtons) /\ toGD # <<>>
      BY <1>8 DEF OnHallCall, Typed
    <3> QED  BY <3>1, ButFirst
  <2>3. Append(edt, <<"enable", Head(toGD)>>) \in Seq(Runs)
    BY <2>2, Parameters, KindsOfRuns, AppendProperties DEF Typed
  <2>4. /\ asked' \in SUBSET (HallButtons \cup FloorButtons)
        /\ edt' \in Seq(Runs) /\ toGD' \in Seq(HallButtons)
    BY <1>8, <2>2, <2>3 DEF OnHallCall, Typed
  <2> QED  BY <1>8, <2>1, <2>4 DEF OnHallCall, Typed, gdVars, screenVars
<1>9. CASE UpdateECStatus
  <2>1. InBuilding'
    BY <1>9, CarStays DEF UpdateECStatus, Sampled
  <2>2. fromGD' \in Seq(GDNews)
    <3> DEFINE floor == IF Sampled THEN CurrentFloor ELSE 0
    <3>1. <<floor, direction>> \in Floor \X Direction
      BY CurrentInBuilding, Parameters
    <3> HIDE DEF floor
    <3>2. fromGD' = Append(fromGD, <<"serviced", <<floor, direction>>>>) \/ fromGD' = fromGD
      BY <1>9 DEF UpdateECStatus, HallCallServiced, floor
    <3>3. <<"serviced", <<floor, direction>>>> \in GDNews
      BY <3>1, KindsOfNews
    <3>4. fromGD \in Seq(GDNews)
      BY DEF Typed
    <3> DEFINE news == <<"serviced", <<floor, direction>>>>
    <3> HIDE DEF news
    <3>5. Append(fromGD, news) \in Seq(GDNews)
      BY <3>3, <3>4, AppendProperties DEF news
    <3> QED  BY <3>2, <3>4, <3>5 DEF news
  <2> QED  BY <1>9, <2>1, <2>2
           DEF UpdateECStatus, Typed, KnownCalls, pressVars, screenVars
<1>10. CASE RemoveElevator
  <2>1. InBuilding'
    BY <1>10, CarStays DEF RemoveElevator, Sampled
  <2>2. edt' \in Seq(Runs)
    BY <1>10, CallsRelit, ConcatProperties DEF Typed
  <2>3. fromGD' \in Seq(GDNews)
    BY <1>10, KindsOfNews, AppendProperties DEF RemoveElevator, Typed
  <2>4. excused' \in SUBSET (HallButtons \cup FloorButtons)
    BY <1>10 DEF RemoveElevator, Typed
  <2> QED  BY <1>10, <2>1, <2>2, <2>3, <2>4
           DEF RemoveElevator, Typed, pressVars, screenVars
<1>11. ASSUME NEW i \in DOMAIN fromEC, OnFloorReached(i)
       PROVE  TypeInv'
  <2>1. InBuilding' /\ fromEC' \in Seq(ECNews)
    BY <1>11, CarStays, Handled DEF OnFloorReached, Handle, Sampled
  <2>2. edt' \in Seq(Runs) /\ pair' \in Byte \X Direction /\ fatal' \in BOOLEAN
    <3>1. CASE panel = "none"
      BY <1>11, <3>1 DEF OnFloorReached, Typed
    <3>2. CASE panel # "none"
      BY <1>11, <3>2, FloorShown DEF Typed
    <3> QED  BY <3>1, <3>2
  <2> QED  BY <1>11, <2>1, <2>2
           DEF OnFloorReached, Handle, Typed, pressVars, gdVars, screenVars
<1>12. ASSUME NEW i \in DOMAIN fromEC, OnElevatorDirectionChange(i)
       PROVE  TypeInv'
  <2>1. InBuilding' /\ fromEC' \in Seq(ECNews)
    BY <1>12, CarStays, Handled DEF OnElevatorDirectionChange, Handle, Sampled
  <2>2. edt' \in Seq(Runs) /\ pair' \in Byte \X Direction /\ fatal' \in BOOLEAN
    <3>1. CASE panel = "none"
      BY <1>12, <3>1 DEF OnElevatorDirectionChange, Typed
    <3>2. CASE panel # "none"
      BY <1>12, <3>2, DirectionShown DEF Typed
    <3> QED  BY <3>1, <3>2
  <2> QED  BY <1>12, <2>1, <2>2
           DEF OnElevatorDirectionChange, Handle, Typed, pressVars, gdVars, screenVars
<1>13. ASSUME NEW i \in DOMAIN fromGD, OnHallCallServiced(i)
       PROVE  TypeInv'
  <2>1. InBuilding' /\ fromGD' \in Seq(GDNews)
    BY <1>13, CarStays, HandledGD DEF OnHallCallServiced, HandleGD, Sampled
  <2>2. edt' \in Seq(Runs) /\ fatal' \in BOOLEAN
    <3>1. CASE fromGD[i][2][1] \in 1 .. TopFloor
      <4>1. fromGD[i][2] \in Buttons
        <5>1. fromGD[i][2] \in Floor \X Direction
          BY <1>13, HandledGD, KindsOfNews DEF OnHallCallServiced
        <5>2. fromGD[i][2] \in (1 .. TopFloor) \X Direction
          BY <3>1, <5>1
        <5> QED  BY <5>2 DEF Buttons
      <4>2. <<"enable", fromGD[i][2]>> \in Runs /\ edt \in Seq(Runs)
        BY <4>1, KindsOfRuns DEF Typed
      <4>3. edt' = Append(edt, <<"enable", fromGD[i][2]>>) /\ fatal' = fatal
        BY <1>13, <3>1 DEF OnHallCallServiced
      <4> QED  BY <4>2, <4>3, AppendProperties DEF Typed
    <3>2. CASE fromGD[i][2][1] \notin 1 .. TopFloor
      BY <1>13, <3>2 DEF OnHallCallServiced, Typed
    <3> QED  BY <3>1, <3>2
  <2> QED  BY <1>13, <2>1, <2>2
           DEF OnHallCallServiced, HandleGD, Typed, pressVars, screenVars
<1>14. ASSUME NEW i \in DOMAIN fromGD, OnElevatorError(i)
       PROVE  TypeInv'
  <2>1. InBuilding' /\ fromGD' \in Seq(GDNews)
    BY <1>14, CarStays, HandledGD DEF OnElevatorError, HandleGD, Sampled
  <2>2. edt' \in Seq(Runs) /\ fatal' \in BOOLEAN
    <3>1. <<"remove">> \in Runs /\ edt \in Seq(Runs) /\ fatal \in BOOLEAN
      BY KindsOfRuns DEF Typed
    <3>2. Append(edt, <<"remove">>) \in Seq(Runs)
      BY <3>1, AppendProperties
    <3> QED  BY <1>14, <3>1, <3>2 DEF OnElevatorError
  <2> QED  BY <1>14, <2>1, <2>2
           DEF OnElevatorError, HandleGD, Typed, pressVars, screenVars
<1>15. ASSUME NEW b \in HallButtons, PressHallButton(b)
       PROVE  TypeInv'
  <2>1. InBuilding'
    BY <1>15, CarStays DEF PressHallButton, Sampled
  <2>2. toGD' \in Seq(HallButtons)
    BY <1>15, AppendProperties DEF PressHallButton, Typed
  <2>3. /\ dark' \in SUBSET (HallButtons \cup FloorButtons)
        /\ excused' \in SUBSET (HallButtons \cup FloorButtons)
    BY <1>15 DEF PressHallButton, Typed
  <2> QED  BY <1>15, <2>1, <2>2, <2>3 DEF PressHallButton, Typed, gdVars
<1>16. ASSUME NEW b \in FloorButtons, PressFloorButton(b)
       PROVE  TypeInv'
  <2>1. InBuilding'
    BY <1>16, CarStays DEF PressFloorButton, Sampled
  <2>2. toEC' \in Seq(FloorButtons) /\ edt' \in Seq(Runs)
    BY <1>16, KindsOfRuns, AppendProperties DEF PressFloorButton, Typed
  <2>3. excused' \in SUBSET (HallButtons \cup FloorButtons)
    BY <1>16 DEF PressFloorButton, Typed
  <2> QED  BY <1>16, <2>1, <2>2, <2>3 DEF PressFloorButton, Typed, gdVars, screenVars
<1>17. CASE RunNext
  <2>1. InBuilding'
    BY <1>17, CarStays DEF RunNext, Sampled
  <2>2. /\ edt' \in Seq(Runs) /\ Head(edt) \in Runs
    <3>1. edt \in Seq(Runs) /\ edt # <<>> /\ edt' = Tail(edt)
      BY <1>17 DEF RunNext, Typed
    <3> QED  BY <3>1, ButFirst
  <2> DEFINE run == Head(edt)
  <2>3. /\ panel' \in {"none", "shown", "removed"}
        /\ shown' \in Byte \X Direction
        /\ dark' \in SUBSET (HallButtons \cup FloorButtons)
        /\ excused' \in SUBSET (HallButtons \cup FloorButtons)
    <3>1. CASE run[1] = "addElevatorPanel"
      BY <1>17, <3>1 DEF RunNext, Typed
    <3>2. CASE run[1] = "remove"
      BY <1>17, <3>2 DEF RunNext, Typed
    <3>3. CASE run[1] = "setText"
      BY <1>17, <2>2, <3>3, KindsOfRuns DEF RunNext, Typed
    <3>4. CASE run[1] = "darken"
      BY <1>17, <2>2, <3>4, KindsOfRuns DEF RunNext, Typed
    <3>5. CASE run[1] = "enable"
      BY <1>17, <3>5 DEF RunNext, Typed
    <3> QED  BY <2>2, <3>1, <3>2, <3>3, <3>4, <3>5, KindsOfRuns
  <2> QED  BY <1>17, <2>1, <2>2, <2>3 DEF RunNext, Typed, pressVars, gdVars
<1> QED  BY <1>1, <1>2, <1>3, <1>4, <1>5, <1>6, <1>7, <1>8, <1>9, <1>10, <1>11,
            <1>12, <1>13, <1>14, <1>15, <1>16, <1>17 DEF Next

-----------------------------------------------------------------------------
(* The panel comes before the news. *)

LEMMA ButtonsDiffer == HallButtons \cap FloorButtons = {}
<1>1. \A b \in HallButtons : b = <<b[1], b[2]>>
  BY Parameters
<1>2. \A b \in FloorButtons : b = <<b[1]>>
  BY Parameters
<1>3. \A x, y, z : <<x, y>> # <<z>>
  OBVIOUS
<1> QED  BY <1>1, <1>2, <1>3

LEMMA NotifiedRange ==
    ASSUME TypeInv, Notify, InBuilding'
    PROVE  /\ Range(fromEC) \subseteq Range(fromEC')
           /\ <<"registration">> \in Range(fromEC') => <<"registration">> \in Range(fromEC)
           /\ CurrentFloor' # CurrentFloor => <<"floor", CurrentFloor'>> \in Range(fromEC')
<1>1. PICK f \in Byte, q \in Seq(ECNews), r \in Seq(ECNews) :
         /\ q = IF f # CurrentFloor THEN Append(fromEC, <<"floor", f>>) ELSE fromEC
         /\ r = IF CurrentFloor' # f THEN Append(q, <<"floor", CurrentFloor'>>) ELSE q
         /\ fromEC' = IF direction' # direction
                        THEN Append(r, <<"direction", direction'>>) ELSE r
  BY Notified
<1> DEFINE v == <<"floor", f>>
           x == <<"floor", CurrentFloor'>>
           y == <<"direction", direction'>>
<1>2. v \in ECNews /\ x \in ECNews /\ y \in ECNews
  <2>1. CurrentFloor' \in Byte /\ direction' \in Direction
    BY FloorInBuilding, Parameters DEF InBuilding, CarTypeOK, CurrentFloor
  <2> QED  BY <2>1, KindsOfNews
<1>3. <<"registration">> \notin {v, x, y} /\ (CurrentFloor' = f => x = v)
  OBVIOUS
<1>4. fromEC \in Seq(ECNews)
  BY DEF TypeInv, Typed
<1>5. /\ q = IF f # CurrentFloor THEN Append(fromEC, v) ELSE fromEC
      /\ r = IF CurrentFloor' # f THEN Append(q, x) ELSE q
      /\ fromEC' = IF direction' # direction THEN Append(r, y) ELSE r
  BY <1>1
<1> HIDE DEF v, x, y
<1>6. Range(Append(fromEC, v)) = Range(fromEC) \cup {v}
  BY <1>2, <1>4, Sent
<1>7. Range(Append(q, x)) = Range(q) \cup {x}
  BY <1>2, Sent
<1>8. Range(Append(r, y)) = Range(r) \cup {y}
  BY <1>2, Sent
<1>9. /\ Range(q) = Range(fromEC) \cup (IF f # CurrentFloor THEN {v} ELSE {})
      /\ Range(r) = Range(q) \cup (IF CurrentFloor' # f THEN {x} ELSE {})
      /\ Range(fromEC') = Range(r) \cup (IF direction' # direction THEN {y} ELSE {})
  BY <1>5, <1>6, <1>7, <1>8
<1>10. CurrentFloor' # CurrentFloor => x \in Range(fromEC')
  BY <1>3, <1>9
<1> QED  BY <1>3, <1>9, <1>10 DEF x

LEMMA PanelKept ==
    ASSUME PanelInv, panel' = panel, life' = life,
           Range(edt) \subseteq Range(edt'),
           \A b \in FloorButtons :
              <<"darken", b>> \in Range(edt') => <<"darken", b>> \in Range(edt),
           dark' \cap FloorButtons \subseteq dark,
           life \in {"off", "registering"} => fromEC' = fromEC,
           <<"registration">> \in Range(fromEC') => <<"registration">> \in Range(fromEC),
           <<"removed">> \in Range(fromGD') => <<"removed">> \in Range(fromGD)
    PROVE  PanelInv'
BY DEF PanelInv, Registered, Ordered

LEMMA PanelStep ==
    ASSUME TypeInv, PanelInv, Next
    PROVE  PanelInv'
<1>0. /\ fromEC \in Seq(ECNews) /\ fromGD \in Seq(GDNews) /\ edt \in Seq(Runs)
  BY DEF TypeInv, Typed
<1>1. CASE ConnectToGD
  <2>1. fromEC = <<>> /\ life = "off"
    BY <1>1 DEF ConnectToGD, PanelInv
  <2>2. fromEC' = <<<<"registration">>>> /\ life' = "registering"
    BY <1>1, <2>1 DEF ConnectToGD
  <2>3. UNCHANGED <<panel, edt, dark, fromGD>>
    BY <1>1 DEF ConnectToGD, gdVars, screenVars
  <2> QED  BY <2>1, <2>2, <2>3 DEF PanelInv, Registered
<1>2. CASE OnElevatorRegister
  <2>1. fromEC = <<<<"registration">>>> /\ life' = "started"
    BY <1>2 DEF OnElevatorRegister, PanelInv
  <2>2. fromEC' = <<>> /\ Range(fromEC') = {}
    BY <1>2, <2>1 DEF OnElevatorRegister, Range
  <2>3. Range(edt') = Range(edt) \cup {<<"addElevatorPanel">>}
    BY <1>0, <1>2, KindsOfRuns, Queued DEF OnElevatorRegister
  <2>4. UNCHANGED <<panel, dark, fromGD>> /\ life # "removed"
    BY <1>2 DEF OnElevatorRegister, gdVars, screenVars
  <2> QED  BY <2>1, <2>2, <2>3, <2>4 DEF PanelInv, Registered, Ordered
<1>3. CASE FirstSample
  <2>1. life = "started" /\ life' = "running" /\ UNCHANGED <<panel, edt, dark, fromGD>>
    BY <1>3 DEF FirstSample, gdVars, screenVars
  <2>2. Range(fromEC') = Range(fromEC) \cup {<<"floor", CurrentFloor>>}
    <3>1. <<"floor", CurrentFloor>> \in ECNews
      BY CurrentInBuilding, KindsOfNews DEF TypeInv
    <3> QED  BY <1>0, <1>3, <3>1, AppendOne DEF FirstSample
  <2> QED  BY <2>1, <2>2 DEF PanelInv, Registered, Ordered
<1>4. CASE FloorRun \/ CarMoves
  <2>1. InBuilding' /\ Notify /\ Sampled
    BY <1>4, FloorRunStays, CarMovesOn DEF FloorRun, CarMoves
  <2>2. UNCHANGED <<panel, edt, dark, fromGD, life>>
    BY <1>4 DEF FloorRun, CarMoves, carRest, gdVars, screenVars
  <2> QED  BY <2>1, <2>2, NotifiedRange, PanelKept DEF Sampled
<1>5. CASE Serve \/ AddFloorSelection
  <2>1. UNCHANGED <<panel, edt, dark, fromGD, life, fromEC>>
    BY <1>5 DEF Serve, AddFloorSelection, carRest, gdVars, screenVars
  <2> QED  BY <2>1, PanelKept
<1>6. CASE OnHallCall
  <2>1. UNCHANGED <<panel, dark, fromGD, life, fromEC>>
    BY <1>6 DEF OnHallCall, gdVars, screenVars
  <2>2. edt' = edt \/ Range(edt') = Range(edt) \cup {<<"enable", Head(toGD)>>}
    <3>1. Head(toGD) \in HallButtons
      <4>1. toGD \in Seq(HallButtons) /\ toGD # <<>>
        BY <1>6 DEF OnHallCall, TypeInv, Typed
      <4> QED  BY <4>1, ButFirst
    <3>2. <<"enable", Head(toGD)>> \in Runs
      BY <3>1, Parameters, KindsOfRuns
    <3> QED  BY <1>0, <1>6, <3>2, Queued DEF OnHallCall
  <2> QED  BY <2>1, <2>2, PanelKept
<1>7. CASE UpdateECStatus
  <2>1. UNCHANGED <<panel, edt, dark, life, fromEC>>
    BY <1>7 DEF UpdateECStatus, screenVars
  <2>2. <<"removed">> \in Range(fromGD') => <<"removed">> \in Range(fromGD)
    <3> DEFINE floor == IF Sampled THEN CurrentFloor ELSE 0
               news == <<"serviced", <<floor, direction>>>>
    <3>1. <<floor, direction>> \in Floor \X Direction
      BY CurrentInBuilding, Parameters DEF TypeInv
    <3>2. fromGD' = Append(fromGD, news) \/ fromGD' = fromGD
      BY <1>7 DEF UpdateECStatus, HallCallServiced
    <3>3. news \in GDNews /\ news # <<"removed">>
      BY <3>1, KindsOfNews
    <3> HIDE DEF news
    <3>4. Range(Append(fromGD, news)) = Range(fromGD) \cup {news}
      BY <1>0, <3>3, AppendOne
    <3> QED  BY <3>2, <3>3, <3>4
  <2> QED  BY <2>1, <2>2, PanelKept
<1>8. CASE RemoveElevator
  <2>1. UNCHANGED <<panel, dark, fromEC>> /\ life' = "removed" /\ Known
        /\ (life = "running" \/ "earlyRemoval" \in Races)
    BY <1>8 DEF RemoveElevator, screenVars
  <2>2. PICK more \in Seq(Runs) :
           edt' = edt \o more /\ \A run \in Range(more) : run[1] = "enable"
    BY <1>8, CallsRelit
  <2>3. Range(edt') = Range(edt) \cup Range(more)
    BY <1>0, <2>2, ConcatRange
  <2>4. \A b : <<"darken", b>> \notin Range(more)
    BY <2>2
  <2> QED  BY <2>1, <2>3, <2>4 DEF PanelInv, Registered, Ordered
<1>9. ASSUME NEW i \in DOMAIN fromEC,
             OnFloorReached(i) \/ OnElevatorDirectionChange(i)
      PROVE  PanelInv'
  <2>1. UNCHANGED <<panel, dark, fromGD, life>> /\ Handle(i)
    BY <1>9 DEF OnFloorReached, OnElevatorDirectionChange, Handle, gdVars, screenVars
  <2>2. life \notin {"off", "registering"}
    <3>1. fromEC[i] # <<"registration">>
      BY <2>1 DEF Handle
    <3> QED  BY <3>1 DEF PanelInv
  <2>3. Range(fromEC') \subseteq Range(fromEC)
    BY <2>1, Handled
  <2>4. /\ Range(edt) \subseteq Range(edt')
        /\ \A b : <<"darken", b>> \in Range(edt') => <<"darken", b>> \in Range(edt)
    BY <1>9, ShownRange
  <2> QED  BY <2>1, <2>2, <2>3, <2>4, PanelKept
<1>10. ASSUME NEW i \in DOMAIN fromGD, OnHallCallServiced(i) \/ OnElevatorError(i)
       PROVE  PanelInv'
  <2>1. UNCHANGED <<panel, dark, fromEC, life>> /\ HandleGD(i)
    BY <1>10 DEF OnHallCallServiced, OnElevatorError, HandleGD, screenVars
  <2>2. Range(fromGD') \subseteq Range(fromGD)
    BY <2>1, HandledGD
  <2>3. \/ edt' = edt
        \/ \E run \in Runs : run[1] # "darken" /\ edt' = Append(edt, run)
    BY <1>10, NewsOfGD
  <2>4. /\ Range(edt) \subseteq Range(edt')
        /\ \A b : <<"darken", b>> \in Range(edt') => <<"darken", b>> \in Range(edt)
    <3>1. CASE edt' = edt
      BY <3>1
    <3>2. ASSUME NEW run \in Runs, run[1] # "darken", edt' = Append(edt, run)
          PROVE  Range(edt') = Range(edt) \cup {run} /\ \A b : <<"darken", b>> # run
      BY <1>0, <3>2, Queued
    <3> QED  BY <2>3, <3>1, <3>2
  <2> QED  BY <2>1, <2>2, <2>4, PanelKept
<1>11. ASSUME NEW b \in HallButtons, PressHallButton(b)
       PROVE  PanelInv'
  <2>1. UNCHANGED <<panel, edt, fromGD, life, fromEC>> /\ dark' = dark \cup {b}
    BY <1>11 DEF PressHallButton, gdVars
  <2> QED  BY <2>1, ButtonsDiffer, PanelKept
<1>12. ASSUME NEW b \in FloorButtons, PressFloorButton(b)
       PROVE  PanelInv'
  <2>1. UNCHANGED <<panel, fromGD, life, fromEC>> /\ panel = "shown"
    BY <1>12 DEF PressFloorButton, gdVars, screenVars
  <2> QED  BY <2>1 DEF PanelInv, Registered, Ordered
<1>13. CASE RunNext
  <2> DEFINE run == Head(edt)
  <2>1. /\ UNCHANGED <<fromGD, life, fromEC>> /\ edt # <<>> /\ edt' = Tail(edt)
    BY <1>13 DEF RunNext, gdVars
  <2>2. Range(edt) = {run} \cup Range(edt') /\ run \in Runs
    BY <1>0, <2>1, ButFirst
  <2>3. CASE run[1] = "addElevatorPanel"
    <3>1. panel' = "shown"
      BY <1>13, <2>3 DEF RunNext
    <3> QED  BY <2>1, <3>1 DEF PanelInv, Registered, Ordered
  <2>4. CASE run[1] = "remove"
    <3>1. panel' = "removed"
      BY <1>13, <2>4 DEF RunNext
    <3> QED  BY <2>1, <3>1 DEF PanelInv, Registered, Ordered
  <2>5. CASE run[1] \in {"setText", "enable"}
    <3>1. panel' = panel /\ dark' \subseteq dark
      BY <1>13, <2>5 DEF RunNext
    <3>2. run # <<"addElevatorPanel">>
      BY <2>5
    <3> HIDE DEF run
    <3> QED  BY <2>1, <2>2, <3>1, <3>2 DEF PanelInv, Registered, Ordered
  <2>6. CASE run[1] = "darken"
    <3>1. panel' = panel
      BY <1>13, <2>6 DEF RunNext
    <3>2. run[2] \in FloorButtons /\ run = <<"darken", run[2]>>
      BY <2>2, <2>6, KindsOfRuns
    <3>3. panel # "none"
      BY <2>2, <3>2 DEF PanelInv
    <3> QED  BY <2>1, <3>1, <3>3 DEF PanelInv, Registered, Ordered
  <2> QED  BY <2>2, <2>3, <2>4, <2>5, <2>6, KindsOfRuns
<1> QED  BY <1>1, <1>2, <1>3, <1>4, <1>5, <1>6, <1>7, <1>8, <1>9, <1>10, <1>11,
            <1>12, <1>13 DEF Next

-----------------------------------------------------------------------------
(* Floor buttons. *)

LEMMA RelitLast ==
    ASSUME NEW queue \in Seq(Runs), NEW b \in Buttons
    PROVE  Relights(Append(queue, <<"enable", b>>), b)
<1> DEFINE run == <<"enable", b>>
           t == Append(queue, run)
           n == Len(queue)
<1>1. run \in Runs
  BY KindsOfRuns
<1> HIDE DEF run
<1>2. n \in Nat /\ DOMAIN t = 1 .. n + 1 /\ t[n + 1] = run
  BY <1>1, Queued
<1> HIDE DEF t, n
<1> QED  BY <1>2 DEF Relights, t, run

LEMMA RelitStays ==
    ASSUME NEW queue \in Seq(Runs), NEW run \in Runs, NEW b,
           run # <<"darken", b>>, Relights(queue, b)
    PROVE  Relights(Append(queue, run), b)
<1> DEFINE t == Append(queue, run)
           n == Len(queue)
<1>1. /\ n \in Nat /\ DOMAIN queue = 1 .. n /\ DOMAIN t = 1 .. n + 1
      /\ t[n + 1] = run /\ \A i \in 1 .. n : t[i] = queue[i]
  BY Queued
<1> HIDE DEF t, n
<1>2. PICK i \in 1 .. n :
         /\ queue[i] = <<"enable", b>>
         /\ \A j \in 1 .. n : j > i => queue[j] # <<"darken", b>>
  BY <1>1 DEF Relights
<1>3. t[i] = <<"enable", b>> /\ i \in 1 .. n + 1
  BY <1>1, <1>2
<1>4. \A j \in 1 .. n + 1 : j > i => t[j] # <<"darken", b>>
  <2> SUFFICES ASSUME NEW j \in 1 .. n + 1, j > i PROVE t[j] # <<"darken", b>>
    OBVIOUS
  <2>1. CASE j = n + 1
    BY <1>1, <2>1
  <2>2. CASE j # n + 1
    <3>1. j \in 1 .. n /\ t[j] = queue[j]
      BY <1>1, <2>2
    <3> QED  BY <1>2, <3>1
  <2> QED  BY <2>1, <2>2
<1>5. Relights(t, b)
  BY <1>1, <1>3, <1>4 DEF Relights
<1> QED  BY <1>5 DEF t

LEMMA RelitThroughout ==
    ASSUME NEW queue \in Seq(Runs), NEW more \in Seq(Runs), NEW b,
           \A run \in Range(more) : run[1] = "enable", Relights(queue, b)
    PROVE  Relights(queue \o more, b)
<1> DEFINE t == queue \o more
           n == Len(queue)
           m == Len(more)
<1>1. /\ n \in Nat /\ m \in Nat /\ DOMAIN queue = 1 .. n /\ DOMAIN t = 1 .. n + m
      /\ \A i \in 1 .. n + m : t[i] = IF i <= n THEN queue[i] ELSE more[i - n]
  <2>1. /\ t \in Seq(Runs) /\ Len(t) = n + m /\ n \in Nat /\ m \in Nat
        /\ \A i \in 1 .. n + m : t[i] = IF i <= n THEN queue[i] ELSE more[i - n]
    BY ConcatProperties, LenProperties
  <2> QED  BY <2>1, LenProperties
<1>2. \A i \in 1 .. m : more[i] # <<"darken", b>>
  <2>1. \A i \in 1 .. m : more[i] \in Range(more)
    BY RangeOf
  <2> QED  BY <2>1
<1> HIDE DEF t, n, m
<1>3. PICK i \in 1 .. n :
         /\ queue[i] = <<"enable", b>>
         /\ \A j \in 1 .. n : j > i => queue[j] # <<"darken", b>>
  BY <1>1 DEF Relights
<1>4. t[i] = <<"enable", b>> /\ i \in 1 .. n + m
  BY <1>1, <1>3
<1>5. \A j \in 1 .. n + m : j > i => t[j] # <<"darken", b>>
  <2> SUFFICES ASSUME NEW j \in 1 .. n + m, j > i PROVE t[j] # <<"darken", b>>
    OBVIOUS
  <2>1. CASE j <= n
    BY <1>1, <1>3, <2>1
  <2>2. CASE ~ (j <= n)
    <3>1. t[j] = more[j - n] /\ j - n \in 1 .. m
      BY <1>1, <2>2
    <3> QED  BY <1>2, <3>1
  <2> QED  BY <2>1, <2>2
<1>6. Relights(t, b)
  BY <1>1, <1>4, <1>5 DEF Relights
<1> QED  BY <1>6 DEF t

LEMMA RelitNext ==
    ASSUME NEW queue \in Seq(Runs), queue # <<>>, NEW b, Relights(queue, b)
    PROVE  \/ Relights(Tail(queue), b)
           \/ /\ Head(queue) = <<"enable", b>>
              /\ <<"darken", b>> \notin Range(Tail(queue))
<1> DEFINE t == Tail(queue)
           n == Len(queue)
<1>1. /\ n \in Nat /\ DOMAIN queue = 1 .. n /\ DOMAIN t = 1 .. n - 1
      /\ \A i \in 1 .. n - 1 : t[i] = queue[i + 1]
      /\ Head(queue) = queue[1] /\ t \in Seq(Runs)
  BY ButFirst
<1>2. PICK i \in 1 .. n :
         /\ queue[i] = <<"enable", b>>
         /\ \A j \in 1 .. n : j > i => queue[j] # <<"darken", b>>
  BY <1>1 DEF Relights
<1>3. CASE i = 1
  <2>1. \A j \in 1 .. n - 1 : t[j] # <<"darken", b>>
    <3> SUFFICES ASSUME NEW j \in 1 .. n - 1 PROVE t[j] # <<"darken", b>>
      OBVIOUS
    <3>1. t[j] = queue[j + 1] /\ j + 1 \in 1 .. n /\ j + 1 > i
      BY <1>1, <1>3
    <3> QED  BY <1>2, <3>1
  <2>2. <<"darken", b>> \notin Range(t)
    BY <1>1, <2>1 DEF Range
  <2> QED  BY <1>1, <1>2, <1>3, <2>2
<1>4. CASE i # 1
  <2> HIDE DEF t, n
  <2>1. i - 1 \in 1 .. n - 1 /\ t[i - 1] = <<"enable", b>>
    <3>1. i - 1 \in 1 .. n - 1 /\ (i - 1) + 1 = i
      BY <1>1, <1>4
    <3>2. t[i - 1] = queue[(i - 1) + 1]
      BY <1>1, <3>1
    <3> QED  BY <1>2, <3>1, <3>2
  <2>2. \A j \in 1 .. n - 1 : j > i - 1 => t[j] # <<"darken", b>>
    <3> SUFFICES ASSUME NEW j \in 1 .. n - 1, j > i - 1 PROVE t[j] # <<"darken", b>>
      OBVIOUS
    <3>1. t[j] = queue[j + 1] /\ j + 1 \in 1 .. n /\ j + 1 > i
      BY <1>1, <1>2
    <3> QED  BY <1>2, <3>1
  <2>3. Relights(t, b)
    BY <1>1, <2>1, <2>2 DEF Relights
  <2> QED  BY <2>3 DEF t
<1> QED  BY <1>3, <1>4

LEMMA FloorButtonStep ==
    ASSUME TypeInv, TypeInv', PanelInv, FloorButtonInv, Next
    PROVE  FloorButtonInv'
<1>0. /\ fromEC \in Seq(ECNews) /\ fromGD \in Seq(GDNews) /\ edt \in Seq(Runs)
  BY DEF TypeInv, Typed
<1>1. CASE ConnectToGD \/ FirstSample \/ UpdateECStatus
  <2>1. UNCHANGED <<dark, edt, excused, toEC, asked, position>>
    BY <1>1 DEF ConnectToGD, FirstSample, UpdateECStatus, screenVars, pressVars, carVars
  <2>2. Range(fromEC) \subseteq Range(fromEC')
    <3>1. <<"floor", CurrentFloor>> \in ECNews
      BY CurrentInBuilding, KindsOfNews DEF TypeInv
    <3>2. \A x \in ECNews : Range(Append(fromEC, x)) = Range(fromEC) \cup {x}
      BY <1>0, Sent
    <3> QED  BY <1>1, <3>1, <3>2, KindsOfNews
             DEF ConnectToGD, FirstSample, UpdateECStatus
  <2> QED  BY <2>1, <2>2 DEF FloorButtonInv, Darkened, Waiting, Relit, CurrentFloor
<1>2. CASE OnElevatorRegister
  <2>1. UNCHANGED <<dark, excused, toEC, asked, position>> /\ life = "registering"
        /\ edt' = Append(edt, <<"addElevatorPanel">>)
    BY <1>2 DEF OnElevatorRegister, screenVars, pressVars, carVars
  <2>2. \A b : <<"floor", b[1]>> \notin Range(fromEC)
    BY <2>1 DEF PanelInv, Range
  <2>3. Range(edt') = Range(edt) \cup {<<"addElevatorPanel">>}
    BY <1>0, <2>1, Queued, KindsOfRuns
  <2>4. \A b : Relit(b) => Relit(b)'
    BY <1>0, <2>1, RelitStays, KindsOfRuns DEF Relit
  <2> QED  BY <2>1, <2>2, <2>3, <2>4 DEF FloorButtonInv, Darkened, Waiting, CurrentFloor
<1>3. CASE FloorRun \/ CarMoves
  <2>1. InBuilding' /\ Notify
    BY <1>3, FloorRunStays, CarMovesOn DEF FloorRun, CarMoves
  <2>2. UNCHANGED <<dark, edt, excused, toEC, asked>>
    BY <1>3 DEF FloorRun, CarMoves, carRest, screenVars, pressVars
  <2>3. /\ Range(fromEC) \subseteq Range(fromEC')
        /\ CurrentFloor' # CurrentFloor => <<"floor", CurrentFloor'>> \in Range(fromEC')
    BY <2>1, NotifiedRange
  <2> QED  BY <2>2, <2>3 DEF FloorButtonInv, Darkened, Waiting, Relit
<1>4. CASE Serve
  <2>1. UNCHANGED <<dark, edt, toEC, fromEC, position>> /\ excused \subseteq excused'
    BY <1>4 DEF Serve, carRest, screenVars, pressVars, carVars
  <2>2. \A b \in asked : CurrentFloor # b[1] => b \in asked'
    BY <1>4 DEF Serve
  <2> QED  BY <2>1, <2>2 DEF FloorButtonInv, Darkened, Waiting, Relit, CurrentFloor
<1>5. CASE AddFloorSelection
  <2>1. UNCHANGED <<dark, edt, excused, fromEC, position>>
    BY <1>5 DEF AddFloorSelection, screenVars, carVars
  <2>2. Range(toEC) \cup asked \subseteq Range(toEC') \cup asked'
    <3>1. toEC \in Seq(FloorButtons) /\ toEC # <<>>
      BY <1>5 DEF AddFloorSelection, TypeInv, Typed
    <3>2. Range(toEC) = {Head(toEC)} \cup Range(Tail(toEC))
      BY <3>1, ButFirst
    <3> QED  BY <1>5, <3>2 DEF AddFloorSelection
  <2> QED  BY <2>1, <2>2 DEF FloorButtonInv, Darkened, Waiting, Relit, CurrentFloor
<1>6. CASE OnHallCall
  <2>1. UNCHANGED <<dark, excused, fromEC, position, toEC>> /\ asked \subseteq asked'
    BY <1>6 DEF OnHallCall, screenVars, carVars
  <2>2. Head(toGD) \in HallButtons
    <3>1. toGD \in Seq(HallButtons) /\ toGD # <<>>
      BY <1>6 DEF OnHallCall, TypeInv, Typed
    <3> QED  BY <3>1, ButFirst
  <2> DEFINE run == <<"enable", Head(toGD)>>
  <2>3. run \in Runs /\ \A b : run # <<"darken", b>>
    BY <2>2, Parameters, KindsOfRuns
  <2>4. edt' = edt \/ edt' = Append(edt, run)
    BY <1>6 DEF OnHallCall
  <2> HIDE DEF run
  <2>5. Range(Append(edt, run)) = Range(edt) \cup {run}
    BY <1>0, <2>3, Queued
  <2>6. \A b : Relit(b) => Relit(b)'
    BY <1>0, <2>3, <2>4, RelitStays DEF Relit
  <2>7. \A b : Darkened(b)' => Darkened(b)
    <3>1. Range(edt') \subseteq Range(edt) \cup {run}
      BY <2>4, <2>5
    <3> QED  BY <2>1, <2>3, <3>1 DEF Darkened
  <2>8. \A b : Waiting(b) => Waiting(b)'
    BY <2>1, <2>6 DEF Waiting, CurrentFloor
  <2> QED  BY <2>1, <2>7, <2>8 DEF FloorButtonInv
<1>7. CASE RemoveElevator
  <2>1. UNCHANGED <<dark, fromEC, position, toEC, asked>> /\ excused \subseteq excused'
    BY <1>7 DEF RemoveElevator, screenVars, carVars, pressVars
  <2>2. PICK more \in Seq(Runs) :
           edt' = edt \o more /\ \A run \in Range(more) : run[1] = "enable"
    BY <1>7, CallsRelit
  <2>3. Range(edt') = Range(edt) \cup Range(more)
    BY <1>0, <2>2, ConcatRange
  <2>4. \A b : <<"darken", b>> \notin Range(more)
    BY <2>2
  <2>5. \A b : Relit(b) => Relit(b)'
    BY <1>0, <2>2, RelitThroughout DEF Relit
  <2> QED  BY <2>1, <2>3, <2>4, <2>5 DEF FloorButtonInv, Darkened, Waiting, CurrentFloor
<1>8. ASSUME NEW i \in DOMAIN fromEC, OnFloorReached(i) \/ OnElevatorDirectionChange(i)
      PROVE  FloorButtonInv'
  <2>1. UNCHANGED <<dark, excused, toEC, asked, position>> /\ Handle(i)
    BY <1>8 DEF OnFloorReached, OnElevatorDirectionChange, Handle, screenVars, pressVars,
               carVars
  <2>2. Range(fromEC) \subseteq Range(fromEC') \cup {fromEC[i]}
    BY <2>1, Handled
  <2>3. CASE panel = "none"
    <3>1. edt' = edt
      BY <1>8, <2>3 DEF OnFloorReached, OnElevatorDirectionChange
    <3>2. \A b \in FloorButtons : ~Darkened(b)'
      BY <2>1, <2>3, <3>1 DEF PanelInv, Darkened
    <3> QED  BY <3>2 DEF FloorButtonInv
  <2>4. CASE panel # "none" /\ OnFloorReached(i)
    <3> DEFINE f == fromEC[i][2]
               x == <<"enable", <<f>>>>
               y == <<"setText", pair'>>
               q == Append(edt, x)
    <3>1. /\ q \in Seq(Runs) /\ edt' = Append(q, y) /\ x \in Runs /\ y \in Runs
          /\ f \in Byte /\ fromEC[i] = <<"floor", f>>
      BY <2>4, FloorShown
    <3>2. \A b : <<"darken", b>> # x /\ <<"darken", b>> # y
      OBVIOUS
    <3>3. Relights(q, <<f>>)
      <4>1. <<f>> \in Buttons
        BY <3>1 DEF Buttons
      <4> HIDE DEF f
      <4> QED  BY <1>0, <4>1, RelitLast
    <3>4. \A b \in FloorButtons : <<"floor", b[1]>> = fromEC[i] => b = <<f>>
      BY <3>1, Parameters
    <3> HIDE DEF x, y, f
    <3>5. Range(q) = Range(edt) \cup {x}
      BY <1>0, <3>1, Queued
    <3>6. \A b : Relights(edt, b) => Relights(q, b)
      BY <1>0, <3>1, <3>2, RelitStays
    <3> HIDE DEF q
    <3>7. Range(edt') = Range(q) \cup {y}
      BY <3>1, Queued
    <3>8. \A b : Relights(q, b) => Relit(b)'
      BY <3>1, <3>2, RelitStays DEF Relit
    <3>9. \A b \in FloorButtons : Darkened(b)' => Darkened(b)
      BY <2>1, <3>2, <3>5, <3>7 DEF Darkened
    <3>10. \A b \in FloorButtons : Waiting(b) => Waiting(b)'
      <4> SUFFICES ASSUME NEW b \in FloorButtons, Waiting(b) PROVE Waiting(b)'
        OBVIOUS
      <4>1. CASE b \in Range(toEC) \cup asked /\ CurrentFloor # b[1]
        BY <2>1, <4>1 DEF Waiting, CurrentFloor
      <4>2. CASE <<"floor", b[1]>> \in Range(fromEC)
        BY <2>2, <3>3, <3>4, <3>8, <4>2 DEF Waiting
      <4>3. CASE Relit(b)
        BY <3>6, <3>8, <4>3 DEF Waiting, Relit
      <4> QED  BY <4>1, <4>2, <4>3 DEF Waiting
    <3> QED  BY <2>1, <3>9, <3>10 DEF FloorButtonInv
  <2>5. CASE panel # "none" /\ OnElevatorDirectionChange(i)
    <3> DEFINE y == <<"setText", pair'>>
    <3>1. /\ edt' = Append(edt, y) /\ y \in Runs
          /\ \A b : fromEC[i] # <<"floor", b>>
      BY <2>5, DirectionShown
    <3>2. \A b : <<"darken", b>> # y
      OBVIOUS
    <3> HIDE DEF y
    <3>3. Range(edt') = Range(edt) \cup {y}
      BY <1>0, <3>1, Queued
    <3>4. \A b : Relit(b) => Relit(b)'
      BY <1>0, <3>1, <3>2, RelitStays DEF Relit
    <3> QED  BY <2>1, <2>2, <3>1, <3>2, <3>3, <3>4
             DEF FloorButtonInv, Darkened, Waiting, CurrentFloor
  <2> QED  BY <1>8, <2>3, <2>4, <2>5
<1>9. ASSUME NEW i \in DOMAIN fromGD, OnHallCallServiced(i) \/ OnElevatorError(i)
      PROVE  FloorButtonInv'
  <2>1. UNCHANGED <<dark, excused, fromEC, position, toEC, asked>>
    BY <1>9 DEF OnHallCallServiced, OnElevatorError, HandleGD, screenVars, carVars,
               pressVars
  <2>2. CASE edt' = edt
    BY <2>1, <2>2 DEF FloorButtonInv, Darkened, Waiting, Relit, CurrentFloor
  <2>3. ASSUME NEW run \in Runs, run[1] # "darken", edt' = Append(edt, run)
        PROVE  FloorButtonInv'
    <3>1. \A b : <<"darken", b>> # run
      BY <2>3
    <3>2. Range(edt') = Range(edt) \cup {run}
      BY <1>0, <2>3, Queued
    <3>3. \A b : Relit(b) => Relit(b)'
      BY <1>0, <2>3, <3>1, RelitStays DEF Relit
    <3> QED  BY <2>1, <3>1, <3>2, <3>3
             DEF FloorButtonInv, Darkened, Waiting, CurrentFloor
  <2> QED  BY <1>9, <2>2, <2>3, NewsOfGD
<1>10. ASSUME NEW b \in HallButtons, PressHallButton(b)
       PROVE  FloorButtonInv'
  <2>1. /\ UNCHANGED <<edt, fromEC, position, toEC, asked>> /\ dark' = dark \cup {b}
        /\ excused \subseteq excused'
    BY <1>10 DEF PressHallButton, carVars
  <2>2. \A c \in FloorButtons : c \in dark' => c \in dark
    BY <2>1, ButtonsDiffer
  <2> QED  BY <2>1, <2>2 DEF FloorButtonInv, Darkened, Waiting, Relit, CurrentFloor
<1>11. ASSUME NEW b \in FloorButtons, PressFloorButton(b)
       PROVE  FloorButtonInv'
  <2> DEFINE run == <<"darken", b>>
  <2>1. /\ UNCHANGED <<dark, fromEC, position, asked>>
        /\ edt' = Append(edt, run) /\ toEC' = Append(toEC, b)
        /\ excused' = IF b[1] = CurrentFloor THEN excused \cup {b} ELSE excused
    BY <1>11 DEF PressFloorButton, screenVars, carVars
  <2>2. run \in Runs /\ \A c : c # b => <<"darken", c>> # run
    BY KindsOfRuns
  <2>3. Range(toEC') = Range(toEC) \cup {b}
    BY <2>1, AppendOne DEF TypeInv, Typed
  <2> HIDE DEF run
  <2>4. Range(edt') = Range(edt) \cup {run}
    BY <1>0, <2>1, <2>2, Queued
  <2>5. \A c : c # b /\ Relit(c) => Relit(c)'
    BY <1>0, <2>1, <2>2, RelitStays DEF Relit
  <2> SUFFICES ASSUME NEW c \in FloorButtons, c \notin excused', Darkened(c)'
               PROVE  Waiting(c)'
    BY DEF FloorButtonInv
  <2>6. CASE c = b
    BY <2>1, <2>3, <2>6 DEF Waiting, CurrentFloor
  <2>7. CASE c # b
    <3>1. Darkened(c) /\ c \notin excused
      BY <2>1, <2>2, <2>4, <2>7 DEF Darkened
    <3>2. Waiting(c)
      BY <3>1 DEF FloorButtonInv
    <3> QED  BY <2>1, <2>3, <2>5, <2>7, <3>2 DEF Waiting, CurrentFloor
  <2> QED  BY <2>6, <2>7
<1>12. CASE RunNext
  <2> DEFINE run == Head(edt)
  <2>1. /\ UNCHANGED <<fromEC, position, toEC, asked>> /\ edt # <<>>
        /\ edt' = Tail(edt)
    BY <1>12 DEF RunNext, carVars, pressVars
  <2>2. Range(edt) = {run} \cup Range(edt') /\ run \in Runs
    BY <1>0, <2>1, ButFirst
  <2>3. \A b : Relit(b) =>
           \/ Relit(b)'
           \/ run = <<"enable", b>> /\ <<"darken", b>> \notin Range(edt')
    BY <1>0, <2>1, RelitNext DEF Relit
  <2>4. CASE run[1] = "enable"
    <3>1. /\ dark' = dark \ {run[2]}
          /\ excused' = IF <<"darken", run[2]>> \in Range(edt') THEN excused
                         ELSE excused \ {run[2]}
      BY <1>12, <2>4 DEF RunNext
    <3>2. \A b : run = <<"enable", b>> => b = run[2]
      OBVIOUS
    <3> HIDE DEF run
    <3> SUFFICES ASSUME NEW b \in FloorButtons, b \notin excused', Darkened(b)'
                 PROVE  Waiting(b)'
      BY DEF FloorButtonInv
    <3>3. Darkened(b)
      BY <2>2, <3>1 DEF Darkened
    <3>4. b = run[2] => <<"darken", b>> \in Range(edt')
      BY <3>1 DEF Darkened
    <3>5. b \notin excused
      BY <3>1, <3>4
    <3>6. Waiting(b)
      BY <3>3, <3>5 DEF FloorButtonInv
    <3> QED  BY <2>1, <2>3, <3>2, <3>4, <3>6 DEF Waiting, CurrentFloor
  <2>5. CASE run[1] # "enable"
    <3>1. excused' = excused /\ dark \subseteq dark'
      BY <1>12, <2>2, <2>5, KindsOfRuns DEF RunNext
    <3>2. \A b : b \in dark' => b \in dark \/ run = <<"darken", b>>
      BY <1>12, <2>2, <2>5, KindsOfRuns DEF RunNext
    <3>3. \A b : run # <<"enable", b>>
      BY <2>5
    <3> HIDE DEF run
    <3>4. \A b : Darkened(b)' => Darkened(b)
      BY <2>2, <3>2 DEF Darkened
    <3> QED  BY <2>1, <2>3, <3>1, <3>3, <3>4 DEF FloorButtonInv, Waiting, CurrentFloor
  <2> QED  BY <2>4, <2>5
<1> QED  BY <1>1, <1>2, <1>3, <1>4, <1>5, <1>6, <1>7, <1>8, <1>9, <1>10, <1>11,
            <1>12 DEF Next

-----------------------------------------------------------------------------
(* What the panel shows. *)

LEMMA TellsNew ==
    ASSUME NEW n \in Nat, NEW t, DOMAIN t = 1 .. n + 1,
           NEW kind, NEW known, t[n + 1][1] = kind
    PROVE  Tells(t, kind, t[n + 1][2], known)
<1>1. Newest(t, kind, n + 1)
  BY DEF Newest
<1> QED  BY <1>1 DEF Tells, Newest

LEMMA TellsOther ==
    ASSUME NEW n \in Nat, NEW queue, DOMAIN queue = 1 .. n,
           NEW t, DOMAIN t = 1 .. n + 1, \A i \in 1 .. n : t[i] = queue[i],
           NEW kind, t[n + 1][1] # kind,
           NEW value, NEW known, Tells(queue, kind, value, known)
    PROVE  Tells(t, kind, value, known)
<1>1. \A j \in 1 .. n + 1 : j \in 1 .. n \/ j = n + 1
  OBVIOUS
<1>2. CASE \E i \in 1 .. n : Newest(queue, kind, i) /\ queue[i][2] = value
  <2>1. PICK i \in 1 .. n : Newest(queue, kind, i) /\ queue[i][2] = value
    BY <1>2
  <2>2. t[i] = queue[i] /\ i \in 1 .. n + 1
    OBVIOUS
  <2>3. \A j \in 1 .. n + 1 : j > i => t[j][1] # kind
    <3> SUFFICES ASSUME NEW j \in 1 .. n + 1, j > i PROVE t[j][1] # kind
      OBVIOUS
    <3>1. CASE j \in 1 .. n
      BY <2>1, <3>1 DEF Newest
    <3>2. CASE j = n + 1
      BY <3>2
    <3> QED  BY <1>1, <3>1, <3>2
  <2>4. Newest(t, kind, i)
    BY <2>1, <2>2, <2>3 DEF Newest
  <2> QED  BY <2>1, <2>2, <2>4 DEF Tells
<1>3. CASE (\A i \in 1 .. n : queue[i][1] # kind) /\ known = value
  <2>1. \A j \in 1 .. n + 1 : t[j][1] # kind
    BY <1>1, <1>3
  <2> QED  BY <1>3, <2>1 DEF Tells
<1> QED  BY <1>2, <1>3 DEF Tells

(* The first of the news becomes what is known. *)
LEMMA TellsRest ==
    ASSUME NEW n \in Nat \ {0}, NEW queue, DOMAIN queue = 1 .. n,
           NEW t, DOMAIN t = 1 .. n - 1, \A i \in 1 .. n - 1 : t[i] = queue[i + 1],
           NEW kind, NEW value, NEW known, Tells(queue, kind, value, known)
    PROVE  Tells(t, kind, value, IF queue[1][1] = kind THEN queue[1][2] ELSE known)
<1>1. \A j \in 1 .. n - 1 : j + 1 \in 1 .. n
  OBVIOUS
<1>2. CASE \E i \in 1 .. n : Newest(queue, kind, i) /\ queue[i][2] = value
  <2>1. PICK i \in 1 .. n : Newest(queue, kind, i) /\ queue[i][2] = value
    BY <1>2
  <2>2. \A j \in 1 .. n - 1 : j + 1 > i => t[j][1] # kind
    <3> SUFFICES ASSUME NEW j \in 1 .. n - 1, j + 1 > i PROVE t[j][1] # kind
      OBVIOUS
    <3>1. t[j] = queue[j + 1] /\ j + 1 \in 1 .. n
      BY <1>1
    <3> QED  BY <2>1, <3>1 DEF Newest
  <2>3. CASE i = 1
    <3>1. \A j \in 1 .. n - 1 : j + 1 > i
      BY <2>3
    <3>2. \A j \in 1 .. n - 1 : t[j][1] # kind
      BY <2>2, <3>1
    <3>3. queue[1][1] = kind /\ queue[1][2] = value
      BY <2>1, <2>3 DEF Newest
    <3> QED  BY <3>2, <3>3 DEF Tells
  <2>4. CASE i # 1
    <3> DEFINE k == i - 1
    <3>1. k \in 1 .. n - 1 /\ k + 1 = i /\ \A j \in 1 .. n - 1 : j > k => j + 1 > i
      BY <2>4
    <3> HIDE DEF k
    <3>2. t[k] = queue[i]
      BY <3>1
    <3>3. \A j \in 1 .. n - 1 : j > k => t[j][1] # kind
      BY <2>2, <3>1
    <3>4. Newest(t, kind, k)
      BY <2>1, <3>1, <3>2, <3>3 DEF Newest
    <3> QED  BY <2>1, <3>1, <3>2, <3>4 DEF Tells
  <2> QED  BY <2>3, <2>4
<1>3. CASE (\A i \in 1 .. n : queue[i][1] # kind) /\ known = value
  <2>1. \A j \in 1 .. n - 1 : t[j][1] # kind
    BY <1>1, <1>3
  <2>2. queue[1][1] # kind
    BY <1>3
  <2> QED  BY <1>3, <2>1, <2>2 DEF Tells
<1> QED  BY <1>2, <1>3 DEF Tells

LEMMA SentTells ==
    ASSUME NEW queue \in Seq(ECNews), NEW news \in ECNews, NEW kind, NEW known
    PROVE  /\ news[1] = kind => Tells(Append(queue, news), kind, news[2], known)
           /\ \A value : news[1] # kind /\ Tells(queue, kind, value, known) =>
                 Tells(Append(queue, news), kind, value, known)
<1> DEFINE t == Append(queue, news)
           n == Len(queue)
<1>1. /\ n \in Nat /\ DOMAIN queue = 1 .. n /\ DOMAIN t = 1 .. n + 1
      /\ \A i \in 1 .. n : t[i] = queue[i]
      /\ t[n + 1] = news
  BY Sent
<1> HIDE DEF t, n
<1>2. news[1] = kind => Tells(t, kind, news[2], known)
  BY <1>1, TellsNew
<1>3. \A value : news[1] # kind /\ Tells(queue, kind, value, known) =>
         Tells(t, kind, value, known)
  BY <1>1, TellsOther
<1> QED  BY <1>2, <1>3 DEF t

LEMMA QueuedTells ==
    ASSUME NEW queue \in Seq(Runs), NEW run \in Runs, NEW kind, NEW known
    PROVE  /\ run[1] = kind => Tells(Append(queue, run), kind, run[2], known)
           /\ \A value : run[1] # kind /\ Tells(queue, kind, value, known) =>
                 Tells(Append(queue, run), kind, value, known)
<1> DEFINE t == Append(queue, run)
           n == Len(queue)
<1>1. /\ n \in Nat /\ DOMAIN queue = 1 .. n /\ DOMAIN t = 1 .. n + 1
      /\ \A i \in 1 .. n : t[i] = queue[i]
      /\ t[n + 1] = run
  BY Queued
<1> HIDE DEF t, n
<1>2. run[1] = kind => Tells(t, kind, run[2], known)
  BY <1>1, TellsNew
<1>3. \A value : run[1] # kind /\ Tells(queue, kind, value, known) =>
         Tells(t, kind, value, known)
  BY <1>1, TellsOther
<1> QED  BY <1>2, <1>3 DEF t

LEMMA NextTells ==
    ASSUME NEW queue \in Seq(Runs), queue # <<>>, NEW kind, NEW value, NEW known,
           Tells(queue, kind, value, known)
    PROVE  Tells(Tail(queue), kind, value,
                 IF Head(queue)[1] = kind THEN Head(queue)[2] ELSE known)
<1> DEFINE t == Tail(queue)
           n == Len(queue)
<1>1. /\ n \in Nat \ {0} /\ DOMAIN queue = 1 .. n /\ DOMAIN t = 1 .. n - 1
      /\ \A i \in 1 .. n - 1 : t[i] = queue[i + 1]
      /\ Head(queue) = queue[1]
  BY ButFirst
<1> HIDE DEF t, n
<1>2. Tells(t, kind, value, IF queue[1][1] = kind THEN queue[1][2] ELSE known)
  BY <1>1, TellsRest
<1> QED  BY <1>1, <1>2 DEF t

(* The car tells all it does. *)
LEMMA NotifiedTells ==
    ASSUME TypeInv, Notify, InBuilding', NEW f, NEW d,
           Tells(fromEC, "floor", CurrentFloor, f),
           Tells(fromEC, "direction", direction, d)
    PROVE  /\ Tells(fromEC', "floor", CurrentFloor', f)
           /\ Tells(fromEC', "direction", direction', d)
<1>1. PICK g \in Byte, q \in Seq(ECNews), r \in Seq(ECNews) :
         /\ q = IF g # CurrentFloor THEN Append(fromEC, <<"floor", g>>) ELSE fromEC
         /\ r = IF CurrentFloor' # g THEN Append(q, <<"floor", CurrentFloor'>>) ELSE q
         /\ fromEC' = IF direction' # direction
                        THEN Append(r, <<"direction", direction'>>) ELSE r
  BY Notified
<1> DEFINE v == <<"floor", g>>
           x == <<"floor", CurrentFloor'>>
           y == <<"direction", direction'>>
<1>2. v \in ECNews /\ x \in ECNews /\ y \in ECNews
  <2>1. CurrentFloor' \in Byte /\ direction' \in Direction
    BY FloorInBuilding, Parameters DEF InBuilding, CarTypeOK, CurrentFloor
  <2> QED  BY <2>1, KindsOfNews
<1>3. /\ v[1] = "floor" /\ v[2] = g /\ v[1] # "direction"
      /\ x[1] = "floor" /\ x[2] = CurrentFloor' /\ x[1] # "direction"
      /\ y[1] = "direction" /\ y[2] = direction' /\ y[1] # "floor"
  OBVIOUS
<1>4. fromEC \in Seq(ECNews)
  BY DEF TypeInv, Typed
<1>5. /\ q = IF g # CurrentFloor THEN Append(fromEC, v) ELSE fromEC
      /\ r = IF CurrentFloor' # g THEN Append(q, x) ELSE q
      /\ fromEC' = IF direction' # direction THEN Append(r, y) ELSE r
  BY <1>1
<1> HIDE DEF v, x, y
<1>6. Tells(q, "floor", g, f) /\ Tells(q, "direction", direction, d)
  <2>1. CASE g # CurrentFloor
    BY <1>2, <1>3, <1>4, <1>5, <2>1, SentTells
  <2>2. CASE g = CurrentFloor
    BY <1>5, <2>2
  <2> QED  BY <2>1, <2>2
<1>7. Tells(r, "floor", CurrentFloor', f) /\ Tells(r, "direction", direction, d)
  <2>1. CASE CurrentFloor' # g
    BY <1>2, <1>3, <1>5, <1>6, <2>1, SentTells
  <2>2. CASE CurrentFloor' = g
    BY <1>5, <1>6, <2>2
  <2> QED  BY <2>1, <2>2
<1>8. CASE direction' # direction
  BY <1>2, <1>3, <1>5, <1>7, <1>8, SentTells
<1>9. CASE direction' = direction
  BY <1>5, <1>7, <1>9
<1> QED  BY <1>8, <1>9

(* News handled in order become what is known. *)
LEMMA HandledTells ==
    ASSUME TypeInv, NEW i \in DOMAIN fromEC, Handle(i), i = 1,
           NEW kind, NEW value, NEW known, Tells(fromEC, kind, value, known)
    PROVE  Tells(fromEC', kind, value,
                 IF fromEC[1][1] = kind THEN fromEC[1][2] ELSE known)
<1> DEFINE n == Len(fromEC)
<1>1. /\ i \in 1 .. n /\ n \in Nat /\ DOMAIN fromEC = 1 .. n
      /\ DOMAIN fromEC' = 1 .. n - 1
      /\ \A j \in 1 .. n - 1 : fromEC'[j] = IF j < i THEN fromEC[j] ELSE fromEC[j + 1]
  BY Handled
<1> HIDE DEF n
<1>2. n \in Nat \ {0} /\ \A j \in 1 .. n - 1 : fromEC'[j] = fromEC[j + 1]
  BY <1>1
<1> QED  BY <1>1, <1>2, TellsRest

(* Promptly handled news find their panel. *)
LEMMA PanelFound ==
    ASSUME TypeInv, PanelInv, "slowEDT" \notin Races, life # "removed",
           NEW i \in DOMAIN fromEC, Handle(i)
    PROVE  panel # "none" /\ life \in {"started", "running"}
<1>1. fromEC[i] # <<"registration">> /\ <<"addElevatorPanel">> \notin Range(edt)
  BY DEF Handle, PanelReady
<1>2. life \in {"started", "running"}
  BY <1>1 DEF PanelInv, TypeInv, Typed
<1> QED  BY <1>1, <1>2 DEF PanelInv, Registered, Ordered

LEMMA DisplayKept ==
    ASSUME DisplayInv, UNCHANGED <<pair, shown>>,
           life' = life \/ {life, life'} \cap {"running", "removed"} = {},
           overtaken' = overtaken, position' = position, direction' = direction,
           fromEC' = fromEC,
           \A value : Tells(edt, "setText", value, shown) =>
              Tells(edt', "setText", value, shown)
    PROVE  DisplayInv'
BY DEF DisplayInv, CurrentFloor

LEMMA DisplayStep ==
    ASSUME TypeInv, TypeInv', PanelInv, DisplayInv, "slowEDT" \notin Races, Next
    PROVE  DisplayInv'
<1>0. /\ fromEC \in Seq(ECNews) /\ fromGD \in Seq(GDNews) /\ edt \in Seq(Runs)
      /\ pair = <<pair[1], pair[2]>> /\ "setText" # "enable" /\ "setText" # "darken"
  BY DEF TypeInv, Typed
<1>1. CASE ConnectToGD
  <2> DEFINE news == <<"registration">>
  <2>1. /\ UNCHANGED <<pair, shown, edt, overtaken, position, direction>>
        /\ fromEC' = Append(fromEC, news) /\ life = "off" /\ life' = "registering"
    BY <1>1 DEF ConnectToGD, carVars, screenVars
  <2>2. news \in ECNews /\ news[1] # "direction"
    BY KindsOfNews
  <2> HIDE DEF news
  <2>3. \A value : Tells(fromEC, "direction", value, pair[2]) =>
           Tells(fromEC', "direction", value, pair[2])
    BY <1>0, <2>1, <2>2, SentTells
  <2> QED  BY <2>1, <2>3 DEF DisplayInv
<1>2. CASE OnElevatorRegister
  <2> DEFINE run == <<"addElevatorPanel">>
  <2>1. /\ UNCHANGED <<pair, shown, overtaken, position, direction>>
        /\ fromEC' = Tail(fromEC) /\ life = "registering" /\ life' = "started"
        /\ edt' = Append(edt, run)
    BY <1>2 DEF OnElevatorRegister, carVars, screenVars
  <2>2. fromEC = <<<<"registration">>>> /\ fromEC' = <<>>
    <3>1. fromEC = <<<<"registration">>>>
      BY <2>1 DEF PanelInv
    <3> QED  BY <2>1, <3>1
  <2>3. \A value : Tells(fromEC, "direction", value, pair[2]) =>
           Tells(fromEC', "direction", value, pair[2])
    BY <2>2 DEF Tells, Newest
  <2>4. run \in Runs /\ run[1] # "setText"
    BY KindsOfRuns
  <2> HIDE DEF run
  <2>5. \A value : Tells(edt, "setText", value, shown) =>
           Tells(edt', "setText", value, shown)
    BY <1>0, <2>1, <2>4, QueuedTells
  <2> QED  BY <2>1, <2>3, <2>5 DEF DisplayInv
<1>3. CASE FirstSample
  <2> DEFINE news == <<"floor", CurrentFloor>>
  <2>1. /\ UNCHANGED <<pair, shown, edt, overtaken, position, direction>>
        /\ fromEC' = Append(fromEC, news) /\ life = "started" /\ life' = "running"
    BY <1>3 DEF FirstSample, carVars, screenVars
  <2>2. /\ news \in ECNews /\ news[1] = "floor" /\ news[1] # "direction"
        /\ news[2] = CurrentFloor
    BY CurrentInBuilding, KindsOfNews DEF TypeInv
  <2> HIDE DEF news
  <2>3. /\ Tells(fromEC', "floor", CurrentFloor, pair[1])
        /\ \A value : Tells(fromEC, "direction", value, pair[2]) =>
              Tells(fromEC', "direction", value, pair[2])
    BY <1>0, <2>1, <2>2, SentTells
  <2> QED  BY <2>1, <2>3 DEF DisplayInv, CurrentFloor
<1>4. CASE FloorRun \/ CarMoves
  <2>1. InBuilding' /\ Notify /\ Sampled
    BY <1>4, FloorRunStays, CarMovesOn DEF FloorRun, CarMoves
  <2>2. UNCHANGED <<pair, shown, edt, overtaken, life>>
    BY <1>4 DEF FloorRun, CarMoves, carRest, screenVars
  <2>3. SUFFICES ASSUME ~overtaken, life = "running" PROVE DisplayInv'
    BY <2>1, <2>2 DEF DisplayInv, Sampled
  <2>4. /\ Tells(fromEC, "floor", CurrentFloor, pair[1])
        /\ Tells(fromEC, "direction", direction, pair[2])
        /\ Tells(edt, "setText", pair, shown)
    BY <2>3 DEF DisplayInv
  <2>5. /\ Tells(fromEC', "floor", CurrentFloor', pair[1])
        /\ Tells(fromEC', "direction", direction', pair[2])
    BY <2>1, <2>4, NotifiedTells
  <2> QED  BY <2>2, <2>4, <2>5 DEF DisplayInv
<1>5. CASE Serve \/ AddFloorSelection \/ UpdateECStatus
  <2>1. UNCHANGED <<pair, shown, overtaken, life, position, direction, fromEC, edt>>
    BY <1>5 DEF Serve, AddFloorSelection, UpdateECStatus, carRest, screenVars, carVars
  <2> QED  BY <2>1, DisplayKept
<1>6. CASE OnHallCall
  <2>1. UNCHANGED <<pair, shown, overtaken, life, position, direction, fromEC>>
    BY <1>6 DEF OnHallCall, screenVars, carVars
  <2> DEFINE run == <<"enable", Head(toGD)>>
  <2>2. edt' = edt \/ edt' = Append(edt, run)
    BY <1>6 DEF OnHallCall
  <2>3. run \in Runs /\ run[1] # "setText"
    <3>1. toGD \in Seq(HallButtons) /\ toGD # <<>>
      BY <1>6 DEF OnHallCall, TypeInv, Typed
    <3>2. Head(toGD) \in HallButtons
      BY <3>1, ButFirst
    <3> QED  BY <3>2, Parameters, KindsOfRuns
  <2> HIDE DEF run
  <2>4. \A value : Tells(edt, "setText", value, shown) =>
           Tells(edt', "setText", value, shown)
    BY <1>0, <2>2, <2>3, QueuedTells
  <2> QED  BY <2>1, <2>4, DisplayKept
<1>7. CASE RemoveElevator
  BY <1>7 DEF RemoveElevator, DisplayInv
<1>8. ASSUME NEW i \in DOMAIN fromEC, OnFloorReached(i) \/ OnElevatorDirectionChange(i)
      PROVE  DisplayInv'
  <2>1. /\ UNCHANGED <<shown, life, position, direction>> /\ Handle(i)
        /\ overtaken' = (overtaken \/ i # 1)
    BY <1>8 DEF OnFloorReached, OnElevatorDirectionChange, Handle, screenVars, carVars
  <2>2. SUFFICES ASSUME ~overtaken, i = 1, life # "removed" PROVE DisplayInv'
    BY <2>1 DEF DisplayInv
  <2>3. panel # "none" /\ life \in {"started", "running"}
    BY <2>1, <2>2, PanelFound
  <2>4. /\ life = "running" => Tells(fromEC, "floor", CurrentFloor, pair[1])
        /\ Tells(fromEC, "direction", direction, pair[2])
        /\ Tells(edt, "setText", pair, shown)
    BY <2>2 DEF DisplayInv
  <2>5. \A kind, value, known : Tells(fromEC, kind, value, known) =>
           Tells(fromEC', kind, value, IF fromEC[1][1] = kind THEN fromEC[1][2] ELSE known)
    BY <2>1, <2>2, HandledTells
  <2>6. CASE OnFloorReached(i)
    <3> DEFINE f == fromEC[1][2]
               x == <<"enable", <<f>>>>
               y == <<"setText", pair'>>
               q == Append(edt, x)
    <3>1. /\ edt' = Append(q, y) /\ x \in Runs /\ y \in Runs /\ q \in Seq(Runs)
          /\ pair' = <<f, pair[2]>> /\ fromEC[1] = <<"floor", f>>
      BY <2>2, <2>3, <2>6, FloorShown
    <3>2. y[1] = "setText" /\ y[2] = pair'
      OBVIOUS
    <3> HIDE DEF y, q
    <3>3. Tells(edt', "setText", pair', shown)
      BY <3>1, <3>2, QueuedTells
    <3>4. fromEC[1][1] = "floor" /\ fromEC[1][1] # "direction"
          /\ pair'[1] = f /\ pair'[2] = pair[2]
      BY <3>1
    <3>5. life = "running" => Tells(fromEC', "floor", CurrentFloor, pair'[1])
      BY <2>4, <2>5, <3>4
    <3>6. Tells(fromEC', "direction", direction, pair'[2])
      BY <2>4, <2>5, <3>4
    <3> QED  BY <2>1, <3>3, <3>5, <3>6 DEF DisplayInv, CurrentFloor
  <2>7. CASE OnElevatorDirectionChange(i)
    <3> DEFINE d == fromEC[1][2]
               y == <<"setText", pair'>>
    <3>1. /\ edt' = Append(edt, y) /\ y \in Runs
          /\ pair' = <<pair[1], d>> /\ fromEC[1] = <<"direction", d>>
      BY <2>2, <2>3, <2>7, DirectionShown
    <3>2. y[1] = "setText" /\ y[2] = pair'
      OBVIOUS
    <3> HIDE DEF y
    <3>3. Tells(edt', "setText", pair', shown)
      BY <1>0, <3>1, <3>2, QueuedTells
    <3>4. fromEC[1][1] = "direction" /\ fromEC[1][1] # "floor"
          /\ pair'[1] = pair[1] /\ pair'[2] = d
      BY <3>1
    <3>5. life = "running" => Tells(fromEC', "floor", CurrentFloor, pair'[1])
      BY <2>4, <2>5, <3>4
    <3>6. Tells(fromEC', "direction", direction, pair'[2])
      BY <2>4, <2>5, <3>4
    <3> QED  BY <2>1, <3>3, <3>5, <3>6 DEF DisplayInv, CurrentFloor
  <2> QED  BY <1>8, <2>6, <2>7
<1>9. ASSUME NEW i \in DOMAIN fromGD, OnHallCallServiced(i) \/ OnElevatorError(i)
      PROVE  DisplayInv'
  <2>1. UNCHANGED <<pair, shown, overtaken, life, position, direction, fromEC>>
    BY <1>9 DEF OnHallCallServiced, OnElevatorError, HandleGD, screenVars, carVars
  <2>2. \/ edt' = edt
        \/ \E run \in Runs :
              run[1] \notin {"darken", "setText"} /\ edt' = Append(edt, run)
    BY <1>9, NewsOfGD
  <2>3. \A value : Tells(edt, "setText", value, shown) =>
           Tells(edt', "setText", value, shown)
    BY <1>0, <2>2, QueuedTells
  <2> QED  BY <2>1, <2>3, DisplayKept
<1>10. ASSUME NEW b \in HallButtons, PressHallButton(b)
       PROVE  DisplayInv'
  <2>1. UNCHANGED <<pair, shown, overtaken, life, position, direction, fromEC, edt>>
    BY <1>10 DEF PressHallButton, carVars
  <2> QED  BY <2>1, DisplayKept
<1>11. ASSUME NEW b \in FloorButtons, PressFloorButton(b)
       PROVE  DisplayInv'
  <2> DEFINE run == <<"darken", b>>
  <2>1. /\ UNCHANGED <<pair, shown, overtaken, life, position, direction, fromEC>>
        /\ edt' = Append(edt, run)
    BY <1>11 DEF PressFloorButton, screenVars, carVars
  <2>2. run \in Runs /\ run[1] # "setText"
    BY KindsOfRuns
  <2> HIDE DEF run
  <2>3. \A value : Tells(edt, "setText", value, shown) =>
           Tells(edt', "setText", value, shown)
    BY <1>0, <2>1, <2>2, QueuedTells
  <2> QED  BY <2>1, <2>3, DisplayKept
<1>12. CASE RunNext
  <2> DEFINE run == Head(edt)
  <2>1. /\ UNCHANGED <<pair, overtaken, life, position, direction, fromEC>>
        /\ edt # <<>> /\ edt' = Tail(edt)
    BY <1>12 DEF RunNext, carVars
  <2>2. shown' = IF run[1] = "setText" THEN run[2] ELSE shown
    <3>1. run[1] \in {"addElevatorPanel", "remove", "enable", "darken", "setText"}
      <4>1. run \in Runs
        BY <1>0, <2>1, ButFirst
      <4> QED  BY <4>1, KindsOfRuns
    <3> QED  BY <1>12, <3>1 DEF RunNext
  <2>3. \A value : Tells(edt, "setText", value, shown) =>
           Tells(edt', "setText", value, shown')
    BY <1>0, <2>1, <2>2, NextTells
  <2> QED  BY <2>1, <2>3 DEF DisplayInv, CurrentFloor
<1> QED  BY <1>1, <1>2, <1>3, <1>4, <1>5, <1>6, <1>7, <1>8, <1>9, <1>10, <1>11,
            <1>12 DEF Next

-----------------------------------------------------------------------------
(* Hall buttons. *)

LEMMA Directions ==
    UP \in Direction /\ DOWN \in Direction /\ UP # DOWN /\ "none" \notin Direction
BY DEF UP, DOWN, Direction

(* The report of a stop where there is no panel ends the program. *)
LEMMA DoomedStays ==
    ASSUME TypeInv, Doomed, Next
    PROVE  Doomed'
<1> DEFINE Fatal(n) == n[1] = "serviced" /\ n[2][1] \notin 1 .. TopFloor
<1>0. fromGD \in Seq(GDNews)
  BY DEF TypeInv, Typed
<1>1. CASE \/ ConnectToGD \/ OnElevatorRegister \/ FirstSample \/ FloorRun
           \/ CarMoves \/ Serve \/ AddFloorSelection \/ OnHallCall \/ RunNext
  <2>1. UNCHANGED <<fromGD, fatal>>
    BY <1>1 DEF ConnectToGD, OnElevatorRegister, FirstSample, FloorRun, CarMoves, Serve,
                AddFloorSelection, OnHallCall, RunNext, carRest, gdVars
  <2> QED  BY <2>1 DEF Doomed
<1>2. CASE \/ \E b \in HallButtons : PressHallButton(b)
           \/ \E b \in FloorButtons : PressFloorButton(b)
  <2>1. UNCHANGED <<fromGD, fatal>>
    BY <1>2 DEF PressHallButton, PressFloorButton, gdVars
  <2> QED  BY <2>1 DEF Doomed
<1>3. CASE UpdateECStatus
  <2> DEFINE floor == IF Sampled THEN CurrentFloor ELSE 0
             news == <<"serviced", <<floor, direction>>>>
  <2>1. fatal' = fatal /\ (fromGD' = fromGD \/ fromGD' = Append(fromGD, news))
    BY <1>3 DEF UpdateECStatus, HallCallServiced
  <2>2. news \in GDNews
    <3>1. <<floor, direction>> \in Floor \X Direction
      BY CurrentInBuilding, Parameters DEF TypeInv
    <3> QED  BY <3>1, KindsOfNews
  <2> HIDE DEF news
  <2>3. Range(Append(fromGD, news)) = Range(fromGD) \cup {news}
    BY <1>0, <2>2, AppendOne
  <2>4. Range(fromGD) \subseteq Range(fromGD')
    BY <2>1, <2>3
  <2> QED  BY <2>1, <2>4 DEF Doomed
<1>4. CASE RemoveElevator
  <2>1. fatal' = fatal /\ fromGD' = Append(fromGD, <<"removed">>)
    BY <1>4 DEF RemoveElevator
  <2>2. Range(fromGD) \subseteq Range(fromGD')
    BY <1>0, <2>1, AppendOne, KindsOfNews
  <2> QED  BY <2>1, <2>2 DEF Doomed
<1>5. ASSUME NEW i \in DOMAIN fromEC, OnFloorReached(i) \/ OnElevatorDirectionChange(i)
      PROVE  Doomed'
  <2>1. fromGD' = fromGD /\ (fatal' \/ fatal' = fatal)
    BY <1>5 DEF OnFloorReached, OnElevatorDirectionChange, Handle, gdVars
  <2> QED  BY <2>1 DEF Doomed
<1>6. ASSUME NEW i \in DOMAIN fromGD, OnHallCallServiced(i) \/ OnElevatorError(i)
      PROVE  Doomed'
  <2>1. HandleGD(i) /\ ~fatal /\ (fatal' \/ fatal' = fatal)
    BY <1>6 DEF OnHallCallServiced, OnElevatorError, HandleGD
  <2>2. Range(fromGD) \subseteq Range(fromGD') \cup {fromGD[i]}
    BY <2>1, HandledGD
  <2>3. PICK n \in Range(fromGD) : Fatal(n)
    BY <2>1 DEF Doomed
  <2>4. CASE n = fromGD[i]
    BY <1>6, <2>3, <2>4 DEF OnHallCallServiced, OnElevatorError, Doomed
  <2>5. CASE n # fromGD[i]
    BY <2>2, <2>3, <2>5 DEF Doomed
  <2> QED  BY <2>4, <2>5
<1> QED  BY <1>1, <1>2, <1>3, <1>4, <1>5, <1>6 DEF Next

(* A poll before the first sample reports a turn at floor 0. *)
LEMMA PolledInTime ==
    ASSUME TypeInv, PollInv, UpdateECStatus, ~Doomed, ~Doomed'
    PROVE  life = "running"
<1> SUFFICES ASSUME life = "started" PROVE FALSE
  BY DEF UpdateECStatus
<1>1. /\ ~Sampled /\ ~moving /\ direction = UP /\ last.direction # direction
  BY Directions DEF TypeInv, InBuilding, Sampled, PollInv
<1> DEFINE news == <<"serviced", <<0, direction>>>>
<1>2. fromGD' = Append(fromGD, news)
  BY <1>1 DEF UpdateECStatus, HallCallServiced
<1>3. news \in GDNews /\ news[1] = "serviced" /\ news[2][1] \notin 1 .. TopFloor
  BY <1>1, KindsOfNews, Parameters
<1> HIDE DEF news
<1>4. news \in Range(fromGD')
  BY <1>2, <1>3, AppendOne DEF TypeInv, Typed
<1> QED  BY <1>3, <1>4 DEF Doomed

LEMMA PollKept ==
    ASSUME PollInv, InBuilding, UNCHANGED <<last, carVars>>, Doomed => Doomed',
           \/ life' = life
           \/ life = "off" /\ life' = "registering"
           \/ life = "registering" /\ life' = "started"
           \/ life = "started" /\ life' = "running"
    PROVE  PollInv'
BY DEF PollInv, Known, InBuilding, Sampled, carVars

LEMMA PollStep ==
    ASSUME TypeInv, TypeInv', PollInv, Next
    PROVE  PollInv'
<1>0. /\ InBuilding /\ direction \in Direction /\ moving \in BOOLEAN
      /\ Doomed => Doomed'
  BY DoomedStays DEF TypeInv, InBuilding, CarTypeOK
<1>1. CASE ConnectToGD \/ OnElevatorRegister \/ FirstSample
  <2>1. /\ UNCHANGED <<last, carVars>>
        /\ \/ life = "off" /\ life' = "registering"
           \/ life = "registering" /\ life' = "started"
           \/ life = "started" /\ life' = "running"
    BY <1>1 DEF ConnectToGD, OnElevatorRegister, FirstSample, gdVars
  <2> QED  BY <1>0, <2>1, PollKept
<1>2. CASE FloorRun
  <2>1. /\ task' /\ UNCHANGED <<position, moving, life>> /\ Sampled
        /\ position = 2 => direction' = UP
    BY <1>2, FloorRunStays
  <2>2. last' = last
    BY <1>2 DEF FloorRun, carRest, gdVars
  <2> QED  BY <2>1, <2>2 DEF PollInv, Known, Sampled
<1>3. CASE CarMoves
  <2>1. UNCHANGED <<last, direction, life>> /\ Sampled /\ Polled
    BY <1>3, CarMovesOn DEF CarMoves, carRest, gdVars
  <2>2. ~task' => UNCHANGED moving /\ ~moving
    BY <1>3 DEF CarMoves, Advance, Finish, DoorsDone, Reset
  <2>3. CASE life = "removed"
    BY <2>1, <2>3 DEF PollInv, Known
  <2>4. CASE life = "running"
    <3>1. last.direction = direction /\ last.moving = moving
      BY <2>1, <2>4 DEF Polled
    <3>2. last.direction # "none"
      BY <1>0, <3>1, Directions
    <3> QED  BY <2>1, <2>2, <2>4, <3>1, <3>2 DEF PollInv, Known
  <2> QED  BY <2>1, <2>3, <2>4 DEF Sampled
<1>4. CASE UpdateECStatus
  <2>1. /\ life \in {"started", "running"} /\ UNCHANGED <<carVars, life>>
        /\ last' = [direction |-> direction, moving |-> moving]
    BY <1>4 DEF UpdateECStatus
  <2>2. last'.direction = direction /\ last'.moving = moving /\ direction # "none"
    BY <1>0, <2>1, Directions
  <2>3. ~task => ~moving
    BY <2>1 DEF PollInv, Known
  <2>4. life = "started" => Doomed'
    BY <1>0, <1>4, PolledInTime
  <2> QED  BY <1>0, <2>1, <2>2, <2>3, <2>4 DEF PollInv, Known, carVars
<1>5. CASE RemoveElevator
  <2>1. life' = "removed" /\ last' = last
    BY <1>5 DEF RemoveElevator
  <2> QED  BY <2>1 DEF PollInv, Known
<1>6. CASE Serve \/ AddFloorSelection \/ OnHallCall \/ RunNext
  <2>1. UNCHANGED <<last, carVars, life>>
    BY <1>6 DEF Serve, AddFloorSelection, OnHallCall, RunNext, carRest, gdVars
  <2> QED  BY <1>0, <2>1, PollKept
<1>7. CASE \/ \E i \in DOMAIN fromEC : OnFloorReached(i) \/ OnElevatorDirectionChange(i)
           \/ \E i \in DOMAIN fromGD : OnHallCallServiced(i) \/ OnElevatorError(i)
           \/ \E b \in HallButtons : PressHallButton(b)
           \/ \E b \in FloorButtons : PressFloorButton(b)
  <2>1. UNCHANGED <<last, carVars, life>>
    BY <1>7 DEF OnFloorReached, OnElevatorDirectionChange, Handle, OnHallCallServiced,
                OnElevatorError, HandleGD, PressHallButton, PressFloorButton, gdVars
  <2> QED  BY <1>0, <2>1, PollKept
<1> QED  BY <1>1, <1>2, <1>3, <1>4, <1>5, <1>6, <1>7 DEF Next

LEMMA HallButtonKept ==
    ASSUME HallButtonInv, UNCHANGED <<position, moving, last, life>>,
           dark' \cap HallButtons \subseteq dark, excused' = excused,
           Range(toGD) \subseteq Range(toGD'), asked \subseteq asked',
           Range(fromGD) \subseteq Range(fromGD'),
           \A b \in HallButtons : Enabling(b) => Enabling(b)'
    PROVE  HallButtonInv'
BY DEF HallButtonInv, Owed, Seen, Known

LEMMA HallButtonStep ==
    ASSUME TypeInv, TypeInv', PollInv, HallButtonInv, ~Doomed', Next
    PROVE  HallButtonInv'
<1>0. /\ fromEC \in Seq(ECNews) /\ fromGD \in Seq(GDNews) /\ edt \in Seq(Runs)
      /\ toGD \in Seq(HallButtons) /\ InBuilding /\ direction \in Direction
      /\ position \in Nat
  BY Parameters DEF TypeInv, Typed, InBuilding, CarTypeOK
<1>1. \A b \in HallButtons :
         /\ b = <<b[1], b[2]>> /\ b[1] \in 1 .. TopFloor /\ b[1] \in Nat
         /\ b[2] \in Direction /\ b[2] # "none"
  <2>1. \A b \in HallButtons :
           b = <<b[1], b[2]>> /\ b[1] \in 1 .. TopFloor /\ b[2] \in Direction
    BY Parameters
  <2> QED  BY <2>1, Directions, Parameters
<1>2. CASE ConnectToGD \/ OnElevatorRegister \/ FirstSample
  <2>1. /\ UNCHANGED <<position, moving, last, dark, excused, toGD, asked, fromGD>>
        /\ Known' /\ life # "removed"
    BY <1>2 DEF ConnectToGD, OnElevatorRegister, FirstSample, carVars, gdVars,
                screenVars, pressVars, Known
  <2>2. \A b : Enabling(b) => Enabling(b)'
    <3>1. Range(Append(edt, <<"addElevatorPanel">>)) = Range(edt) \cup {<<"addElevatorPanel">>}
      BY <1>0, Queued, KindsOfRuns
    <3>2. Range(edt) \subseteq Range(edt')
      BY <1>2, <3>1 DEF ConnectToGD, OnElevatorRegister, FirstSample
    <3> QED  BY <3>2 DEF Enabling
  <2> QED  BY <2>1, <2>2 DEF HallButtonInv, Owed, Seen
<1>3. CASE FloorRun
  <2>1. UNCHANGED <<position, moving, last, dark, excused, toGD, asked, fromGD, life, edt>>
    BY <1>3 DEF FloorRun, SetFinalDestination, carRest, gdVars, screenVars, pressVars
  <2> QED  BY <2>1 DEF HallButtonInv, Owed, Seen, Enabling, Known
<1>4. CASE CarMoves
  <2>1. /\ UNCHANGED <<last, dark, excused, toGD, asked, fromGD, life, edt>> /\ Polled
        /\ Sampled /\ (moving \/ moving' \/ UNCHANGED <<position, moving>>)
    BY <1>4, CarMovesOn DEF CarMoves, carRest, gdVars, screenVars, pressVars
  <2>2. CASE life = "removed"
    BY <2>1, <2>2 DEF HallButtonInv, Owed, Known, Enabling
  <2>3. CASE life = "running"
    <3>1. last.direction = direction /\ last.moving = moving /\ last.direction # "none"
      BY <1>0, <2>1, <2>3, Directions DEF Polled
    <3>2. \A b : Seen(b)' => Seen(b)
      BY <2>1, <3>1 DEF Seen
    <3> QED  BY <2>1, <3>1, <3>2 DEF HallButtonInv, Owed, Enabling, Known
  <2> QED  BY <2>1, <2>2, <2>3 DEF Sampled
<1>5. CASE Serve
  <2>1. /\ UNCHANGED <<position, moving, last, dark, toGD, fromGD, life, edt>>
        /\ ~task /\ position % 2 = 0
    BY <1>5 DEF Serve, carRest, gdVars, screenVars, pressVars, carVars, Parked
  <2>2. PICK served \in SUBSET {b \in asked : b[1] = CurrentFloor} :
           /\ asked' = asked \ served
           /\ excused' = excused \cup
                {b \in served \cap HallButtons \cap dark : b[2] # direction}
    BY <1>5 DEF Serve
  <2>3. position = 2 * CurrentFloor
    BY <1>0, <2>1 DEF CurrentFloor
  <2>4. ASSUME NEW b \in (dark \cap HallButtons) \ excused', b \in served, Known, ~Seen(b)
        PROVE  Owed(b)
    <3>1. b[1] = CurrentFloor /\ b[2] = direction /\ b = <<b[1], b[2]>>
      BY <1>1, <2>2, <2>4
    <3>2. position = 2 * b[1]
      BY <2>3, <3>1
    <3>3. last.direction = "none"
      BY <2>1, <2>4, <3>1, <3>2 DEF PollInv, Seen
    <3>4. position = 2 /\ direction = UP
      BY <2>4, <3>3 DEF PollInv
    <3>5. b[1] = 1
      BY <1>1, <3>2, <3>4
    <3> QED  BY <2>4, <3>1, <3>3, <3>4, <3>5 DEF Owed
  <2>5. \A b : /\ Seen(b)' <=> Seen(b)
               /\ Owed(b)' <=> Owed(b)
    BY <2>1 DEF Seen, Owed, Known, Enabling
  <2> QED  BY <2>1, <2>2, <2>4, <2>5 DEF HallButtonInv, Known
<1>6. CASE AddFloorSelection
  <2>1. UNCHANGED <<position, moving, last, dark, excused, toGD, fromGD, life, edt>>
        /\ asked \subseteq asked'
    BY <1>6 DEF AddFloorSelection, gdVars, screenVars, carVars
  <2> QED  BY <2>1, HallButtonKept DEF Enabling
<1>7. CASE OnHallCall
  <2> DEFINE call == Head(toGD)
             run == <<"enable", call>>
  <2>1. /\ UNCHANGED <<position, moving, last, dark, excused, fromGD, life>>
        /\ toGD # <<>> /\ toGD' = Tail(toGD)
        /\ IF Known THEN asked' = asked \cup {call} /\ edt' = edt
                    ELSE edt' = Append(edt, run) /\ asked' = asked
    BY <1>7 DEF OnHallCall, gdVars, screenVars, carVars
  <2>2. Range(toGD) = {call} \cup Range(toGD') /\ call \in HallButtons
    BY <1>0, <2>1, ButFirst
  <2>3. run \in Runs
    BY <2>2, Parameters, KindsOfRuns
  <2> HIDE DEF call, run
  <2>4. Range(Append(edt, run)) = Range(edt) \cup {run}
    BY <1>0, <2>3, Queued
  <2>5. /\ Range(edt) \subseteq Range(edt')
        /\ ~Known => run \in Range(edt')
        /\ Known => call \in asked'
    BY <2>1, <2>4
  <2>6. \A b : /\ Seen(b)' <=> Seen(b)
               /\ Owed(b) => Owed(b)'
               /\ Known' <=> Known
               /\ Known => life # "removed"
    BY <2>1, <2>5 DEF Seen, Owed, Known, Enabling
  <2>7. ASSUME ~Known, NEW b, b = call PROVE Owed(b)'
    <3>1. <<"enable", b>> \in Range(edt')
      BY <2>5, <2>7 DEF run
    <3> QED  BY <3>1 DEF Owed, Enabling
  <2>8. asked \subseteq asked'
    BY <2>1
  <2> SUFFICES ASSUME NEW b \in (dark \cap HallButtons) \ excused
               PROVE  \/ Owed(b)'
                      \/ b \in Range(toGD') /\ (life = "removed" \/ ~Seen(b)')
                      \/ b \in asked' /\ Known' /\ ~Seen(b)'
    BY <2>1 DEF HallButtonInv
  <2>9. CASE Owed(b)
    BY <2>6, <2>9
  <2>10. CASE b \in Range(toGD) /\ (life = "removed" \/ ~Seen(b))
    <3>1. CASE b = call
      BY <2>5, <2>6, <2>7, <2>10, <3>1
    <3>2. CASE b # call
      BY <2>2, <2>6, <2>10, <3>2
    <3> QED  BY <3>1, <3>2
  <2>11. CASE b \in asked /\ Known /\ ~Seen(b)
    BY <2>6, <2>8, <2>11
  <2> QED  BY <2>9, <2>10, <2>11 DEF HallButtonInv
<1>8. CASE UpdateECStatus
  <2> DEFINE news == <<"serviced", <<CurrentFloor, direction>>>>
  <2>0. life = "running"
    BY <1>8, DoomedStays, PolledInTime
  <2>1. /\ UNCHANGED <<position, moving, direction, dark, excused, toGD, life, edt, asked>>
        /\ last' = [direction |-> direction, moving |-> moving]
        /\ life = "running" /\ Known /\ Known'
        /\ fromGD' = IF ~moving /\ (last.moving \/ last.direction # direction)
                       THEN Append(fromGD, news) ELSE fromGD
    BY <1>8, <2>0 DEF UpdateECStatus, HallCallServiced, Sampled, screenVars, carVars,
                      pressVars, Known
  <2>2. news \in GDNews
    <3>1. <<CurrentFloor, direction>> \in Floor \X Direction
      BY CurrentInBuilding DEF TypeInv
    <3> QED  BY <3>1, KindsOfNews
  <2>3. \A b \in HallButtons :
           position = 2 * b[1] /\ b[2] = direction => news = <<"serviced", b>>
    <3> SUFFICES ASSUME NEW b \in HallButtons, position = 2 * b[1], b[2] = direction
                 PROVE  news = <<"serviced", b>>
      OBVIOUS
    <3>1. CurrentFloor = b[1]
      BY <1>0, <1>1, FloorOfPosition DEF CurrentFloor
    <3> QED  BY <1>1, <3>1
  <2> HIDE DEF news
  <2>4. Range(Append(fromGD, news)) = Range(fromGD) \cup {news}
    BY <1>0, <2>2, AppendOne
  <2>5. /\ Range(fromGD) \subseteq Range(fromGD')
        /\ ~moving /\ (last.moving \/ last.direction # direction) => news \in Range(fromGD')
    BY <2>1, <2>4
  <2>6. last'.direction = direction /\ last'.moving = moving
    BY <2>1
  <2> SUFFICES ASSUME NEW b \in (dark \cap HallButtons) \ excused
               PROVE  \/ Owed(b)'
                      \/ b \in Range(toGD) /\ ~Seen(b)'
                      \/ b \in asked /\ ~Seen(b)'
    BY <2>1 DEF HallButtonInv
  <2>7. CASE last.direction = "none" /\ b = <<1, UP>>
    <3>1. position = 2 /\ ~moving /\ direction = UP /\ UP # "none"
      BY <2>1, <2>7, Directions DEF PollInv
    <3>2. position = 2 * b[1] /\ b[2] = direction
      BY <2>7, <3>1
    <3>3. <<"serviced", b>> \in Range(fromGD')
      BY <2>3, <2>5, <2>7, <3>1, <3>2
    <3> QED  BY <3>3 DEF Owed
  <2>8. CASE <<"serviced", b>> \in Range(fromGD) \/ Enabling(b)
    BY <2>1, <2>5, <2>8 DEF Owed, Enabling
  <2>9. CASE ~Seen(b) /\ (b \in Range(toGD) \/ b \in asked)
    <3>1. CASE Seen(b)'
      <4>1. position = 2 * b[1] /\ ~moving /\ direction = b[2]
        BY <2>1, <2>6, <3>1 DEF Seen
      <4>2. last.moving \/ last.direction # direction
        BY <2>9, <4>1 DEF Seen
      <4>3. <<"serviced", b>> \in Range(fromGD')
        BY <2>3, <2>5, <4>1, <4>2
      <4> QED  BY <4>3 DEF Owed
    <3> QED  BY <2>9, <3>1
  <2> QED  BY <2>1, <2>7, <2>8, <2>9 DEF HallButtonInv, Owed, Known
<1>9. CASE RemoveElevator
  <2>1. /\ UNCHANGED <<position, moving, direction, dark, toGD, asked, last>>
        /\ life' = "removed" /\ Known /\ fromGD' = Append(fromGD, <<"removed">>)
        /\ excused' = excused \cup
             {b \in (HallButtons \cap dark) \ assigned : b \in asked \/ ReportDue(b)}
    BY <1>9 DEF RemoveElevator, screenVars, carVars, pressVars
  <2>2. PICK more \in Seq(Runs) :
           /\ edt' = edt \o more
           /\ \A call \in assigned : <<"enable", call>> \in Range(more)
    BY <1>9, CallsRelit
  <2>3. Range(edt') = Range(edt) \cup Range(more)
    BY <1>0, <2>2, ConcatRange
  <2>4. \A b : b \in assigned \/ Enabling(b) => Owed(b)'
    BY <2>2, <2>3 DEF Enabling, Owed
  <2>5. Range(fromGD) \subseteq Range(fromGD')
    BY <1>0, <2>1, AppendOne, KindsOfNews
  <2>6. Known /\ last.direction = "none" => ReportDue(<<1, UP>>)
    <3> SUFFICES ASSUME Known, last.direction = "none" PROVE ReportDue(<<1, UP>>)
      OBVIOUS
    <3>1. position = 2 /\ ~moving /\ direction = UP /\ UP # "none"
      BY Directions DEF PollInv
    <3>2. <<1, UP>>[1] = 1 /\ <<1, UP>>[2] = UP /\ 2 * 1 = 2
      OBVIOUS
    <3> QED  BY <3>1, <3>2 DEF ReportDue
  <2> SUFFICES ASSUME NEW b \in (dark \cap HallButtons) \ excused'
               PROVE  Owed(b)' \/ b \in Range(toGD)
    BY <2>1 DEF HallButtonInv
  <2>7. b \notin excused /\ (b \in asked \/ ReportDue(b) => b \in assigned)
    BY <2>1
  <2>8. CASE <<"serviced", b>> \in Range(fromGD)
    BY <2>5, <2>8 DEF Owed
  <2> QED  BY <2>1, <2>4, <2>6, <2>7, <2>8 DEF HallButtonInv, Owed
<1>10. ASSUME NEW i \in DOMAIN fromEC, OnFloorReached(i) \/ OnElevatorDirectionChange(i)
       PROVE  HallButtonInv'
  <2>1. UNCHANGED <<position, moving, last, dark, excused, toGD, fromGD, life, asked>>
    BY <1>10 DEF OnFloorReached, OnElevatorDirectionChange, Handle, gdVars, screenVars,
                 carVars, pressVars
  <2>2. Range(edt) \subseteq Range(edt')
    BY <1>10, ShownRange
  <2> QED  BY <2>1, <2>2, HallButtonKept DEF Enabling
<1>11. ASSUME NEW i \in DOMAIN fromGD, OnHallCallServiced(i) \/ OnElevatorError(i)
       PROVE  HallButtonInv'
  <2>1. /\ UNCHANGED <<position, moving, last, dark, excused, toGD, life, asked>>
        /\ HandleGD(i)
    BY <1>11 DEF OnHallCallServiced, OnElevatorError, HandleGD, screenVars, carVars,
                 pressVars
  <2>2. /\ Range(fromGD) \subseteq Range(fromGD') \cup {fromGD[i]}
        /\ fromGD[i] \in GDNews
    BY <2>1, HandledGD
  <2>3. Range(edt) \subseteq Range(edt')
    <3>1. \A run \in Runs : Range(Append(edt, run)) = Range(edt) \cup {run}
      BY <1>0, Queued
    <3> QED  BY <1>11, <3>1, NewsOfGD
  <2>4. \A b \in HallButtons : fromGD[i] = <<"serviced", b>> => Owed(b)'
    <3> SUFFICES ASSUME NEW b \in HallButtons, fromGD[i] = <<"serviced", b>>
                 PROVE  Owed(b)'
      OBVIOUS
    <3> DEFINE run == <<"enable", b>>
    <3>1. fromGD[i][1] = "serviced" /\ fromGD[i][2] = b /\ "serviced" # "removed"
      OBVIOUS
    <3>2. OnHallCallServiced(i) /\ b[1] \in 1 .. TopFloor
      BY <1>1, <1>11, <3>1 DEF OnElevatorError
    <3>3. edt' = Append(edt, run)
      BY <3>1, <3>2 DEF OnHallCallServiced
    <3>4. run \in Runs
      BY Parameters, KindsOfRuns
    <3> HIDE DEF run
    <3>5. Range(edt') = Range(edt) \cup {run}
      BY <1>0, <3>3, <3>4, Queued
    <3> QED  BY <3>5 DEF Owed, Enabling, run
  <2>5. \A b \in HallButtons : Owed(b) => Owed(b)'
    BY <2>1, <2>2, <2>3, <2>4 DEF Owed, Enabling, Known
  <2>6. \A b : Seen(b)' <=> Seen(b)
    BY <2>1 DEF Seen
  <2> QED  BY <2>1, <2>5, <2>6 DEF HallButtonInv, Known
<1>12. ASSUME NEW b \in HallButtons, PressHallButton(b)
       PROVE  HallButtonInv'
  <2>1. /\ UNCHANGED <<position, moving, last, fromGD, life, edt, asked>>
        /\ dark' = dark \cup {b} /\ toGD' = Append(toGD, b)
        /\ excused' = IF Known /\ position = 2 * b[1] /\ ~moving
                        THEN excused \cup {b} ELSE excused
    BY <1>12 DEF PressHallButton, gdVars, carVars
  <2>2. Range(toGD') = Range(toGD) \cup {b}
    BY <1>0, <2>1, AppendOne
  <2>3. \A c : /\ Seen(c)' <=> Seen(c)
               /\ Owed(c)' <=> Owed(c)
    BY <2>1 DEF Seen, Owed, Known, Enabling
  <2>4. b \notin excused' => life = "removed" \/ ~Seen(b)
    <3>1. CASE Known
      BY <2>1, <3>1 DEF Seen
    <3>2. CASE life = "off"
      BY <1>1, <3>2 DEF Seen, PollInv
    <3> QED  BY <3>1, <3>2 DEF Known
  <2>5. excused \subseteq excused'
    BY <2>1
  <2> QED  BY <2>1, <2>2, <2>3, <2>4, <2>5 DEF HallButtonInv, Known
<1>13. ASSUME NEW b \in FloorButtons, PressFloorButton(b)
       PROVE  HallButtonInv'
  <2> DEFINE run == <<"darken", b>>
  <2>1. /\ UNCHANGED <<position, moving, last, fromGD, life, asked, toGD, dark>>
        /\ edt' = Append(edt, run) /\ excused \subseteq excused'
    BY <1>13 DEF PressFloorButton, gdVars, carVars, screenVars
  <2>2. run \in Runs
    BY KindsOfRuns
  <2> HIDE DEF run
  <2>3. Range(edt) \subseteq Range(edt')
    BY <1>0, <2>1, <2>2, Queued
  <2>4. \A c : /\ Seen(c)' <=> Seen(c)
               /\ Owed(c) => Owed(c)'
    BY <2>1, <2>3 DEF Seen, Owed, Known, Enabling
  <2> QED  BY <2>1, <2>4 DEF HallButtonInv, Known
<1>14. CASE RunNext
  <2> DEFINE run == Head(edt)
  <2>1. /\ UNCHANGED <<position, moving, last, fromGD, life, asked, toGD>>
        /\ edt # <<>> /\ edt' = Tail(edt)
    BY <1>14 DEF RunNext, gdVars, carVars, pressVars
  <2>2. Range(edt) = {run} \cup Range(edt') /\ run \in Runs
    BY <1>0, <2>1, ButFirst
  <2>3. \A b : Seen(b)' <=> Seen(b)
    BY <2>1 DEF Seen
  <2>4. CASE run[1] = "enable"
    <3>1. dark' = dark \ {run[2]} /\ excused \ {run[2]} \subseteq excused'
      BY <1>14, <2>4 DEF RunNext
    <3>2. \A b : run = <<"enable", b>> => b = run[2]
      OBVIOUS
    <3> HIDE DEF run
    <3>3. \A b \in dark' : Owed(b) => Owed(b)'
      BY <2>1, <2>2, <3>1, <3>2 DEF Owed, Known, Enabling
    <3> QED  BY <2>1, <2>3, <3>1, <3>3 DEF HallButtonInv, Known
  <2>5. CASE run[1] # "enable"
    <3>1. excused' = excused /\ \A b \in HallButtons : b \in dark' => b \in dark
      BY <1>14, <2>2, <2>5, KindsOfRuns, ButtonsDiffer DEF RunNext
    <3>2. \A b : run # <<"enable", b>>
      BY <2>5
    <3> HIDE DEF run
    <3>3. \A b : Owed(b) => Owed(b)'
      BY <2>1, <2>2, <3>2 DEF Owed, Known, Enabling
    <3> QED  BY <2>1, <2>3, <3>1, <3>3 DEF HallButtonInv, Known
  <2> QED  BY <2>4, <2>5
<1> QED  BY <1>2, <1>3, <1>4, <1>5, <1>6, <1>7, <1>8, <1>9, <1>10, <1>11, <1>12,
            <1>13, <1>14 DEF Next

-----------------------------------------------------------------------------
(* The theorems. *)

LEMMA Initially ==
    ASSUME Init
    PROVE  TypeInv /\ PanelInv /\ FloorButtonInv
<1>1. InBuilding
  <2>1. position = 2 /\ ~moving /\ finalDestination = 0 /\ ~task /\ direction = UP
        /\ moving \in BOOLEAN /\ task \in BOOLEAN
    BY DEF Init, CarInit
  <2>2. 2 \in Position /\ 2 \in 2 .. 2 * TopFloor /\ 0 \in Byte
    BY Parameters
  <2> QED  BY <2>1, <2>2, Parameters DEF InBuilding, CarTypeOK
<1>2. \A S : <<>> \in Seq(S)
  BY EmptySeq
<1>3. Range(<<>>) = {}
  BY DEF Range
<1>4. <<0, UP>> \in Byte \X Direction
  BY Parameters
<1>5. Typed
  BY <1>2, <1>4 DEF Init, Typed
<1>6. PanelInv
  BY <1>3 DEF Init, PanelInv, Registered
<1>7. FloorButtonInv
  BY <1>3 DEF Init, FloorButtonInv, Darkened
<1> QED  BY <1>1, <1>5, <1>6, <1>7 DEF TypeInv

(* What no step touches stays. *)
LEMMA Stutter ==
    ASSUME UNCHANGED vars
    PROVE  /\ TypeInv => TypeInv'
           /\ PanelInv => PanelInv'
           /\ FloorButtonInv => FloorButtonInv'
<1> USE DEF vars, carVars, pressVars, gdVars, screenVars
<1>1. TypeInv => TypeInv'
  BY DEF TypeInv, InBuilding, CarTypeOK, Sampled, Typed
<1>2. PanelInv => PanelInv'
  BY DEF PanelInv, Registered, Ordered
<1>3. FloorButtonInv => FloorButtonInv'
  BY DEF FloorButtonInv, Darkened, Waiting, Relit, CurrentFloor
<1> QED  BY <1>1, <1>2, <1>3

LEMMA PanelInvariant == Spec => [](TypeInv /\ PanelInv)
<1>1. Init => TypeInv /\ PanelInv
  BY Initially
<1>2. (TypeInv /\ PanelInv) /\ [Next]_vars => (TypeInv /\ PanelInv)'
  BY TypeStep, PanelStep, Stutter
<1> QED  BY <1>1, <1>2, PTL DEF Spec

(* Buttons, floors and directions are those of the building, whatever the  *)
(* order of the news and however slow the start-up.                        *)
THEOREM TypeCorrect == Spec => []TypeOK
<1>1. TypeInv => TypeOK
  <2> SUFFICES ASSUME TypeInv PROVE TypeOK
    OBVIOUS
  <2>1. Range(toEC) \subseteq FloorButtons
    BY RangeOf DEF TypeInv, Typed
  <2>2. Range(toGD) \subseteq HallButtons
    BY RangeOf DEF TypeInv, Typed
  <2>3. /\ pair[1] \in Byte /\ pair[2] \in Direction
        /\ shown[1] \in Byte /\ shown[2] \in Direction
    BY DEF TypeInv, Typed
  <2> QED  BY <2>1, <2>2, <2>3 DEF TypeInv, InBuilding, Typed, TypeOK
<1> QED  BY <1>1, PanelInvariant, PTL

(* A dark floor button waits for something that comes, in every order of   *)
(* the threads that handle the news.                                       *)
THEOREM FloorButtonsAlwaysLit == Spec => []FloorButtonsLit
<1>1. Init => FloorButtonInv
  BY Initially
<1>2. (TypeInv /\ PanelInv) /\ (TypeInv /\ PanelInv)' /\ FloorButtonInv /\ [Next]_vars
        => FloorButtonInv'
  BY FloorButtonStep, Stutter
<1>3. TypeInv /\ FloorButtonInv => FloorButtonsLit
  <2> SUFFICES ASSUME TypeInv, FloorButtonInv,
                      NEW b \in (dark \cap FloorButtons) \ excused
               PROVE  SelectionPending(b)
    BY DEF FloorButtonsLit
  <2>1. Waiting(b)
    BY DEF FloorButtonInv, Darkened
  <2>2. Relit(b) => Enabling(b)
    BY DEF Relit, Relights, Enabling, Range
  <2> QED  BY <2>1, <2>2 DEF Waiting, SelectionPending
<1> QED  BY <1>1, <1>2, <1>3, PanelInvariant, PTL DEF Spec

(* The panel shows where the car is and heads as soon as all news are      *)
(* handled, if none overtook another and the panel was there in time.      *)
THEOREM DisplayAlwaysCurrent ==
    ASSUME "slowEDT" \notin Races PROVE Spec => []DisplayCurrent
<1>1. Init => DisplayInv
  BY DEF Init, CarInit, DisplayInv, Tells
<1>2. (TypeInv /\ PanelInv) /\ (TypeInv /\ PanelInv)' /\ DisplayInv /\ [Next]_vars
        => DisplayInv'
  <2>1. UNCHANGED vars /\ DisplayInv => DisplayInv'
    BY DEF vars, carVars, screenVars, DisplayInv, CurrentFloor
  <2> QED  BY <2>1, DisplayStep
<1>3. TypeInv /\ DisplayInv => DisplayCurrent
  <2> SUFFICES ASSUME TypeInv, DisplayInv, life = "running", fromEC = <<>>,
                      \A i \in DOMAIN edt : edt[i][1] # "setText", ~overtaken
               PROVE  shown = <<CurrentFloor, direction>>
    BY DEF DisplayCurrent
  <2>1. /\ Tells(fromEC, "floor", CurrentFloor, pair[1])
        /\ Tells(fromEC, "direction", direction, pair[2])
        /\ Tells(edt, "setText", pair, shown)
    BY DEF DisplayInv
  <2>2. pair[1] = CurrentFloor /\ pair[2] = direction
    BY <2>1 DEF Tells
  <2>3. shown = pair
    BY <2>1 DEF Tells, Newest
  <2> QED  BY <2>2, <2>3 DEF TypeInv, Typed
<1> QED  BY <1>1, <1>2, <1>3, PanelInvariant, PTL DEF Spec

(* A dark hall button waits for something that comes, unless the program   *)
(* is about to end: every call served is one that some poll, or the first, *)
(* infers from what it saw before.  Whatever races there are, with news,   *)
(* removals and samples.                                                   *)
THEOREM HallButtonsAlwaysLit == Spec => []HallButtonsLit
<1> DEFINE HallInv == PollInv /\ (Doomed \/ HallButtonInv)
<1>1. Init => HallInv
  BY DEF Init, CarInit, PollInv, HallButtonInv, Known
<1>2. /\ (TypeInv /\ PanelInv) /\ (TypeInv /\ PanelInv)'
      /\ HallInv /\ [Next]_vars
      => HallInv'
  <2>1. UNCHANGED vars /\ HallInv => HallInv'
    BY DEF vars, carVars, gdVars, pressVars, screenVars, PollInv, HallButtonInv, Known,
           Owed, Seen, Enabling, Doomed
  <2> QED  BY <2>1, PollStep, HallButtonStep, DoomedStays
<1>3. HallInv => HallButtonsLit
  <2> SUFFICES ASSUME PollInv, HallButtonInv,
                      NEW b \in (dark \cap HallButtons) \ excused
               PROVE  HallCallPending(b)
    BY DEF HallButtonsLit
  <2>1. CASE Known /\ last.direction = "none" /\ b = <<1, UP>>
    <3>1. position = 2 /\ ~moving /\ direction = UP /\ UP # "none"
      BY <2>1, Directions DEF PollInv
    <3>2. b[1] = 1 /\ b[2] = UP /\ 2 * b[1] = 2
      BY <2>1
    <3> QED  BY <2>1, <3>1, <3>2 DEF ReportDue, HallCallPending
  <2> QED  BY <2>1 DEF HallButtonInv, Owed, HallCallPending
<1> QED  BY <1>1, <1>2, <1>3, PanelInvariant, PTL DEF Spec
=============================================================================
