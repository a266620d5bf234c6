-------------------------- MODULE StatusLinkProofs --------------------------
(***************************************************************************)
(* Proofs about StatusLink, for every building, set of calls, length of    *)
(* message, number of polls and interleaving of the tasks.                 *)
(***************************************************************************)
EXTENDS StatusLink, CollectionLemmas, FiniteSetTheorems

-----------------------------------------------------------------------------
(* The inductive invariant. *)

Copies == [up : Seq(Floor), down : Seq(Floor), upRequests : Seq(Floor),
           downRequests : Seq(Floor), calls : 0 .. MaxPending]

Request == HallCalls \cup {Poll}

Typed ==
    /\ up \in Seq(Floor) /\ down \in Seq(Floor) /\ missed \in Seq(Floor)
    /\ upRequests \in Seq(Floor) /\ downRequests \in Seq(Floor)
    /\ comm \in {"recv", "count", "fill"} /\ copy \in Copies
    /\ toEC \in Seq(Request) /\ toGD \in Seq(Byte)
    /\ poller \in {"idle", "waiting", "removed"}
    /\ assigned \subseteq Byte \X Byte
    /\ spoilt \subseteq {"flush", "overshoot", "long"}

(* A hall call is in one place at a time: what is listed, and copied with  *)
(* the missed calls as they are, are no more calls than may be pending.    *)
Counted ==
    /\ PendingCalls <= MaxPending /\ PendingRequests <= MaxPending
    /\ comm # "recv" => Len(copy.up) + Len(copy.down) + Len(missed) <= MaxPending
    /\ Len(copy.upRequests) + Len(copy.downRequests) <= MaxPending

(* While a poll is out, the floors that are called are ones that were seen *)
(* and comprise those that are called all the time.                        *)
Between(floors) == steady \subseteq floors /\ floors \subseteq seen

Watched == poller = "waiting" => Between(CalledFloors)

(* An answer: a delimiter ends it, and occurs nowhere else; its counts stay *)
(* within it; the floors it reports are between steady and seen.           *)
Reported(m) == {m[5 + 2 * i] : i \in 1 .. m[6]}

Answer(m) ==
    /\ Len(m) > 7 /\ Len(m) <= MaxMessageLength + 1
    /\ m[Len(m)] = MESSAGE_TERMINATOR
    /\ \A i \in 1 .. Len(m) - 1 : m[i] # MESSAGE_TERMINATOR
    /\ m[1] = STATUS_RESPONSE
    /\ 7 + 2 * m[6] < Len(m) /\ 7 + 2 * m[6] + m[7 + 2 * m[6]] < Len(m)

(* Unless something was spoilt, the poll that is out is in one place only: *)
(* on its way, being answered, or as an answer in the stream.              *)
PollOnWay == \E i \in DOMAIN toEC : toEC[i] = Poll

OnePoll == \A i, j \in DOMAIN toEC : toEC[i] = Poll /\ toEC[j] = Poll => i = j

InStep ==
    /\ poller # "waiting" => ~PollOnWay /\ comm = "recv" /\ toGD = <<>>
    /\ OnePoll
    /\ PollOnWay => comm = "recv" /\ toGD = <<>>
    /\ comm # "recv" => toGD = <<>>
    /\ toGD # <<>> => Answer(toGD) /\ Between(Reported(toGD))

(* What is being answered covers the called floors.                        *)
CopiedFloors == Range(copy.up) \cup Range(copy.down) \cup Range(missed)

Copied ==
    /\ comm # "recv" => Between(CopiedFloors)
    /\ comm = "fill" => copy.calls = Len(copy.up) + Len(copy.down) + Len(missed)

LinkInv ==
    /\ Typed /\ Counted /\ Watched
    /\ spoilt = {} => InStep /\ Copied /\ poller # "removed"

-----------------------------------------------------------------------------
(* What sendStatus writes. *)

(* A byte that is not the delimiter. *)
Plain == 0 .. ByteSize - 2

LEMMA FloorsArePlain == Floor \subseteq Plain /\ Direction \subseteq Plain
                          /\ Plain \subseteq Byte /\ 0 \in Plain
                          /\ STATUS_RESPONSE \in Plain /\ 1 \in Plain
                          /\ 0 .. MaxPending \subseteq Plain
                          /\ MESSAGE_TERMINATOR \in Byte \ Plain
BY LinkAssumption DEF Floor, Direction, Plain, Byte, UP, DOWN,
                      STATUS_RESPONSE, MESSAGE_TERMINATOR

LEMMA OneByte ==
    ASSUME NEW S, NEW x \in S
    PROVE  <<x>> \in Seq(S) /\ Len(<<x>>) = 1 /\ <<x>>[1] = x
OBVIOUS

(* Two parts of a message, one after the other. *)
LEMMA Joined ==
    ASSUME NEW S, NEW s \in Seq(S), NEW t \in Seq(S)
    PROVE  /\ s \o t \in Seq(S) /\ Len(s \o t) = Len(s) + Len(t)
           /\ \A i \in 1 .. Len(s) : (s \o t)[i] = s[i]
           /\ \A i \in 1 .. Len(t) : (s \o t)[Len(s) + i] = t[i]
<1>1. /\ s \o t \in Seq(S) /\ Len(s \o t) = Len(s) + Len(t)
      /\ Len(s) \in Nat /\ Len(t) \in Nat
      /\ \A i \in 1 .. Len(s) + Len(t) :
            (s \o t)[i] = IF i <= Len(s) THEN s[i] ELSE t[i - Len(s)]
  BY ConcatProperties, LenProperties
<1> DEFINE u == s \o t
<1> HIDE DEF u
<1>2. ASSUME NEW i \in 1 .. Len(s)
      PROVE  u[i] = s[i]
  <2>1. i \in 1 .. Len(s) + Len(t) /\ i <= Len(s)
    BY <1>1
  <2> QED  BY <1>1, <2>1 DEF u
<1>3. ASSUME NEW i \in 1 .. Len(t)
      PROVE  u[Len(s) + i] = t[i]
  <2>1. /\ Len(s) + i \in 1 .. Len(s) + Len(t) /\ ~(Len(s) + i <= Len(s))
        /\ Len(s) + i - Len(s) = i
    BY <1>1
  <2> QED  BY <1>1, <2>1 DEF u
<1> QED  BY <1>1, <1>2, <1>3 DEF u

LEMMA JoinedPlain ==
    ASSUME NEW s \in Seq(Plain), NEW t \in Seq(Plain)
    PROVE  /\ s \o t \in Seq(Plain) /\ Len(s \o t) = Len(s) + Len(t)
           /\ Len(s) \in Nat /\ Len(t) \in Nat
           /\ \A i \in 1 .. Len(s) : (s \o t)[i] = s[i]
           /\ \A i \in 1 .. Len(t) : (s \o t)[Len(s) + i] = t[i]
BY Joined, LenProperties

(* Pairs writes each floor at an odd place and its direction after it. *)
LEMMA PairsAlternate ==
    ASSUME NEW floors \in Seq(Floor), NEW d \in Direction
    PROVE  /\ Pairs(floors, d) \in Seq(Plain)
           /\ Len(Pairs(floors, d)) = 2 * Len(floors)
           /\ \A i \in 1 .. Len(floors) : Pairs(floors, d)[2 * i - 1] = floors[i]
<1> DEFINE n == Len(floors)
           p == Pairs(floors, d)
<1>1. n \in Nat /\ \A i \in 1 .. n : floors[i] \in Plain
  BY LenProperties, FloorsArePlain
<1>2. d \in Plain
  BY FloorsArePlain
<1>3. ASSUME NEW i \in 1 .. 2 * n, i % 2 = 1
      PROVE  (i + 1) \div 2 \in 1 .. n
  BY <1>1, <1>3
<1>4. p \in [1 .. 2 * n -> Plain]
  BY <1>1, <1>2, <1>3 DEF Pairs
<1>5. p \in Seq(Plain) /\ Len(p) = 2 * n
  <2> HIDE DEF p
  <2> QED  BY <1>1, <1>4, FunctionIsSeq
<1>6. ASSUME NEW i \in 1 .. n
      PROVE  p[2 * i - 1] = floors[i]
  <2>1. 2 * i - 1 \in 1 .. 2 * n
    BY <1>1
  <2>2. (2 * i - 1) % 2 = 1 /\ (2 * i - 1 + 1) \div 2 = i
    BY <1>1
  <2> QED  BY <2>1, <2>2 DEF Pairs
<1> QED  BY <1>5, <1>6

LEMMA OverwriteLastKeepsRest ==
    ASSUME NEW s \in Seq(Plain), s # <<>>, NEW n \in Plain
    PROVE  LET t == OverwriteLast(s, n)
           IN  /\ t \in Seq(Plain) /\ Len(t) = Len(s)
               /\ \A i \in 1 .. Len(s) : t[i] = IF i = Len(s) THEN n ELSE s[i]
<1>1. Len(s) \in 1 .. Len(s)
  BY EmptySeq
<1> QED  BY <1>1, ExceptSeq DEF OverwriteLast

(* What follows the hall calls is one byte longer than the floor requests, *)
(* and the count it begins with, whatever overwrites it, is not too high.  *)
LEMMA FloorRequestPartFits ==
    ASSUME copy \in Copies,
           Len(copy.upRequests) + Len(copy.downRequests) <= MaxPending
    PROVE  LET m == Len(copy.upRequests) + Len(copy.downRequests)
           IN  /\ FloorRequestPart \in Seq(Plain)
               /\ Len(FloorRequestPart) = m + 1
               /\ FloorRequestPart[1] \in 0 .. m
<1> DEFINE u == Len(copy.upRequests)
           d == Len(copy.downRequests)
           m == u + d
           a == <<m>> \o copy.upRequests
           b == OverwriteLast(a, d)
           c == b \o copy.downRequests
<1>1. /\ copy.upRequests \in Seq(Plain) /\ copy.downRequests \in Seq(Plain)
      /\ u \in Nat /\ d \in Nat
  BY FloorsArePlain, SeqMonotonic, LenProperties DEF Copies
<1>2. m \in Plain /\ d \in Plain /\ 0 \in Plain
  <2>1. u + d <= MaxPending
    OBVIOUS
  <2> HIDE DEF u, d
  <2>2. MaxPending \in Nat /\ ByteSize \in Nat /\ MaxPending < ByteSize - 1
    BY LinkAssumption
  <2> QED  BY <1>1, <2>1, <2>2 DEF Plain
<1>3. <<m>> \in Seq(Plain) /\ Len(<<m>>) = 1 /\ <<m>>[1] = m
  BY <1>2, OneByte
<1>4. a \in Seq(Plain) /\ Len(a) = 1 + u /\ a[1] = m
  <2> HIDE DEF m, u
  <2>1. /\ a \in Seq(Plain) /\ Len(a) = 1 + u
        /\ \A i \in 1 .. 1 : a[i] = <<m>>[i]
    BY <1>1, <1>3, JoinedPlain DEF u
  <2> QED  BY <1>3, <2>1
<1>5. a # <<>>
  BY <1>1, <1>4
<1>6. /\ b \in Seq(Plain) /\ Len(b) = 1 + u
      /\ b[1] = IF u = 0 THEN d ELSE m
  <2> HIDE DEF a, m, u, d
  <2>1. /\ b \in Seq(Plain) /\ Len(b) = Len(a)
        /\ \A i \in 1 .. Len(a) : b[i] = IF i = Len(a) THEN d ELSE a[i]
    BY <1>2, <1>4, <1>5, OverwriteLastKeepsRest
  <2> HIDE DEF b
  <2> QED  BY <1>1, <1>4, <2>1
<1>7. c \in Seq(Plain) /\ Len(c) = 1 + u + d /\ c[1] = b[1] /\ c # <<>>
  <2> HIDE DEF b, u, d
  <2>0. 1 + u \in Nat /\ 1 \in 1 .. 1 + u
    BY <1>1
  <2>1. /\ c \in Seq(Plain) /\ Len(c) = 1 + u + d
        /\ \A i \in 1 .. 1 + u : c[i] = b[i]
    <3>1. /\ c \in Seq(Plain) /\ Len(c) = Len(b) + Len(copy.downRequests)
          /\ \A i \in 1 .. Len(b) : c[i] = b[i]
      BY <1>1, <1>6, JoinedPlain
    <3> HIDE DEF c
    <3> QED  BY <1>6, <3>1 DEF d
  <2> HIDE DEF c
  <2> QED  BY <1>1, <2>0, <2>1
<1>8. /\ FloorRequestPart \in Seq(Plain) /\ Len(FloorRequestPart) = 1 + u + d
      /\ FloorRequestPart[1] = IF 1 + u + d = 1 THEN 0 ELSE c[1]
  <2>1. FloorRequestPart = OverwriteLast(c, 0)
    BY DEF FloorRequestPart
  <2> HIDE DEF c, u, d
  <2>2. /\ FloorRequestPart \in Seq(Plain) /\ Len(FloorRequestPart) = Len(c)
        /\ \A i \in 1 .. Len(c) :
             FloorRequestPart[i] = IF i = Len(c) THEN 0 ELSE c[i]
    BY <1>2, <1>7, <2>1, OverwriteLastKeepsRest
  <2>3. 1 \in 1 .. Len(c)
    BY <1>1, <1>7
  <2> QED  BY <1>7, <2>2, <2>3
<1> HIDE DEF u, d, b, c
<1> QED
  <2>1. /\ FloorRequestPart \in Seq(Plain) /\ Len(FloorRequestPart) = m + 1
        /\ FloorRequestPart[1] \in 0 .. m
    BY <1>1, <1>6, <1>7, <1>8
  <2> QED  BY <2>1 DEF u, d

(* The hall calls, at odd places, are those of the copies and the missed.  *)
LEMMA HallCallPartLists ==
    ASSUME Typed, NEW direction \in Direction
    PROVE  LET n == Len(copy.up) + Len(copy.down) + Len(missed)
               h == HallCallPart(direction)
           IN  /\ h \in Seq(Plain) /\ Len(h) = 2 * n /\ n \in Nat
               /\ {h[2 * i - 1] : i \in 1 .. n} = CopiedFloors
<1> DEFINE a == Len(copy.up)
           b == Len(copy.down)
           c == Len(missed)
           n == a + b + c
           p == Pairs(copy.up, UP)
           q == Pairs(copy.down, DOWN)
           r == Pairs(missed, direction)
           h == HallCallPart(direction)
<1>0. UP \in Direction /\ DOWN \in Direction
  BY DEF Direction
<1>1. /\ copy.up \in Seq(Floor) /\ copy.down \in Seq(Floor)
      /\ missed \in Seq(Floor)
      /\ a \in Nat /\ b \in Nat /\ c \in Nat
  BY LenProperties DEF Typed, Copies
<1>2. /\ p \in Seq(Plain) /\ Len(p) = 2 * a
      /\ \A i \in 1 .. a : p[2 * i - 1] = copy.up[i]
      /\ q \in Seq(Plain) /\ Len(q) = 2 * b
      /\ \A i \in 1 .. b : q[2 * i - 1] = copy.down[i]
      /\ r \in Seq(Plain) /\ Len(r) = 2 * c
      /\ \A i \in 1 .. c : r[2 * i - 1] = missed[i]
  BY <1>0, <1>1, PairsAlternate
<1>3. h = (p \o q) \o r
  BY DEF HallCallPart
<1> HIDE DEF p, q, r, h, a, b, c
<1>4. /\ p \o q \in Seq(Plain) /\ Len(p \o q) = 2 * a + 2 * b
      /\ \A i \in 1 .. 2 * a : (p \o q)[i] = p[i]
      /\ \A i \in 1 .. 2 * b : (p \o q)[2 * a + i] = q[i]
  <2>1. /\ p \o q \in Seq(Plain) /\ Len(p \o q) = Len(p) + Len(q)
        /\ \A i \in 1 .. Len(p) : (p \o q)[i] = p[i]
        /\ \A i \in 1 .. Len(q) : (p \o q)[Len(p) + i] = q[i]
    BY <1>2, JoinedPlain
  <2> QED  BY <1>2, <2>1
<1>5. /\ h \in Seq(Plain) /\ Len(h) = 2 * a + 2 * b + 2 * c
      /\ \A i \in 1 .. 2 * a + 2 * b : h[i] = (p \o q)[i]
      /\ \A i \in 1 .. 2 * c : h[2 * a + 2 * b + i] = r[i]
  <2> DEFINE pq == p \o q
  <2> HIDE DEF pq
  <2>1. pq \in Seq(Plain) /\ h = pq \o r /\ Len(pq) = 2 * a + 2 * b
    BY <1>3, <1>4 DEF pq
  <2>2. /\ h \in Seq(Plain) /\ Len(h) = Len(pq) + Len(r)
        /\ \A i \in 1 .. Len(pq) : h[i] = pq[i]
        /\ \A i \in 1 .. Len(r) : h[Len(pq) + i] = r[i]
    BY <1>2, <2>1, JoinedPlain
  <2> QED  BY <1>2, <2>1, <2>2 DEF pq
<1>6. ASSUME NEW i \in 1 .. a
      PROVE  i \in 1 .. n /\ h[2 * i - 1] = copy.up[i]
  <2>1. i \in 1 .. n /\ 2 * i - 1 \in 1 .. 2 * a /\ 2 * i - 1 \in 1 .. 2 * a + 2 * b
    BY <1>1
  <2> QED  BY <1>2, <1>4, <1>5, <2>1
<1>7. ASSUME NEW i \in 1 .. b
      PROVE  a + i \in 1 .. n /\ h[2 * (a + i) - 1] = copy.down[i]
  <2>1. /\ a + i \in 1 .. n /\ 2 * i - 1 \in 1 .. 2 * b
        /\ 2 * (a + i) - 1 = 2 * a + (2 * i - 1)
        /\ 2 * a + (2 * i - 1) \in 1 .. 2 * a + 2 * b
    BY <1>1
  <2> QED  BY <1>2, <1>4, <1>5, <2>1
<1>8. ASSUME NEW i \in 1 .. c
      PROVE  a + b + i \in 1 .. n /\ h[2 * (a + b + i) - 1] = missed[i]
  <2>1. /\ a + b + i \in 1 .. n /\ 2 * i - 1 \in 1 .. 2 * c
        /\ 2 * (a + b + i) - 1 = 2 * a + 2 * b + (2 * i - 1)
    BY <1>1
  <2> QED  BY <1>2, <1>5, <2>1
<1>9. {h[2 * i - 1] : i \in 1 .. n} \subseteq CopiedFloors
  <2> SUFFICES ASSUME NEW i \in 1 .. n
               PROVE  h[2 * i - 1] \in CopiedFloors
    OBVIOUS
  <2>1. CASE i \in 1 .. a
    BY <1>1, <1>6, <2>1, RangeOf DEF CopiedFloors, a
  <2>2. CASE i > a /\ i <= a + b
    <3>1. i - a \in 1 .. b /\ a + (i - a) = i
      BY <1>1, <2>2
    <3>2. h[2 * i - 1] = copy.down[i - a]
      BY <1>7, <3>1
    <3> QED  BY <1>1, <3>1, <3>2, RangeOf DEF CopiedFloors, b
  <2>3. CASE i > a + b
    <3>1. i - (a + b) \in 1 .. c /\ a + b + (i - (a + b)) = i
      BY <1>1, <2>3
    <3>2. h[2 * i - 1] = missed[i - (a + b)]
      BY <1>8, <3>1
    <3> QED  BY <1>1, <3>1, <3>2, RangeOf DEF CopiedFloors, c
  <2> QED  BY <1>1, <2>1, <2>2, <2>3
<1>10. CopiedFloors \subseteq {h[2 * i - 1] : i \in 1 .. n}
  <2>1. ASSUME NEW x \in Range(copy.up)
        PROVE  x \in {h[2 * i - 1] : i \in 1 .. n}
    <3>1. PICK i \in 1 .. a : x = copy.up[i]
      BY <1>1, RangeOf DEF a
    <3> QED  BY <1>6, <3>1
  <2>2. ASSUME NEW x \in Range(copy.down)
        PROVE  x \in {h[2 * i - 1] : i \in 1 .. n}
    <3>1. PICK i \in 1 .. b : x = copy.down[i]
      BY <1>1, RangeOf DEF b
    <3> QED  BY <1>7, <3>1
  <2>3. ASSUME NEW x \in Range(missed)
        PROVE  x \in {h[2 * i - 1] : i \in 1 .. n}
    <3>1. PICK i \in 1 .. c : x = missed[i]
      BY <1>1, RangeOf DEF c
    <3> QED  BY <1>8, <3>1
  <2> QED  BY <2>1, <2>2, <2>3 DEF CopiedFloors
<1>11. Len(h) = 2 * n /\ n \in Nat
  BY <1>1, <1>5
<1> QED  BY <1>5, <1>9, <1>10, <1>11 DEF a, b, c, h

(* A status is as long as its parts; only its floor and its last byte can  *)
(* be the delimiter.                                                       *)
LaidOut(body, floor, direction) ==
    LET n == Len(copy.up) + Len(copy.down) + Len(missed)
        m == Len(copy.upRequests) + Len(copy.downRequests)
        h == HallCallPart(direction)
    IN  /\ Message(floor, direction) = body \o <<MESSAGE_TERMINATOR>>
        /\ Len(body) = 7 + 2 * n + m
        /\ body[1] = STATUS_RESPONSE /\ body[6] = copy.calls
        /\ \A i \in 1 .. 2 * n : body[6 + i] = h[i]
        /\ body[7 + 2 * n] \in 0 .. m

LEMMA MessageLaidOut ==
    ASSUME Typed, Len(copy.upRequests) + Len(copy.downRequests) <= MaxPending,
           NEW S, Plain \subseteq S, NEW floor \in S, NEW direction \in Direction
    PROVE  \E body \in Seq(S) : LaidOut(body, floor, direction)
<1> DEFINE n == Len(copy.up) + Len(copy.down) + Len(missed)
           m == Len(copy.upRequests) + Len(copy.downRequests)
           h == HallCallPart(direction)
           head == <<STATUS_RESPONSE, 1, floor, direction, 0, copy.calls>>
           a == head \o h
           body == a \o FloorRequestPart
<1>1. ASSUME NEW s \in Seq(S), NEW t \in Seq(S)
      PROVE  /\ s \o t \in Seq(S) /\ Len(s \o t) = Len(s) + Len(t)
             /\ \A i \in 1 .. Len(s) : (s \o t)[i] = s[i]
             /\ \A i \in 1 .. Len(t) : (s \o t)[Len(s) + i] = t[i]
  BY Joined
<1>2. h \in Seq(S) /\ Len(h) = 2 * n /\ n \in Nat
  BY HallCallPartLists, SeqMonotonic
<1>3. /\ FloorRequestPart \in Seq(S) /\ Len(FloorRequestPart) = m + 1
      /\ FloorRequestPart[1] \in 0 .. m /\ m \in Nat
  <2>1. copy \in Copies
    BY DEF Typed
  <2>2. m \in Nat
    BY <2>1, LenProperties DEF Copies
  <2> QED  BY <2>1, <2>2, FloorRequestPartFits, SeqMonotonic
<1>4. head \in Seq(S) /\ Len(head) = 6
  <2>1. copy.calls \in 0 .. MaxPending
    BY DEF Typed, Copies
  <2>2. copy.calls \in S
    BY <2>1, FloorsArePlain
  <2>3. STATUS_RESPONSE \in S /\ 1 \in S /\ 0 \in S /\ direction \in S
    BY FloorsArePlain
  <2> QED  BY <2>2, <2>3
<1>5. head[1] = STATUS_RESPONSE /\ head[6] = copy.calls
  OBVIOUS
<1> HIDE DEF head, h, n, m
<1>6. /\ a \in Seq(S) /\ Len(a) = 6 + 2 * n
      /\ \A i \in 1 .. 6 : a[i] = head[i]
      /\ \A i \in 1 .. 2 * n : a[6 + i] = h[i]
  <2>1. /\ a \in Seq(S) /\ Len(a) = Len(head) + Len(h)
        /\ \A i \in 1 .. Len(head) : a[i] = head[i]
        /\ \A i \in 1 .. Len(h) : a[Len(head) + i] = h[i]
    BY <1>1, <1>2, <1>4
  <2> HIDE DEF a
  <2> QED  BY <1>2, <1>4, <2>1
<1> HIDE DEF a
<1>7. /\ body \in Seq(S) /\ Len(body) = 7 + 2 * n + m
      /\ \A i \in 1 .. 6 + 2 * n : body[i] = a[i]
      /\ \A i \in 1 .. m + 1 : body[6 + 2 * n + i] = FloorRequestPart[i]
  <2>1. /\ body \in Seq(S) /\ Len(body) = Len(a) + Len(FloorRequestPart)
        /\ \A i \in 1 .. Len(a) : body[i] = a[i]
        /\ \A i \in 1 .. Len(FloorRequestPart) :
              body[Len(a) + i] = FloorRequestPart[i]
    BY <1>1, <1>3, <1>6
  <2> HIDE DEF body
  <2> QED  BY <1>2, <1>3, <1>6, <2>1
<1>8. Message(floor, direction) = body \o <<MESSAGE_TERMINATOR>>
  BY DEF Message, body, a, head, h
<1> HIDE DEF body
<1>9. body[1] = STATUS_RESPONSE /\ body[6] = copy.calls
  BY <1>2, <1>5, <1>6, <1>7
<1>10. \A i \in 1 .. 2 * n : body[6 + i] = h[i]
  BY <1>2, <1>6, <1>7
<1>11. body[7 + 2 * n] \in 0 .. m
  <2>1. 1 \in 1 .. m + 1 /\ 6 + 2 * n + 1 = 7 + 2 * n
    BY <1>2, <1>3
  <2> QED  BY <1>3, <1>7, <2>1
<1> QED  BY <1>7, <1>8, <1>9, <1>10, <1>11 DEF LaidOut, n, m, h

(* A status that is counted right, whose floor is not the delimiter and    *)
(* that is not too long is an answer, and it reports the floors copied.    *)
LEMMA MessageAnswers ==
    ASSUME Typed, Len(copy.upRequests) + Len(copy.downRequests) <= MaxPending,
           copy.calls = Len(copy.up) + Len(copy.down) + Len(missed),
           NEW floor \in Plain, NEW direction \in Direction,
           Len(Message(floor, direction)) <= MaxMessageLength + 1
    PROVE  LET w == Message(floor, direction)
           IN  w \in Seq(Byte) /\ Answer(w) /\ Reported(w) = CopiedFloors
<1> DEFINE n == Len(copy.up) + Len(copy.down) + Len(missed)
           m == Len(copy.upRequests) + Len(copy.downRequests)
           h == HallCallPart(direction)
           w == Message(floor, direction)
           T == <<MESSAGE_TERMINATOR>>
<1>0. PICK body \in Seq(Plain) : LaidOut(body, floor, direction)
  BY MessageLaidOut
<1>1. /\ body \in Seq(Plain)
      /\ w = body \o T
      /\ Len(body) = 7 + 2 * n + m
      /\ body[1] = STATUS_RESPONSE /\ body[6] = n
      /\ \A i \in 1 .. 2 * n : body[6 + i] = h[i]
      /\ body[7 + 2 * n] \in 0 .. m
  BY <1>0 DEF LaidOut
<1>2. /\ n \in Nat /\ {h[2 * i - 1] : i \in 1 .. n} = CopiedFloors
  BY HallCallPartLists
<1>3. m \in Nat
  BY LenProperties DEF Typed, Copies
<1>4. body \in Seq(Byte) /\ T \in Seq(Byte) /\ Len(T) = 1
      /\ T[1] = MESSAGE_TERMINATOR
  BY FloorsArePlain, SeqMonotonic
<1> HIDE DEF h, n, m, T
<1>5. /\ w \in Seq(Byte) /\ Len(w) = Len(body) + Len(T)
      /\ \A i \in 1 .. Len(body) : w[i] = body[i]
      /\ \A i \in 1 .. Len(T) : w[Len(body) + i] = T[i]
  <2>1. ASSUME NEW s \in Seq(Byte), NEW t \in Seq(Byte)
        PROVE  /\ s \o t \in Seq(Byte) /\ Len(s \o t) = Len(s) + Len(t)
               /\ \A i \in 1 .. Len(s) : (s \o t)[i] = s[i]
               /\ \A i \in 1 .. Len(t) : (s \o t)[Len(s) + i] = t[i]
    BY Joined
  <2> HIDE DEF w
  <2> QED  BY <1>1, <1>4, <2>1
<1>6. Len(w) <= MaxMessageLength + 1
  OBVIOUS
<1> HIDE DEF w
<1>7. /\ Len(w) = 8 + 2 * n + m /\ w[8 + 2 * n + m] = MESSAGE_TERMINATOR
      /\ \A i \in 1 .. 7 + 2 * n + m : w[i] = body[i]
  <2>1. 1 \in 1 .. 1 /\ 7 + 2 * n + m + 1 = 8 + 2 * n + m
    BY <1>2, <1>3
  <2> QED  BY <1>1, <1>2, <1>3, <1>4, <1>5, <2>1
<1>8. ASSUME NEW i \in 1 .. 7 + 2 * n + m
      PROVE  w[i] # MESSAGE_TERMINATOR
  <2>1. body[i] \in Plain
    BY <1>1, LenProperties
  <2> QED  BY <1>7, <2>1, FloorsArePlain
<1>9. w[1] = STATUS_RESPONSE /\ w[6] = n /\ w[7 + 2 * n] \in 0 .. m
  <2>1. {1, 6, 7 + 2 * n} \subseteq 1 .. 7 + 2 * n + m
    BY <1>2, <1>3
  <2> QED  BY <1>1, <1>7, <2>1
<1>10. Answer(w)
  <2>1. Len(w) > 7 /\ 7 + 2 * n < Len(w) /\ 7 + 2 * n + w[7 + 2 * n] < Len(w)
    BY <1>2, <1>3, <1>7, <1>9
  <2>2. Len(w) - 1 = 7 + 2 * n + m
    BY <1>2, <1>3, <1>7
  <2> QED  BY <1>6, <1>7, <1>8, <1>9, <2>1, <2>2 DEF Answer
<1>11. ASSUME NEW i \in 1 .. n
       PROVE  w[5 + 2 * i] = h[2 * i - 1]
  <2>1. /\ 5 + 2 * i = 6 + (2 * i - 1) /\ 2 * i - 1 \in 1 .. 2 * n
        /\ 5 + 2 * i \in 1 .. 7 + 2 * n + m
    BY <1>2, <1>3
  <2> QED  BY <1>1, <1>7, <2>1
<1>12. Reported(w) = CopiedFloors
  BY <1>2, <1>9, <1>11 DEF Reported
<1> QED  BY <1>5, <1>10, <1>12 DEF w

-----------------------------------------------------------------------------
(* What the dispatcher reads. *)

LEMMA CutInStream ==
    ASSUME toGD \in Seq(Byte)
    PROVE  Cut \in 0 .. Len(toGD)
<1> DEFINE ends == {i \in DOMAIN toGD : \/ toGD[i] = MESSAGE_TERMINATOR
                                        \/ i = MaxMessageLength + 1}
<1>1. DOMAIN toGD = 1 .. Len(toGD) /\ Len(toGD) \in Nat
  BY LenProperties
<1>2. CASE ends = {}
  BY <1>1, <1>2 DEF Cut
<1>3. CASE ends # {}
  <2>1. ends \in SUBSET Nat /\ ends \subseteq 1 .. Len(toGD)
    BY <1>1
  <2> HIDE DEF ends
  <2>2. \E i \in ends : \A j \in ends : i <= j
    BY <1>3, <2>1, LeastElement
  <2>3. Cut = CHOOSE i \in ends : \A j \in ends : i <= j
    BY <1>3 DEF Cut, ends
  <2>4. Cut \in ends
    BY <2>2, <2>3
  <2> QED  BY <1>1, <2>1, <2>4
<1> QED  BY <1>2, <1>3

LEMMA DataIsBytes ==
    ASSUME toGD \in Seq(Byte)
    PROVE  Data \in [0 .. MaxMessageLength - 1 -> Byte]
<1>1. 0 \in Byte
  BY FloorsArePlain
<1>2. Len(toGD) \in Nat /\ \A i \in 1 .. Len(toGD) : toGD[i] \in Byte
  BY LenProperties
<1>3. Cut \in 0 .. Len(toGD)
  BY CutInStream
<1>4. ASSUME NEW i \in 0 .. MaxMessageLength - 1, i + 1 < Cut
      PROVE  toGD[i + 1] \in Byte
  BY <1>2, <1>3, <1>4
<1> QED  BY <1>1, <1>4 DEF Data

(* What is decoded are pairs of bytes. *)
LEMMA DecodedAreBytes ==
    ASSUME toGD \in Seq(Byte), Fits
    PROVE  DecodedCalls \subseteq Byte \X Byte
<1>1. Data \in [0 .. MaxMessageLength - 1 -> Byte]
  BY DataIsBytes
<1>2. /\ MaxMessageLength \in Nat /\ MaxMessageLength > 7
      /\ \A b \in Byte : b \in Nat
  BY LinkAssumption DEF Byte
<1>3. Data[5] \in Nat /\ 6 + 2 * Data[5] < MaxMessageLength
  <2>1. 5 \in 0 .. MaxMessageLength - 1
    BY <1>2
  <2> QED  BY <1>1, <1>2, <2>1 DEF Fits, FloorCountAt
<1> DEFINE d == Data[5]
<1>4. ASSUME NEW i \in 1 .. d
      PROVE  /\ 4 + 2 * i \in 0 .. MaxMessageLength - 1
             /\ 5 + 2 * i \in 0 .. MaxMessageLength - 1
  <2> HIDE DEF d
  <2>1. d \in Nat /\ 6 + 2 * d < MaxMessageLength
    BY <1>3 DEF d
  <2> QED  BY <1>2, <2>1
<1> QED  BY <1>1, <1>4 DEF DecodedCalls

(* An answer is read whole, and as it was meant. *)
LEMMA AnswerDecoded ==
    ASSUME toGD \in Seq(Byte), toGD # <<>>, Answer(toGD)
    PROVE  /\ Cut = Len(toGD)
           /\ Data[0] = STATUS_RESPONSE /\ Fits
           /\ {call[1] : call \in DecodedCalls} = Reported(toGD)
<1> DEFINE k == Len(toGD)
           n == toGD[6]
           ends == {i \in DOMAIN toGD : \/ toGD[i] = MESSAGE_TERMINATOR
                                        \/ i = MaxMessageLength + 1}
<1>1. DOMAIN toGD = 1 .. k /\ k \in Nat /\ k # 0 /\ k \in 1 .. k
      /\ \A i \in 1 .. k : toGD[i] \in Byte
  BY LenProperties, EmptySeq
<1>2. /\ MaxMessageLength \in Nat /\ MaxMessageLength > 7
      /\ \A b \in Byte : b \in Nat
  BY LinkAssumption DEF Byte
<1>3. /\ k > 7 /\ k <= MaxMessageLength + 1 /\ toGD[k] = MESSAGE_TERMINATOR
      /\ \A i \in 1 .. k - 1 : toGD[i] # MESSAGE_TERMINATOR
      /\ toGD[1] = STATUS_RESPONSE
      /\ 7 + 2 * n < k /\ 7 + 2 * n + toGD[7 + 2 * n] < k
  BY DEF Answer
<1> HIDE DEF k
<1>4. ends = {k}
  BY <1>1, <1>2, <1>3
<1>5. Cut = k
  <2>1. k <= k
    BY <1>1
  <2>2. Cut = CHOOSE i \in {k} : \A j \in {k} : i <= j
    BY <1>4 DEF Cut
  <2> QED  BY <2>1, <2>2
<1>6. ASSUME NEW i \in Nat, i + 1 < k
      PROVE  Data[i] = toGD[i + 1] /\ i \in 0 .. MaxMessageLength - 1
  BY <1>1, <1>2, <1>3, <1>5, <1>6 DEF Data
<1>7. n \in Nat
  <2>1. 6 \in 1 .. k
    BY <1>1, <1>3
  <2> QED  BY <1>1, <1>2, <2>1
<1> HIDE DEF n
<1>8. Data[0] = STATUS_RESPONSE /\ Data[5] = n
  <2>1. 0 \in Nat /\ 0 + 1 < k /\ 5 \in Nat /\ 5 + 1 < k /\ 0 + 1 = 1 /\ 5 + 1 = 6
    BY <1>1, <1>3, <1>7
  <2> QED  BY <1>3, <1>6, <2>1 DEF n
<1>9. FloorCountAt = 6 + 2 * n /\ Data[6 + 2 * n] = toGD[7 + 2 * n]
  <2>1. 6 + 2 * n \in Nat /\ 6 + 2 * n + 1 < k /\ 6 + 2 * n + 1 = 7 + 2 * n
    BY <1>1, <1>3, <1>7
  <2> QED  BY <1>6, <1>8, <2>1 DEF FloorCountAt
<1>10. Fits
  <2>1. toGD[7 + 2 * n] \in Nat
    <3>1. 7 + 2 * n \in 1 .. k
      BY <1>1, <1>3, <1>7
    <3> QED  BY <1>1, <1>2, <3>1
  <2>2. EndOfMessage = 6 + 2 * n + toGD[7 + 2 * n]
    BY <1>9 DEF EndOfMessage
  <2> QED  BY <1>1, <1>2, <1>3, <1>7, <1>9, <2>1, <2>2 DEF Fits
<1>11. ASSUME NEW i \in 1 .. n
       PROVE  Data[4 + 2 * i] = toGD[5 + 2 * i]
  <2>1. 4 + 2 * i \in Nat /\ 4 + 2 * i + 1 < k /\ 4 + 2 * i + 1 = 5 + 2 * i
    BY <1>1, <1>3, <1>7
  <2> QED  BY <1>6, <2>1
<1>12. {call[1] : call \in DecodedCalls} = Reported(toGD)
  <2>1. DecodedCalls = {<<Data[4 + 2 * i], Data[5 + 2 * i]>> : i \in 1 .. n}
    BY <1>8 DEF DecodedCalls
  <2>2. Reported(toGD) = {toGD[5 + 2 * i] : i \in 1 .. n}
    BY DEF Reported, n
  <2>3. {call[1] : call \in DecodedCalls} = {Data[4 + 2 * i] : i \in 1 .. n}
    <3> DEFINE pair(i) == <<Data[4 + 2 * i], Data[5 + 2 * i]>>
    <3>1. \A i \in 1 .. n : pair(i) \in DecodedCalls /\ pair(i)[1] = Data[4 + 2 * i]
      BY <2>1
    <3>2. \A call \in DecodedCalls : \E i \in 1 .. n : call = pair(i)
      BY <2>1
    <3> HIDE DEF pair
    <3> QED  BY <3>1, <3>2
  <2> QED  BY <1>11, <2>2, <2>3
<1> QED  BY <1>5, <1>8, <1>10, <1>12 DEF k

-----------------------------------------------------------------------------
(* Polls and hall calls on their way. *)

LEMMA CallsAreNoPolls == \A call \in HallCalls : call # Poll
<1>1. HallCalls \subseteq (1 .. TopFloor) \X {UP, DOWN}
  BY LinkAssumption
<1> QED  BY <1>1 DEF Poll

LEMMA CallsInFinite ==
    ASSUME NEW s \in Seq(Request)
    PROVE  IsFiniteSet(CallsIn(s)) /\ Cardinality(CallsIn(s)) \in Nat
<1>1. DOMAIN s = 1 .. Len(s) /\ Len(s) \in Nat
  BY LenProperties
<1>2. IsFiniteSet(1 .. Len(s))
  BY <1>1, FS_Interval
<1>3. CallsIn(s) \in SUBSET (1 .. Len(s))
  BY <1>1 DEF CallsIn
<1>4. IsFiniteSet(CallsIn(s))
  BY <1>2, <1>3, FS_Subset
<1> QED  BY <1>4, FS_CardinalityType

LEMMA Sent ==
    ASSUME NEW s \in Seq(Request), NEW x \in Request
    PROVE  LET t == Append(s, x)
           IN  /\ t \in Seq(Request) /\ DOMAIN t = 1 .. Len(s) + 1
               /\ DOMAIN s = 1 .. Len(s) /\ Len(s) \in Nat
               /\ \A i \in 1 .. Len(s) : t[i] = s[i]
               /\ t[Len(s) + 1] = x
               /\ Cardinality(CallsIn(t)) =
                     Cardinality(CallsIn(s)) + IF x = Poll THEN 0 ELSE 1
<1> DEFINE t == Append(s, x)
           k == Len(s)
<1>1. /\ t \in Seq(Request) /\ Len(t) = k + 1
      /\ \A i \in 1 .. k : t[i] = s[i]
      /\ t[k + 1] = x
  BY AppendProperties
<1>2. k \in Nat /\ DOMAIN s = 1 .. k
  BY LenProperties
<1> HIDE DEF t, k
<1>3. DOMAIN t = 1 .. k + 1
  BY <1>1, LenProperties
<1>4. IsFiniteSet(CallsIn(s)) /\ Cardinality(CallsIn(s)) \in Nat
  BY CallsInFinite
<1>5. k + 1 \notin CallsIn(s)
  BY <1>2 DEF CallsIn
<1>6. CASE x = Poll
  <2>1. CallsIn(t) = CallsIn(s)
    BY <1>1, <1>2, <1>3, <1>6 DEF CallsIn
  <2> QED  BY <1>1, <1>2, <1>3, <1>4, <1>6, <2>1 DEF t, k
<1>7. CASE x # Poll
  <2>1. CallsIn(t) = CallsIn(s) \cup {k + 1}
    BY <1>1, <1>2, <1>3, <1>7 DEF CallsIn
  <2>2. Cardinality(CallsIn(t)) = Cardinality(CallsIn(s)) + 1
    BY <1>4, <1>5, <2>1, FS_AddElement
  <2> QED  BY <1>1, <1>2, <1>3, <1>7, <2>2 DEF t, k
<1> QED  BY <1>6, <1>7

(* A request that is taken is gone, and so may be some that follow it.     *)
LEMMA Received ==
    ASSUME Typed, NEW first, Receive(first)
    PROVE  /\ toEC' \in Seq(Request) /\ first \in Request /\ comm = "recv"
           /\ 1 \in DOMAIN toEC /\ toEC[1] = first
           /\ Cardinality(CallsIn(toEC')) +
                 (IF first = Poll THEN 0 ELSE 1) <= Cardinality(CallsIn(toEC))
           /\ PollOnWay' => \E i \in DOMAIN toEC : i > 1 /\ toEC[i] = Poll
           /\ OnePoll => OnePoll'
<1> DEFINE k == Len(toEC)
<1>1. /\ toEC \in Seq(Request) /\ k \in Nat /\ DOMAIN toEC = 1 .. k
      /\ \A i \in 1 .. k : toEC[i] \in Request
  BY LenProperties DEF Typed
<1>2. comm = "recv" /\ k > 0 /\ toEC[1] = first /\ first \in Request
  <2>1. toEC # <<>> /\ Head(toEC) = first /\ comm = "recv"
    BY DEF Receive
  <2> QED  BY <1>1, <2>1
<1>3. PICK n \in 1 .. k : toEC' = SubSeq(toEC, n + 1, k)
  BY DEF Receive
<1>4. /\ toEC' \in Seq(Request) /\ Len(toEC') = k - n
      /\ \A i \in 1 .. k - n : toEC'[i] = toEC[n + i]
  <2>1. n \in 0 .. k
    BY <1>1
  <2> QED  BY <1>1, <1>3, <2>1, Suffix
<1>5. DOMAIN toEC' = 1 .. k - n
  BY <1>4, LenProperties
<1> HIDE DEF k
<1>6. ASSUME NEW i \in 1 .. k - n
      PROVE  /\ n + i \in 1 .. k /\ n + i > 1 /\ toEC'[i] = toEC[n + i]
  BY <1>1, <1>4
<1>7. Cardinality(CallsIn(toEC')) +
        (IF first = Poll THEN 0 ELSE 1) <= Cardinality(CallsIn(toEC))
  <2> DEFINE c == CallsIn(toEC)
             c1 == CallsIn(toEC) \ {1}
             d == CallsIn(toEC')
             f == [i \in d |-> n + i]
  <2>1. IsFiniteSet(c) /\ Cardinality(c) \in Nat
    BY <1>1, CallsInFinite
  <2>2. IsFiniteSet(d) /\ Cardinality(d) \in Nat
    BY <1>4, CallsInFinite
  <2>3. 1 \in c <=> first # Poll
    BY <1>1, <1>2 DEF CallsIn
  <2>4. \A i \in d : i \in 1 .. k - n /\ n + i \in c1
    BY <1>1, <1>5, <1>6 DEF CallsIn
  <2>5. f \in Injection(d, c1)
    <3>1. f \in [d -> c1]
      BY <2>4
    <3>2. \A i, j \in d : n + i = n + j => i = j
      BY <2>4
    <3> HIDE DEF c1, d
    <3>3. IsInjective(f)
      BY <3>2 DEF IsInjective
    <3> QED  BY <3>1, <3>3 DEF Injection
  <2> HIDE DEF c, d, f
  <2>6. /\ IsFiniteSet(c \ {1})
        /\ Cardinality(c \ {1}) = IF 1 \in c THEN Cardinality(c) - 1 ELSE Cardinality(c)
    BY <2>1, FS_RemoveElement
  <2>7. c1 = c \ {1}
    BY DEF c
  <2> HIDE DEF c1
  <2>8. Cardinality(d) <= Cardinality(c1)
    BY <2>5, <2>6, <2>7, FS_Injection
  <2>9. Cardinality(d) + (IF 1 \in c THEN 1 ELSE 0) <= Cardinality(c)
    BY <2>1, <2>2, <2>6, <2>7, <2>8
  <2> QED  BY <2>3, <2>9 DEF c, d
<1>8. PollOnWay' => \E i \in DOMAIN toEC : i > 1 /\ toEC[i] = Poll
  BY <1>1, <1>5, <1>6 DEF PollOnWay
<1>9. ASSUME OnePoll
      PROVE  OnePoll'
  <2> SUFFICES ASSUME NEW i \in 1 .. k - n, NEW j \in 1 .. k - n,
                      toEC'[i] = Poll, toEC'[j] = Poll
               PROVE  i = j
    BY <1>5 DEF OnePoll
  <2>1. n + i = n + j
    BY <1>1, <1>6, <1>9 DEF OnePoll
  <2> QED  BY <2>1
<1> QED  BY <1>1, <1>2, <1>4, <1>7, <1>8, <1>9

-----------------------------------------------------------------------------
(* Types and counts, spoilt or not. *)

LEMMA Served ==
    ASSUME NEW list \in Seq(Floor), NEW i \in DOMAIN list
    PROVE  /\ RemoveAt(list, i) \in Seq(Floor)
           /\ Len(RemoveAt(list, i)) = Len(list) - 1 /\ Len(list) \in Nat
<1>1. i \in 1 .. Len(list) /\ Len(list) \in Nat
  BY LenProperties
<1> QED  BY <1>1, WithoutOne DEF RemoveAt

LEMMA Added ==
    ASSUME NEW list \in Seq(Floor), NEW f \in Floor
    PROVE  /\ Append(list, f) \in Seq(Floor)
           /\ Len(Append(list, f)) = Len(list) + 1 /\ Len(list) \in Nat
BY AppendProperties, LenProperties

LEMMA Flushed ==
    ASSUME NEW list \in Seq(Floor), NEW more \in Seq(Floor)
    PROVE  /\ list \o more \in Seq(Floor)
           /\ Len(list \o more) = Len(list) + Len(more)
BY Joined

LEMMA NoCopyTyped ==
    /\ NoCopy \in Copies
    /\ NoCopy.upRequests = <<>> /\ NoCopy.downRequests = <<>>
<1>1. <<>> \in Seq(Floor) /\ 0 \in 0 .. MaxPending
  BY LinkAssumption
<1> QED  BY <1>1 DEF NoCopy, Copies

LEMMA MessageIsBytes ==
    ASSUME Typed, Len(copy.upRequests) + Len(copy.downRequests) <= MaxPending,
           NEW floor \in Byte, NEW direction \in Direction, NEW k \in Int,
           NEW g \in Garbage(k)
    PROVE  toGD \o Message(floor, direction) \o g \in Seq(Byte)
<1>1. PICK body \in Seq(Byte) : LaidOut(body, floor, direction)
  BY FloorsArePlain, MessageLaidOut
<1>2. ASSUME NEW s \in Seq(Byte), NEW t \in Seq(Byte)
      PROVE  s \o t \in Seq(Byte)
  BY ConcatProperties
<1>3. <<MESSAGE_TERMINATOR>> \in Seq(Byte)
  BY FloorsArePlain, OneByte
<1>4. Message(floor, direction) \in Seq(Byte)
  BY <1>1, <1>2, <1>3 DEF LaidOut
<1>5. g \in Seq(Byte)
  <2>1. g \in [1 .. k -> Byte]
    BY FloorsArePlain DEF Garbage
  <2>2. PICK n \in Nat : 1 .. k = 1 .. n
    <3> DEFINE n == IF k < 0 THEN 0 ELSE k
    <3>1. n \in Nat /\ 1 .. k = 1 .. n
      OBVIOUS
    <3> QED  BY <3>1
  <2> QED  BY <2>1, <2>2, FunctionIsSeq
<1> QED  BY <1>2, <1>4, <1>5 DEF Typed

LEMMA SumOfTwo == ASSUME NEW a \in Nat, NEW b \in Nat PROVE a + b \in Nat
OBVIOUS

(* Every step keeps the types and the counts. *)
LEMMA TypedStep ==
    ASSUME Typed, Counted, Next
    PROVE  Typed' /\ Counted'
<1> USE DEF Request
<1>0. /\ UP \in Direction /\ DOWN \in Direction /\ UP # DOWN
      /\ MaxPending \in Nat
      /\ HallCalls \subseteq Floor \X Direction /\ Selections \subseteq Floor
  BY LinkAssumption DEF Direction, Floor, UP, DOWN
<1>1. /\ Len(up) \in Nat /\ Len(down) \in Nat /\ Len(missed) \in Nat
      /\ Len(upRequests) \in Nat /\ Len(downRequests) \in Nat
      /\ Len(copy.up) \in Nat /\ Len(copy.down) \in Nat
      /\ Len(copy.upRequests) \in Nat /\ Len(copy.downRequests) \in Nat
      /\ Cardinality(CallsIn(toEC)) \in Nat
  BY <1>0, LenProperties, CallsInFinite DEF Typed, Copies
<1> DEFINE listed == Len(up) + Len(down) + Len(missed)
           fromHeaps == Len(copy.up) + Len(copy.down)
           copied == fromHeaps + Len(missed)
           requested == Len(upRequests) + Len(downRequests)
           requestsCopied == Len(copy.upRequests) + Len(copy.downRequests)
           sent == Cardinality(CallsIn(toEC))
<1>c. /\ listed + sent <= MaxPending /\ requested <= MaxPending
      /\ requestsCopied <= MaxPending
      /\ comm # "recv" => copied <= MaxPending
  BY DEF Counted, PendingCalls, PendingRequests
<1>n. /\ listed \in Nat /\ copied \in Nat /\ requested \in Nat
      /\ requestsCopied \in Nat /\ sent \in Nat /\ fromHeaps \in Nat
  BY <1>1, SumOfTwo, Zenon
<1>q. ASSUME Typed', listed' + sent' <= MaxPending, requested' <= MaxPending,
             requestsCopied' <= MaxPending,
             comm' # "recv" => copied' <= MaxPending
      PROVE  Typed' /\ Counted'
  BY <1>q DEF Counted, PendingCalls, PendingRequests
<1>2. CASE Serve
  <2>1. Typed'
    BY <1>2, Served DEF Typed, Serve, linkVars
  <2>2. /\ Len(up') <= Len(up) /\ Len(down') <= Len(down)
        /\ Len(upRequests') <= Len(upRequests)
        /\ Len(downRequests') <= Len(downRequests)
        /\ Len(up') \in Nat /\ Len(down') \in Nat
        /\ Len(upRequests') \in Nat /\ Len(downRequests') \in Nat
    <3>1. /\ UNCHANGED up \/ \E i \in DOMAIN up : up' = RemoveAt(up, i)
          /\ UNCHANGED down \/ \E i \in DOMAIN down : down' = RemoveAt(down, i)
          /\ \/ UNCHANGED upRequests
             \/ \E i \in DOMAIN upRequests : upRequests' = RemoveAt(upRequests, i)
          /\ \/ UNCHANGED downRequests
             \/ \E i \in DOMAIN downRequests :
                   downRequests' = RemoveAt(downRequests, i)
      BY <1>2 DEF Serve
    <3>2. ASSUME NEW list \in Seq(Floor), NEW list1 \in Seq(Floor),
                 \/ list1 = list
                 \/ \E i \in DOMAIN list : list1 = RemoveAt(list, i)
          PROVE  Len(list1) <= Len(list) /\ Len(list1) \in Nat
      BY <3>2, Served, LenProperties
    <3> QED  BY <2>1, <3>1, <3>2 DEF Typed
  <2>3. UNCHANGED <<missed, comm, copy, toEC>>
    BY <1>2 DEF Serve, linkVars
  <2>4. listed' <= listed /\ requested' <= requested /\ copied' = copied
    BY <1>1, <2>2, <2>3
  <2>5. listed' \in Nat /\ requested' \in Nat
    BY <1>1, <2>2, <2>3
  <2> HIDE DEF listed, copied, requested, requestsCopied, sent
  <2> QED  BY <1>0, <1>c, <1>n, <1>q, <2>1, <2>3, <2>4, <2>5
           DEF requestsCopied, sent
<1>3. ASSUME NEW d \in Direction, UpdateMissedFloor(d)
      PROVE  Typed' /\ Counted'
  <2>1. UNCHANGED <<upRequests, downRequests, comm, copy, toEC, toGD, poller,
                    assigned>>
    BY <1>3 DEF UpdateMissedFloor, linkVars
  <2>2. missed' = <<>> /\ missed' \in Seq(Floor) /\ Len(missed') = 0
    BY <1>3 DEF UpdateMissedFloor
  <2>3. /\ up' \in Seq(Floor) /\ down' \in Seq(Floor)
        /\ Len(up') + Len(down') = Len(up) + Len(down) + Len(missed)
        /\ Len(up') \in Nat /\ Len(down') \in Nat
    <3>0. /\ up \o missed \in Seq(Floor) /\ down \o missed \in Seq(Floor)
          /\ Len(up \o missed) = Len(up) + Len(missed)
          /\ Len(down \o missed) = Len(down) + Len(missed)
      BY Flushed DEF Typed
    <3>1. CASE d = UP
      <4>1. up' = up \o missed /\ down' = down
        BY <1>0, <1>3, <3>1 DEF UpdateMissedFloor
      <4> QED  BY <1>1, <3>0, <4>1 DEF Typed
    <3>2. CASE d = DOWN
      <4>1. up' = up /\ down' = down \o missed
        BY <1>0, <1>3, <3>2 DEF UpdateMissedFloor
      <4> QED  BY <1>1, <3>0, <4>1 DEF Typed
    <3> QED  BY <3>1, <3>2 DEF Direction
  <2>4. spoilt' \subseteq {"flush", "overshoot", "long"}
    BY <1>3 DEF UpdateMissedFloor, Typed
  <2>5. Typed'
    BY <2>1, <2>2, <2>3, <2>4 DEF Typed
  <2>6. listed' = listed /\ requested' = requested
    BY <1>1, <2>1, <2>2, <2>3
  <2>7. fromHeaps' = fromHeaps /\ requestsCopied' = requestsCopied /\ sent' = sent
    BY <2>1
  <2> HIDE DEF fromHeaps
  <2>8. copied' <= copied /\ copied' \in Nat
    BY <1>1, <1>n, <2>2, <2>7
  <2> HIDE DEF listed, copied, requested, requestsCopied, sent
  <2> QED  BY <1>0, <1>c, <1>n, <1>q, <2>1, <2>5, <2>6, <2>7, <2>8
<1>4. ASSUME NEW f \in Selections, AddFloorSelection(f)
      PROVE  Typed' /\ Counted'
  <2>1. UNCHANGED <<up, down, missed, comm, copy, toEC, toGD, poller,
                    assigned, spoilt>>
    BY <1>4 DEF AddFloorSelection
  <2>2. requested < MaxPending
    BY <1>4 DEF AddFloorSelection, PendingRequests
  <2>3. /\ upRequests' \in Seq(Floor) /\ downRequests' \in Seq(Floor)
        /\ Len(upRequests') + Len(downRequests')
              = Len(upRequests) + Len(downRequests) + 1
    <3>1. f \in Floor /\ upRequests \in Seq(Floor) /\ downRequests \in Seq(Floor)
      BY <1>0 DEF Typed
    <3>2. CASE upRequests' = Append(upRequests, f) /\ UNCHANGED downRequests
      BY <1>1, <3>1, <3>2, Added
    <3>3. CASE downRequests' = Append(downRequests, f) /\ UNCHANGED upRequests
      BY <1>1, <3>1, <3>3, Added
    <3> QED  BY <1>4, <3>2, <3>3 DEF AddFloorSelection
  <2>4. Typed'
    BY <2>1, <2>3 DEF Typed
  <2>5. listed' = listed /\ requested' = requested + 1 /\ copied' = copied
    BY <2>1, <2>3
  <2>6. requestsCopied' = requestsCopied /\ sent' = sent
    BY <2>1
  <2>7. requested + 1 <= MaxPending
    BY <1>0, <1>n, <2>2
  <2> HIDE DEF listed, copied, requested, requestsCopied, sent
  <2> QED  BY <1>1, <1>c, <1>n, <1>q, <2>1, <2>2, <2>4, <2>5, <2>6, <2>7
<1>5. ASSUME NEW call \in HallCalls, AddHallCall(call)
      PROVE  Typed' /\ Counted'
  <2>1. UNCHANGED <<upRequests, downRequests, comm, copy, toGD, poller,
                    assigned, spoilt>>
    BY <1>5 DEF AddHallCall
  <2>2. call # Poll /\ call[1] \in Floor
    BY <1>0, CallsAreNoPolls
  <2>3. /\ toEC' \in Seq(Request) /\ comm = "recv"
        /\ Cardinality(CallsIn(toEC')) + 1 <= Cardinality(CallsIn(toEC))
        /\ Cardinality(CallsIn(toEC')) \in Nat
    BY <1>5, <2>2, Received, CallsInFinite DEF AddHallCall
  <2>4. /\ up' \in Seq(Floor) /\ down' \in Seq(Floor) /\ missed' \in Seq(Floor)
        /\ Len(up') + Len(down') + Len(missed') = Len(up) + Len(down) + Len(missed) + 1
    <3>1. up \in Seq(Floor) /\ down \in Seq(Floor) /\ missed \in Seq(Floor)
      BY DEF Typed
    <3>2. CASE up' = Append(up, call[1]) /\ UNCHANGED <<down, missed>>
      BY <1>1, <2>2, <3>1, <3>2, Added
    <3>3. CASE down' = Append(down, call[1]) /\ UNCHANGED <<up, missed>>
      BY <1>1, <2>2, <3>1, <3>3, Added
    <3>4. CASE missed' = Append(missed, call[1]) /\ UNCHANGED <<up, down>>
      BY <1>1, <2>2, <3>1, <3>4, Added
    <3> QED  BY <1>5, <3>2, <3>3, <3>4 DEF AddHallCall
  <2>5. Typed'
    BY <2>1, <2>3, <2>4 DEF Typed
  <2>6. Len(up') \in Nat /\ Len(down') \in Nat /\ Len(missed') \in Nat
    BY <2>4, LenProperties
  <2>7. listed' = listed + 1 /\ sent' + 1 <= sent /\ sent' \in Nat
    BY <2>3, <2>4
  <2>8. requested' = requested /\ requestsCopied' = requestsCopied
    BY <2>1
  <2>c. listed + sent <= MaxPending /\ listed \in Nat /\ sent \in Nat
    BY <1>c, <1>n
  <2> HIDE DEF listed, copied, requested, requestsCopied, sent
  <2>9. listed' + sent' <= MaxPending
    <3>1. PICK n \in Nat : n = sent'
      BY <2>7
    <3>2. n + 1 <= sent
      BY <2>7, <3>1
    <3>3. listed + 1 + n <= MaxPending
      BY <1>0, <2>c, <3>2
    <3> QED  BY <2>7, <3>1, <3>3
  <2> QED  BY <1>1, <1>c, <1>n, <1>q, <2>1, <2>3, <2>5, <2>8, <2>9
<1>6. CASE CopyHeaps
  <2>1. UNCHANGED <<up, down, missed, upRequests, downRequests, toGD, poller,
                    assigned, spoilt>>
    BY <1>6 DEF CopyHeaps, listVars
  <2>2. /\ toEC' \in Seq(Request)
        /\ Cardinality(CallsIn(toEC')) <= Cardinality(CallsIn(toEC))
        /\ Cardinality(CallsIn(toEC')) \in Nat
    BY <1>6, Received, CallsInFinite DEF CopyHeaps
  <2>3. /\ copy' \in Copies /\ copy'.up = up /\ copy'.down = down
        /\ copy'.upRequests = upRequests /\ copy'.downRequests = downRequests
    <3>1. copy' = [up |-> up, down |-> down, upRequests |-> upRequests,
                   downRequests |-> downRequests, calls |-> 0]
      BY <1>6 DEF CopyHeaps, NoCopy
    <3>2. 0 \in 0 .. MaxPending
      BY <1>0
    <3> QED  BY <3>1, <3>2 DEF Copies, Typed
  <2>4. comm' = "count"
    BY <1>6 DEF CopyHeaps
  <2>5. Typed'
    BY <2>1, <2>2, <2>3, <2>4 DEF Typed
  <2>6. listed' = listed /\ requested' = requested /\ sent' <= sent
    BY <2>1, <2>2
  <2>7. copied' = listed /\ requestsCopied' = requested
    BY <2>1, <2>3
  <2>8. sent' \in Nat
    BY <2>2
  <2> HIDE DEF listed, copied, requested, requestsCopied, sent
  <2>9. listed + sent' <= MaxPending /\ listed <= MaxPending
    <3>1. PICK n \in Nat : n = sent'
      BY <2>8
    <3>2. n <= sent /\ listed + sent <= MaxPending /\ listed \in Nat /\ sent \in Nat
      BY <1>c, <1>n, <2>6, <3>1
    <3>3. listed + n <= MaxPending /\ listed <= MaxPending
      BY <1>0, <3>2
    <3> QED  BY <3>1, <3>3
  <2> QED  BY <1>c, <1>q, <2>5, <2>6, <2>7, <2>9
<1>7. CASE Count
  <2>1. UNCHANGED <<up, down, missed, upRequests, downRequests, toEC, toGD,
                    poller, assigned, spoilt>>
    BY <1>7 DEF Count, listVars
  <2>2. comm = "count" /\ comm' = "fill"
    BY <1>7 DEF Count
  <2>3. Len(copy.up) + Len(copy.down) + Len(missed) \in 0 .. MaxPending
    <3> HIDE DEF copied
    <3>1. copied \in 0 .. MaxPending
      BY <1>1, <1>c, <1>n, <2>2
    <3> QED  BY <3>1 DEF copied
  <2>4. /\ copy' \in Copies /\ copy'.up = copy.up /\ copy'.down = copy.down
        /\ copy'.upRequests = copy.upRequests
        /\ copy'.downRequests = copy.downRequests
    <3>1. copy' = [copy EXCEPT !.calls = Len(copy.up) + Len(copy.down) + Len(missed)]
      BY <1>7 DEF Count
    <3> QED  BY <2>3, <3>1 DEF Copies, Typed
  <2>5. Typed'
    BY <2>1, <2>2, <2>4 DEF Typed
  <2> QED  BY <1>1, <2>1, <2>2, <2>4, <2>5
          DEF Counted, PendingCalls, PendingRequests
<1>8. CASE Fill
  <2>1. UNCHANGED <<up, down, missed, upRequests, downRequests, toEC, poller,
                    assigned>>
    BY <1>8 DEF Fill, listVars
  <2>2. comm' = "recv" /\ copy' = NoCopy
    BY <1>8 DEF Fill
  <2>3. toGD' \in Seq(Byte)
    <3>1. PICK floor \in {TopFloor, MESSAGE_TERMINATOR}, direction \in Direction :
             \E g \in Garbage(2 * copy.calls - Len(HallCallPart(direction))) :
                toGD' = toGD \o Message(floor, direction) \o g
      BY <1>8 DEF Fill
    <3>2. floor \in Byte
      BY FloorsArePlain, LinkAssumption DEF Floor
    <3>3. 2 * copy.calls - Len(HallCallPart(direction)) \in Int
      <4>1. copy.calls \in Nat
        BY DEF Typed, Copies
      <4>2. Len(HallCallPart(direction)) \in Nat
        BY HallCallPartLists, LenProperties
      <4> QED  BY <4>1, <4>2
    <3>4. Len(copy.upRequests) + Len(copy.downRequests) <= MaxPending
      BY DEF Counted
    <3> QED  BY <3>1, <3>2, <3>3, <3>4, MessageIsBytes
  <2>4. spoilt' \subseteq {"flush", "overshoot", "long"}
    BY <1>8 DEF Fill, Typed
  <2>5. Typed'
    BY <2>1, <2>2, <2>3, <2>4, NoCopyTyped DEF Typed
  <2>6. Len(copy'.upRequests) + Len(copy'.downRequests) <= MaxPending
    BY <1>0, <2>2, NoCopyTyped
  <2> QED  BY <1>1, <2>1, <2>2, <2>5, <2>6 DEF Counted, PendingCalls, PendingRequests
<1>9. ASSUME NEW call \in HallCalls, SendHallCall(call)
      PROVE  Typed' /\ Counted'
  <2>1. UNCHANGED <<up, down, missed, upRequests, downRequests, comm, copy,
                    toGD, poller, assigned, spoilt>>
    BY <1>9 DEF SendHallCall, listVars
  <2>2. listed + sent < MaxPending
    BY <1>9 DEF SendHallCall, PendingCalls
  <2>3. /\ toEC' \in Seq(Request)
        /\ Cardinality(CallsIn(toEC')) = Cardinality(CallsIn(toEC)) + 1
    BY <1>9, CallsAreNoPolls, Sent DEF SendHallCall, Typed
  <2>4. Typed'
    BY <2>1, <2>3 DEF Typed
  <2>5. listed' = listed /\ requested' = requested /\ copied' = copied
    BY <2>1
  <2>6. requestsCopied' = requestsCopied /\ sent' = sent + 1
    BY <2>1, <2>3
  <2> HIDE DEF listed, copied, requested, requestsCopied, sent
  <2>7. listed + (sent + 1) <= MaxPending
    BY <1>0, <1>n, <2>2
  <2> QED  BY <1>1, <1>c, <1>n, <1>q, <2>1, <2>2, <2>4, <2>5, <2>6, <2>7
<1>10. CASE SendPoll
  <2>1. UNCHANGED <<up, down, missed, upRequests, downRequests, comm, copy,
                    toGD, assigned, spoilt>>
    BY <1>10 DEF SendPoll, listVars
  <2>2. /\ toEC' \in Seq(Request) /\ poller' = "waiting"
        /\ Cardinality(CallsIn(toEC')) = Cardinality(CallsIn(toEC))
    <3>1. Poll \in Request /\ toEC' = Append(toEC, Poll) /\ poller' = "waiting"
      BY <1>10 DEF SendPoll
    <3>2. Cardinality(CallsIn(Append(toEC, Poll))) = Cardinality(CallsIn(toEC)) + 0
      BY <3>1, Sent DEF Typed
    <3> QED  BY <1>1, <3>1, <3>2, Sent DEF Typed
  <2>3. Typed'
    BY <2>1, <2>2 DEF Typed
  <2> QED  BY <1>1, <2>1, <2>2, <2>3 DEF Counted, PendingCalls, PendingRequests
<1>11. CASE UpdateECStatus \/ IgnoreMessage \/ RemoveElevator
  <2>1. UNCHANGED <<up, down, missed, upRequests, downRequests, comm, copy,
                    toEC, spoilt>>
    BY <1>11 DEF UpdateECStatus, IgnoreMessage, RemoveElevator, listVars
  <2>2. poller' \in {"idle", "waiting", "removed"}
    BY <1>11 DEF UpdateECStatus, IgnoreMessage, RemoveElevator
  <2>3. toGD' \in Seq(Byte)
    <3>1. toGD' = SubSeq(toGD, Cut + 1, Len(toGD))
      BY <1>11 DEF UpdateECStatus, IgnoreMessage, RemoveElevator, ReceiveData
    <3>2. toGD \in Seq(Byte)
      BY DEF Typed
    <3> QED  BY <3>1, <3>2, CutInStream, Suffix
  <2>4. assigned' \subseteq Byte \X Byte
    BY <1>11, DecodedAreBytes
       DEF UpdateECStatus, IgnoreMessage, RemoveElevator, Typed
  <2>5. Typed'
    BY <2>1, <2>2, <2>3, <2>4 DEF Typed
  <2> QED  BY <1>1, <2>1, <2>5 DEF Counted, PendingCalls, PendingRequests
<1> QED  BY <1>2, <1>3, <1>4, <1>5, <1>6, <1>7, <1>8, <1>9, <1>10, <1>11
         DEF Next, Controller, Dispatcher

-----------------------------------------------------------------------------
(* What is watched. *)

LEMMA WatchedStep ==
    ASSUME Watched, Next
    PROVE  Watched'
<1> SUFFICES ASSUME poller' = "waiting"
             PROVE  Between(CalledFloors)'
  BY DEF Watched
<1>1. CASE poller = "waiting"
  <2>1. steady' = steady \cap CalledFloors' /\ seen' = seen \cup CalledFloors'
    BY <1>1 DEF Next, Watch
  <2> QED  BY <2>1 DEF Between
<1>2. CASE poller # "waiting"
  <2>1. steady' = CalledFloors /\ seen' = CalledFloors
    BY <1>2 DEF Next, Watch
  <2>2. SendPoll
    BY <1>2 DEF Next, Controller, Dispatcher, Serve, UpdateMissedFloor,
                AddFloorSelection, AddHallCall, CopyHeaps, Count, Fill,
                SendHallCall, UpdateECStatus, IgnoreMessage, RemoveElevator,
                linkVars
  <2>3. CalledFloors' = CalledFloors
    BY <2>2 DEF SendPoll, listVars, CalledFloors
  <2> QED  BY <2>1, <2>3 DEF Between
<1> QED  BY <1>1, <1>2

(* While a poll stays out, what lies between steady and seen stays there.  *)
LEMMA BetweenStays ==
    ASSUME Watched, Next, poller = "waiting", poller' = "waiting",
           NEW floors, Between(floors)
    PROVE  steady' \subseteq floors /\ floors \subseteq seen'
BY DEF Next, Watch, Between

(* The floors a poll finds called are between steady and seen. *)
LEMMA CalledBetween ==
    ASSUME Watched, Next, poller = "waiting", poller' = "waiting"
    PROVE  steady' \subseteq CalledFloors /\ CalledFloors \subseteq seen'
BY BetweenStays DEF Watched

LEMMA SpoiltStays ==
    ASSUME Next
    PROVE  spoilt \subseteq spoilt'
BY DEF Next, Controller, Dispatcher, Serve, UpdateMissedFloor,
       AddFloorSelection, AddHallCall, CopyHeaps, Count, Fill,
       SendHallCall, SendPoll, UpdateECStatus, IgnoreMessage, RemoveElevator

(* Nothing of the poll changes, nor what is being answered. *)
LEMMA PollUntouched ==
    ASSUME Watched, InStep, Copied, Next,
           UNCHANGED <<missed, comm, copy, toEC, toGD, poller>>
    PROVE  InStep' /\ Copied'
<1>1. /\ CopiedFloors' = CopiedFloors /\ Reported(toGD)' = Reported(toGD)
      /\ Answer(toGD)' = Answer(toGD) /\ PollOnWay' = PollOnWay
      /\ OnePoll' = OnePoll
  BY DEF CopiedFloors, Reported, Answer, PollOnWay, OnePoll
<1>2. CASE poller = "waiting"
  BY <1>1, <1>2, BetweenStays DEF InStep, Copied, Between
<1>3. CASE poller # "waiting"
  BY <1>1, <1>3 DEF InStep, Copied
<1> QED  BY <1>2, <1>3

(* The poll that is out moves on, from one place to the next. *)
LEMMA AddHallCallStep ==
    ASSUME Typed, Watched, InStep, Copied, Next,
           NEW call \in HallCalls, AddHallCall(call)
    PROVE  InStep' /\ Copied' /\ poller' = poller
<1>1. UNCHANGED <<comm, copy, toGD, poller>>
  BY DEF AddHallCall
<1>2. comm = "recv" /\ (PollOnWay' => PollOnWay) /\ OnePoll'
  BY Received DEF AddHallCall, PollOnWay, InStep
<1>3. Reported(toGD)' = Reported(toGD) /\ Answer(toGD)' = Answer(toGD)
  BY <1>1 DEF Reported, Answer
<1>4. CASE poller = "waiting"
  BY <1>1, <1>2, <1>3, <1>4, BetweenStays DEF InStep, Copied, Between
<1>5. CASE poller # "waiting"
  BY <1>1, <1>2, <1>3, <1>5 DEF InStep, Copied
<1> QED  BY <1>1, <1>4, <1>5

LEMMA CopyHeapsStep ==
    ASSUME Typed, Watched, InStep, Next, CopyHeaps
    PROVE  InStep' /\ Copied' /\ poller' = poller
<1>1. UNCHANGED <<up, down, missed, toGD, poller>> /\ comm' = "count"
  BY DEF CopyHeaps, listVars
<1>2. copy'.up = up /\ copy'.down = down
  BY DEF CopyHeaps, NoCopy
<1>3. 1 \in DOMAIN toEC /\ toEC[1] = Poll
  BY Received DEF CopyHeaps
<1>4. /\ PollOnWay' => \E i \in DOMAIN toEC : i > 1 /\ toEC[i] = Poll
      /\ OnePoll'
  BY Received DEF CopyHeaps, InStep
<1>5. ~PollOnWay'
  <2> SUFFICES ASSUME NEW i \in DOMAIN toEC, i > 1, toEC[i] = Poll
               PROVE  FALSE
    BY <1>4
  <2>1. i = 1
    BY <1>3 DEF InStep, OnePoll
  <2> QED  BY <2>1
<1>6. PollOnWay
  BY <1>3 DEF PollOnWay
<1>7. poller = "waiting" /\ toGD = <<>>
  BY <1>6 DEF InStep
<1>8. Between(CopiedFloors)'
  <2>1. CopiedFloors' = CalledFloors
    BY <1>1, <1>2 DEF CopiedFloors, CalledFloors
  <2> QED  BY <1>1, <1>7, <2>1, CalledBetween DEF Between
<1> QED  BY <1>1, <1>4, <1>5, <1>7, <1>8 DEF InStep, Copied

LEMMA CountStep ==
    ASSUME Typed, Watched, InStep, Copied, Next, Count
    PROVE  InStep' /\ Copied' /\ poller' = poller
<1>1. /\ UNCHANGED <<up, down, missed, toEC, toGD, poller>>
      /\ comm = "count" /\ comm' = "fill"
  BY DEF Count, listVars
<1>2. /\ copy'.up = copy.up /\ copy'.down = copy.down
      /\ copy'.calls = Len(copy.up) + Len(copy.down) + Len(missed)
  BY DEF Count, Typed, Copies
<1>3. poller = "waiting" /\ toGD = <<>> /\ ~PollOnWay
  BY <1>1 DEF InStep
<1>4. PollOnWay' = PollOnWay /\ OnePoll'
  BY <1>1 DEF PollOnWay, OnePoll, InStep
<1>5. Between(CopiedFloors)'
  <2>1. CopiedFloors' = CopiedFloors
    BY <1>1, <1>2 DEF CopiedFloors
  <2>2. Between(CopiedFloors)
    BY <1>1 DEF Copied
  <2> QED  BY <1>1, <1>3, <2>1, <2>2, BetweenStays DEF Between
<1>6. copy'.calls = Len(copy'.up) + Len(copy'.down) + Len(missed')
  BY <1>1, <1>2
<1> QED  BY <1>1, <1>3, <1>4, <1>5, <1>6 DEF InStep, Copied

LEMMA FillStep ==
    ASSUME Typed, Counted, Watched, InStep, Copied, Next, Fill, spoilt' = {}
    PROVE  InStep' /\ Copied' /\ poller' = poller
<1>1. /\ UNCHANGED <<up, down, missed, toEC, poller>>
      /\ comm = "fill" /\ comm' = "recv"
  BY DEF Fill, listVars
<1>2. poller = "waiting" /\ toGD = <<>> /\ ~PollOnWay
  BY <1>1 DEF InStep
<1>3. PICK floor \in {TopFloor, MESSAGE_TERMINATOR}, direction \in Direction :
         /\ \E g \in Garbage(2 * copy.calls - Len(HallCallPart(direction))) :
               toGD' = toGD \o Message(floor, direction) \o g
         /\ floor # MESSAGE_TERMINATOR
         /\ ~(Len(Message(floor, direction)) > MaxMessageLength + 1)
  BY DEF Fill
<1> DEFINE w == Message(floor, direction)
<1>4. copy.calls = Len(copy.up) + Len(copy.down) + Len(missed)
  BY <1>1 DEF Copied
<1>5. Len(copy.upRequests) + Len(copy.downRequests) <= MaxPending
  BY DEF Counted
<1>6. floor \in Plain /\ floor \in Byte
  BY <1>3, FloorsArePlain, LinkAssumption DEF Floor
<1>7. w \in Seq(Byte) /\ Len(w) \in Nat /\ MaxMessageLength \in Nat
  <2>1. PICK body \in Seq(Byte) : LaidOut(body, floor, direction)
    BY <1>5, <1>6, FloorsArePlain, MessageLaidOut
  <2>2. <<MESSAGE_TERMINATOR>> \in Seq(Byte)
    BY FloorsArePlain, OneByte
  <2> QED  BY <2>1, <2>2, ConcatProperties, LenProperties, LinkAssumption DEF LaidOut
<1>8. Answer(w) /\ Reported(w) = CopiedFloors
  <2>1. Len(w) <= MaxMessageLength + 1
    <3> HIDE DEF w
    <3>1. ~(Len(w) > MaxMessageLength + 1)
      BY <1>3 DEF w
    <3> QED  BY <1>7, <3>1
  <2> QED  BY <1>4, <1>5, <1>6, <2>1, MessageAnswers
<1>9. toGD' = w
  <2>1. PICK g \in Garbage(2 * copy.calls - Len(HallCallPart(direction))) :
           toGD' = toGD \o w \o g
    BY <1>3
  <2>2. 2 * copy.calls - Len(HallCallPart(direction)) = 0
    <3>1. PICK n \in Nat : n = Len(copy.up) + Len(copy.down) + Len(missed)
      BY HallCallPartLists
    <3>2. Len(HallCallPart(direction)) = 2 * n
      BY <3>1, HallCallPartLists
    <3> QED  BY <1>4, <3>1, <3>2
  <2>3. g = <<>>
    BY <2>2 DEF Garbage
  <2>4. <<>> \o w = w /\ w \o <<>> = w
    BY <1>7, ConcatEmptySeq
  <2> HIDE DEF w
  <2> QED  BY <1>2, <2>1, <2>3, <2>4
<1>10. Between(Reported(toGD))'
  <2>1. Between(CopiedFloors)
    BY <1>1 DEF Copied
  <2>2. steady' \subseteq CopiedFloors /\ CopiedFloors \subseteq seen'
    BY <1>1, <1>2, <2>1, BetweenStays
  <2>3. Reported(toGD)' = Reported(toGD') /\ Reported(toGD') = CopiedFloors
    BY <1>8, <1>9 DEF Reported
  <2> QED  BY <2>2, <2>3 DEF Between
<1>11. Answer(toGD')
  BY <1>8, <1>9
<1>12. PollOnWay' = PollOnWay /\ OnePoll'
  BY <1>1 DEF PollOnWay, OnePoll, InStep
<1> QED  BY <1>1, <1>2, <1>10, <1>11, <1>12 DEF InStep, Copied

LEMMA SendHallCallStep ==
    ASSUME Typed, Watched, InStep, Copied, Next,
           NEW call \in HallCalls, SendHallCall(call)
    PROVE  InStep' /\ Copied' /\ poller' = poller
<1>1. UNCHANGED <<up, down, missed, comm, copy, toGD, poller>>
  BY DEF SendHallCall, listVars
<1>2. /\ DOMAIN toEC' = 1 .. Len(toEC) + 1 /\ DOMAIN toEC = 1 .. Len(toEC)
      /\ Len(toEC) \in Nat
      /\ \A i \in 1 .. Len(toEC) : toEC'[i] = toEC[i]
      /\ toEC'[Len(toEC) + 1] # Poll
  BY CallsAreNoPolls, Sent DEF SendHallCall, Typed, Request
<1>3. PollOnWay' = PollOnWay
  BY <1>2 DEF PollOnWay
<1>4. OnePoll'
  BY <1>2 DEF OnePoll, InStep
<1>5. /\ CopiedFloors' = CopiedFloors
      /\ Reported(toGD)' = Reported(toGD) /\ Answer(toGD)' = Answer(toGD)
  BY <1>1 DEF CopiedFloors, Reported, Answer
<1>6. CASE poller = "waiting"
  BY <1>1, <1>3, <1>4, <1>5, <1>6, BetweenStays DEF InStep, Copied, Between
<1>7. CASE poller # "waiting"
  BY <1>1, <1>3, <1>4, <1>5, <1>7 DEF InStep, Copied
<1> QED  BY <1>1, <1>6, <1>7

LEMMA SendPollStep ==
    ASSUME Typed, InStep, SendPoll
    PROVE  InStep' /\ Copied' /\ poller' = "waiting"
<1>1. /\ UNCHANGED <<comm, copy, toGD>> /\ poller = "idle" /\ poller' = "waiting"
      /\ toEC' = Append(toEC, Poll)
  BY DEF SendPoll
<1>2. ~PollOnWay /\ comm = "recv" /\ toGD = <<>>
  BY <1>1 DEF InStep
<1>3. /\ DOMAIN toEC' = 1 .. Len(toEC) + 1 /\ DOMAIN toEC = 1 .. Len(toEC)
      /\ Len(toEC) \in Nat
      /\ \A i \in 1 .. Len(toEC) : toEC'[i] = toEC[i]
  BY <1>1, Sent DEF Typed, Request
<1>4. OnePoll'
  BY <1>2, <1>3 DEF OnePoll, PollOnWay
<1> QED  BY <1>1, <1>2, <1>4 DEF InStep, Copied

(* An answer that is in the stream is all of it, and is taken whole.       *)
LEMMA AnswerTaken ==
    ASSUME Typed, InStep, ReceiveData
    PROVE  /\ Data[0] = STATUS_RESPONSE /\ Fits /\ toGD' = <<>>
           /\ {call[1] : call \in DecodedCalls} = Reported(toGD)
           /\ Between(Reported(toGD)) /\ ~PollOnWay /\ comm = "recv"
<1>1. toGD \in Seq(Byte) /\ Len(toGD) \in Nat
  BY LenProperties DEF Typed
<1>2. toGD # <<>>
  <2>1. Cut \in 0 .. Len(toGD) /\ Cut > 0
    BY <1>1, CutInStream DEF ReceiveData
  <2> QED  BY <1>1, <2>1
<1>3. Answer(toGD) /\ Between(Reported(toGD)) /\ ~PollOnWay /\ comm = "recv"
  BY <1>2 DEF InStep, Typed
<1>4. toGD' = <<>>
  <2>1. toGD' = SubSeq(toGD, Len(toGD) + 1, Len(toGD))
    BY <1>1, <1>2, <1>3, AnswerDecoded DEF ReceiveData
  <2> QED  BY <1>1, <2>1, Suffix, EmptySeq
<1> QED  BY <1>1, <1>2, <1>3, <1>4, AnswerDecoded

LEMMA InStepStep ==
    ASSUME Typed, Counted, Watched, InStep, Copied, poller # "removed",
           Next, spoilt = {}, spoilt' = {}
    PROVE  InStep' /\ Copied' /\ poller' # "removed"
<1>1. CASE Serve
  <2>1. UNCHANGED <<missed, comm, copy, toEC, toGD, poller>>
    BY <1>1 DEF Serve, linkVars
  <2> QED  BY <2>1, PollUntouched
<1>2. ASSUME NEW d \in Direction, UpdateMissedFloor(d)
      PROVE  InStep' /\ Copied' /\ poller' # "removed"
  <2>1. UNCHANGED <<comm, copy, toEC, toGD, poller>> /\ comm = "recv"
    BY <1>2 DEF UpdateMissedFloor, linkVars
  <2>2. /\ Reported(toGD)' = Reported(toGD) /\ Answer(toGD)' = Answer(toGD)
        /\ PollOnWay' = PollOnWay /\ OnePoll' = OnePoll
    BY <2>1 DEF Reported, Answer, PollOnWay, OnePoll
  <2>3. CASE poller = "waiting"
    BY <2>1, <2>2, <2>3, BetweenStays DEF InStep, Copied, Between
  <2>4. CASE poller # "waiting"
    BY <2>1, <2>2, <2>4 DEF InStep, Copied
  <2> QED  BY <2>1, <2>3, <2>4
<1>3. ASSUME NEW f \in Selections, AddFloorSelection(f)
      PROVE  InStep' /\ Copied' /\ poller' # "removed"
  <2>1. UNCHANGED <<missed, comm, copy, toEC, toGD, poller>>
    BY <1>3 DEF AddFloorSelection
  <2> QED  BY <2>1, PollUntouched
<1>4. CASE UpdateECStatus
  <2>1. poller' = "idle" /\ UNCHANGED <<comm, toEC>> /\ ReceiveData
    BY <1>4 DEF UpdateECStatus
  <2>2. toGD' = <<>> /\ ~PollOnWay /\ comm = "recv"
    BY <2>1, AnswerTaken
  <2>3. PollOnWay' = PollOnWay /\ OnePoll'
    BY <2>1 DEF PollOnWay, OnePoll, InStep
  <2> QED  BY <2>1, <2>2, <2>3 DEF InStep, Copied
<1>5. CASE IgnoreMessage
  BY <1>5, AnswerTaken DEF IgnoreMessage
<1>6. CASE RemoveElevator
  BY <1>6, AnswerTaken DEF RemoveElevator
<1> QED  BY <1>1, <1>2, <1>3, <1>4, <1>5, <1>6, AddHallCallStep, CopyHeapsStep,
            CountStep, FillStep, SendHallCallStep, SendPollStep
         DEF Next, Controller, Dispatcher

-----------------------------------------------------------------------------
(* The invariant. *)

LEMMA InvInit == Init => LinkInv
<1> SUFFICES ASSUME Init
             PROVE  LinkInv
  OBVIOUS
<1>1. /\ up = <<>> /\ down = <<>> /\ missed = <<>> /\ toEC = <<>> /\ toGD = <<>>
      /\ upRequests = <<>> /\ downRequests = <<>> /\ comm = "recv"
      /\ copy = NoCopy /\ poller = "idle" /\ assigned = {}
      /\ spoilt = {}
  BY DEF Init
<1>2. MaxPending \in Nat
  BY LinkAssumption
<1>3. Typed
  BY <1>1, <1>2, NoCopyTyped DEF Typed
<1>4. Counted
  <2>1. CallsIn(toEC) = {}
    BY <1>1 DEF CallsIn
  <2>2. Cardinality(CallsIn(toEC)) = 0
    BY <2>1, FS_EmptySet
  <2> QED  BY <1>1, <1>2, <2>2, NoCopyTyped
           DEF Counted, PendingCalls, PendingRequests
<1>5. InStep
  BY <1>1 DEF InStep, PollOnWay, OnePoll
<1> QED  BY <1>1, <1>3, <1>4, <1>5 DEF LinkInv, Watched, Copied

LEMMA InvStep == LinkInv /\ [Next]_vars => LinkInv'
<1> SUFFICES ASSUME LinkInv, [Next]_vars
             PROVE  LinkInv'
  OBVIOUS
<1>1. CASE Next
  <2>1. Typed' /\ Counted' /\ Watched'
    BY <1>1, TypedStep, WatchedStep DEF LinkInv
  <2>2. ASSUME spoilt' = {}
        PROVE  InStep' /\ Copied' /\ poller' # "removed"
    <3>1. spoilt = {}
      BY <1>1, <2>2, SpoiltStays
    <3> QED  BY <1>1, <2>2, <3>1, InStepStep DEF LinkInv
  <2> QED  BY <2>1, <2>2 DEF LinkInv
<1>2. CASE UNCHANGED vars
  BY <1>2 DEF vars, listVars, linkVars, auxVars, LinkInv, Typed, Counted,
              PendingCalls, PendingRequests, CallsIn, Watched, CalledFloors,
              InStep, Copied, PollOnWay, OnePoll, Answer, Reported, Between, CopiedFloors
<1> QED  BY <1>1, <1>2

THEOREM InvariantHolds == Spec => []LinkInv
BY InvInit, InvStep, PTL DEF Spec

-----------------------------------------------------------------------------
(* Whatever the calls, selections, polls and their order, every list holds *)
(* floors, every count and floor sent is a byte, and what the dispatcher   *)
(* decodes are pairs of bytes.                                             *)
THEOREM TypeCorrect == Spec => []TypeOK
<1>1. LinkInv => TypeOK
  <2> SUFFICES ASSUME Typed
               PROVE  TypeOK
    BY DEF LinkInv
  <2>1. \A list \in {up, down, missed, upRequests, downRequests} :
           Range(list) \subseteq Floor
    BY RangeOf DEF Typed
  <2>2. Range(toEC) \subseteq HallCalls \cup {Poll} /\ Range(toGD) \subseteq Byte
    BY RangeOf DEF Typed, Request
  <2>3. copy.calls \in 0 .. MaxPending
    BY DEF Typed, Copies
  <2> QED  BY <2>1, <2>2, <2>3 DEF TypeOK, Typed
<1> QED  BY <1>1, InvariantHolds, PTL

(* No poll reads an answer that is not its own, unless the missed calls    *)
(* were flushed while a status was made, a floor was read as the delimiter *)
(* or a status was too long.                                               *)
THEOREM StreamAlwaysInStep == Spec => []StreamInStep
<1>1. LinkInv => StreamInStep
  BY DEF LinkInv, InStep, StreamInStep
<1> QED  BY <1>1, InvariantHolds, PTL

(* Only for those reasons is an elevator that answers removed. *)
THEOREM RemovesOnlySpoilt == Spec => []OnlySpoiltRemoved
<1>1. LinkInv => OnlySpoiltRemoved
  BY DEF LinkInv, OnlySpoiltRemoved
<1> QED  BY <1>1, InvariantHolds, PTL

(* With the same exceptions, a status tells the dispatcher of every floor  *)
(* called all the time since the poll, and of none that was not called.    *)
THEOREM CallsAlwaysReported == Spec => CallsReported
<1>1. LinkInv /\ [Next]_vars =>
        [UpdateECStatus /\ spoilt = {} =>
            LET floors == {call[1] : call \in assigned'}
            IN  steady \subseteq floors /\ floors \subseteq seen]_vars
  <2> SUFFICES ASSUME LinkInv, UpdateECStatus, spoilt = {}
               PROVE  LET floors == {call[1] : call \in assigned'}
                      IN  steady \subseteq floors /\ floors \subseteq seen
    OBVIOUS
  <2>1. /\ {call[1] : call \in DecodedCalls} = Reported(toGD)
        /\ Between(Reported(toGD))
    BY AnswerTaken DEF LinkInv, UpdateECStatus
  <2>2. assigned' = DecodedCalls
    BY DEF UpdateECStatus
  <2> QED  BY <2>1, <2>2 DEF Between
<1> QED  BY <1>1, InvariantHolds, PTL DEF Spec, CallsReported
=============================================================================
