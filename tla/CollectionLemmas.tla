-------------------------- MODULE CollectionLemmas --------------------------
(***************************************************************************)
(* Lemmas about sets of naturals and sequences that the proofs about       *)
(* several modules rest on.                                                *)
(***************************************************************************)
EXTENDS SequenceTheorems, WellFoundedInduction, TLAPS

(* A nonempty set of naturals has a least element: < is well-founded. *)
LEMMA LeastElement ==
    ASSUME NEW S \in SUBSET Nat, S # {}
    PROVE  \E x \in S : \A y \in S : x <= y
<1> DEFINE R == OpToRel(<, Nat)
<1>1. IsWellFoundedOn(R, Nat)
  BY NatLessThanWellFounded
<1>2. \E x \in S : \A y \in S : ~ (<<y, x>> \in R)
  <2> HIDE DEF R
  <2> QED  BY <1>1, WFMin
<1>3. \A x, y \in S : <<y, x>> \notin R => x <= y
  BY DEF OpToRel
<1> QED
  <2> HIDE DEF R
  <2> QED  BY <1>2, <1>3

-----------------------------------------------------------------------------
(* A function on an initial interval of the naturals is a sequence. *)
LEMMA FunctionIsSeq ==
    ASSUME NEW S, NEW n \in Nat, NEW f \in [1 .. n -> S]
    PROVE  f \in Seq(S) /\ Len(f) = n /\ DOMAIN f = 1 .. n
<1>1. f \in Seq(S)
  BY SeqDef
<1> QED  BY <1>1, LenProperties

(* The elements of a sequence are those at its indices. *)
LEMMA RangeOf ==
    ASSUME NEW S, NEW s \in Seq(S)
    PROVE  /\ \A i \in 1 .. Len(s) : s[i] \in Range(s)
           /\ \A x \in Range(s) : \E i \in 1 .. Len(s) : x = s[i]
           /\ Range(s) \subseteq S
BY LenProperties DEF Range

(* What is left of a sequence when its first n elements are gone. *)
LEMMA Suffix ==
    ASSUME NEW S, NEW s \in Seq(S), NEW n \in 0 .. Len(s)
    PROVE  LET t == SubSeq(s, n + 1, Len(s))
           IN  /\ t \in Seq(S) /\ Len(t) = Len(s) - n
               /\ \A i \in 1 .. Len(t) : t[i] = s[n + i]
               /\ Range(t) \subseteq Range(s)
<1> DEFINE t == SubSeq(s, n + 1, Len(s))
<1>1. Len(s) \in Nat /\ \A i \in n + 1 .. Len(s) : s[i] \in S
  BY LenProperties
<1>2. /\ t \in Seq(S)
      /\ Len(t) = IF n + 1 <= Len(s) THEN Len(s) - (n + 1) + 1 ELSE 0
      /\ \A i \in 1 .. Len(s) - (n + 1) + 1 : t[i] = s[n + 1 + i - 1]
  BY <1>1, SubSeqProperties
<1> HIDE DEF t
<1>3. Len(t) = Len(s) - n /\ \A i \in 1 .. Len(t) : t[i] = s[n + i]
  BY <1>1, <1>2
<1>4. Range(t) \subseteq Range(s)
  <2> SUFFICES ASSUME NEW x \in Range(t)
               PROVE  x \in Range(s)
    OBVIOUS
  <2>1. PICK i \in 1 .. Len(t) : x = t[i]
    BY <1>2, RangeOf
  <2>2. x = s[n + i] /\ n + i \in 1 .. Len(s)
    BY <1>1, <1>3, <2>1
  <2> QED  BY <2>2, RangeOf
<1> QED  BY <1>2, <1>3, <1>4 DEF t

(* What is left of a sequence when its i-th element is gone (RemoveAt). *)
LEMMA WithoutOne ==
    ASSUME NEW S, NEW s \in Seq(S), NEW i \in 1 .. Len(s)
    PROVE  LET t == SubSeq(s, 1, i - 1) \o SubSeq(s, i + 1, Len(s))
           IN  /\ t \in Seq(S) /\ Len(t) = Len(s) - 1
               /\ \A j \in 1 .. Len(t) :
                     t[j] = IF j < i THEN s[j] ELSE s[j + 1]
               /\ Range(t) \subseteq Range(s)
               /\ Range(s) \subseteq Range(t) \cup {s[i]}
<1> DEFINE a == SubSeq(s, 1, i - 1)
           b == SubSeq(s, i + 1, Len(s))
           t == a \o b
<1>1. Len(s) \in Nat /\ \A j \in 1 .. Len(s) : s[j] \in S
  BY LenProperties
<1>2. /\ a \in Seq(S) /\ Len(a) = i - 1
      /\ \A j \in 1 .. i - 1 : a[j] = s[j]
  <2>1. \A j \in 1 .. i - 1 : s[j] \in S
    BY <1>1
  <2>2. /\ a \in Seq(S)
        /\ Len(a) = IF 1 <= i - 1 THEN i - 1 - 1 + 1 ELSE 0
        /\ \A j \in 1 .. i - 1 - 1 + 1 : a[j] = s[1 + j - 1]
    BY <1>1, <2>1, SubSeqProperties
  <2> HIDE DEF a
  <2> QED  BY <1>1, <2>2
<1>3. /\ b \in Seq(S) /\ Len(b) = Len(s) - i
      /\ \A j \in 1 .. Len(b) : b[j] = s[i + j]
  BY Suffix
<1> HIDE DEF a, b
<1>4. /\ t \in Seq(S) /\ Len(t) = Len(a) + Len(b)
      /\ \A j \in 1 .. Len(a) + Len(b) :
            t[j] = IF j <= Len(a) THEN a[j] ELSE b[j - Len(a)]
  BY <1>2, <1>3, ConcatProperties
<1> HIDE DEF t
<1>5. Len(t) = Len(s) - 1
  BY <1>1, <1>2, <1>3, <1>4
<1>6. \A j \in 1 .. Len(t) : t[j] = IF j < i THEN s[j] ELSE s[j + 1]
  <2> SUFFICES ASSUME NEW j \in 1 .. Len(t)
               PROVE  t[j] = IF j < i THEN s[j] ELSE s[j + 1]
    OBVIOUS
  <2>1. CASE j < i
    BY <1>1, <1>2, <1>3, <1>4, <1>5, <2>1
  <2>2. CASE j >= i
    <3>1. j - (i - 1) \in 1 .. Len(b) /\ i + (j - (i - 1)) = j + 1
      BY <1>1, <1>3, <1>5, <2>2
    <3>2. t[j] = b[j - (i - 1)]
      BY <1>1, <1>2, <1>3, <1>4, <1>5, <2>2
    <3> QED  BY <1>1, <1>3, <2>2, <3>1, <3>2
  <2> QED  BY <2>1, <2>2, <1>1, <1>5
<1>7. Range(t) \subseteq Range(s)
  <2> SUFFICES ASSUME NEW x \in Range(t)
               PROVE  x \in Range(s)
    OBVIOUS
  <2>1. PICK j \in 1 .. Len(t) : x = t[j]
    BY <1>4, RangeOf
  <2>2. \E k \in 1 .. Len(s) : x = s[k]
    BY <1>1, <1>5, <1>6, <2>1
  <2> QED  BY <2>2, RangeOf
<1>8. Range(s) \subseteq Range(t) \cup {s[i]}
  <2> SUFFICES ASSUME NEW x \in Range(s), x # s[i]
               PROVE  x \in Range(t)
    OBVIOUS
  <2>1. PICK k \in 1 .. Len(s) : x = s[k]
    BY RangeOf
  <2>2. CASE k < i
    <3>1. k \in 1 .. Len(t) /\ t[k] = s[k]
      BY <1>1, <1>5, <1>6, <2>2
    <3> QED  BY <1>4, <2>1, <3>1, RangeOf
  <2>3. CASE k > i
    <3>1. k - 1 \in 1 .. Len(t) /\ ~(k - 1 < i) /\ (k - 1) + 1 = k
      BY <1>1, <1>5, <2>3
    <3>2. t[k - 1] = s[k]
      BY <1>6, <3>1
    <3> QED  BY <1>4, <2>1, <3>1, <3>2, RangeOf
  <2> QED  BY <1>1, <2>1, <2>2, <2>3
<1> QED  BY <1>4, <1>5, <1>6, <1>7, <1>8 DEF t, a, b

-----------------------------------------------------------------------------
(* A queue with one more element, and with its first one gone. *)
LEMMA AppendOne ==
    ASSUME NEW S, NEW s \in Seq(S), NEW x \in S
    PROVE  LET t == Append(s, x)
           IN  /\ t \in Seq(S) /\ Len(s) \in Nat
               /\ DOMAIN s = 1 .. Len(s) /\ DOMAIN t = 1 .. Len(s) + 1
               /\ \A i \in 1 .. Len(s) : t[i] = s[i]
               /\ t[Len(s) + 1] = x
               /\ Range(t) = Range(s) \cup {x}
<1> DEFINE t == Append(s, x)
           k == Len(s)
<1>1. /\ t \in Seq(S) /\ Len(t) = k + 1
      /\ \A i \in 1 .. k : t[i] = s[i]
      /\ t[k + 1] = x
  BY AppendProperties
<1>2. k \in Nat /\ DOMAIN s = 1 .. k
  BY LenProperties
<1> HIDE DEF t, k
<1>3. DOMAIN t = 1 .. k + 1
  BY <1>1, LenProperties
<1>4. k + 1 \in 1 .. k + 1 /\ \A i \in 1 .. k : i \in 1 .. k + 1
  BY <1>2
<1>5. \A i \in 1 .. k + 1 : i \in 1 .. k \/ i = k + 1
  BY <1>2
<1>6. Range(t) = Range(s) \cup {x}
  BY <1>1, <1>2, <1>3, <1>4, <1>5 DEF Range
<1> QED  BY <1>1, <1>2, <1>3, <1>6 DEF t, k

LEMMA ButFirst ==
    ASSUME NEW S, NEW s \in Seq(S), s # <<>>
    PROVE  LET t == Tail(s)
           IN  /\ t \in Seq(S) /\ Len(s) \in Nat /\ 1 \in DOMAIN s
               /\ DOMAIN s = 1 .. Len(s) /\ DOMAIN t = 1 .. Len(s) - 1
               /\ \A i \in 1 .. Len(s) - 1 : t[i] = s[i + 1]
               /\ Head(s) = s[1] /\ Head(s) \in S
               /\ Range(s) = {Head(s)} \cup Range(t)
<1> DEFINE t == Tail(s)
           k == Len(s)
<1>1. k \in Nat /\ DOMAIN s = 1 .. k /\ k # 0 /\ \A i \in 1 .. k : s[i] \in S
  BY LenProperties, EmptySeq
<1>2. /\ t \in Seq(S) /\ Len(t) = k - 1
      /\ \A i \in 1 .. k - 1 : t[i] = s[i + 1]
      /\ Head(s) = s[1]
  BY HeadTailProperties
<1> HIDE DEF t, k
<1>3. DOMAIN t = 1 .. k - 1
  BY <1>2, LenProperties
<1>4. 1 \in 1 .. k /\ \A i \in 1 .. k - 1 : i + 1 \in 1 .. k
  BY <1>1
<1>5. \A i \in 1 .. k : i = 1 \/ (i - 1 \in 1 .. k - 1 /\ (i - 1) + 1 = i)
  BY <1>1
<1>6. Range(s) = {s[1]} \cup Range(t)
  <2>1. Range(t) \subseteq Range(s) /\ s[1] \in Range(s)
    BY <1>1, <1>2, <1>3, <1>4 DEF Range
  <2>2. ASSUME NEW i \in 1 .. k
        PROVE  s[i] \in {s[1]} \cup Range(t)
    <3>1. CASE i = 1
      BY <3>1
    <3>2. CASE i - 1 \in 1 .. k - 1 /\ (i - 1) + 1 = i
      <4>1. t[i - 1] = s[i]
        BY <1>2, <3>2
      <4> QED  BY <1>3, <3>2, <4>1 DEF Range
    <3> QED  BY <1>5, <3>1, <3>2
  <2> QED  BY <1>1, <2>1, <2>2 DEF Range
<1> QED  BY <1>1, <1>2, <1>3, <1>4, <1>6 DEF t, k

LEMMA ConcatRange ==
    ASSUME NEW S, NEW s \in Seq(S), NEW t \in Seq(S)
    PROVE  s \o t \in Seq(S) /\ Range(s \o t) = Range(s) \cup Range(t)
<1> DEFINE k == Len(s)
           n == Len(t)
           u == s \o t
<1>1. /\ u \in Seq(S) /\ Len(u) = k + n /\ k \in Nat /\ n \in Nat
      /\ \A i \in 1 .. k + n : u[i] = IF i <= k THEN s[i] ELSE t[i - k]
  BY ConcatProperties, LenProperties
<1>2. DOMAIN s = 1 .. k /\ DOMAIN t = 1 .. n /\ DOMAIN u = 1 .. k + n
  BY <1>1, LenProperties
<1> HIDE DEF u, k, n
<1>3. ASSUME NEW i \in 1 .. k + n
      PROVE  u[i] \in Range(s) \cup Range(t)
  <2>1. CASE i <= k
    <3>1. i \in 1 .. k /\ u[i] = s[i]
      BY <1>1, <2>1
    <3> QED  BY <1>2, <3>1 DEF Range
  <2>2. CASE ~(i <= k)
    <3>1. i - k \in 1 .. n /\ u[i] = t[i - k]
      BY <1>1, <2>2
    <3> QED  BY <1>2, <3>1 DEF Range
  <2> QED  BY <2>1, <2>2
<1>4. ASSUME NEW i \in 1 .. k
      PROVE  s[i] \in Range(u)
  <2>1. i \in 1 .. k + n /\ u[i] = s[i]
    BY <1>1
  <2> QED  BY <1>2, <2>1 DEF Range
<1>5. ASSUME NEW i \in 1 .. n
      PROVE  t[i] \in Range(u)
  <2>1. k + i \in 1 .. k + n /\ ~(k + i <= k) /\ k + i - k = i
    BY <1>1
  <2>2. u[k + i] = t[i]
    BY <1>1, <2>1
  <2> QED  BY <1>2, <2>1, <2>2 DEF Range
<1>6. Range(u) = Range(s) \cup Range(t)
  BY <1>2, <1>3, <1>4, <1>5 DEF Range
<1> QED  BY <1>1, <1>6 DEF u

LEMMA AppendTwo ==
    ASSUME NEW S, NEW s \in Seq(S), NEW x \in S, NEW y \in S
    PROVE  s \o <<x, y>> = Append(Append(s, x), y)
<1>1. Append(s, x) = s \o <<x>> /\ Append(s, x) \in Seq(S)
  BY AppendIsConcat, AppendProperties
<1>2. Append(Append(s, x), y) = (s \o <<x>>) \o <<y>>
  BY <1>1, AppendIsConcat
<1>3. <<x>> \in Seq(S) /\ <<y>> \in Seq(S) /\ <<x>> \o <<y>> = <<x, y>>
  <2>1. <<x>> \in Seq(S) /\ <<y>> \in Seq(S)
    OBVIOUS
  <2>2. Append(<<x>>, y) = <<x, y>>
    <3> DEFINE t == Append(<<x>>, y)
    <3>1. t \in Seq(S) /\ Len(t) = 2 /\ t[1] = x /\ t[2] = y
      <4>1. Len(<<x>>) = 1 /\ <<x>>[1] = x /\ 1 \in 1 .. 1
        OBVIOUS
      <4>2. /\ t \in Seq(S) /\ Len(t) = Len(<<x>>) + 1
            /\ \A i \in 1 .. Len(<<x>>) : t[i] = <<x>>[i]
            /\ t[Len(<<x>>) + 1] = y
        BY <2>1, AppendProperties
      <4> HIDE DEF t
      <4> QED  BY <4>1, <4>2
    <3> HIDE DEF t
    <3>2. /\ <<x, y>> \in Seq(S) /\ Len(<<x, y>>) = 2
          /\ <<x, y>>[1] = x /\ <<x, y>>[2] = y
      OBVIOUS
    <3>3. \A i \in 1 .. 2 : t[i] = <<x, y>>[i]
      BY <3>1, <3>2
    <3>4. t = <<x, y>>
      BY <3>1, <3>2, <3>3, SeqEqual
    <3> QED  BY <3>4 DEF t
  <2>3. Append(<<x>>, y) = <<x>> \o <<y>>
    BY <2>1, AppendIsConcat
  <2> QED  BY <2>1, <2>2, <2>3
<1>4. (s \o <<x>>) \o <<y>> = s \o (<<x>> \o <<y>>)
  BY <1>3, ConcatAssociative
<1> QED  BY <1>2, <1>3, <1>4
=============================================================================
