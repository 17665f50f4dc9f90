--------------------------- MODULE SequenceLemmas ---------------------------
(* Facts that several of the proofs use: about the ends of sequences, about *)
(* least and largest numbers, and about functions given by a recurrence.   *)
EXTENDS Integers, Sequences, SequenceTheorems, WellFoundedInduction, TLAPS

\* What a sequence is after an item was added at its end.
LEMMA Appended ==
    ASSUME NEW S, NEW s \in Seq(S), NEW x \in S
    PROVE  LET r == Append(s, x)
           IN  /\ r \in Seq(S) /\ Len(r) = Len(s) + 1 /\ r = s \o <<x>>
               /\ Len(s) \in Nat
               /\ DOMAIN r = 1 .. Len(s) + 1 /\ DOMAIN s = 1 .. Len(s)
               /\ \A i \in DOMAIN r : IF i = Len(s) + 1 THEN r[i] = x
                                      ELSE i \in DOMAIN s /\ r[i] = s[i]
               /\ \A i \in DOMAIN s : i \in DOMAIN r /\ r[i] = s[i]
BY AppendProperties, LenProperties

\* What it is after its first item was taken.
LEMMA Behead ==
    ASSUME NEW S, NEW s \in Seq(S), s # <<>>
    PROVE  LET r == Tail(s)
           IN  /\ r \in Seq(S) /\ Head(s) \in S /\ Head(s) = s[1]
               /\ 1 \in DOMAIN s /\ Len(s) \in Nat /\ Len(s) >= 1 /\ Len(r) = Len(s) - 1
               /\ \A i \in DOMAIN r :
                    i + 1 \in DOMAIN s /\ i \in Nat /\ i >= 1 /\ r[i] = s[i + 1]
<1>1. Len(s) \in Nat \ {0} /\ DOMAIN s = 1 .. Len(s) /\ Head(s) = s[1]
  BY EmptySeq, LenProperties
<1>2. /\ Tail(s) \in Seq(S) /\ Len(Tail(s)) = Len(s) - 1
      /\ \A i \in 1 .. Len(Tail(s)) : Tail(s)[i] = s[i + 1]
      /\ Head(s) \in S
  BY HeadTailProperties
<1>3. DOMAIN Tail(s) = 1 .. Len(s) - 1
  BY <1>2, LenProperties
<1>4. QED  BY <1>1, <1>2, <1>3

\* Handing the oldest item of the ring over does not change what is in line.
LEMMA HandedOver ==
    ASSUME NEW S, NEW p \in Seq(S), NEW q \in Seq(S), q # <<>>
    PROVE  Append(p, Head(q)) \o Tail(q) = p \o q
<1>1. Head(q) \in S /\ Tail(q) \in Seq(S) /\ q = <<Head(q)>> \o Tail(q)
  BY HeadTailProperties
<1>2. Append(p, Head(q)) = p \o <<Head(q)>> /\ <<Head(q)>> \in Seq(S)
  BY <1>1, AppendProperties
<1>3. QED  BY <1>1, <1>2, ConcatAssociative

\* Nor does putting the item that waits into the ring.
LEMMA PutIn ==
    ASSUME NEW S, NEW p \in Seq(S), NEW q \in Seq(S), NEW x \in S
    PROVE  p \o Append(q, x) = (p \o q) \o <<x>>
<1>1. Append(q, x) = q \o <<x>> /\ <<x>> \in Seq(S)
  BY AppendProperties
<1>2. QED  BY <1>1, ConcatAssociative
-----------------------------------------------------------------------------
(* Induction: what fails for a natural number fails for a least one.       *)

LEMMA Least ==
    ASSUME NEW S, S \subseteq Nat, S # {}
    PROVE  \E x \in S : \A y \in S : x <= y
<1>1. \E x \in S : \A y \in S : ~(<<y, x>> \in OpToRel(<, Nat))
  BY WFMin, NatLessThanWellFounded, Zenon
<1>2. PICK x \in S : \A y \in S : ~(y < x)
  BY <1>1 DEF OpToRel
<1>3. QED  BY <1>2

LEMMA Largest ==
    ASSUME NEW n \in Nat, NEW S, S \subseteq 0 .. n, S # {}
    PROVE  \E x \in S : \A y \in S : y <= x
<1> DEFINE T == {n - x : x \in S}
<1>1. \A x \in S : x \in Nat /\ n - x \in Nat
  OBVIOUS
<1>2. T \subseteq Nat /\ T # {}
  BY <1>1
<1>3. PICK t \in T : \A u \in T : t <= u
  BY <1>2, Least
<1>4. PICK x \in S : t = n - x
  BY <1>3
<1>5. ASSUME NEW y \in S PROVE y <= x
  <2>1. n - y \in T
    BY <1>5
  <2>2. n - x <= n - y
    BY <1>3, <1>4, <2>1
  <2>3. QED  BY <1>1, <1>5, <2>2
<1>6. QED  BY <1>5

\* What holds at first, and after a number if it does at the number, holds.
LEMMA Induction ==
    ASSUME NEW n \in Nat, NEW S, 0 \in S, \A k \in 1 .. n : k - 1 \in S => k \in S
    PROVE  0 .. n \subseteq S
<1> DEFINE Off == (0 .. n) \ S
<1>1. SUFFICES ASSUME Off # {} PROVE FALSE
  OBVIOUS
<1>2. PICK k \in Off : \A l \in Off : k <= l
  <2>1. Off \subseteq Nat
    OBVIOUS
  <2>2. QED  BY <1>1, <2>1, Least
<1>3. k \in 1 .. n /\ k - 1 \in 0 .. n
  BY <1>2
<1>4. k - 1 \notin Off
  <2>1. k - 1 \in Off => k <= k - 1
    BY <1>2, Zenon
  <2>2. QED  BY <1>3, <2>1
<1>5. QED  BY <1>2, <1>3, <1>4

\* The functions that begin with c and whose every step multiplies what there
\* is by a and adds the next number.
Recurrence(n, c, a, s) ==
    {f \in [0 .. n -> Int] : f[0] = c /\ \A k \in 1 .. n : f[k] = a * f[k - 1] + s[k]}

LEMMA RecurrenceExists ==
    ASSUME NEW n \in Nat, NEW c \in Int, NEW a \in Int, NEW s, \A k \in 1 .. n : s[k] \in Int
    PROVE  Recurrence(n, c, a, s) # {}
<1> DEFINE Good == {m \in 0 .. n : Recurrence(m, c, a, s) # {}}
<1>1. 0 \in Good
  <2>1. [k \in 0 .. 0 |-> c] \in Recurrence(0, c, a, s)
    BY DEF Recurrence
  <2>2. QED  BY <2>1
<1>2. ASSUME NEW m \in 1 .. n, m - 1 \in Good
      PROVE  m \in Good
  <2>1. m \in Nat /\ m >= 1 /\ m \in 0 .. n /\ s[m] \in Int
    OBVIOUS
  <2>2. PICK f \in [0 .. m - 1 -> Int] :
            f[0] = c /\ \A k \in 1 .. m - 1 : f[k] = a * f[k - 1] + s[k]
    BY <1>2 DEF Recurrence
  <2>3. PICK z \in Int : z = a * f[m - 1] + s[m]
    BY <2>1, <2>2
  <2> DEFINE g == [k \in 0 .. m |-> IF k = m THEN z ELSE f[k]]
  <2>4. g \in [0 .. m -> Int] /\ g[0] = c
    BY <2>1, <2>2
  <2>5. ASSUME NEW k \in 1 .. m PROVE g[k] = a * g[k - 1] + s[k]
    <3>1. CASE k = m
      <4>1. g[k] = z /\ g[k - 1] = f[m - 1]
        BY <2>1, <3>1
      <4>2. QED  BY <2>3, <3>1, <4>1
    <3>2. CASE k # m
      <4>1. k \in 1 .. m - 1 /\ g[k] = f[k] /\ g[k - 1] = f[k - 1]
        BY <2>1, <3>2
      <4>2. QED  BY <2>2, <4>1
    <3>3. QED  BY <3>1, <3>2
  <2>6. g \in Recurrence(m, c, a, s)
    BY <2>4, <2>5 DEF Recurrence
  <2>7. QED  BY <2>1, <2>6
<1>3. 0 .. n \subseteq Good
  <2> HIDE DEF Good
  <2>1. QED  BY <1>1, <1>2, Induction
<1>4. n \in Good
  <2> HIDE DEF Good
  <2>1. n \in 0 .. n
    OBVIOUS
  <2>2. QED  BY <1>3, <2>1
<1>5. QED  BY <1>4
=============================================================================
