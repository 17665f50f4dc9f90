---------------------------- MODULE Replay_proofs ----------------------------
(* Proofs about a run of the backtester: whatever fails on the way, it     *)
(* gives back what it took and reports success only for a file replayed    *)
(* whole; the symbols stay within the array; an order is sent with the two *)
(* bodies of its pair; and the digits of a body read as the price and the  *)
(* quantity that were booked.                                              *)
EXTENDS Replay, SequenceLemmas, FiniteSetTheorems, TLAPS

RunType ==
    /\ fpc \in {"new", "stat", "size", "map", "opened", "failed"}
    /\ fd_ \in {NoFd, Fd} /\ mapped_ \in BOOLEAN
    /\ size \in Nat /\ file_size_ \in {0, size}
    /\ pc \in {"config", "open", "setup", "loop", "exit"}
    /\ exit_code \in {"none", "success", "failure"}
    /\ trade_buf \in BOOLEAN /\ coin \subseteq Pairs
    /\ next \in Nat /\ next <= size \div RecordSize
    /\ json \in Seq(Nat) /\ symbols \in Seq(Nat)

\* What the kernel holds is what the source still refers to, how far open()
\* got says what that is, and nothing is held once main has returned.
FileInv ==
    /\ descriptors = IF fd_ = Fd THEN {Fd} ELSE {}
    /\ mapping = IF mapped_ THEN file_size_ ELSE 0
    /\ pc = "config" => fpc = "new"
    /\ fpc \in {"new", "failed"} => fd_ = NoFd /\ ~mapped_
    /\ fpc = "size" => file_size_ = size
    /\ fpc = "map" => file_size_ = size /\ size > 0 /\ size % RecordSize = 0
    /\ fpc \in {"new", "stat", "size", "map", "failed"} => ~mapped_
    /\ fpc = "opened" /\ pc # "exit" => mapped_ /\ file_size_ = size
    /\ fpc = "opened" => size > 0 /\ size % RecordSize = 0
    /\ pc \in {"setup", "loop"} => fpc = "opened"
    /\ trade_buf <=> pc \in {"setup", "loop"}
    /\ pc = "exit" => fd_ = NoFd /\ ~mapped_

\* Success is reported for a file replayed whole, failure before its first tick.
ExitInv ==
    /\ pc \in {"config", "open", "setup"} => next = 0
    /\ pc = "exit" => \/ exit_code = "failure" /\ next = 0
                      \/ /\ exit_code = "success" /\ next = size \div RecordSize
                         /\ fpc = "opened"

SymbolInv ==
    /\ Len(symbols) <= PAIRS_PER_VENUE
    /\ pc \in {"open", "setup", "loop"} /\ Len(json) < Mod16 => Len(symbols) = Len(json)

Names(t, k, v, side) == t.symbol = k /\ t.venue = v /\ t.side = side

\* Once set up, the templates of a pair that some symbol claims name the last
\* such symbol; patching them does not change that.
TemplateInv ==
    /\ DOMAIN buy_templates = Indices /\ DOMAIN sell_templates = Indices
    /\ \A i \in Indices : DOMAIN buy_templates[i] = DOMAIN Garbage
                          /\ DOMAIN sell_templates[i] = DOMAIN Garbage
    /\ pc \in {"config", "open", "setup"} => order = {}
    /\ pc = "loop" =>
         /\ coin = Seeded
         /\ \A v \in {1, 2}, p \in Pairs : Owners(p) # {} =>
              /\ Names(buy_templates[map_to_index(v, p)], LastOf(Owners(p)), v, "BUY")
              /\ Names(sell_templates[map_to_index(v, p)], LastOf(Owners(p)), v, "SELL")

\* What the properties say of the order of the last tick.
OrderInv == OrderNamesItsPair /\ BodyReadsBack

Inv == RunType /\ FileInv /\ ExitInv /\ SymbolInv /\ TemplateInv /\ OrderInv
-----------------------------------------------------------------------------
(* Powers of ten.                                                          *)

LEMMA PowerOf ==
    ASSUME NEW n \in Nat
    PROVE  \E f \in [0 .. n -> Int] :
             f[0] = 1 /\ (\A k \in 1 .. n : f[k] = 10 * f[k - 1]) /\ Pow10(n) = f[n]
<1> DEFINE zero == [k \in 1 .. n |-> 0]
           power == CHOOSE p : p = [i \in 0 .. n |-> IF i = 0 THEN 1 ELSE 10 * p[i - 1]]
<1>1. PICK f \in [0 .. n -> Int] :
          f[0] = 1 /\ \A k \in 1 .. n : f[k] = 10 * f[k - 1] + zero[k]
  <2>1. 1 \in Int /\ 10 \in Int /\ \A k \in 1 .. n : zero[k] \in Int
    OBVIOUS
  <2> HIDE DEF zero
  <2>2. Recurrence(n, 1, 10, zero) # {}
    BY <2>1, RecurrenceExists, Zenon
  <2>3. QED  BY <2>2 DEF Recurrence
<1>2. \A k \in 1 .. n : f[k] = 10 * f[k - 1]
  BY <1>1
<1>3. f = [i \in 0 .. n |-> IF i = 0 THEN 1 ELSE 10 * f[i - 1]]
  BY <1>1, <1>2
<1>4. power = [i \in 0 .. n |-> IF i = 0 THEN 1 ELSE 10 * power[i - 1]]
  BY <1>3, Zenon
<1>5. Pow10(n) = power[n]
  BY DEF Pow10
<1> HIDE DEF power
<1> DEFINE Same == {k \in 0 .. n : power[k] = f[k]}
<1>6. 0 \in Same /\ \A k \in 1 .. n : k - 1 \in Same => k \in Same
  BY <1>1, <1>2, <1>4
<1>7. 0 .. n \subseteq Same
  <2> HIDE DEF Same
  <2>1. QED  BY <1>6, Induction
<1>8. n \in Same
  <2> HIDE DEF Same
  <2>1. n \in 0 .. n
    OBVIOUS
  <2>2. QED  BY <1>7, <2>1
<1>9. Pow10(n) = f[n]
  BY <1>5, <1>8
<1>10. QED  BY <1>1, <1>2, <1>9

LEMMA PowerNext ==
    /\ Pow10(0) = 1
    /\ \A n \in Nat : Pow10(n) \in Nat /\ Pow10(n) >= 1 /\ Pow10(n + 1) = 10 * Pow10(n)
<1>1. Pow10(0) = 1
  BY PowerOf
<1>2. ASSUME NEW n \in Nat
      PROVE  Pow10(n) \in Nat /\ Pow10(n) >= 1 /\ Pow10(n + 1) = 10 * Pow10(n)
  <2>1. PICK f \in [0 .. n -> Int] :
            f[0] = 1 /\ (\A k \in 1 .. n : f[k] = 10 * f[k - 1]) /\ Pow10(n) = f[n]
    BY PowerOf
  <2>2. PICK g \in [0 .. n + 1 -> Int] :
            /\ g[0] = 1 /\ (\A k \in 1 .. n + 1 : g[k] = 10 * g[k - 1])
            /\ Pow10(n + 1) = g[n + 1]
    <3>1. n + 1 \in Nat
      OBVIOUS
    <3>2. QED  BY <3>1, PowerOf
  <2> DEFINE Same == {k \in 0 .. n : f[k] = g[k] /\ f[k] >= 1}
  <2>3. 0 \in Same
    BY <2>1, <2>2
  <2>11. ASSUME NEW k \in 1 .. n, k - 1 \in Same PROVE k \in Same
    <3>1. k \in 0 .. n /\ k - 1 \in 0 .. n /\ k \in 1 .. n + 1
      OBVIOUS
    <3>2. f[k] = 10 * f[k - 1] /\ g[k] = 10 * g[k - 1] /\ f[k - 1] \in Int
      BY <2>1, <2>2, <3>1
    <3>3. QED  BY <2>11, <3>1, <3>2
  <2>4. 0 .. n \subseteq Same
    <3> HIDE DEF Same
    <3>1. QED  BY <2>3, <2>11, Induction
  <2>5. n \in 0 .. n /\ n + 1 \in 1 .. n + 1 /\ (n + 1) - 1 = n
    OBVIOUS
  <2>6. f[n] = g[n] /\ f[n] >= 1
    BY <2>4, <2>5
  <2>7. g[n + 1] = 10 * g[n]
    BY <2>2, <2>5
  <2>8. QED  BY <2>1, <2>2, <2>5, <2>6, <2>7
<1>3. QED  BY <1>1, <1>2

LEMMA PowerAdds ==
    ASSUME NEW j \in Nat, NEW n \in Nat
    PROVE  Pow10(j + n) = Pow10(j) * Pow10(n)
<1> DEFINE Good == {k \in 0 .. n : Pow10(j + k) = Pow10(j) * Pow10(k)}
<1>1. 0 \in Good
  <2>1. j + 0 = j /\ Pow10(j) \in Nat /\ Pow10(0) = 1
    BY PowerNext
  <2>2. QED  BY <2>1
<1>2. ASSUME NEW k \in 1 .. n, k - 1 \in Good PROVE k \in Good
  <2>1. PICK l \in Nat : l = k - 1 /\ k = l + 1 /\ j + k = (j + l) + 1 /\ j + l \in Nat
    OBVIOUS
  <2>2. Pow10(k) = 10 * Pow10(l) /\ Pow10(j + k) = 10 * Pow10(j + l)
    BY <2>1, PowerNext
  <2>3. PICK x \in Nat, y \in Nat : x = Pow10(j) /\ y = Pow10(l)
    BY PowerNext
  <2>4. Pow10(j + l) = x * y
    BY <1>2, <2>1, <2>3
  <2>5. 10 * (x * y) = x * (10 * y)
    OBVIOUS
  <2>6. QED  BY <2>2, <2>3, <2>4, <2>5
<1>3. 0 .. n \subseteq Good
  <2> HIDE DEF Good
  <2>1. QED  BY <1>1, <1>2, Induction
<1>4. n \in 0 .. n
  OBVIOUS
<1>5. QED  BY <1>3, <1>4

LEMMA PowerGrows ==
    ASSUME NEW j \in Nat, NEW k \in Nat, j <= k
    PROVE  Pow10(j) <= Pow10(k)
<1>1. k - j \in Nat /\ j + (k - j) = k
  OBVIOUS
<1>2. PICK x \in Nat, y \in Nat : x = Pow10(j) /\ y = Pow10(k - j) /\ y >= 1
  BY <1>1, PowerNext
<1>3. Pow10(k) = x * y
  BY <1>1, <1>2, PowerAdds
<1>4. x <= x * y
  BY <1>2
<1>5. QED  BY <1>2, <1>3, <1>4

\* The power one below.
LEMMA PowerBelow ==
    ASSUME NEW k \in Nat, k >= 1
    PROVE  k - 1 \in Nat /\ Pow10(k) = 10 * Pow10(k - 1)
<1>1. k - 1 \in Nat /\ (k - 1) + 1 = k
  OBVIOUS
<1>2. Pow10((k - 1) + 1) = 10 * Pow10(k - 1)
  BY <1>1, PowerNext, Zenon
<1>3. QED  BY <1>1, <1>2
-----------------------------------------------------------------------------
(* Division.                                                               *)

LEMMA QuotientIs ==
    ASSUME NEW x \in Nat, NEW d \in Nat, d >= 1, NEW q \in Int, NEW r \in Int,
           x = d * q + r, 0 <= r, r < d
    PROVE  x \div d = q /\ x % d = r
OBVIOUS

LEMMA DivideWithRest ==
    ASSUME NEW x \in Nat, NEW d \in Nat, d >= 1
    PROVE  /\ x \div d \in Nat /\ x % d \in Nat /\ x % d < d
           /\ x = d * (x \div d) + (x % d)
OBVIOUS

LEMMA DivideTwice ==
    ASSUME NEW x \in Nat, NEW m \in Nat, m >= 1
    PROVE  /\ x \div m \in Nat /\ x \div (10 * m) \in Nat
           /\ x \div m = 10 * (x \div (10 * m)) + ((x \div m) % 10)
           /\ (x \div m) % 10 \in 0 .. 9
<1>1. PICK q \in Nat, r \in Nat : x = m * q + r /\ r < m /\ q = x \div m
  <2>1. x \div m \in Nat /\ x % m \in Nat /\ x % m < m /\ x = m * (x \div m) + (x % m)
    OBVIOUS
  <2>2. QED  BY <2>1
<1>2. PICK t \in Nat, u \in Nat : q = 10 * t + u /\ u <= 9 /\ u = q % 10
  <2>1. q \div 10 \in Nat /\ q % 10 \in Nat /\ q = 10 * (q \div 10) + (q % 10) /\ q % 10 <= 9
    OBVIOUS
  <2>2. QED  BY <2>1
<1>3. x = (10 * m) * t + (m * u + r)
  <2>1. m * (10 * t + u) = (10 * m) * t + m * u /\ m * u \in Nat /\ (10 * m) * t \in Nat
    OBVIOUS
  <2>2. x = m * (10 * t + u) + r
    BY <1>1, <1>2
  <2>3. QED  BY <1>1, <2>1, <2>2
<1>4. m * u + r \in Nat /\ m * u + r < 10 * m /\ 10 * m \in Nat /\ 10 * m >= 1
  <2>1. m * u <= m * 9
    BY <1>2
  <2>2. QED  BY <1>1, <2>1
<1>5. x \div (10 * m) = t
  BY <1>3, <1>4, QuotientIs
<1>6. x \div m = q /\ q % 10 = u /\ u \in 0 .. 9
  BY <1>1, <1>2
<1>7. q \in Nat /\ t \in Nat /\ q = 10 * t + u
  BY <1>2
<1>8. QED  BY <1>5, <1>6, <1>7
-----------------------------------------------------------------------------
(* Digits.                                                                 *)

\* Any function that reads the digits one by one gives the number they stand for.
LEMMA NumberIs ==
    ASSUME NEW d, NEW n \in Nat, n = Len(d), NEW g \in Recurrence(n, 0, 10, d)
    PROVE  Number(d) = g[n]
<1> DEFINE upto == CHOOSE f : f = [i \in 0 .. n |-> IF i = 0 THEN 0 ELSE 10 * f[i - 1] + d[i]]
<1>1. g \in [0 .. n -> Int] /\ g[0] = 0 /\ \A k \in 1 .. n : g[k] = 10 * g[k - 1] + d[k]
  BY DEF Recurrence
<1>2. g = [i \in 0 .. n |-> IF i = 0 THEN 0 ELSE 10 * g[i - 1] + d[i]]
  BY <1>1
<1>3. upto = [i \in 0 .. n |-> IF i = 0 THEN 0 ELSE 10 * upto[i - 1] + d[i]]
  BY <1>2, Zenon
<1>4. Number(d) = upto[n]
  BY DEF Number
<1> HIDE DEF upto
<1> DEFINE Same == {k \in 0 .. n : upto[k] = g[k]}
<1>5. 0 \in Same
  BY <1>1, <1>3
<1>6. ASSUME NEW k \in 1 .. n, k - 1 \in Same PROVE k \in Same
  <2>1. k \in 0 .. n /\ k # 0
    OBVIOUS
  <2>2. upto[k] = 10 * upto[k - 1] + d[k]
    BY <1>3, <2>1
  <2>3. g[k] = 10 * g[k - 1] + d[k]
    BY <1>1
  <2>4. QED  BY <1>6, <2>1, <2>2, <2>3
<1>7. 0 .. n \subseteq Same
  <2> HIDE DEF Same
  <2>1. QED  BY <1>5, <1>6, Induction
<1>8. n \in 0 .. n
  OBVIOUS
<1>9. QED  BY <1>4, <1>7, <1>8

\* The digits of n in a text of len, and the first r decimals of v, which has p,
\* in a text of L.
DigitsOf(n, len) == [i \in 1 .. len |-> (n \div Pow10(len - i)) % 10]
DecimalsOf(v, p, r, L) ==
    [j \in 1 .. L |-> IF j <= r THEN (v \div Pow10(p - j)) % 10 ELSE 0]

\* A number has the digits it is written with, and no more than it needs.
LEMMA DigitsAre ==
    ASSUME NEW n \in Nat, n < Pow10(TmpLen)
    PROVE  \E len \in 1 .. TmpLen :
             /\ Digits(n) = DigitsOf(n, len)
             /\ n < Pow10(len) /\ (len = 1 \/ n >= Pow10(len - 1))
<1> DEFINE S == {k \in 1 .. TmpLen : n < Pow10(k)}
           len == CHOOSE k \in 1 .. TmpLen : n < Pow10(k) /\ (k = 1 \/ n >= Pow10(k - 1))
<1>0. TmpLen \in Nat /\ TmpLen >= 1
  BY BodyAssumption
<1>1. S \subseteq Nat /\ TmpLen \in S
  BY <1>0
<1>2. PICK k \in S : \A j \in S : k <= j
  <2> HIDE DEF S
  <2>1. QED  BY <1>1, Least
<1>3. k = 1 \/ n >= Pow10(k - 1)
  <2>1. SUFFICES ASSUME k # 1 PROVE n >= Pow10(k - 1)
    OBVIOUS
  <2>2. k - 1 \in 1 .. TmpLen /\ k - 1 \in Nat
    BY <1>0, <2>1
  <2>3. k - 1 \notin S
    <3>1. k - 1 \in S => k <= k - 1
      BY <1>2, Zenon
    <3>2. QED  BY <2>2, <3>1
  <2>4. Pow10(k - 1) \in Nat
    BY <2>2, PowerNext
  <2>5. QED  BY <2>2, <2>3, <2>4
<1>4. /\ len \in 1 .. TmpLen /\ n < Pow10(len) /\ (len = 1 \/ n >= Pow10(len - 1))
  <2>1. \E j \in 1 .. TmpLen : n < Pow10(j) /\ (j = 1 \/ n >= Pow10(j - 1))
    BY <1>3
  <2>2. QED  BY <2>1, Zenon
<1>5. Digits(n) = DigitsOf(n, len)
  BY DEF Digits, DigitsOf
<1> HIDE DEF len
<1>6. QED  BY <1>4, <1>5

\* Read digit by digit a number comes out as it was.
LEMMA DigitsRead ==
    ASSUME NEW n \in Nat, NEW len \in Nat, n < Pow10(len)
    PROVE  LET d == DigitsOf(n, len)
           IN  Len(d) = len /\ d \in Seq(0 .. 9) /\ Number(d) = n
<1> DEFINE d == DigitsOf(n, len)
<1>0. d = [i \in 1 .. len |-> (n \div Pow10(len - i)) % 10]
  BY DEF DigitsOf
<1> HIDE DEF d
<1> USE <1>0
<1> DEFINE g == [k \in 0 .. len |-> n \div Pow10(len - k)]
<1>1. ASSUME NEW k \in 0 .. len
      PROVE  len - k \in Nat /\ Pow10(len - k) \in Nat /\ Pow10(len - k) >= 1
  <2>1. len - k \in Nat
    OBVIOUS
  <2>2. QED  BY <2>1, PowerNext
<1>2. ASSUME NEW k \in 0 .. len
      PROVE  n \div Pow10(len - k) \in Nat /\ (n \div Pow10(len - k)) % 10 \in 0 .. 9
  <2>1. PICK m \in Nat : m = Pow10(len - k) /\ m >= 1
    BY <1>1
  <2>2. n \div m \in Nat /\ (n \div m) % 10 \in 0 .. 9
    BY <2>1, DivideTwice
  <2>3. QED  BY <2>1, <2>2
<1>3. d \in [1 .. len -> 0 .. 9]
  BY <1>2
<1>4. d \in Seq(0 .. 9) /\ Len(d) = len
  BY <1>3
<1>5. g[0] = 0
  <2>1. len - 0 = len /\ 0 \in 0 .. len
    OBVIOUS
  <2>2. PICK m \in Nat : m = Pow10(len) /\ n < m
    BY PowerNext
  <2>3. n \div m = 0
    BY <2>2
  <2>4. QED  BY <2>1, <2>2, <2>3
<1>6. ASSUME NEW k \in 1 .. len
      PROVE  g[k] = 10 * g[k - 1] + d[k]
  <2>1. /\ k \in 0 .. len /\ k - 1 \in 0 .. len /\ len - (k - 1) \in Nat
        /\ len - (k - 1) >= 1 /\ (len - (k - 1)) - 1 = len - k
    OBVIOUS
  <2>2. Pow10(len - (k - 1)) = 10 * Pow10(len - k)
    BY <2>1, PowerBelow
  <2>3. PICK m \in Nat : m = Pow10(len - k) /\ m >= 1
    BY <1>1, <2>1
  <2>4. n \div m = 10 * (n \div (10 * m)) + ((n \div m) % 10)
    BY <2>3, DivideTwice
  <2>5. g[k] = n \div m /\ g[k - 1] = n \div (10 * m) /\ d[k] = (n \div m) % 10
    BY <2>1, <2>2, <2>3
  <2>6. QED  BY <2>4, <2>5
<1>7. g \in Recurrence(len, 0, 10, d)
  <2>1. g \in [0 .. len -> Int]
    BY <1>2
  <2> HIDE DEF g
  <2>2. QED  BY <1>5, <1>6, <2>1 DEF Recurrence
<1>8. g[len] = n
  <2>1. len \in 0 .. len /\ len - len = 0 /\ Pow10(0) = 1 /\ n \div 1 = n
    BY PowerNext
  <2>2. QED  BY <2>1
<1> HIDE DEF g
<1>9. QED  BY <1>4, <1>7, <1>8, NumberIs DEF d

\* A decimal depends on the fraction only.
LEMMA DecimalIs ==
    ASSUME NEW v \in Nat, NEW p \in Nat, NEW k \in 1 .. p
    PROVE  /\ p - k \in Nat /\ v % Pow10(p) \in Nat
           /\ (v \div Pow10(p - k)) % 10 = ((v % Pow10(p)) \div Pow10(p - k)) % 10
           /\ (v \div Pow10(p - k)) % 10 \in 0 .. 9
<1>1. p - k \in Nat /\ k - 1 \in Nat /\ k \in Nat /\ (p - k) + k = p /\ k >= 1
  OBVIOUS
<1>2. PICK m \in Nat, y \in Nat : m = Pow10(p - k) /\ m >= 1 /\ y = Pow10(k - 1) /\ y >= 1
  BY <1>1, PowerNext
<1>3. PICK s \in Nat : s = Pow10(p) /\ s = m * (10 * y) /\ s >= 1
  <2>1. Pow10(p) = Pow10(p - k) * Pow10(k)
    BY <1>1, PowerAdds
  <2>2. Pow10(k) = 10 * y
    BY <1>1, <1>2, PowerBelow
  <2>3. p \in Nat /\ Pow10(p) \in Nat /\ Pow10(p) >= 1
    BY PowerNext
  <2>4. QED  BY <1>2, <2>1, <2>2, <2>3
<1>4. PICK a \in Nat, fr \in Nat : v = s * a + fr /\ fr = v % s
  <2>1. v \div s \in Nat /\ v % s \in Nat /\ v = s * (v \div s) + (v % s)
    BY <1>3, DivideWithRest, Zenon
  <2>2. QED  BY <2>1, Zenon
<1>5. PICK t \in Nat, u \in Nat : fr = m * t + u /\ u < m /\ t = fr \div m
  <2>1. fr \div m \in Nat /\ fr % m \in Nat /\ fr % m < m /\ fr = m * (fr \div m) + (fr % m)
    BY <1>2, DivideWithRest, Zenon
  <2>2. QED  BY <2>1, Zenon
<1>6. PICK b \in Nat : b = y * a
  OBVIOUS
<1>7. v = m * (10 * b + t) + u
  <2>1. (m * (10 * y)) * a = m * (10 * (y * a))
    OBVIOUS
  <2>2. s * a = m * (10 * b)
    BY <1>3, <1>6, <2>1
  <2>3. m * (10 * b) + m * t = m * (10 * b + t) /\ m * (10 * b) \in Nat /\ m * t \in Nat
    OBVIOUS
  <2>4. PICK e \in Nat, w \in Nat : e = m * (10 * b) /\ w = m * t
    BY <2>3
  <2>5. v = e + (w + u)
    BY <1>4, <1>5, <2>2, <2>4
  <2>6. m * (10 * b + t) = e + w
    BY <2>3, <2>4
  <2>7. QED  BY <2>5, <2>6
<1>8. v \div m = 10 * b + t
  <2>1. 10 * b + t \in Int /\ u \in Int /\ 0 <= u
    OBVIOUS
  <2>2. QED  BY <1>2, <1>5, <1>7, <2>1, QuotientIs
<1>9. (10 * b + t) % 10 = t % 10 /\ t % 10 \in 0 .. 9
  OBVIOUS
<1>10. QED  BY <1>1, <1>2, <1>3, <1>4, <1>5, <1>8, <1>9

\* Decimals with zeros behind them: the fraction as far as it was kept.
LEMMA FractionRead ==
    ASSUME NEW v \in Nat, NEW p \in Nat, NEW r \in 0 .. p, NEW L \in Nat, r <= L
    PROVE  LET d == DecimalsOf(v, p, r, L)
           IN  Len(d) = L /\ d \in Seq(0 .. 9)
               /\ Number(d) = Pow10(L - r) * ((v % Pow10(p)) \div Pow10(p - r))
<1> DEFINE d == DecimalsOf(v, p, r, L)
<1>d. d = [j \in 1 .. L |-> IF j <= r THEN (v \div Pow10(p - j)) % 10 ELSE 0]
  BY DEF DecimalsOf
<1> HIDE DEF d
<1> USE <1>d
<1>0. r \in Nat /\ r <= p /\ p - r \in Nat /\ L - r \in Nat
  OBVIOUS
<1>1. PICK fr \in Nat : fr = v % Pow10(p) /\ fr < Pow10(p)
  <2>1. PICK s \in Nat : s = Pow10(p) /\ s >= 1
    BY PowerNext
  <2>2. v % s \in Nat /\ v % s < s
    BY <2>1
  <2>3. QED  BY <2>1, <2>2
<1>2. PICK q \in Nat : q = fr \div Pow10(p - r)
  <2>1. PICK m \in Nat : m = Pow10(p - r) /\ m >= 1
    BY <1>0, PowerNext
  <2>2. fr \div m \in Nat
    BY <2>1
  <2>3. QED  BY <2>1, <2>2
<1> DEFINE g == [k \in 0 .. L |-> IF k <= r THEN fr \div Pow10(p - k) ELSE Pow10(k - r) * q]
<1>3. ASSUME NEW k \in 0 .. L, k <= r
      PROVE  p - k \in Nat /\ Pow10(p - k) \in Nat /\ Pow10(p - k) >= 1 /\ fr \div Pow10(p - k) \in Nat
  <2>1. p - k \in Nat
    BY <1>0, <1>3
  <2>2. PICK m \in Nat : m = Pow10(p - k) /\ m >= 1
    BY <2>1, PowerNext
  <2>3. fr \div m \in Nat
    BY <2>2, DivideWithRest, Zenon
  <2>4. QED  BY <2>1, <2>2, <2>3
<1>4. ASSUME NEW k \in 0 .. L, k > r
      PROVE  k - r \in Nat /\ Pow10(k - r) \in Nat /\ Pow10(k - r) * q \in Nat
  <2>1. k - r \in Nat
    BY <1>0, <1>4
  <2>2. PICK m \in Nat : m = Pow10(k - r)
    BY <2>1, PowerNext
  <2>3. QED  BY <2>1, <2>2
<1>5. d \in [1 .. L -> 0 .. 9]
  <2>1. ASSUME NEW j \in 1 .. L, j <= r PROVE (v \div Pow10(p - j)) % 10 \in 0 .. 9
    <3>1. j \in 1 .. p
      BY <1>0, <2>1
    <3>2. QED  BY <3>1, DecimalIs
  <2>2. QED  BY <2>1
<1>6. d \in Seq(0 .. 9) /\ Len(d) = L
  BY <1>5
<1>7. g[0] = 0
  <2>1. PICK s \in Nat : s = Pow10(p) /\ fr < s
    BY <1>1, PowerNext
  <2>2. fr \div s = 0
    BY <2>1
  <2>3. 0 \in 0 .. L /\ 0 <= r /\ p - 0 = p
    BY <1>0
  <2>4. QED  BY <2>1, <2>2, <2>3
<1>8. ASSUME NEW k \in 1 .. L
      PROVE  g[k] = 10 * g[k - 1] + d[k]
  <2>1. k \in 0 .. L /\ k - 1 \in 0 .. L /\ k \in Nat
    OBVIOUS
  <2>2. CASE k <= r
    <3>1. k \in 1 .. p /\ k - 1 <= r /\ p - (k - 1) \in Nat /\ p - (k - 1) >= 1
          /\ (p - (k - 1)) - 1 = p - k
      BY <1>0, <2>2
    <3>2. Pow10(p - (k - 1)) = 10 * Pow10(p - k)
      BY <3>1, PowerBelow
    <3>3. PICK m \in Nat : m = Pow10(p - k) /\ m >= 1
      BY <1>3, <2>1, <2>2
    <3>4. fr \div m = 10 * (fr \div (10 * m)) + ((fr \div m) % 10)
      BY <3>3, DivideTwice
    <3>5. d[k] = (fr \div m) % 10
      <4>1. d[k] = (v \div Pow10(p - k)) % 10
        BY <2>2
      <4>2. (v \div Pow10(p - k)) % 10 = ((v % Pow10(p)) \div Pow10(p - k)) % 10
        <5>1. k \in 1 .. p
          BY <3>1
        <5>2. QED  BY <5>1, DecimalIs
      <4>3. QED  BY <1>1, <3>3, <4>1, <4>2, Zenon
    <3>6. g[k] = fr \div m /\ g[k - 1] = fr \div (10 * m)
      BY <2>1, <2>2, <3>1, <3>2, <3>3
    <3>7. QED  BY <3>4, <3>5, <3>6
  <2>3. CASE k > r
    <3>1. d[k] = 0 /\ g[k] = Pow10(k - r) * q
      BY <1>0, <2>1, <2>3
    <3>2. k - r \in Nat /\ k - r >= 1 /\ (k - r) - 1 \in Nat /\ (k - r) - 1 = (k - 1) - r
      BY <1>0, <2>1, <2>3
    <3>3. Pow10(k - r) = 10 * Pow10((k - r) - 1)
      BY <3>2, PowerBelow
    <3>4. PICK m \in Nat : m = Pow10((k - r) - 1)
      BY <3>2, PowerNext
    <3>5. g[k - 1] = m * q
      <4>1. CASE k - 1 <= r
        <5>1. k - 1 = r /\ (k - r) - 1 = 0
          BY <1>0, <2>1, <2>3, <4>1
        <5>2. m = 1
          BY <3>4, <5>1, PowerNext
        <5>3. g[k - 1] = q
          BY <1>2, <2>1, <5>1
        <5>4. QED  BY <5>2, <5>3
      <4>2. CASE ~(k - 1 <= r)
        BY <2>1, <3>2, <3>4, <4>2
      <4>3. QED  BY <4>1, <4>2
    <3>6. (10 * m) * q = 10 * (m * q) /\ m * q \in Nat
      OBVIOUS
    <3>7. QED  BY <3>1, <3>3, <3>4, <3>5, <3>6
  <2>4. QED  BY <1>0, <2>1, <2>2, <2>3
<1>9. g \in Recurrence(L, 0, 10, d)
  <2>1. g \in [0 .. L -> Int]
    <3>1. ASSUME NEW k \in 0 .. L
          PROVE  (IF k <= r THEN fr \div Pow10(p - k) ELSE Pow10(k - r) * q) \in Int
      <4>1. CASE k <= r
        <5>1. fr \div Pow10(p - k) \in Nat
          BY <1>3, <4>1
        <5>2. QED  BY <4>1, <5>1
      <4>2. CASE ~(k <= r)
        <5>1. k > r
          BY <1>0, <4>2
        <5>2. Pow10(k - r) * q \in Nat
          BY <1>4, <5>1
        <5>3. QED  BY <4>2, <5>2
      <4>3. QED  BY <4>1, <4>2
    <3>2. QED  BY <3>1
  <2> HIDE DEF g
  <2>2. QED  BY <1>7, <1>8, <2>1 DEF Recurrence
<1>10. g[L] = Pow10(L - r) * q
  <2>1. L \in 0 .. L
    OBVIOUS
  <2>2. CASE L <= r
    <3>1. L = r /\ L - r = 0
      BY <1>0, <2>2
    <3>2. g[L] = q /\ Pow10(L - r) = 1
      BY <1>2, <2>1, <3>1, PowerNext
    <3>3. QED  BY <3>2
  <2>3. CASE ~(L <= r)
    BY <2>1, <2>3
  <2>4. QED  BY <2>2, <2>3
<1> HIDE DEF g
<1>11. QED  BY <1>1, <1>2, <1>6, <1>9, <1>10, NumberIs DEF d

\* Scaling that fraction back loses nothing more.
LEMMA FractionScaled ==
    ASSUME NEW p \in Nat, NEW r \in 0 .. p, NEW L \in Nat, r <= L, NEW q \in Nat
    PROVE  ((Pow10(L - r) * q) * Pow10(p)) \div Pow10(L) = q * Pow10(p - r)
<1>0. r \in Nat /\ p - r \in Nat /\ L - r \in Nat /\ (p - r) + r = p /\ (L - r) + r = L
  OBVIOUS
<1>1. PICK a \in Nat, b \in Nat, c \in Nat :
          a = Pow10(L - r) /\ b = Pow10(p - r) /\ c = Pow10(r) /\ a >= 1 /\ c >= 1
  BY <1>0, PowerNext
<1>2. Pow10(p) = b * c /\ Pow10(L) = a * c
  BY <1>0, <1>1, PowerAdds
<1>3. (a * q) * (b * c) = (a * c) * (q * b) + 0
  OBVIOUS
<1>4. a * c \in Nat /\ a * c >= 1 /\ q * b \in Int /\ (a * q) * (b * c) \in Nat
  BY <1>1
<1>5. ((a * q) * (b * c)) \div (a * c) = q * b
  BY <1>3, <1>4, QuotientIs
<1>6. QED  BY <1>1, <1>2, <1>5
-----------------------------------------------------------------------------
(* Fields.                                                                 *)

\* A text in three parts, and where each part is.
LEMMA TextIs ==
    ASSUME NEW D \in Seq(0 .. 10), NEW x \in 0 .. 10, NEW F \in Seq(0 .. 10),
           NEW t, t = D \o <<x>> \o F
    PROVE  /\ t \in Seq(0 .. 10) /\ Len(t) = (Len(D) + 1) + Len(F)
           /\ \A i \in 1 .. Len(D) : t[i] = D[i]
           /\ t[Len(D) + 1] = x
           /\ \A i \in 1 .. Len(F) : t[(Len(D) + 1) + i] = F[i]
<1> DEFINE head == D \o <<x>>
<1>0. Len(D) \in Nat /\ Len(F) \in Nat
  BY LenProperties
<1>1. /\ head \in Seq(0 .. 10) /\ Len(head) = Len(D) + 1
      /\ \A i \in 1 .. Len(D) : head[i] = D[i]
      /\ head[Len(D) + 1] = x
  BY <1>0
<1> HIDE DEF head
<1>2. head \o F \in Seq(0 .. 10) /\ Len(head \o F) = Len(head) + Len(F)
      /\ \A i \in 1 .. Len(head) + Len(F) :
           (head \o F)[i] = IF i <= Len(head) THEN head[i] ELSE F[i - Len(head)]
  BY <1>1, ConcatProperties
<1>3. ASSUME NEW i \in 1 .. Len(D) PROVE (head \o F)[i] = D[i]
  BY <1>0, <1>1, <1>2
<1>4. (head \o F)[Len(D) + 1] = x
  BY <1>0, <1>1, <1>2
<1>5. ASSUME NEW i \in 1 .. Len(F) PROVE (head \o F)[(Len(D) + 1) + i] = F[i]
  <2>1. ((Len(D) + 1) + i) - (Len(D) + 1) = i /\ (Len(D) + 1) + i \in 1 .. (Len(D) + 1) + Len(F)
        /\ ~((Len(D) + 1) + i <= Len(D) + 1)
    BY <1>0
  <2>2. QED  BY <1>1, <1>2, <2>1
<1>6. QED  BY <1>1, <1>2, <1>3, <1>4, <1>5 DEF head

\* What a field holds after a number was written into it: its integer digits, the
\* point if there is room, and the decimals that find room, then zeros.
LEMMA FieldIs ==
    ASSUME NEW old, NEW v \in Nat, Writable(v), NEW len \in Nat, len = Len(Digits(v \div Scale)),
           Digits(v \div Scale) \in Seq(0 .. 9)
    PROVE  LET f == Written(old, v)
           IN  /\ f \in [1 .. Width -> 0 .. 10] /\ Len(f) = Width
               /\ \A i \in 1 .. Width :
                    /\ i <= len => f[i] = Digits(v \div Scale)[i]
                    /\ i = len + 1 => f[i] = Dot
                    /\ i > len + 1 => f[i] = IF (i - len) - 1 <= Decimals
                                             THEN (v \div Pow10(Places - ((i - len) - 1))) % 10 ELSE 0
<1> DEFINE n == v \div Scale
           D == Digits(n)
           F == [i \in 1 .. Decimals |-> (v \div Pow10(Places - i)) % 10]
           text == D \o <<Dot>> \o F
           cut == IF Len(text) < Width THEN Len(text) ELSE Width
           f == Written(old, v)
<1>0. Width \in Nat /\ Width >= 1 /\ Decimals \in Nat /\ Decimals >= 1 /\ Places \in Nat /\ Decimals <= Places
  BY BodyAssumption
<1>1. D \in Seq(0 .. 10) /\ Len(D) = len /\ <<Dot>> \in Seq(0 .. 10) /\ Len(<<Dot>>) = 1
      /\ <<Dot>>[1] = Dot
  BY DEF Dot
<1>2. F \in Seq(0 .. 10) /\ Len(F) = Decimals
  <2>1. ASSUME NEW i \in 1 .. Decimals PROVE (v \div Pow10(Places - i)) % 10 \in 0 .. 10
    <3>1. i \in 1 .. Places
      BY <1>0
    <3>2. (v \div Pow10(Places - i)) % 10 \in 0 .. 9
      BY <1>0, <3>1, DecimalIs
    <3>3. QED  BY <3>2
  <2>2. F \in [1 .. Decimals -> 0 .. 10]
    BY <2>1
  <2>3. QED  BY <1>0, <2>2
<1>3. fast_ftoa(v) = SubSeq(text, 1, cut)
  <2>1. ~(v < 0)
    OBVIOUS
  <2>2. QED  BY <2>1 DEF fast_ftoa
<1> HIDE DEF D, F
<1>4. /\ text \in Seq(0 .. 10) /\ Len(text) = (len + 1) + Decimals
      /\ \A i \in 1 .. len : text[i] = D[i]
      /\ text[len + 1] = Dot
      /\ \A i \in 1 .. Decimals : text[(len + 1) + i] = F[i]
  <2>1. Dot \in 0 .. 10
    BY DEF Dot
  <2>2. /\ text \in Seq(0 .. 10) /\ Len(text) = (Len(D) + 1) + Len(F)
        /\ \A i \in 1 .. Len(D) : text[i] = D[i]
        /\ text[Len(D) + 1] = Dot
        /\ \A i \in 1 .. Len(F) : text[(Len(D) + 1) + i] = F[i]
    <3>1. D \in Seq(0 .. 10) /\ F \in Seq(0 .. 10)
      BY <1>1, <1>2
    <3>2. text = D \o <<Dot>> \o F
      OBVIOUS
    <3> HIDE DEF text
    <3>3. QED  BY <2>1, <3>1, <3>2, TextIs
  <2> HIDE DEF text
  <2>3. QED  BY <1>1, <1>2, <2>2
<1> HIDE DEF text
<1>5. cut \in Nat /\ cut <= Width /\ cut <= Len(text)
  BY <1>0, <1>4
<1>6. Len(SubSeq(text, 1, cut)) = cut /\ \A i \in 1 .. cut : SubSeq(text, 1, cut)[i] = text[i]
  BY <1>4, <1>5
<1>7. f = [i \in 1 .. Width |-> IF i <= cut THEN text[i] ELSE 0]
  BY <1>3, <1>5, <1>6 DEF Written
<1>8. f \in [1 .. Width -> 0 .. 10]
  BY <1>4, <1>5, <1>7
<1>9. Len(f) = Width
  BY <1>0, <1>8
<1> HIDE DEF f
<1>10. ASSUME NEW i \in 1 .. Width
       PROVE  /\ i <= len => f[i] = D[i]
              /\ i = len + 1 => f[i] = Dot
              /\ i > len + 1 => f[i] = IF (i - len) - 1 <= Decimals
                                       THEN (v \div Pow10(Places - ((i - len) - 1))) % 10 ELSE 0
  <2>1. ASSUME i <= len PROVE f[i] = D[i]
    BY <1>0, <1>4, <1>5, <1>7, <2>1
  <2>2. ASSUME i = len + 1 PROVE f[i] = Dot
    BY <1>0, <1>4, <1>5, <1>7, <2>2
  <2>3. ASSUME i > len + 1
        PROVE  f[i] = IF (i - len) - 1 <= Decimals
                      THEN (v \div Pow10(Places - ((i - len) - 1))) % 10 ELSE 0
    <3>1. PICK j \in Nat : j = (i - len) - 1 /\ j >= 1 /\ i = (len + 1) + j
      <4>1. i \in Nat /\ len \in Nat /\ i > len + 1
        BY <1>0, <2>3
      <4>2. (i - len) - 1 \in Nat /\ (i - len) - 1 >= 1 /\ i = (len + 1) + ((i - len) - 1)
        BY <4>1
      <4>3. QED  BY <4>2
    <3>2. CASE j <= Decimals
      <4>1. f[i] = F[j]
        BY <1>0, <1>4, <1>5, <1>7, <3>1, <3>2
      <4>2. F[j] = (v \div Pow10(Places - j)) % 10
        BY <3>1, <3>2 DEF F
      <4>3. QED  BY <3>1, <3>2, <4>1, <4>2
    <3>3. CASE ~(j <= Decimals)
      <4>1. f[i] = 0
        BY <1>0, <1>4, <1>5, <1>7, <3>1, <3>3
      <4>2. QED  BY <3>1, <3>3, <4>1
    <3>4. QED  BY <3>2, <3>3
  <2>4. QED  BY <2>1, <2>2, <2>3
<1>11. QED  BY <1>8, <1>9, <1>10 DEF f, D

\* The parts of a field before and after the position of its point.
LEMMA PartsAre ==
    ASSUME NEW w \in Nat, NEW f \in [1 .. w -> 0 .. 10], NEW k \in Nat, k <= w
    PROVE  LET rest == IF k < w THEN (w - k) - 1 ELSE 0
           IN  /\ rest \in Nat
               /\ SubSeq(f, 1, k) = [i \in 1 .. k |-> f[i]]
               /\ SubSeq(f, k + 2, w) = [j \in 1 .. rest |-> f[(k + 1) + j]]
<1> DEFINE rest == IF k < w THEN (w - k) - 1 ELSE 0
           a == SubSeq(f, 1, k)
           b == SubSeq(f, k + 2, w)
<1>1. rest \in Nat /\ k + 2 \in Int /\ k \in Int /\ w \in Int /\ 1 \in Int
  OBVIOUS
<1>2. a \in Seq(0 .. 10) /\ Len(a) = k /\ \A i \in 1 .. k : a[i] = f[i]
  <2>1. \A i \in 1 .. k : f[i] \in 0 .. 10
    OBVIOUS
  <2>2. /\ a \in Seq(0 .. 10) /\ Len(a) = IF 1 <= k THEN k - 1 + 1 ELSE 0
        /\ \A i \in 1 .. k - 1 + 1 : a[i] = f[1 + i - 1]
    BY <1>1, <2>1, SubSeqProperties
  <2> HIDE DEF a
  <2>3. QED  BY <2>2
<1>3. b \in Seq(0 .. 10) /\ Len(b) = rest /\ \A j \in 1 .. rest : b[j] = f[(k + 1) + j]
  <2>1. \A i \in k + 2 .. w : f[i] \in 0 .. 10
    OBVIOUS
  <2>2. /\ b \in Seq(0 .. 10) /\ Len(b) = IF k + 2 <= w THEN w - (k + 2) + 1 ELSE 0
        /\ \A i \in 1 .. w - (k + 2) + 1 : b[i] = f[k + 2 + i - 1]
    BY <1>1, <2>1, SubSeqProperties
  <2> HIDE DEF b
  <2>3. QED  BY <2>2
<1> HIDE DEF a, b, rest
<1>4. a = [i \in 1 .. k |-> f[i]]
  BY <1>2
<1>5. b = [j \in 1 .. rest |-> f[(k + 1) + j]]
  BY <1>1, <1>3
<1>6. QED  BY <1>1, <1>4, <1>5 DEF a, b, rest

\* A field tells the number that was written into it, but for the decimals that
\* found no room, whatever it held before.
LEMMA FieldReads ==
    ASSUME NEW old, NEW v \in Nat, Writable(v)
    PROVE  ReadsBack(Written(old, v), v)
<1> DEFINE n == v \div Scale
           D == Digits(n)
           f == Written(old, v)
<1>0. Width \in Nat /\ Width >= 1 /\ TmpLen \in Nat /\ Decimals \in Nat /\ Decimals >= 1
      /\ Places \in Nat /\ Decimals <= Places
  BY BodyAssumption
<1>1. PICK s \in Nat : s = Scale /\ s = Pow10(Places) /\ s >= 1
  BY <1>0, PowerNext DEF Scale
<1>2. n \in Nat /\ n < Pow10(TmpLen) /\ n < Pow10(Width)
  <2>1. v \div s \in Nat
    BY <1>1
  <2>2. QED  BY <1>1, <2>1 DEF Writable
<1>3. v % Scale \in Nat /\ v = Scale * n + (v % Scale)
  <2>1. v % s \in Nat /\ v = s * (v \div s) + (v % s)
    BY <1>1, DivideWithRest
  <2>2. QED  BY <1>1, <2>1
<1> HIDE DEF n
<1>4. PICK len \in 1 .. TmpLen :
        /\ D = DigitsOf(n, len)
        /\ n < Pow10(len) /\ (len = 1 \/ n >= Pow10(len - 1))
  BY <1>2, DigitsAre
<1>5. len \in Nat /\ len >= 1 /\ Len(D) = len /\ D \in Seq(0 .. 9) /\ Number(D) = n
  <2>1. len \in Nat /\ len >= 1
    BY <1>0
  <2> HIDE DEF D
  <2>2. QED  BY <1>2, <1>4, <2>1, DigitsRead
<1>6. len <= Width
  <2>1. SUFFICES ASSUME ~(len <= Width) PROVE FALSE
    OBVIOUS
  <2>2. len - 1 \in Nat /\ Width <= len - 1 /\ len # 1
    BY <1>0, <1>5, <2>1
  <2>3. Pow10(Width) <= Pow10(len - 1) /\ Pow10(len - 1) <= n
    BY <1>0, <1>4, <2>2, PowerGrows
  <2>4. PICK x \in Nat, y \in Nat : x = Pow10(Width) /\ y = Pow10(len - 1)
    BY <1>0, <2>2, PowerNext
  <2>5. QED  BY <1>2, <2>3, <2>4
<1>7. /\ f \in [1 .. Width -> 0 .. 10] /\ Len(f) = Width
      /\ \A i \in 1 .. Width :
           /\ i <= len => f[i] = D[i]
           /\ i = len + 1 => f[i] = Dot
           /\ i > len + 1 => f[i] = IF (i - len) - 1 <= Decimals
                                    THEN (v \div Pow10(Places - ((i - len) - 1))) % 10 ELSE 0
  BY <1>5, FieldIs DEF n
<1> HIDE DEF D, f
<1> DEFINE L == IF len < Width THEN (Width - len) - 1 ELSE 0
           r == IF L < Decimals THEN L ELSE Decimals
           head == SubSeq(f, 1, len)
           frac == SubSeq(f, len + 2, Width)
<1>8. L \in Nat /\ r \in Nat /\ r <= L /\ r <= Decimals /\ r \in 0 .. Places
  BY <1>0, <1>5, <1>6
<1>9. /\ Len(Digits(v \div Scale)) = len
      /\ len <= Width - Decimals - 1 => r = Decimals
      /\ ~(len <= Width - Decimals - 1) => r = IF len < Width THEN Width - len - 1 ELSE 0
  <2>1. Len(Digits(v \div Scale)) = len
    BY <1>5 DEF D, n
  <2>2. QED  BY <1>0, <1>5, <1>6, <2>1
<1>10. head = D
  <2>1. head = [i \in 1 .. len |-> f[i]]
    BY <1>0, <1>5, <1>6, <1>7, PartsAre
  <2>2. D = [i \in 1 .. len |-> D[i]]
    BY <1>5
  <2>3. \A i \in 1 .. len : f[i] = D[i]
    BY <1>0, <1>5, <1>6, <1>7
  <2>4. QED  BY <2>1, <2>2, <2>3
<1>11. frac = DecimalsOf(v, Places, r, L)
  <2>1. frac = [j \in 1 .. L |-> f[(len + 1) + j]]
    BY <1>0, <1>5, <1>6, <1>7, PartsAre
  <2>2. ASSUME NEW j \in 1 .. L
        PROVE  f[(len + 1) + j] = IF j <= r THEN (v \div Pow10(Places - j)) % 10 ELSE 0
    <3>1. len < Width /\ j \in Nat /\ j >= 1 /\ (len + 1) + j \in 1 .. Width
          /\ (len + 1) + j > len + 1 /\ (((len + 1) + j) - len) - 1 = j
      BY <1>0, <1>5, <1>6
    <3>2. f[(len + 1) + j] = IF j <= Decimals THEN (v \div Pow10(Places - j)) % 10 ELSE 0
      BY <1>7, <3>1
    <3>3. j <= r <=> j <= Decimals
      BY <1>0, <1>8, <3>1
    <3>4. QED  BY <3>2, <3>3
  <2> HIDE DEF frac, L, r
  <2>3. QED  BY <2>1, <2>2 DEF DecimalsOf
<1>12. IntLen(f) = len
  <2>0. DOMAIN f = 1 .. Width
    BY <1>7
  <2>1. ASSUME NEW i \in 1 .. Width PROVE f[i] = Dot <=> i = len + 1
    <3>1. CASE i <= len
      <4>1. D[i] \in 0 .. 9 /\ f[i] = D[i] /\ i # len + 1
        BY <1>5, <1>7, <3>1
      <4>2. QED  BY <4>1 DEF Dot
    <3>2. CASE i = len + 1
      BY <1>7, <3>2
    <3>3. CASE i > len + 1
      <4>1. PICK j \in Nat : j = (i - len) - 1 /\ j \in 1 .. L /\ i = (len + 1) + j
        <5>1. (i - len) - 1 \in Nat /\ (i - len) - 1 \in 1 .. L /\ i = (len + 1) + ((i - len) - 1)
          BY <1>0, <1>5, <3>3
        <5>2. QED  BY <5>1
      <4>2. f[i] = IF j <= Decimals THEN (v \div Pow10(Places - j)) % 10 ELSE 0
        BY <1>7, <3>3, <4>1
      <4>3. f[i] \in 0 .. 9
        <5>1. CASE j <= Decimals
          <6>1. j \in 1 .. Places
            BY <1>0, <4>1, <5>1
          <6>2. (v \div Pow10(Places - j)) % 10 \in 0 .. 9
            BY <1>0, <6>1, DecimalIs
          <6>3. QED  BY <4>2, <5>1, <6>2
        <5>2. CASE ~(j <= Decimals)
          BY <4>2, <5>2
        <5>3. QED  BY <5>1, <5>2
      <4>4. i # len + 1
        BY <1>5, <3>3
      <4>5. QED  BY <4>3, <4>4 DEF Dot
    <3>4. QED  BY <1>5, <3>1, <3>2, <3>3
  <2>2. CASE len < Width
    <3>1. len + 1 \in 1 .. Width
      BY <1>0, <1>5, <2>2
    <3>2. \E i \in DOMAIN f : f[i] = Dot
      BY <2>0, <2>1, <3>1
    <3>3. (CHOOSE i \in DOMAIN f : f[i] = Dot) = len + 1
      BY <2>0, <2>1, <3>1
    <3>4. (len + 1) - 1 = len
      BY <1>5
    <3>5. QED  BY <3>2, <3>3, <3>4 DEF IntLen
  <2>3. CASE ~(len < Width)
    <3>1. len = Width
      BY <1>0, <1>5, <1>6, <2>3
    <3>2. ~ \E i \in DOMAIN f : f[i] = Dot
      BY <1>0, <2>0, <2>1, <3>1
    <3>3. QED  BY <1>7, <3>1, <3>2 DEF IntLen
  <2>4. QED  BY <2>2, <2>3
<1> HIDE DEF L, r, head, frac
<1>13. PICK q \in Nat, b \in Nat, t \in Nat :
         /\ b = Pow10(Places - r) /\ b >= 1 /\ q = (v % Scale) \div b /\ t = (v % Scale) % b
         /\ t < b /\ v % Scale = b * q + t
  <2>1. Places - r \in Nat
    BY <1>0, <1>8
  <2>2. PICK b \in Nat : b = Pow10(Places - r) /\ b >= 1
    BY <2>1, PowerNext
  <2>3. /\ (v % Scale) \div b \in Nat /\ (v % Scale) % b \in Nat /\ (v % Scale) % b < b
        /\ v % Scale = b * ((v % Scale) \div b) + ((v % Scale) % b)
    BY <1>3, <2>2, DivideWithRest
  <2>4. QED  BY <2>2, <2>3
<1>14. Len(frac) = L /\ Number(frac) = Pow10(L - r) * q
  <2>1. Len(frac) = L /\ Number(frac) = Pow10(L - r) * ((v % Pow10(Places)) \div Pow10(Places - r))
    BY <1>0, <1>8, <1>11, FractionRead
  <2>2. QED  BY <1>1, <1>13, <2>1
<1>15. (Number(frac) * Scale) \div Pow10(Len(frac)) = q * b
  <2>1. ((Pow10(L - r) * q) * Pow10(Places)) \div Pow10(L) = q * Pow10(Places - r)
    BY <1>0, <1>8, FractionScaled
  <2>2. QED  BY <1>1, <1>13, <1>14, <2>1
<1>16. Value(f) = n * Scale + q * b
  <2>1. SubSeq(f, 1, IntLen(f)) = D /\ SubSeq(f, IntLen(f) + 2, Len(f)) = frac
    BY <1>7, <1>10, <1>12 DEF head, frac
  <2>2. QED  BY <1>5, <1>15, <2>1 DEF Value
<1>17. v - Value(f) = t
  <2>1. n * s = s * n /\ q * b = b * q /\ n * s \in Nat /\ q * b \in Nat
    BY <1>1, <1>2, <1>13
  <2>2. v = n * s + (q * b + t)
    BY <1>1, <1>3, <1>13, <2>1
  <2>3. Value(f) = n * s + q * b
    BY <1>1, <1>16
  <2>4. PICK x \in Nat, y \in Nat : x = n * s /\ y = q * b
    BY <2>1
  <2>5. QED  BY <2>2, <2>3, <2>4
<1>18. t = v % Pow10(Places - r)
  <2>1. PICK c \in Nat : c = Pow10(r) /\ s = b * c
    <3>1. Places - r \in Nat /\ (Places - r) + r = Places
      BY <1>0, <1>8
    <3>2. Pow10((Places - r) + r) = Pow10(Places - r) * Pow10(r) /\ Pow10(r) \in Nat
      BY <1>8, <3>1, PowerAdds, PowerNext
    <3>3. QED  BY <1>1, <1>13, <3>1, <3>2
  <2>2. v = (b * c) * n + (b * q + t)
    BY <1>1, <1>3, <1>13, <2>1
  <2>3. (b * c) * n + (b * q + t) = b * (c * n + q) + t
    BY <1>2, <1>13, <2>1
  <2>4. c * n + q \in Nat
    <3>1. n \in Nat /\ c \in Nat /\ q \in Nat
      BY <1>2, <1>13, <2>1
    <3>2. c * n \in Nat
      BY <3>1
    <3>3. QED  BY <3>1, <3>2
  <2>5. PICK m \in Int : m = c * n + q /\ v = b * m + t
    BY <2>2, <2>3, <2>4
  <2>6. b \in Nat /\ t \in Int /\ 0 <= t /\ t < b /\ b >= 1
    BY <1>13
  <2>7. v % b = t
    BY <2>5, <2>6, QuotientIs, Zenon
  <2>8. QED  BY <1>13, <2>7
<1>19. ReadsBack(f, v)
  BY <1>9, <1>17, <1>18 DEF ReadsBack
<1>20. QED  BY <1>19 DEF f
-----------------------------------------------------------------------------
(* Lemmas about the constants, indices and templates.                      *)

LEMMA Constants ==
    /\ PAIRS_PER_VENUE \in Nat \ {0} /\ RecordSize \in Nat \ {0}
    /\ Mod16 \in Nat /\ PAIRS_PER_VENUE < Mod16
    /\ FileSizes \subseteq Nat /\ \A c \in Configs : c \in Seq(Nat)
    /\ NoFd # Fd
BY MarketAssumption, FileAssumption, ReplayAssumption
   DEF MarketAssumption, FileAssumption, ReplayAssumption, NoFd, Fd

\* A file of whole records holds exactly as many as fit.
LEMMA WholeRecords ==
    ASSUME NEW s \in Nat, NEW r \in Nat \ {0}
    PROVE  /\ s \div r \in Nat /\ (s % r = 0 => (s \div r) * r = s)
           /\ s % r \in Nat /\ s % r < r /\ (s < r => s % r = s)
OBVIOUS

LEMMA IndexOf ==
    ASSUME NEW v \in {1, 2}, NEW p \in Pairs
    PROVE  /\ map_to_index(v, p) = (v - 1) * PAIRS_PER_VENUE + p
           /\ map_to_index(v, p) \in Indices
           /\ map_to_index(v, p) % PAIRS_PER_VENUE = p
           /\ map_to_index(v, p) \div PAIRS_PER_VENUE + 1 = v
           /\ p \in Nat /\ p < PAIRS_PER_VENUE
<1>1. PICK n \in Nat \ {0} : n = PAIRS_PER_VENUE
  BY Constants
<1>2. p \in Nat /\ p < n
  BY <1>1 DEF Pairs
<1>3. map_to_index(v, p) = (v - 1) * n + p
  BY <1>1, <1>2 DEF map_to_index
<1>4. CASE v = 1
  <2>1. map_to_index(v, p) = p
    BY <1>2, <1>3, <1>4
  <2>2. p % n = p /\ p \div n = 0
    BY <1>2
  <2>3. QED  BY <1>1, <1>2, <1>3, <1>4, <2>1, <2>2 DEF Indices
<1>5. CASE v = 2
  <2>1. map_to_index(v, p) = n + p
    BY <1>2, <1>3, <1>5
  <2>2. (n + p) % n = p /\ (n + p) \div n = 1
    BY <1>2
  <2>3. n + p \in 0 .. 2 * n - 1
    BY <1>2
  <2>4. QED  BY <1>1, <1>2, <1>3, <1>5, <2>1, <2>2, <2>3 DEF Indices
<1>6. QED  BY <1>4, <1>5

\* Two venues and pairs have one index only if they are the same.
LEMMA IndexIsUnique ==
    ASSUME NEW v \in {1, 2}, NEW w \in {1, 2}, NEW p \in Pairs, NEW q \in Pairs,
           map_to_index(v, p) = map_to_index(w, q)
    PROVE  v = w /\ p = q
BY IndexOf

LEMMA FirstIndex ==
    ASSUME NEW q \in Nat
    PROVE  map_to_index(1, q) = IF q < PAIRS_PER_VENUE THEN q ELSE 0
BY Constants DEF map_to_index

LEMMA OwnersAre ==
    ASSUME RunType, NEW p \in Pairs
    PROVE  /\ Owners(p) \subseteq DOMAIN symbols /\ DOMAIN symbols = 1 .. Len(symbols)
           /\ Len(symbols) \in Nat
           /\ \A k \in DOMAIN symbols : symbols[k] = p => k \in Owners(p)
           /\ Owners(p) # {} => LastOf(Owners(p)) \in Owners(p)
           /\ \A k \in Owners(p) :
                symbols[k] = p \/ (symbols[k] >= PAIRS_PER_VENUE /\ p = 0)
<1>1. DOMAIN symbols = 1 .. Len(symbols) /\ Len(symbols) \in Nat
      /\ \A k \in DOMAIN symbols : symbols[k] \in Nat
  BY DEF RunType
<1>2. p \in Nat /\ p < PAIRS_PER_VENUE /\ PAIRS_PER_VENUE \in Nat
  BY IndexOf, Constants DEF Pairs
<1>3. Owners(p) \subseteq DOMAIN symbols
  BY DEF Owners
<1>4. ASSUME NEW k \in DOMAIN symbols
      PROVE  /\ symbols[k] = p => k \in Owners(p)
             /\ k \in Owners(p) => symbols[k] = p \/ (symbols[k] >= PAIRS_PER_VENUE /\ p = 0)
  <2>1. map_to_index(1, symbols[k]) = IF symbols[k] < PAIRS_PER_VENUE THEN symbols[k] ELSE 0
    BY <1>1, FirstIndex
  <2>2. k \in Owners(p) <=> map_to_index(1, symbols[k]) = p
    BY DEF Owners
  <2>3. QED  BY <1>1, <1>2, <2>1, <2>2
<1>5. Owners(p) # {} => LastOf(Owners(p)) \in Owners(p)
  <2>1. ASSUME Owners(p) # {}
        PROVE  \E k \in Owners(p) : \A l \in Owners(p) : l <= k
    <3>1. Owners(p) \subseteq 0 .. Len(symbols)
      BY <1>1, <1>3
    <3>2. QED  BY <1>1, <2>1, <3>1, Largest
  <2>2. QED  BY <2>1, Zenon DEF LastOf
<1>6. QED  BY <1>1, <1>3, <1>4, <1>5

LEMMA FreshTemplate ==
    ASSUME NEW pair, NEW v, NEW k, NEW side
    PROVE  /\ DOMAIN init_template(pair, v, k, side) = DOMAIN Garbage
           /\ Names(init_template(pair, v, k, side), k, v, side)
BY DEF init_template, Garbage, Names

LEMMA Patched ==
    ASSUME NEW t, DOMAIN t = DOMAIN Garbage, NEW price, NEW qty
    PROVE  /\ DOMAIN patch_order(t, price, qty) = DOMAIN Garbage
           /\ \A k, v, side : Names(t, k, v, side) => Names(patch_order(t, price, qty), k, v, side)
<1>1. {"symbol", "venue", "side", "price", "qty"} \subseteq DOMAIN t
  BY DEF Garbage, init_template
<1>2. QED  BY <1>1 DEF patch_order, Names

\* What a patched body says, whatever the template held before.
LEMMA PatchedReads ==
    ASSUME NEW t, DOMAIN t = DOMAIN Garbage, NEW price \in Nat, NEW qty \in Nat,
           Writable(price), Writable(qty)
    PROVE  /\ ReadsBack(patch_order(t, price, qty).price, price)
           /\ ReadsBack(patch_order(t, price, qty).qty, qty)
<1>1. {"price", "qty"} \subseteq DOMAIN t
  BY DEF Garbage, init_template
<1>2. /\ patch_order(t, price, qty).price = Written(t.price, price)
      /\ patch_order(t, price, qty).qty = Written(t.qty, qty)
  BY <1>1 DEF patch_order
<1>3. QED  BY <1>2, FieldReads
-----------------------------------------------------------------------------
(* The parts of the invariant the actions of main leave alone.             *)

\* A step that touches neither symbols nor templates nor the order.
LEMMA TemplatesKept ==
    ASSUME TemplateInv, OrderInv, UNCHANGED <<symbols, templates, coin, order>>,
           pc' = "loop" => pc = "loop",
           pc' \in {"config", "open", "setup"} => pc \in {"config", "open", "setup"}
    PROVE  TemplateInv' /\ OrderInv'
<1>1. symbols' = symbols /\ buy_templates' = buy_templates /\ sell_templates' = sell_templates
      /\ coin' = coin /\ order' = order
  BY DEF templates
<1>2. Seeded' = Seeded /\ \A p : Owners(p)' = Owners(p) /\ pair_name(p)' = pair_name(p)
  BY <1>1 DEF Seeded, Owners, pair_name
<1>3. OrderInv'
  <2>1. OrderNamesItsPair'
    BY <1>1, <1>2 DEF OrderInv, OrderNamesItsPair
  <2>2. BodyReadsBack'
    BY <1>1 DEF OrderInv, BodyReadsBack
  <2>3. QED  BY <2>1, <2>2 DEF OrderInv
<1>4. TemplateInv'
  BY <1>1, <1>2 DEF TemplateInv, Owners
<1>5. QED  BY <1>3, <1>4

\* Without an order there is none to get wrong.
LEMMA NoOrder ==
    ASSUME order' = {}
    PROVE  OrderInv'
<1>1. \A o \in order' : FALSE
  OBVIOUS
<1>2. QED  BY <1>1, Zenon DEF OrderInv, OrderNamesItsPair, BodyReadsBack

LEMMA Closed ==
    ASSUME RunType, FileInv, close
    PROVE  /\ descriptors' = {} /\ mapping' = 0 /\ mapped_' \in BOOLEAN /\ ~mapped_' /\ fd_' = NoFd
           /\ fpc' = fpc /\ size' = size /\ file_size_' \in {0, size}
<1>1. /\ descriptors' = descriptors \ {fd_} /\ fd_' = NoFd /\ fpc' = fpc /\ size' = size
  BY DEF close
<1>2. descriptors' = {}
  BY <1>1, Constants DEF FileInv, RunType
<1>3. file_size_ \in Nat /\ size \in Nat
  BY DEF RunType
<1>4. CASE mapped_
  <2>1. mapping' = mapping - file_size_ /\ mapped_' = FALSE /\ file_size_' = 0
    BY <1>4 DEF close
  <2>2. mapping = file_size_ /\ file_size_ - file_size_ = 0
    BY <1>3, <1>4 DEF FileInv
  <2>3. mapping' = 0 /\ file_size_' = 0
    BY <2>1, <2>2
  <2>4. file_size_' \in {0, size}
    BY <2>3
  <2>5. mapped_' \in BOOLEAN /\ ~mapped_'
    BY <2>1
  <2>6. QED  BY <1>1, <1>2, <2>3, <2>4, <2>5
<1>5. CASE ~mapped_
  <2>1. UNCHANGED <<mapping, mapped_, file_size_>>
    BY <1>5 DEF close
  <2>2. mapping = 0 /\ file_size_ \in {0, size} /\ mapped_ \in BOOLEAN
    BY <1>5 DEF FileInv, RunType
  <2>3. QED  BY <1>1, <1>2, <1>5, <2>1, <2>2
<1>6. QED  BY <1>4, <1>5

\* main returns: the source was closed and the buffer is gone.
LEMMA Returned ==
    ASSUME RunType, FileInv, SymbolInv, TemplateInv, OrderInv, close,
           pc' = "exit", fpc \in {"opened", "failed"}, exit_code' \in {"success", "failure"},
           trade_buf' \in BOOLEAN, ~trade_buf',
           UNCHANGED <<config, coin, templates, next, order>>,
           \/ exit_code' = "failure" /\ next = 0
           \/ exit_code' = "success" /\ next = size \div RecordSize /\ fpc = "opened"
    PROVE  Inv'
<1>1. /\ descriptors' = {} /\ mapping' = 0 /\ mapped_' \in BOOLEAN /\ ~mapped_' /\ fd_' = NoFd
      /\ fpc' = fpc /\ size' = size /\ file_size_' \in {0, size}
      /\ UNCHANGED <<json, symbols, next, coin>>
  BY Closed DEF config
<1>2. RunType'
  BY <1>1 DEF RunType
<1>3. FileInv'
  <2>1. /\ descriptors' = {} /\ mapping' = 0 /\ ~mapped_' /\ fd_' = NoFd /\ NoFd # Fd
        /\ pc' = "exit" /\ ~trade_buf' /\ fpc' = fpc /\ size' = size
    BY <1>1, Constants
  <2>2. QED  BY <2>1 DEF FileInv
<1>4. ExitInv'
  BY <1>1 DEF ExitInv
<1>5. SymbolInv'
  BY <1>1 DEF SymbolInv
<1>6. TemplateInv' /\ OrderInv'
  BY <1>1, TemplatesKept
<1>7. QED  BY <1>2, <1>3, <1>4, <1>5, <1>6 DEF Inv
-----------------------------------------------------------------------------
(* One lemma per action.                                                   *)

LEMMA LoadStep ==
    ASSUME Inv, LoadConfig
    PROVE  Inv'
<1>1. RunType /\ FileInv /\ ExitInv /\ SymbolInv /\ TemplateInv /\ OrderInv
  BY DEF Inv
<1>2. /\ pc = "config"
      /\ UNCHANGED <<fpc, fd_, mapped_, file_size_, size, descriptors, mapping, json,
                     trade_buf, coin, buy_templates, sell_templates, next, order>>
  BY DEF LoadConfig, file, setup, templates
<1>3. CASE /\ Fits(Len(json) % Mod16) /\ symbols' = Loaded(json)
           /\ pc' = "open" /\ exit_code' = exit_code
  <2> DEFINE n == Len(json) % Mod16
  <2>1. /\ json \in Seq(Nat) /\ Len(json) \in Nat /\ Mod16 \in Nat \ {0}
        /\ \A i \in 1 .. Len(json) : json[i] \in Nat
    BY <1>1, Constants, MarketAssumption DEF RunType, MarketAssumption
  <2>2. n \in Nat /\ n <= PAIRS_PER_VENUE /\ n <= Len(json)
        /\ (Len(json) < Mod16 => n = Len(json))
    <3>1. n \in Nat /\ (Len(json) < Mod16 => n = Len(json)) /\ n < Mod16
      BY <2>1, WholeRecords
    <3>2. n <= PAIRS_PER_VENUE
      BY <1>3 DEF Fits
    <3>3. n <= Len(json)
      BY <2>1, <3>1
    <3>4. QED  BY <3>1, <3>2, <3>3
  <2>3. symbols' = [i \in 1 .. n |-> json[i] % Mod16]
    BY <1>3 DEF Loaded
  <2> HIDE DEF n
  <2>4. \A i \in 1 .. n : json[i] % Mod16 \in Nat
    <3>1. SUFFICES ASSUME NEW i \in 1 .. n PROVE json[i] % Mod16 \in Nat
      OBVIOUS
    <3>2. json[i] \in Nat
      BY <2>1, <2>2
    <3>3. QED  BY <2>1, <3>2, WholeRecords
  <2>5. symbols' \in Seq(Nat) /\ Len(symbols') = n
    BY <2>2, <2>3, <2>4
  <2>6. RunType'
    BY <1>1, <1>2, <1>3, <2>5 DEF RunType
  <2>7. FileInv'
    BY <1>1, <1>2, <1>3 DEF FileInv
  <2>8. ExitInv' /\ SymbolInv'
    BY <1>1, <1>2, <1>3, <2>2, <2>5 DEF ExitInv, SymbolInv
  <2>9. TemplateInv' /\ OrderInv'
    <3>1. order' = {}
      BY <1>1, <1>2 DEF TemplateInv
    <3>2. TemplateInv'
      BY <1>1, <1>2, <1>3, <3>1 DEF TemplateInv
    <3>3. QED  BY <3>1, <3>2, NoOrder
  <2>10. QED  BY <2>6, <2>7, <2>8, <2>9 DEF Inv
<1>4. CASE Fail /\ symbols' = symbols
  <2>1. pc' = "exit" /\ exit_code' = "failure"
    BY <1>4 DEF Fail
  <2>2. fd_ = NoFd /\ ~mapped_ /\ ~trade_buf /\ next = 0
    BY <1>1, <1>2 DEF FileInv, ExitInv
  <2>3. RunType' /\ SymbolInv'
    BY <1>1, <1>2, <1>4, <2>1 DEF RunType, SymbolInv
  <2>4. FileInv' /\ ExitInv'
    BY <1>1, <1>2, <2>1, <2>2, Constants DEF FileInv, ExitInv
  <2>5. TemplateInv' /\ OrderInv'
    BY <1>1, <1>2, <1>4, <2>1, TemplatesKept DEF templates
  <2>6. QED  BY <2>3, <2>4, <2>5 DEF Inv
<1>5. QED  BY <1>3, <1>4 DEF LoadConfig

\* A step of FileSource::open().
LEMMA OpenStepKept ==
    ASSUME Inv, OpenStep
    PROVE  Inv'
<1>1. RunType /\ FileInv /\ ExitInv /\ SymbolInv /\ TemplateInv /\ OrderInv
  BY DEF Inv
<1>2. /\ pc = "open" /\ Open
      /\ UNCHANGED <<pc, exit_code, json, symbols, trade_buf, coin, templates, next, order>>
  BY DEF OpenStep, config, setup
<1>3. /\ fd_' \in {NoFd, Fd} /\ mapped_' \in BOOLEAN /\ size' = size
      /\ file_size_' \in {file_size_, size}
      /\ fpc' \in {"new", "stat", "size", "map", "opened", "failed"}
  BY <1>1, <1>2 DEF Open, OpenFile, Stat, CheckSize, Map, GiveUp, RunType
<1>4. RunType'
  BY <1>1, <1>2, <1>3 DEF RunType
<1>5. FileInv'
  <2>1. CASE OpenFile
    BY <1>1, <1>2, <2>1, Constants DEF OpenFile, FileInv, RunType
  <2>2. CASE Stat
    BY <1>1, <1>2, <2>2, Constants DEF Stat, GiveUp, FileInv, RunType
  <2>3. CASE CheckSize
    BY <1>1, <1>2, <2>3, Constants DEF CheckSize, GiveUp, FileInv, RunType
  <2>4. CASE Map
    BY <1>1, <1>2, <2>4, Constants DEF Map, GiveUp, FileInv, RunType
  <2>5. QED  BY <1>2, <2>1, <2>2, <2>3, <2>4 DEF Open
<1>6. ExitInv' /\ SymbolInv'
  BY <1>1, <1>2 DEF ExitInv, SymbolInv
<1>7. TemplateInv' /\ OrderInv'
  BY <1>1, <1>2, TemplatesKept
<1>8. QED  BY <1>4, <1>5, <1>6, <1>7 DEF Inv

LEMMA FailedStep ==
    ASSUME Inv, OpenFailed
    PROVE  Inv'
<1>1. RunType /\ FileInv /\ ExitInv /\ SymbolInv /\ TemplateInv /\ OrderInv
  BY DEF Inv
<1>2. /\ pc' = "exit" /\ exit_code' = "failure" /\ close /\ next = 0
      /\ trade_buf' = trade_buf
      /\ UNCHANGED <<config, coin, templates, next, order>>
      /\ pc = "open" /\ fpc = "failed"
  BY <1>1 DEF OpenFailed, Fail, setup, ExitInv
<1>3. trade_buf' \in BOOLEAN /\ ~trade_buf'
  BY <1>1, <1>2 DEF RunType, FileInv
<1>4. QED  BY <1>1, <1>2, <1>3, Returned

LEMMA AllocateStep ==
    ASSUME Inv, Allocate
    PROVE  Inv'
<1>1. RunType /\ FileInv /\ ExitInv /\ SymbolInv /\ TemplateInv /\ OrderInv
  BY DEF Inv
<1>2. /\ pc = "open" /\ fpc = "opened" /\ ~trade_buf /\ trade_buf \in BOOLEAN /\ next = 0
      /\ UNCHANGED <<config, coin, templates, next, order>>
  BY <1>1 DEF Allocate, RunType, FileInv, ExitInv
<1>3. CASE trade_buf' = TRUE /\ pc' = "setup" /\ UNCHANGED <<exit_code, file>>
  <2>1. UNCHANGED <<exit_code, fpc, fd_, mapped_, file_size_, size, descriptors, mapping,
                    json, symbols>>
    BY <1>2, <1>3 DEF file, config
  <2>2. RunType' /\ FileInv'
    BY <1>1, <1>2, <1>3, <2>1 DEF RunType, FileInv
  <2>3. ExitInv' /\ SymbolInv'
    BY <1>1, <1>2, <1>3, <2>1 DEF ExitInv, SymbolInv
  <2>4. TemplateInv' /\ OrderInv'
    BY <1>1, <1>2, <1>3, <2>1, TemplatesKept
  <2>5. QED  BY <2>2, <2>3, <2>4 DEF Inv
<1>4. CASE Fail /\ close /\ UNCHANGED trade_buf
  BY <1>1, <1>2, <1>4, Returned DEF Fail
<1>5. QED  BY <1>3, <1>4 DEF Allocate

LEMMA SetUpStep ==
    ASSUME Inv, SetUp
    PROVE  Inv'
<1>1. RunType /\ FileInv /\ ExitInv /\ SymbolInv /\ TemplateInv /\ OrderInv
  BY DEF Inv
<1>2. /\ pc = "setup" /\ pc' = "loop" /\ coin' = Seeded /\ order = {}
      /\ buy_templates' = [i \in Indices |-> Template(buy_templates[i], i, "BUY")]
      /\ sell_templates' = [i \in Indices |-> Template(sell_templates[i], i, "SELL")]
      /\ UNCHANGED <<fpc, fd_, mapped_, file_size_, size, descriptors, mapping, exit_code,
                     json, symbols, trade_buf, next, order>>
  BY <1>1 DEF SetUp, file, config, TemplateInv
<1>3. RunType' /\ FileInv'
  BY <1>1, <1>2 DEF RunType, FileInv, Seeded
<1>4. ExitInv' /\ SymbolInv'
  BY <1>1, <1>2 DEF ExitInv, SymbolInv
<1>5. ASSUME NEW i \in Indices
      PROVE  DOMAIN buy_templates'[i] = DOMAIN Garbage /\ DOMAIN sell_templates'[i] = DOMAIN Garbage
  BY <1>1, <1>2, FreshTemplate DEF Template, TemplateInv
<1>6. ASSUME NEW v \in {1, 2}, NEW p \in Pairs, Owners(p) # {}
      PROVE  /\ Names(buy_templates'[map_to_index(v, p)], LastOf(Owners(p)), v, "BUY")
             /\ Names(sell_templates'[map_to_index(v, p)], LastOf(Owners(p)), v, "SELL")
  <2> DEFINE i == map_to_index(v, p)
  <2>1. i \in Indices /\ i % PAIRS_PER_VENUE = p /\ i \div PAIRS_PER_VENUE + 1 = v
    BY IndexOf
  <2>2. \A old, side : Names(Template(old, i, side), LastOf(Owners(p)), v, side)
    BY <1>6, <2>1, FreshTemplate DEF Template
  <2>3. QED  BY <1>2, <2>1, <2>2
<1>7. Seeded' = Seeded /\ \A p : Owners(p)' = Owners(p)
  BY <1>2 DEF Seeded, Owners
<1>8. TemplateInv'
  <2>1. DOMAIN buy_templates' = Indices /\ DOMAIN sell_templates' = Indices
    BY <1>2
  <2>2. QED  BY <1>2, <1>5, <1>6, <1>7, <2>1 DEF TemplateInv
<1>9. QED  BY <1>2, <1>3, <1>4, <1>8, NoOrder DEF Inv

\* The position of the next tick stays within the file.
LEMMA OneMoreTick ==
    ASSUME RunType, FileInv, pc = "loop", next < count, next' = next + 1
    PROVE  next' \in Nat /\ next' <= size \div RecordSize
<1>1. mapped_ /\ file_size_ = size
  BY DEF FileInv
<1>2. size \div RecordSize \in Nat /\ count = size \div RecordSize
  BY <1>1, Constants, WholeRecords DEF count, RunType
<1>3. QED  BY <1>2 DEF RunType

LEMMA QuietStep ==
    ASSUME Inv, QuietTick
    PROVE  Inv'
<1>1. RunType /\ FileInv /\ ExitInv /\ SymbolInv /\ TemplateInv /\ OrderInv
  BY DEF Inv
<1>2. /\ pc = "loop" /\ order' = {}
      /\ UNCHANGED <<fpc, fd_, mapped_, file_size_, size, descriptors, mapping, pc, exit_code,
                     json, symbols, trade_buf, coin, buy_templates, sell_templates>>
  BY DEF QuietTick, file, config, setup, templates
<1>3. next' \in Nat /\ next' <= size \div RecordSize
  BY <1>1, OneMoreTick DEF QuietTick
<1>4. RunType' /\ FileInv'
  BY <1>1, <1>2, <1>3 DEF RunType, FileInv
<1>5. ExitInv' /\ SymbolInv'
  BY <1>1, <1>2 DEF ExitInv, SymbolInv
<1>6. Seeded' = Seeded /\ \A p : Owners(p)' = Owners(p)
  BY <1>2 DEF Seeded, Owners
<1>7. TemplateInv'
  BY <1>1, <1>2, <1>6 DEF TemplateInv
<1>8. QED  BY <1>2, <1>4, <1>5, <1>7, NoOrder DEF Inv

LEMMA FireStep ==
    ASSUME Inv, NEW p \in Pairs, NEW v \in {1, 2}, NEW bp \in Prices, NEW sp \in Prices,
           NEW q \in Quantities, FireTick(p, v, bp, sp, q)
    PROVE  Inv'
<1> DEFINE r == [pair |-> p, buy_venue |-> v, sell_venue |-> 3 - v,
                 buy_price |-> bp, sell_price |-> sp, qty |-> q]
           b == map_to_index(v, p)
           s == map_to_index(3 - v, p)
<1>1. RunType /\ FileInv /\ ExitInv /\ SymbolInv /\ TemplateInv /\ OrderInv
  BY DEF Inv
<1>2. /\ pc = "loop" /\ p \in coin /\ order' = {r}
      /\ buy_templates' = [buy_templates EXCEPT ![b] = patch_order(@, bp, q)]
      /\ sell_templates' = [sell_templates EXCEPT ![s] = patch_order(@, sp, q)]
      /\ UNCHANGED <<fpc, fd_, mapped_, file_size_, size, descriptors, mapping, pc, exit_code,
                     json, symbols, trade_buf, coin>>
  BY DEF FireTick, file, config, setup
<1>3. next' \in Nat /\ next' <= size \div RecordSize
  BY <1>1, OneMoreTick DEF FireTick
<1>4. RunType' /\ FileInv'
  BY <1>1, <1>2, <1>3 DEF RunType, FileInv
<1>5. ExitInv' /\ SymbolInv'
  BY <1>1, <1>2 DEF ExitInv, SymbolInv
<1>6. Seeded' = Seeded /\ \A x : Owners(x)' = Owners(x)
  BY <1>2 DEF Seeded, Owners
<1>7. 3 - v \in {1, 2} /\ b \in Indices /\ s \in Indices
  <2>1. 3 - v \in {1, 2}
    OBVIOUS
  <2>2. QED  BY <2>1, IndexOf
<1>8. ASSUME NEW i \in Indices
      PROVE  /\ DOMAIN buy_templates'[i] = DOMAIN Garbage
             /\ DOMAIN sell_templates'[i] = DOMAIN Garbage
             /\ \A k, w, side : Names(buy_templates[i], k, w, side)
                                  => Names(buy_templates'[i], k, w, side)
             /\ \A k, w, side : Names(sell_templates[i], k, w, side)
                                  => Names(sell_templates'[i], k, w, side)
  <2>1. /\ DOMAIN buy_templates = Indices /\ DOMAIN sell_templates = Indices
        /\ DOMAIN buy_templates[i] = DOMAIN Garbage /\ DOMAIN sell_templates[i] = DOMAIN Garbage
    BY <1>1 DEF TemplateInv
  <2>2. /\ buy_templates'[i] = IF i = b THEN patch_order(buy_templates[i], bp, q)
                               ELSE buy_templates[i]
        /\ sell_templates'[i] = IF i = s THEN patch_order(sell_templates[i], sp, q)
                                ELSE sell_templates[i]
    BY <1>2, <2>1
  <2>3. QED  BY <2>1, <2>2, Patched
<1>9. ASSUME NEW w \in {1, 2}, NEW x \in Pairs, Owners(x) # {}
      PROVE  /\ Names(buy_templates'[map_to_index(w, x)], LastOf(Owners(x)), w, "BUY")
             /\ Names(sell_templates'[map_to_index(w, x)], LastOf(Owners(x)), w, "SELL")
  <2>1. map_to_index(w, x) \in Indices
    BY IndexOf
  <2>2. QED  BY <1>1, <1>2, <1>8, <1>9, <2>1 DEF TemplateInv
<1>10. TemplateInv'
  <2>1. DOMAIN buy_templates' = Indices /\ DOMAIN sell_templates' = Indices
    BY <1>1, <1>2 DEF TemplateInv
  <2>2. coin' = Seeded'
    BY <1>1, <1>2, <1>6 DEF TemplateInv
  <2> HIDE DEF r, b, s
  <2>3. QED  BY <1>2, <1>6, <1>8, <1>9, <2>1, <2>2 DEF TemplateInv
<1>11. OrderNamesItsPair'
  <2> DEFINE L == LastOf(Owners(p))
  <2>1. PICK k \in DOMAIN symbols : symbols[k] = p
    BY <1>1, <1>2 DEF TemplateInv, Seeded
  <2>2. k \in Owners(p) /\ L \in Owners(p) /\ Owners(p) \subseteq DOMAIN symbols
        /\ (symbols[L] = p \/ (symbols[L] >= PAIRS_PER_VENUE /\ p = 0))
    BY <1>1, <2>1, OwnersAre
  <2>3. /\ Names(buy_templates'[b], L, v, "BUY") /\ Names(sell_templates'[s], L, 3 - v, "SELL")
    BY <1>7, <1>9, <2>2
  <2>4. ASSUME Cardinality(Owners(p)) = 1
        PROVE  L = pair_name(p)
    <3>1. IsFiniteSet(Owners(p))
      <4>1. IsFiniteSet(1 .. Len(symbols)) /\ Owners(p) \in SUBSET (1 .. Len(symbols))
        <5>1. 1 \in Int /\ Len(symbols) \in Int
          BY <1>1, OwnersAre
        <5>2. QED  BY <1>1, <5>1, OwnersAre, FS_Interval
      <4>2. QED  BY <4>1, FS_Subset
    <3>2. PICK x : Owners(p) = {x}
      BY <2>4, <3>1, FS_Singleton
    <3>3. x = k /\ L = k
      BY <2>2, <3>2
    <3>4. {j \in DOMAIN symbols : symbols[j] = p} = {k}
      BY <1>1, <2>1, <3>2, <3>3, OwnersAre
    <3>5. k \in Int
      BY <1>1, <2>1, OwnersAre
    <3>6. pair_name(p) = CHOOSE j \in {k} : \A l \in {k} : j <= l
      BY <3>4, Zenon DEF pair_name
    <3>7. \A j \in {k} : j = k
      OBVIOUS
    <3>8. \E j \in {k} : \A l \in {k} : j <= l
      BY <3>5
    <3>9. pair_name(p) \in {k}
      BY <3>6, <3>8, Zenon
    <3>10. QED  BY <3>3, <3>9
  <2>5. /\ symbols' = symbols /\ Owners(p)' = Owners(p) /\ pair_name(p)' = pair_name(p)
    BY <1>2 DEF Owners, pair_name
  <2>6. /\ r.pair = p /\ r.buy_venue = v /\ r.sell_venue = 3 - v
    OBVIOUS
  <2> HIDE DEF r, L
  <2>7. /\ buy_templates'[b].symbol = L /\ sell_templates'[s].symbol = L
        /\ buy_templates'[b].side = "BUY" /\ buy_templates'[b].venue = v
        /\ sell_templates'[s].side = "SELL" /\ sell_templates'[s].venue = 3 - v
    BY <2>3 DEF Names
  <2>8. L \in DOMAIN symbols'
    BY <2>2, <2>5
  <2>9. SUFFICES ASSUME NEW o \in order'
                 PROVE
          LET bb == buy_templates'[map_to_index(o.buy_venue, o.pair)]
              ss == sell_templates'[map_to_index(o.sell_venue, o.pair)]
          IN  /\ bb.symbol \in DOMAIN symbols' /\ ss.symbol = bb.symbol
              /\ bb.side = "BUY" /\ bb.venue = o.buy_venue
              /\ ss.side = "SELL" /\ ss.venue = o.sell_venue
              /\ \/ symbols'[bb.symbol] = o.pair
                 \/ symbols'[bb.symbol] >= PAIRS_PER_VENUE /\ o.pair = 0
              /\ Cardinality(Owners(o.pair)') = 1 => bb.symbol = pair_name(o.pair)'
    BY Zenon DEF OrderNamesItsPair
  <2>10. o = r
    BY <1>2, <2>9
  <2>11. QED  BY <2>2, <2>4, <2>5, <2>6, <2>7, <2>8, <2>10
<1>12. BodyReadsBack'
  <2>1. /\ bp \in Nat /\ sp \in Nat /\ q \in Nat
        /\ Writable(bp) /\ Writable(sp) /\ Writable(q)
    BY ReplayAssumption DEF ReplayAssumption
  <2>2. /\ ReadsBack(buy_templates'[b].price, bp) /\ ReadsBack(buy_templates'[b].qty, q)
    <3>1. buy_templates'[b] = patch_order(buy_templates[b], bp, q)
          /\ DOMAIN buy_templates[b] = DOMAIN Garbage
      BY <1>1, <1>2, <1>7 DEF TemplateInv
    <3>2. QED  BY <2>1, <3>1, PatchedReads
  <2>3. /\ ReadsBack(sell_templates'[s].price, sp) /\ ReadsBack(sell_templates'[s].qty, q)
    <3>1. sell_templates'[s] = patch_order(sell_templates[s], sp, q)
          /\ DOMAIN sell_templates[s] = DOMAIN Garbage
      BY <1>1, <1>2, <1>7 DEF TemplateInv
    <3>2. QED  BY <2>1, <3>1, PatchedReads
  <2>4. /\ r.pair = p /\ r.buy_venue = v /\ r.sell_venue = 3 - v
        /\ r.buy_price = bp /\ r.sell_price = sp /\ r.qty = q
    OBVIOUS
  <2> HIDE DEF r
  <2>5. SUFFICES ASSUME NEW o \in order'
                 PROVE
          LET bb == buy_templates'[map_to_index(o.buy_venue, o.pair)]
              ss == sell_templates'[map_to_index(o.sell_venue, o.pair)]
          IN  /\ ReadsBack(bb.price, o.buy_price) /\ ReadsBack(bb.qty, o.qty)
              /\ ReadsBack(ss.price, o.sell_price) /\ ReadsBack(ss.qty, o.qty)
    BY Zenon DEF BodyReadsBack
  <2>6. o = r
    BY <1>2, <2>5
  <2>7. QED  BY <2>2, <2>3, <2>4, <2>6
<1>13. QED  BY <1>4, <1>5, <1>10, <1>11, <1>12 DEF Inv, OrderInv

LEMMA FinishStep ==
    ASSUME Inv, Finish
    PROVE  Inv'
<1>1. RunType /\ FileInv /\ ExitInv /\ SymbolInv /\ TemplateInv /\ OrderInv
  BY DEF Inv
<1>2. /\ pc = "loop" /\ close /\ pc' = "exit" /\ exit_code' = "success" /\ trade_buf' = FALSE
      /\ UNCHANGED <<config, coin, templates, next, order>>
  BY DEF Finish
<1>3. next = size \div RecordSize /\ fpc = "opened"
  BY <1>1, <1>2 DEF Finish, count, FileInv
<1>4. QED  BY <1>1, <1>2, <1>3, Returned
-----------------------------------------------------------------------------
LEMMA Initially ==
    ASSUME Init
    PROVE  Inv
<1>1. RunType
  <2>1. size \in Nat /\ json \in Seq(Nat)
    BY Constants DEF Init, FileInit
  <2>2. size \div RecordSize \in Nat
    BY <2>1, Constants, WholeRecords
  <2>3. /\ fpc = "new" /\ fd_ = NoFd /\ mapped_ = FALSE /\ file_size_ = 0
        /\ pc = "config" /\ exit_code = "none" /\ symbols = <<>> /\ trade_buf = FALSE
        /\ coin = {} /\ next = 0
    BY DEF Init, FileInit
  <2>4. next \in Nat /\ next <= size \div RecordSize
    BY <2>2, <2>3
  <2>5. symbols \in Seq(Nat)
    BY <2>3
  <2>6. /\ fd_ \in {NoFd, Fd} /\ mapped_ \in BOOLEAN /\ trade_buf \in BOOLEAN
        /\ file_size_ \in {0, size} /\ coin \subseteq Pairs
    BY <2>3
  <2>7. QED  BY <2>1, <2>3, <2>4, <2>5, <2>6 DEF RunType
<1>2. FileInv /\ ExitInv /\ SymbolInv
  BY Constants DEF Init, FileInit, FileInv, ExitInv, SymbolInv
<1>3. TemplateInv /\ OrderInv
  BY DEF Init, TemplateInv, OrderInv, OrderNamesItsPair, BodyReadsBack
<1>4. QED  BY <1>1, <1>2, <1>3 DEF Inv

LEMMA Step ==
    ASSUME Inv, [Next]_vars
    PROVE  Inv'
<1>1. CASE Next
  BY <1>1, LoadStep, OpenStepKept, FailedStep, AllocateStep, SetUpStep, QuietStep, FireStep,
     FinishStep DEF Next
<1>2. CASE UNCHANGED vars
  <2>1. UNCHANGED <<fpc, fd_, mapped_, file_size_, size, descriptors, mapping, pc, exit_code,
                    json, symbols, trade_buf, coin, templates, next, order>>
    BY <1>2 DEF vars, file, config, setup
  <2>2. RunType' /\ FileInv' /\ ExitInv' /\ SymbolInv'
    BY <2>1 DEF Inv, RunType, FileInv, ExitInv, SymbolInv
  <2>3. TemplateInv' /\ OrderInv'
    BY <2>1, TemplatesKept DEF Inv
  <2>4. QED  BY <2>2, <2>3 DEF Inv
<1>3. QED  BY <1>1, <1>2

LEMMA Invariant == Spec => []Inv
BY Initially, Step, PTL DEF Spec

\* Every variable of the backtester's run keeps its type, templates keep their
\* fields, and no tick past the end of the file is read.
THEOREM TypeCorrect == Spec => []TypeOK
<1>1. Inv => TypeOK
  <2>1. SUFFICES ASSUME Inv PROVE TypeOK
    OBVIOUS
  <2>2. RunType /\ FileInv /\ TemplateInv
    BY <2>1 DEF Inv
  <2>3. size \div RecordSize \in Nat
    BY <2>2, Constants, WholeRecords DEF RunType
  <2>4. descriptors \subseteq {Fd} /\ mapping \in {0, size} /\ next \in 0 .. size \div RecordSize
    BY <2>2, <2>3 DEF RunType, FileInv
  <2>5. QED  BY <2>2, <2>4 DEF RunType, TemplateInv, TypeOK
<1>2. QED  BY <1>1, Invariant, PTL

\* On every path out of main the descriptor, the mapping and the buffer are
\* given back, and success means that every record was replayed: for any file
\* and any failure on the way.
THEOREM CleanOnEveryPath == Spec => []CleanExit
<1>1. Inv => CleanExit
  <2>1. SUFFICES ASSUME Inv, pc = "exit"
                 PROVE  /\ descriptors = {} /\ mapping = 0 /\ ~trade_buf
                        /\ exit_code = "success" <=> next * RecordSize = size /\ size > 0
    BY DEF CleanExit
  <2>2. RunType /\ FileInv /\ ExitInv
    BY <2>1 DEF Inv
  <2>3. descriptors = {} /\ mapping = 0 /\ ~trade_buf
    BY <2>1, <2>2, Constants DEF FileInv
  <2>4. CASE exit_code = "failure" /\ next = 0
    <3>1. 0 * RecordSize = 0
      BY Constants
    <3>2. ~(next * RecordSize = size /\ size > 0)
      BY <2>2, <2>4, <3>1 DEF RunType
    <3>3. exit_code # "success"
      BY <2>4
    <3>4. QED  BY <2>3, <3>2, <3>3, Zenon
  <2>5. CASE exit_code = "success" /\ next = size \div RecordSize /\ fpc = "opened"
    <3>1. size > 0 /\ size % RecordSize = 0
      BY <2>2, <2>5 DEF FileInv
    <3>2. (size \div RecordSize) * RecordSize = size
      BY <2>2, <3>1, Constants, WholeRecords DEF RunType
    <3>3. next * RecordSize = size /\ size > 0 /\ exit_code = "success"
      BY <2>5, <3>1, <3>2
    <3>4. QED  BY <2>3, <3>3, Zenon
  <2>6. QED  BY <2>1, <2>2, <2>3, <2>4, <2>5 DEF ExitInv
<1>2. QED  BY <1>1, Invariant, PTL

\* The symbols never exceed the array, and an accepted configuration is loaded
\* whole as long as the number of its symbols fits the counter.
THEOREM SymbolsFit == Spec => []CapacityRespected
<1>1. Inv => CapacityRespected
  BY DEF Inv, SymbolInv, CapacityRespected
<1>2. QED  BY <1>1, Invariant, PTL

\* Every order is sent with the two bodies of one symbol that claims its pair,
\* for any number of pairs and any configuration.
THEOREM BodiesNameThePair == Spec => []OrderNamesItsPair
<1>1. Inv => OrderNamesItsPair
  BY DEF Inv, OrderInv
<1>2. QED  BY <1>1, Invariant, PTL

\* The text of every order says the price and the quantity that were booked with
\* the ledger, whatever was written into the field before: all decimals of a number
\* whose integer digits leave room for them, and of a longer one those that find
\* room; for fields of any width and any number of decimals, as long as the
\* integer digits of what is written fit them.
THEOREM FieldsReadBack == Spec => []BodyReadsBack
<1>1. Inv => BodyReadsBack
  BY DEF Inv, OrderInv
<1>2. QED  BY <1>1, Invariant, PTL
=============================================================================
