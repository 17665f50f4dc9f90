---------------------------- MODULE Summary_proofs ----------------------------
(* Proofs about Metrics and LatencyStats: the summaries a program prints at *)
(* its end, kept up in one pass, are those of the definitions.             *)
EXTENDS Metrics, LatencyStats, SequenceLemmas, FiniteSetTheorems

LEMMA LeastIsMin ==
    ASSUME NEW S, S \subseteq Nat, S # {}
    PROVE  Min(S) \in S /\ \A y \in S : Min(S) <= y
<1>1. \E x \in S : \A y \in S : x =< y
  BY Least
<1>2. QED  BY <1>1, Zenon DEF Min

-----------------------------------------------------------------------------
(* Running sums.                                                           *)

LEMMA RunningSumIs ==
    ASSUME NEW s \in Seq(Int)
    PROVE  /\ RunningSum(s) \in [0 .. Len(s) -> Int] /\ RunningSum(s)[0] = 0
           /\ \A k \in 1 .. Len(s) : RunningSum(s)[k] = RunningSum(s)[k - 1] + s[k]
           /\ Total(s) \in Int
<1> DEFINE n == Len(s)
<1>1. n \in Nat /\ \A k \in 1 .. n : s[k] \in Int
  OBVIOUS
<1> HIDE DEF n
<1>2. PICK f \in [0 .. n -> Int] : f[0] = 0 /\ \A k \in 1 .. n : f[k] = 1 * f[k - 1] + s[k]
  <2>1. 0 \in Int /\ 1 \in Int
    OBVIOUS
  <2>2. Recurrence(n, 0, 1, s) # {}
    BY <1>1, <2>1, RecurrenceExists, Zenon
  <2>3. QED  BY <2>2 DEF Recurrence
<1>3. \A k \in 1 .. n : f[k] = f[k - 1] + s[k]
  BY <1>1, <1>2
<1>4. f = [j \in 0 .. n |-> IF j = 0 THEN 0 ELSE f[j - 1] + s[j]]
  BY <1>1, <1>2, <1>3
<1>5. RunningSum(s) = [j \in 0 .. n |-> IF j = 0 THEN 0 ELSE RunningSum(s)[j - 1] + s[j]]
  BY <1>4, Zenon DEF RunningSum, n
<1>6. /\ RunningSum(s)[0] = 0
      /\ \A k \in 1 .. n : RunningSum(s)[k] = RunningSum(s)[k - 1] + s[k]
  <2> DEFINE r == RunningSum(s)
  <2>1. r = [j \in 0 .. n |-> IF j = 0 THEN 0 ELSE r[j - 1] + s[j]]
    BY <1>5
  <2> HIDE DEF r
  <2>2. r[0] = 0 /\ \A k \in 1 .. n : r[k] = r[k - 1] + s[k]
    BY <1>1, <2>1
  <2>3. QED  BY <2>2 DEF r
<1>7. \A k \in 0 .. n : RunningSum(s)[k] = f[k]
  <2> DEFINE r == RunningSum(s)
             Same == {k \in 0 .. n : r[k] = f[k]}
  <2>1. r[0] = 0 /\ \A k \in 1 .. n : r[k] = r[k - 1] + s[k]
    BY <1>6
  <2> HIDE DEF r
  <2>2. 0 \in Same /\ \A k \in 1 .. n : k - 1 \in Same => k \in Same
    BY <1>1, <1>2, <1>3, <2>1
  <2>3. 0 .. n \subseteq Same
    <3> HIDE DEF Same
    <3>1. QED  BY <1>1, <2>2, Induction
  <2>4. QED  BY <2>3 DEF r
<1>8. RunningSum(s) = f
  <2>1. DOMAIN RunningSum(s) = 0 .. n /\ RunningSum(s) = [k \in 0 .. n |-> RunningSum(s)[k]]
    BY <1>5, Zenon
  <2>2. f = [k \in 0 .. n |-> f[k]]
    BY <1>2
  <2> DEFINE r == RunningSum(s)
  <2>3. r = [k \in 0 .. n |-> r[k]] /\ \A k \in 0 .. n : r[k] = f[k]
    BY <1>7, <2>1
  <2> HIDE DEF r
  <2>4. r = f
    BY <2>2, <2>3
  <2>5. QED  BY <2>4 DEF r
<1>9. Total(s) = f[n] /\ f[n] \in Int
  BY <1>1, <1>2, <1>8 DEF Total, n
<1>10. QED  BY <1>2, <1>6, <1>8, <1>9 DEF n

LEMMA SumsAgree ==
    ASSUME NEW s \in Seq(Int), NEW t \in Seq(Int), NEW n \in Nat,
           n <= Len(s), n <= Len(t), \A k \in 1 .. n : s[k] = t[k]
    PROVE  \A k \in 0 .. n : RunningSum(s)[k] = RunningSum(t)[k]
<1> DEFINE r == RunningSum(s)
           q == RunningSum(t)
<1>1. /\ r[0] = 0 /\ \A k \in 1 .. n : r[k] = r[k - 1] + s[k]
      /\ q[0] = 0 /\ \A k \in 1 .. n : q[k] = q[k - 1] + t[k]
  BY RunningSumIs
<1> HIDE DEF r, q
<1> DEFINE Same == {k \in 0 .. n : r[k] = q[k]}
<1>2. 0 \in Same /\ \A k \in 1 .. n : k - 1 \in Same => k \in Same
  BY <1>1
<1>3. 0 .. n \subseteq Same
  <2> HIDE DEF Same
  <2>1. QED  BY <1>2, Induction
<1>4. QED  BY <1>3 DEF r, q

LEMMA Multiplied ==
    ASSUME NEW a \in Int, NEW b \in Int, NEW d \in Int, d > 0
    PROVE  a <= b <=> a * d <= b * d
OBVIOUS

\* Fractions with positive denominators are ordered.
LEMMA Ordered ==
    ASSUME NEW a \in Int, NEW b \in Int, NEW c \in Int, NEW d \in Int,
           NEW e \in Int, NEW f \in Int, b > 0, d > 0, f > 0,
           a * d <= c * b, c * f <= e * d
    PROVE  a * f <= e * b
<1>1. (a * d) * f <= (c * b) * f /\ (c * f) * b <= (e * d) * b
  <2>1. a * d \in Int /\ c * b \in Int /\ c * f \in Int /\ e * d \in Int
    OBVIOUS
  <2>2. QED  BY <2>1, Multiplied
<1>2. (a * f) * d <= (e * b) * d
  <2>1. /\ (a * d) * f = (a * f) * d /\ (c * b) * f = (c * f) * b
        /\ (e * d) * b = (e * b) * d
    OBVIOUS
  <2>2. /\ (a * d) * f \in Int /\ (c * b) * f \in Int /\ (e * d) * b \in Int
    OBVIOUS
  <2>3. QED  BY <1>1, <2>1, <2>2
<1>3. a * f \in Int /\ e * b \in Int
  OBVIOUS
<1>4. QED  BY <1>2, <1>3, Multiplied

\* A multiple of n stays one when another is added to it.
LEMMA MultiplesAdd ==
    ASSUME NEW n \in Nat, n >= 1, NEW a \in Int, NEW b \in Int, a % n = 0, b % n = 0
    PROVE  (a + b) % n = 0
OBVIOUS

LEMMA Divides ==
    ASSUME NEW n \in Nat, n >= 1, NEW a \in Int, a % n = 0
    PROVE  \E t \in Int : a = n * t
<1>1. a \div n \in Int /\ a = n * (a \div n)
  OBVIOUS
<1>2. QED  BY <1>1, Zenon

LEMMA Quotient ==
    ASSUME NEW n \in Nat, n >= 1, NEW e \in Int
    PROVE  (n * e) \div n = e
OBVIOUS
\* The squared deviations of the first n numbers of s from c.
Deviations(s, n, c) == [k \in 1 .. n |-> (s[k] - c) * (s[k] - c)]

LEMMA DeviationsAre ==
    ASSUME NEW s \in Seq(Int), NEW n \in Nat, n <= Len(s), NEW c \in Int
    PROVE  LET q == Deviations(s, n, c)
           IN  /\ q \in Seq(Int) /\ Len(q) = n
               /\ \A k \in 1 .. n : q[k] = (s[k] - c) * (s[k] - c)
               /\ Total(q) = RunningSum(q)[n] /\ Total(q) \in Int
               /\ RunningSum(q)[0] = 0 /\ \A k \in 0 .. n : RunningSum(q)[k] \in Int
               /\ \A k \in 1 .. n :
                    RunningSum(q)[k] = RunningSum(q)[k - 1] + (s[k] - c) * (s[k] - c)
<1> DEFINE q == Deviations(s, n, c)
<1>1. \A k \in 1 .. n : s[k] \in Int
  OBVIOUS
<1>2. \A k \in 1 .. n : (s[k] - c) * (s[k] - c) \in Int
  BY <1>1
<1>3. /\ q \in Seq(Int) /\ Len(q) = n
      /\ \A k \in 1 .. n : q[k] = (s[k] - c) * (s[k] - c)
  BY <1>1, <1>2 DEF Deviations
<1> HIDE DEF q
<1>4. /\ RunningSum(q) \in [0 .. n -> Int] /\ RunningSum(q)[0] = 0
      /\ \A k \in 1 .. n : RunningSum(q)[k] = RunningSum(q)[k - 1] + q[k]
      /\ Total(q) \in Int
  BY <1>3, RunningSumIs
<1>5. Total(q) = RunningSum(q)[n]
  BY <1>3 DEF Total
<1>6. /\ \A k \in 0 .. n : RunningSum(q)[k] \in Int
      /\ \A k \in 1 .. n :
           RunningSum(q)[k] = RunningSum(q)[k - 1] + (s[k] - c) * (s[k] - c)
  BY <1>3, <1>4
<1>7. QED  BY <1>3, <1>4, <1>5, <1>6, Zenon DEF q

\* The squared deviations from c are the squares, but for terms in the sum.
LEMMA DeviationsSum ==
    ASSUME NEW s \in Seq(Int), NEW n \in Nat, n <= Len(s), NEW c \in Int
    PROVE  Total(Deviations(s, n, c))
             = (Total(Deviations(s, n, 0)) - 2 * c * RunningSum(s)[n]) + n * c * c
<1> DEFINE r == RunningSum(s)
           p == RunningSum(Deviations(s, n, c))
           q == RunningSum(Deviations(s, n, 0))
<1>1. Len(s) \in Nat /\ \A k \in 1 .. n : s[k] \in Int
  OBVIOUS
<1>2. /\ r[0] = 0 /\ \A k \in 0 .. n : r[k] \in Int
      /\ \A k \in 1 .. n : r[k] = r[k - 1] + s[k]
  <2>1. /\ r \in [0 .. Len(s) -> Int] /\ r[0] = 0
        /\ \A k \in 1 .. Len(s) : r[k] = r[k - 1] + s[k]
    BY RunningSumIs
  <2> HIDE DEF r
  <2>2. /\ \A k \in 0 .. n : k \in 0 .. Len(s)
        /\ \A k \in 1 .. n : k \in 1 .. Len(s)
    BY <1>1
  <2>3. QED  BY <2>1, <2>2
<1>3. /\ p[0] = 0 /\ (\A k \in 0 .. n : p[k] \in Int) /\ Total(Deviations(s, n, c)) = p[n]
      /\ \A k \in 1 .. n : p[k] = p[k - 1] + (s[k] - c) * (s[k] - c)
  BY DeviationsAre, Zenon
<1>4. /\ q[0] = 0 /\ (\A k \in 0 .. n : q[k] \in Int) /\ Total(Deviations(s, n, 0)) = q[n]
      /\ \A k \in 1 .. n : q[k] = q[k - 1] + (s[k] - 0) * (s[k] - 0)
  <2>1. 0 \in Int
    OBVIOUS
  <2>2. QED  BY <2>1, DeviationsAre, Zenon
<1> HIDE DEF r, p, q
<1>5. \A k \in 0 .. n : p[k] = (q[k] - 2 * c * r[k]) + k * c * c
  <2> DEFINE Off == {k \in 0 .. n : p[k] # (q[k] - 2 * c * r[k]) + k * c * c}
  <2>1. SUFFICES ASSUME Off # {} PROVE FALSE
    OBVIOUS
  <2>2. PICK k \in Off : \A l \in Off : k <= l
    <3>1. Off \subseteq Nat
      BY <1>1
    <3>2. QED  BY <2>1, <3>1, Least
  <2>3. k # 0
    BY <1>2, <1>3, <1>4, <2>2
  <2>4. k \in 1 .. n /\ k - 1 \in 0 .. n /\ k \in Int
    BY <1>1, <2>2, <2>3
  <2>5. p[k - 1] = (q[k - 1] - 2 * c * r[k - 1]) + (k - 1) * c * c
    <3>1. k - 1 \in Off => k <= k - 1
      BY <2>2, Zenon
    <3>2. k - 1 \notin Off
      BY <2>4, <3>1
    <3>3. QED  BY <2>4, <3>2
  <2>6. PICK x \in Int, y \in Int, z \in Int, w \in Int :
            x = p[k - 1] /\ y = q[k - 1] /\ z = r[k - 1] /\ w = s[k]
    BY <1>1, <1>2, <1>3, <1>4, <2>4
  <2>7. /\ p[k] = x + (w - c) * (w - c) /\ q[k] = y + (w - 0) * (w - 0) /\ r[k] = z + w
    BY <1>2, <1>3, <1>4, <2>4, <2>6
  <2>8. x = (y - 2 * c * z) + (k - 1) * c * c
    BY <2>5, <2>6
  <2>9. x + (w - c) * (w - c) = ((y + (w - 0) * (w - 0)) - 2 * c * (z + w)) + k * c * c
    BY <2>4, <2>8
  <2>10. p[k] = (q[k] - 2 * c * r[k]) + k * c * c
    BY <2>7, <2>9
  <2>11. QED  BY <2>2, <2>10
<1>6. p[n] = (q[n] - 2 * c * r[n]) + n * c * c
  BY <1>1, <1>5
<1>7. QED  BY <1>3, <1>4, <1>6 DEF r

LEMMA SquaresNext ==
    ASSUME NEW s \in Seq(Int), NEW n \in Nat, n + 1 <= Len(s)
    PROVE  Total(Deviations(s, n + 1, 0)) = Total(Deviations(s, n, 0)) + s[n + 1] * s[n + 1]
<1> DEFINE p == Deviations(s, n + 1, 0)
           q == Deviations(s, n, 0)
<1>1. 0 \in Int /\ n + 1 \in Nat /\ n <= Len(s) /\ s[n + 1] \in Int
  OBVIOUS
<1>2. /\ p \in Seq(Int) /\ Len(p) = n + 1 /\ Total(p) = RunningSum(p)[n + 1]
      /\ \A k \in 1 .. n + 1 : p[k] = (s[k] - 0) * (s[k] - 0)
      /\ \A k \in 1 .. n + 1 :
           RunningSum(p)[k] = RunningSum(p)[k - 1] + (s[k] - 0) * (s[k] - 0)
  BY <1>1, DeviationsAre, Zenon
<1>3. /\ q \in Seq(Int) /\ Len(q) = n /\ Total(q) = RunningSum(q)[n]
      /\ \A k \in 1 .. n : q[k] = (s[k] - 0) * (s[k] - 0)
  BY <1>1, DeviationsAre, Zenon
<1> HIDE DEF p, q
<1>4. \A k \in 1 .. n : p[k] = q[k]
  <2>1. \A k \in 1 .. n : k \in 1 .. n + 1
    OBVIOUS
  <2>2. QED  BY <1>2, <1>3, <2>1, Zenon
<1>5. RunningSum(p)[n] = RunningSum(q)[n]
  <2>1. n <= Len(p) /\ n <= Len(q) /\ n \in 0 .. n
    BY <1>2, <1>3
  <2>2. QED  BY <1>2, <1>3, <1>4, <2>1, SumsAgree, Zenon
<1>6. RunningSum(p)[n + 1] = RunningSum(p)[n] + (s[n + 1] - 0) * (s[n + 1] - 0)
  BY <1>1, <1>2
<1>7. QED  BY <1>1, <1>2, <1>3, <1>5, <1>6 DEF p, q
-----------------------------------------------------------------------------
(* Metrics.                                                                *)

MetricsType ==
    /\ records \in Seq(Pnls) /\ Len(records) <= MaxTrades
    /\ i \in Nat /\ i <= Len(records)
    /\ tally \in [total_pnl : Int, wins : Nat, leg_failure_count : Nat]
    /\ equity \in [balance : Int, peak : Int, fall : [amount : Int, of : Int]]
    /\ welford \in [mean : Int, M2 : Int]

\* The sum so far is divided by every number of trades, because each record is.
SumInv ==
    /\ tally.total_pnl = RunningSum(records)[i]
    /\ \A n \in 1 .. MaxTrades : tally.total_pnl % n = 0

\* The peak is the largest balance so far, and what the fall is taken of is one.
PeakInv ==
    /\ equity.balance = Equity(i)
    /\ \A j \in 0 .. i : Equity(j) <= equity.peak
    /\ \E j \in 0 .. i : equity.peak = Equity(j)
    /\ equity.fall.of > 0 /\ equity.fall.amount >= 0

MetricsInv == MetricsType /\ SumInv /\ PeakInv /\ DrawdownIsLargestFall /\ WelfordIsExact

LEMMA RecordsAreNumbers ==
    ASSUME MetricsType
    PROVE  /\ records \in Seq(Int) /\ Len(records) \in Nat
           /\ \A k \in 1 .. Len(records) :
                /\ records[k] \in Int
                /\ \A n \in 1 .. MaxTrades : records[k] % n = 0
           /\ RunningSum(records) \in [0 .. Len(records) -> Int] /\ RunningSum(records)[0] = 0
           /\ \A k \in 0 .. Len(records) : Equity(k) \in Int
           /\ Equity(0) = initial_balance
<1>1. /\ records \in Seq(Pnls) /\ \A p \in Pnls : p \in Int
      /\ \A p \in Pnls : \A n \in 1 .. MaxTrades : p % n = 0
      /\ initial_balance \in Nat
  BY MetricsAssumption DEF MetricsType
<1>2. records \in Seq(Int) /\ Len(records) \in Nat
  BY <1>1
<1>3. RunningSum(records) \in [0 .. Len(records) -> Int] /\ RunningSum(records)[0] = 0
  BY <1>2, RunningSumIs
<1>4. \A k \in 0 .. Len(records) : RunningSum(records)[k] \in Int
  BY <1>3
<1>5. \A k \in 1 .. Len(records) : records[k] \in Pnls
  BY <1>1
<1>6. (\A k \in 0 .. Len(records) : Equity(k) \in Int) /\ Equity(0) = initial_balance
  BY <1>1, <1>3, <1>4 DEF Equity
<1>7. QED  BY <1>1, <1>2, <1>3, <1>5, <1>6


LEMMA SquaresAre ==
    ASSUME NEW c
    PROVE  Squares(c) = Deviations(records, i, c)
BY DEF Squares, Deviations

\* What a turn of the loop finds and where it leads.
LEMMA TurnIs ==
    ASSUME MetricsType, compute_metrics
    PROVE  LET x == records[i + 1]
           IN  /\ records' = records /\ i' = i + 1 /\ i + 1 \in 1 .. MaxTrades
               /\ i \in Nat /\ i + 1 <= Len(records) /\ i + 1 \in 1 .. Len(records)
               /\ x \in Int /\ \A n \in 1 .. MaxTrades : x % n = 0
               /\ RunningSum(records)[i] \in Int
               /\ RunningSum(records)[i + 1] = RunningSum(records)[i] + x
               /\ \A k : Equity(k)' = Equity(k)
<1>1. /\ records' = records /\ i' = i + 1 /\ i < Len(records) /\ i \in Nat
      /\ Len(records) \in Nat /\ Len(records) <= MaxTrades /\ MaxTrades \in Nat
  BY RecordsAreNumbers, MetricsAssumption DEF MetricsType, compute_metrics
<1>2. i + 1 \in 1 .. MaxTrades /\ i + 1 \in 1 .. Len(records) /\ i \in 0 .. Len(records)
  BY <1>1
<1>3. records[i + 1] \in Int /\ \A n \in 1 .. MaxTrades : records[i + 1] % n = 0
  BY <1>2, RecordsAreNumbers
<1>4. RunningSum(records)[i] \in Int
  BY <1>2, RecordsAreNumbers
<1>5. RunningSum(records)[i + 1] = RunningSum(records)[(i + 1) - 1] + records[i + 1]
  <2>1. \A k \in 1 .. Len(records) :
          RunningSum(records)[k] = RunningSum(records)[k - 1] + records[k]
    BY RecordsAreNumbers, RunningSumIs, Zenon
  <2>2. QED  BY <1>2, <2>1, Zenon
<1>6. (i + 1) - 1 = i
  BY <1>1
<1>7. \A k : Equity(k)' = Equity(k)
  BY <1>1 DEF Equity
<1>8. QED  BY <1>1, <1>2, <1>3, <1>4, <1>5, <1>6, <1>7

LEMMA SumStep ==
    ASSUME MetricsType, SumInv, compute_metrics
    PROVE  /\ SumInv'
           /\ tally' \in [total_pnl : Int, wins : Nat, leg_failure_count : Nat]
<1> DEFINE x == records[i + 1]
<1>1. /\ tally'.total_pnl = tally.total_pnl + x
      /\ x \in Int => tally' \in [total_pnl : Int, wins : Nat, leg_failure_count : Nat]
  <2>1. tally \in [total_pnl : Int, wins : Nat, leg_failure_count : Nat]
    BY DEF MetricsType
  <2>2. tally' = [total_pnl |-> tally.total_pnl + x,
                  wins |-> IF x > 0 THEN tally.wins + 1 ELSE tally.wins,
                  leg_failure_count |-> IF x < 0 THEN tally.leg_failure_count + 1
                                        ELSE tally.leg_failure_count]
    BY DEF compute_metrics
  <2> HIDE DEF x
  <2>3. QED  BY <2>1, <2>2
<1>2. /\ records' = records /\ i' = i + 1 /\ x \in Int
      /\ \A n \in 1 .. MaxTrades : x % n = 0
      /\ RunningSum(records)[i + 1] = RunningSum(records)[i] + x
  BY TurnIs, Zenon
<1>3. tally.total_pnl = RunningSum(records)[i] /\ tally.total_pnl \in Int
      /\ \A n \in 1 .. MaxTrades : tally.total_pnl % n = 0
  BY DEF SumInv, MetricsType
<1> HIDE DEF x
<1>4. ASSUME NEW n \in 1 .. MaxTrades PROVE tally'.total_pnl % n = 0
  <2>1. n \in Nat /\ n >= 1
    BY MetricsAssumption
  <2>2. PICK t \in Int : t = tally.total_pnl
    BY <1>3
  <2>3. t % n = 0 /\ x % n = 0
    BY <1>2, <1>3, <2>2
  <2>4. (t + x) % n = 0
    BY <1>2, <2>1, <2>3, MultiplesAdd
  <2>5. QED  BY <1>1, <2>2, <2>4
<1>5. tally'.total_pnl = RunningSum(records')[i']
  BY <1>1, <1>2, <1>3
<1>6. SumInv'
  BY <1>4, <1>5 DEF SumInv
<1>7. QED  BY <1>1, <1>2, <1>6

LEMMA WelfordKeepsExact ==
    ASSUME MetricsType, SumInv, WelfordIsExact, compute_metrics
    PROVE  WelfordIsExact' /\ welford' \in [mean : Int, M2 : Int]
<1> DEFINE x == records[i + 1]
           mu == welford.mean
           q  == Total(Deviations(records, i, 0))
           R  == RunningSum(records)
<1>1. /\ records' = records /\ i' = i + 1 /\ x \in Int /\ i \in Nat /\ i + 1 <= Len(records)
      /\ R[i] \in Int /\ R[i + 1] = R[i] + x /\ i + 1 \in 1 .. MaxTrades
  BY TurnIs, Zenon
<1>2. records \in Seq(Int) /\ mu \in Int /\ welford.M2 \in Int /\ i + 1 \in Nat /\ i <= Len(records)
      /\ 0 \in Int
  BY RecordsAreNumbers DEF MetricsType
<1>3. q \in Int
  BY <1>1, <1>2, DeviationsAre, Zenon
<1>4. mu * i = R[i] /\ tally.total_pnl = R[i]
      /\ welford.M2 = Total(Deviations(records, i, mu))
  BY SquaresAre DEF WelfordIsExact
<1>5. welford.M2 = q - i * mu * mu
  <2>1. welford.M2 = (q - 2 * mu * R[i]) + i * mu * mu
    BY <1>1, <1>2, <1>4, DeviationsSum, Zenon
  <2> HIDE DEF x, mu, q, R
  <2>2. welford.M2 = (q - 2 * mu * (mu * i)) + i * mu * mu
    BY <1>4, <2>1
  <2>3. QED  BY <1>1, <1>2, <1>3, <2>2
<1>6. PICK t \in Int : R[i] + x = (i + 1) * t
  <2>1. tally'.total_pnl % (i + 1) = 0 /\ tally'.total_pnl = R[i + 1]
    BY <1>1, SumStep DEF SumInv
  <2>2. (R[i] + x) % (i + 1) = 0 /\ R[i] + x \in Int
    BY <1>1, <2>1
  <2> HIDE DEF x, R
  <2>3. i + 1 \in Nat /\ i + 1 >= 1
    BY <1>1
  <2>4. QED  BY <2>2, <2>3, Divides, Zenon
<1>7. /\ x - mu = (i + 1) * (t - mu)
      /\ (q - i * mu * mu) + (x - mu) * (x - t) = (q + x * x) - (i + 1) * t * t
  <2>1. (i + 1) * t = i * mu + x
    BY <1>1, <1>2, <1>4, <1>6
  <2> HIDE DEF x, mu, q, R
  <2>2. i \in Nat /\ mu \in Int /\ x \in Int /\ t \in Int /\ q \in Int
    BY <1>1, <1>2, <1>3
  <2>3. QED  BY <2>1, <2>2
<1>8. (x - mu) \div (i + 1) = t - mu
  <2> HIDE DEF x, mu
  <2>1. i + 1 \in Nat /\ i + 1 >= 1 /\ t - mu \in Int
    BY <1>1, <1>2
  <2>2. ((i + 1) * (t - mu)) \div (i + 1) = t - mu
    BY <2>1, Quotient, Zenon
  <2>3. QED  BY <1>7, <2>2
<1>9. welford' = [mean |-> t, M2 |-> (q + x * x) - (i + 1) * t * t]
  <2>1. welford' = Welford(x)
    BY DEF compute_metrics
  <2>2. welford' = [mean |-> mu + (x - mu) \div (i + 1),
                    M2 |-> welford.M2 + (x - mu) * (x - (mu + (x - mu) \div (i + 1)))]
    BY <2>1 DEF Welford
  <2>3. welford' = [mean |-> mu + (t - mu),
                    M2 |-> (q - i * mu * mu) + (x - mu) * (x - (mu + (t - mu)))]
    BY <1>5, <1>8, <2>2, Zenon
  <2>4. mu + (t - mu) = t
    BY <1>2
  <2>5. QED  BY <1>7, <2>3, <2>4, Zenon
<1>10. R[i + 1] = t * (i + 1)
  <2> HIDE DEF x, R
  <2>1. QED  BY <1>1, <1>6
<1>11. Total(Deviations(records, i + 1, t)) = (q + x * x) - (i + 1) * t * t
  <2>1. Total(Deviations(records, i + 1, t))
          = (Total(Deviations(records, i + 1, 0)) - 2 * t * R[i + 1]) + (i + 1) * t * t
    BY <1>1, <1>2, DeviationsSum, Zenon
  <2>2. Total(Deviations(records, i + 1, 0)) = q + x * x
    BY <1>1, <1>2, SquaresNext, Zenon
  <2> HIDE DEF x, q, R
  <2>3. Total(Deviations(records, i + 1, t))
          = ((q + x * x) - 2 * t * (t * (i + 1))) + (i + 1) * t * t
    BY <1>10, <2>1, <2>2
  <2>4. QED  BY <1>1, <1>3, <2>3
<1>12. Squares(t)' = Deviations(records, i + 1, t)
  BY <1>1 DEF Squares, Deviations
<1>13. /\ welford'.mean = t /\ welford'.M2 = (q + x * x) - (i + 1) * t * t
       /\ (q + x * x) - (i + 1) * t * t \in Int
       /\ welford' \in [mean : Int, M2 : Int]
  <2> HIDE DEF x, q
  <2>1. (q + x * x) - (i + 1) * t * t \in Int
    BY <1>1, <1>3
  <2>2. QED  BY <1>9, <2>1
<1>14. welford'.mean * i' = RunningSum(records')[i'] /\ tally'.total_pnl = RunningSum(records')[i']
  <2>1. tally'.total_pnl = RunningSum(records')[i']
    BY SumStep DEF SumInv
  <2>2. QED  BY <1>1, <1>10, <1>13, <2>1
<1>15. welford'.M2 = Total(Squares(welford.mean)')
  <2>1. Squares(welford.mean)' = Squares(t)'
    BY <1>13 DEF Squares
  <2>2. QED  BY <1>11, <1>12, <1>13, <2>1
<1>16. QED  BY <1>13, <1>14, <1>15 DEF WelfordIsExact

LEMMA LargerIs ==
    ASSUME NEW a \in Int, NEW b \in Int, NEW f \in [amount : Int, of : Int]
    PROVE  ~Larger([amount |-> a, of |-> b], f) <=> a * f.of <= f.amount * b
<1>1. a * f.of \in Int /\ f.amount * b \in Int
  OBVIOUS
<1>2. QED  BY <1>1 DEF Larger

\* What one turn makes of peak and fall, the balance being e[n + 1] then.
LEMMA TurnKeepsPeak ==
    ASSUME MetricsType, PeakInv, DrawdownIsLargestFall, compute_metrics
    PROVE  /\ equity' \in [balance : Int, peak : Int, fall : [amount : Int, of : Int]]
           /\ PeakInv' /\ DrawdownIsLargestFall'
<1> DEFINE b == Equity(i + 1)
           peak == IF b > equity.peak THEN b ELSE equity.peak
           cand == [amount |-> peak - b, of |-> peak]
           fall == IF Larger(cand, equity.fall) THEN cand ELSE equity.fall
<1>1. /\ i' = i + 1 /\ i \in Nat /\ i + 1 \in 1 .. Len(records)
      /\ \A k : Equity(k)' = Equity(k)
  BY TurnIs, Zenon
<1>2. \A k \in 0 .. i + 1 : Equity(k) \in Int
  <2>1. \A k \in 0 .. i + 1 : k \in 0 .. Len(records)
    BY <1>1, RecordsAreNumbers
  <2>2. QED  BY <2>1, RecordsAreNumbers
<1>3. b \in Int /\ equity.peak \in Int /\ equity.fall \in [amount : Int, of : Int]
      /\ equity.fall.of > 0 /\ equity.fall.amount >= 0
  BY <1>1, <1>2 DEF MetricsType, PeakInv
<1>4. equity' = [balance |-> b, peak |-> peak, fall |-> fall]
  <2>1. equity.balance + records[i + 1] = b
    <3>1. RunningSum(records)[i + 1] = RunningSum(records)[i] + records[i + 1]
          /\ RunningSum(records)[i] \in Int /\ records[i + 1] \in Int
      BY TurnIs, Zenon
    <3>2. equity.balance = initial_balance + RunningSum(records)[i] /\ initial_balance \in Int
      BY MetricsAssumption DEF PeakInv, Equity
    <3>3. QED  BY <3>1, <3>2 DEF Equity
  <2>2. equity' = Drawdown(records[i + 1])
    BY DEF compute_metrics
  <2>3. QED  BY <2>1, <2>2 DEF Drawdown
<1>5. /\ peak \in Int /\ b <= peak /\ equity.peak <= peak
      /\ peak = b \/ peak = equity.peak
  BY <1>3
<1>6. ASSUME NEW j \in 0 .. i + 1 PROVE j = i + 1 \/ j \in 0 .. i
  BY <1>1
<1>7. /\ \A j \in 0 .. i + 1 : Equity(j) <= peak
      /\ \E j \in 0 .. i + 1 : peak = Equity(j)
      /\ peak > 0
  <2>1. \A j \in 0 .. i : Equity(j) <= equity.peak
    BY DEF PeakInv
  <2>2. PICK j \in 0 .. i : equity.peak = Equity(j)
    BY DEF PeakInv
  <2>3. 0 \in 0 .. i /\ j \in 0 .. i + 1 /\ i + 1 \in 0 .. i + 1
    BY <1>1
  <2>4. Equity(0) > 0 /\ Equity(0) \in Int
    BY RecordsAreNumbers, MetricsAssumption
  <2> HIDE DEF b, peak
  <2>5. \A k \in 0 .. i + 1 : Equity(k) <= peak
    <3>1. SUFFICES ASSUME NEW k \in 0 .. i + 1 PROVE Equity(k) <= peak
      OBVIOUS
    <3>2. CASE k = i + 1
      BY <1>5, <3>2 DEF b
    <3>3. CASE k \in 0 .. i
      BY <1>2, <1>3, <1>5, <2>1, <3>3
    <3>4. QED  BY <1>6, <3>2, <3>3
  <2>6. \E k \in 0 .. i + 1 : peak = Equity(k)
    BY <1>5, <2>2, <2>3, Zenon DEF b
  <2>7. peak > 0
    BY <1>3, <1>5, <2>1, <2>3, <2>4
  <2>8. QED  BY <2>5, <2>6, <2>7
<1>8. /\ fall \in [amount : Int, of : Int] /\ fall.of > 0 /\ fall.amount >= 0
      /\ fall = cand \/ fall = equity.fall
  <2>1. cand \in [amount : Int, of : Int] /\ cand.of > 0 /\ cand.amount >= 0
    BY <1>3, <1>5, <1>7
  <2> HIDE DEF cand
  <2>2. QED  BY <1>3, <2>1
\* The new fall is no smaller than either of the two.
<1>9. /\ (peak - b) * fall.of <= fall.amount * peak
      /\ equity.fall.amount * fall.of <= fall.amount * equity.fall.of
  <2>1. PICK a \in Int, d \in Int, g \in Int, h \in Int :
            /\ a = peak - b /\ d = peak /\ g = equity.fall.amount /\ h = equity.fall.of
    BY <1>3, <1>5
  <2>2. Larger(cand, equity.fall) <=> a * h > g * d
    BY <2>1 DEF Larger
  <2>3. CASE Larger(cand, equity.fall)
    <3>1. fall.amount = a /\ fall.of = d
      BY <2>1, <2>3
    <3> HIDE DEF fall, cand, peak, b
    <3>2. a * d <= a * d /\ g * d <= a * h
      BY <2>2, <2>3
    <3>3. QED  BY <2>1, <3>1, <3>2
  <2>4. CASE ~Larger(cand, equity.fall)
    <3>1. fall.amount = g /\ fall.of = h
      BY <2>1, <2>4
    <3> HIDE DEF fall, cand, peak, b
    <3>2. a * h <= g * d /\ g * h <= g * h
      BY <2>2, <2>4
    <3>3. QED  BY <2>1, <3>1, <3>2
  <2>5. QED  BY <2>3, <2>4
<1>10. PeakInv'
  <2>1. equity'.balance = b /\ equity'.peak = peak /\ equity'.fall = fall
    BY <1>4
  <2> HIDE DEF b, peak, fall, cand
  <2>2. equity'.balance = Equity(i)'
    BY <1>1, <2>1 DEF b, Equity
  <2>3. (\A j \in 0 .. i : Equity(j) <= equity.peak)' /\ (\E j \in 0 .. i : equity.peak = Equity(j))'
    BY <1>1, <1>7, <2>1
  <2>4. QED  BY <1>8, <2>1, <2>2, <2>3 DEF PeakInv
<1>11. ASSUME NEW k \in 0 .. i + 1, NEW j \in 0 .. k, PeakAt(j, k)
       PROVE  (Equity(j) - Equity(k)) * fall.of <= fall.amount * Equity(j)
  <2>1. j \in 0 .. i + 1 /\ Equity(j) \in Int /\ Equity(k) \in Int /\ Equity(j) > 0
    <3>1. j \in 0 .. i + 1 /\ 0 \in 0 .. k
      BY <1>1
    <3>2. Equity(0) <= Equity(j) /\ Equity(0) > 0 /\ Equity(0) \in Int
      BY <1>11, <3>1, RecordsAreNumbers, MetricsAssumption DEF PeakAt
    <3>3. QED  BY <1>2, <3>1, <3>2
  <2>2. PICK e \in Int, d \in Int : e = Equity(j) /\ d = Equity(k)
    BY <2>1
  <2>3. PICK a \in Int, f \in Int : a = fall.amount /\ f = fall.of /\ f > 0
    BY <1>8
  <2>4. CASE k = i + 1
    <3>1. d = b /\ e <= peak
      BY <1>7, <2>1, <2>2, <2>4
    <3> HIDE DEF b, peak, fall, cand
    <3>2. peak <= e
      <4>1. PICK m \in 0 .. i + 1 : peak = Equity(m)
        BY <1>7
      <4>2. Equity(m) <= Equity(j)
        BY <1>11, <2>4 DEF PeakAt
      <4>3. QED  BY <2>2, <4>1, <4>2
    <3>3. e = peak
      BY <1>5, <3>1, <3>2
    <3>4. QED  BY <1>9, <2>2, <3>1, <3>3
  <2>5. CASE k # i + 1
    <3>1. k \in 0 .. i
      BY <1>1, <2>5
    <3>2. ~Larger(FallBetween(j, k), equity.fall)
      BY <1>11, <3>1 DEF DrawdownIsLargestFall
    <3>3. FallBetween(j, k) = [amount |-> e - d, of |-> e]
      BY <2>2 DEF FallBetween
    <3> HIDE DEF b, peak, fall, cand
    <3>4. PICK g \in Int, h \in Int : g = equity.fall.amount /\ h = equity.fall.of /\ h > 0
      BY <1>3
    <3>5. (e - d) * h <= g * e
      <4>1. e - d \in Int
        OBVIOUS
      <4>2. QED  BY <1>3, <3>2, <3>3, <3>4, <4>1, LargerIs
    <3>6. g * f <= a * h
      BY <1>9, <2>3, <3>4
    <3>7. (e - d) * f <= a * e
      <4>1. e - d \in Int /\ e > 0
        BY <2>1, <2>2
      <4>2. PICK y \in Int : y = e - d
        BY <4>1
      <4>3. y * h <= g * e /\ g * f <= a * h /\ e > 0 /\ h > 0 /\ f > 0
        BY <2>3, <3>4, <3>5, <3>6, <4>1, <4>2
      <4>4. y * f <= a * e
        BY <4>3, Ordered
      <4>5. QED  BY <4>2, <4>4
    <3>8. QED  BY <2>2, <2>3, <3>7
  <2>6. QED  BY <2>4, <2>5
<1>12. fall.amount > 0 =>
         \E k \in 0 .. i + 1 : \E j \in 0 .. k : PeakAt(j, k) /\ fall = FallBetween(j, k)
  <2>1. CASE fall = cand
    <3>1. PICK j \in 0 .. i + 1 : peak = Equity(j)
      BY <1>7
    <3>2. i + 1 \in 0 .. i + 1
      BY <1>1
    <3>3. fall = FallBetween(j, i + 1)
      BY <2>1, <3>1, Zenon DEF FallBetween
    <3>4. PeakAt(j, i + 1)
      <4> HIDE DEF b, peak, fall, cand
      <4>1. QED  BY <1>7, <3>1 DEF PeakAt
    <3>5. QED  BY <3>2, <3>3, <3>4
  <2>2. CASE fall = equity.fall
    <3> HIDE DEF b, peak, fall, cand
    <3>1. SUFFICES ASSUME fall.amount > 0
                   PROVE  \E k \in 0 .. i + 1 : \E j \in 0 .. k :
                            PeakAt(j, k) /\ fall = FallBetween(j, k)
      OBVIOUS
    <3>2. PICK k \in 0 .. i : \E j \in 0 .. k : PeakAt(j, k) /\ equity.fall = FallBetween(j, k)
      BY <2>2, <3>1 DEF DrawdownIsLargestFall
    <3>3. k \in 0 .. i + 1
      BY <1>1
    <3>4. QED  BY <2>2, <3>2, <3>3
  <2>3. QED  BY <1>8, <2>1, <2>2
<1>13. DrawdownIsLargestFall'
  <2>1. equity'.fall = fall
    BY <1>4
  <2> HIDE DEF b, peak, fall, cand
  <2>2. \A j, k : FallBetween(j, k)' = FallBetween(j, k) /\ (PeakAt(j, k)' <=> PeakAt(j, k))
    BY <1>1 DEF FallBetween, PeakAt
  <2>3. ASSUME NEW k \in 0 .. i + 1, NEW j \in 0 .. k, PeakAt(j, k)
        PROVE  ~Larger(FallBetween(j, k), fall)
    <3>1. Equity(j) \in Int /\ Equity(j) - Equity(k) \in Int
      <4>1. j \in 0 .. i + 1
        BY <1>1
      <4>2. QED  BY <1>2, <4>1
    <3>2. (Equity(j) - Equity(k)) * fall.of <= fall.amount * Equity(j)
      BY <1>11, <2>3
    <3>3. QED  BY <1>8, <3>1, <3>2, LargerIs DEF FallBetween
  <2>4. (\A k \in 0 .. i : \A j \in 0 .. k :
           PeakAt(j, k) => ~Larger(FallBetween(j, k), equity.fall))'
    BY <1>1, <2>1, <2>2, <2>3 DEF Larger
  <2>5. (equity.fall.amount > 0 =>
           \E k \in 0 .. i : \E j \in 0 .. k :
             PeakAt(j, k) /\ equity.fall = FallBetween(j, k))'
    BY <1>1, <1>12, <2>1, <2>2
  <2>6. QED  BY <2>4, <2>5 DEF DrawdownIsLargestFall
<1>14. equity' \in [balance : Int, peak : Int, fall : [amount : Int, of : Int]]
  BY <1>3, <1>4, <1>5, <1>8
<1>15. QED  BY <1>10, <1>13, <1>14

LEMMA MetricsStart ==
    ASSUME Init
    PROVE  MetricsInv
<1> USE DEF Init
<1>1. MetricsType
  BY MetricsAssumption DEF MetricsType
<1>2. /\ RunningSum(records)[0] = 0 /\ Equity(0) = initial_balance
      /\ initial_balance \in Nat /\ initial_balance > 0 /\ MaxTrades \in Nat
  BY <1>1, RecordsAreNumbers, MetricsAssumption
<1>3. SumInv
  BY <1>2 DEF SumInv
<1>4. \A j \in 0 .. i : j = 0
  OBVIOUS
<1>5. PeakInv
  BY <1>2, <1>4 DEF PeakInv
<1>6. DrawdownIsLargestFall
  <2>1. ASSUME NEW k \in 0 .. i, NEW j \in 0 .. k
        PROVE  ~Larger(FallBetween(j, k), equity.fall)
    <3>1. j = 0 /\ k = 0
      BY <2>1
    <3>2. FallBetween(j, k) = [amount |-> 0, of |-> initial_balance]
      BY <1>2, <3>1 DEF FallBetween
    <3>3. QED  BY <1>2, <3>2 DEF Larger
  <2>2. QED  BY <2>1 DEF DrawdownIsLargestFall
<1>7. WelfordIsExact
  <2>1. Squares(0) \in Seq(Int) /\ Len(Squares(0)) = 0
    BY DEF Squares
  <2>2. Total(Squares(0)) = 0
    BY <2>1, RunningSumIs DEF Total
  <2>3. QED  BY <1>2, <2>2 DEF WelfordIsExact
<1>8. QED  BY <1>1, <1>3, <1>5, <1>6, <1>7 DEF MetricsInv

LEMMA MetricsStep ==
    ASSUME MetricsInv, [Next]_vars
    PROVE  MetricsInv'
<1>1. ASSUME NEW pnl \in Pnls, Trade(pnl) PROVE MetricsInv'
  <2>1. /\ i = 0 /\ records' = Append(records, pnl) /\ Len(records) < MaxTrades
        /\ i' = i /\ tally' = tally /\ equity' = equity /\ welford' = welford
    BY <1>1 DEF Trade
  <2>2. MetricsType'
    <3>1. records \in Seq(Pnls) /\ Len(records) \in Nat /\ MaxTrades \in Nat
      BY MetricsAssumption DEF MetricsInv, MetricsType
    <3>2. records' \in Seq(Pnls) /\ Len(records') = Len(records) + 1
      BY <2>1, <3>1, AppendProperties
    <3>3. QED  BY <2>1, <3>1, <3>2 DEF MetricsInv, MetricsType
  <2>3. RunningSum(records')[0] = 0 /\ RunningSum(records)[0] = 0
    <3>1. records \in Seq(Int) /\ \A p \in Pnls : p \in Int
      BY RecordsAreNumbers, MetricsAssumption DEF MetricsInv
    <3>2. records' \in Seq(Int)
      BY <2>1, <3>1, AppendProperties
    <3>3. QED  BY <3>1, <3>2, RunningSumIs
  <2>4. \A k \in 0 .. i : k = 0 /\ Equity(k)' = Equity(k)
    BY <2>1, <2>3 DEF Equity
  <2>5. SumInv'
    BY <2>1, <2>3 DEF MetricsInv, SumInv
  <2>6. PeakInv'
    BY <2>1, <2>4 DEF MetricsInv, PeakInv
  <2>7. DrawdownIsLargestFall'
    <3>1. DrawdownIsLargestFall
      BY DEF MetricsInv
    <3>2. \A k \in 0 .. i : \A j \in 0 .. k : j = 0 /\ k = 0
      BY <2>1
    <3>3. /\ FallBetween(0, 0)' = FallBetween(0, 0)
          /\ PeakAt(0, 0)' <=> PeakAt(0, 0)
      BY <2>1, <2>4 DEF FallBetween, PeakAt
    <3>4. /\ ~PeakAt(0, 0)' \/ ~Larger(FallBetween(0, 0)', equity.fall)
          /\ equity.fall.amount > 0 =>
               PeakAt(0, 0)' /\ equity.fall = FallBetween(0, 0)'
      BY <2>1, <3>1, <3>2, <3>3 DEF DrawdownIsLargestFall
    <3>5. (\A k \in 0 .. i : \A j \in 0 .. k :
             PeakAt(j, k) => ~Larger(FallBetween(j, k), equity.fall))'
      BY <2>1, <3>2, <3>4 DEF Larger
    <3>6. (equity.fall.amount > 0 =>
             \E k \in 0 .. i : \E j \in 0 .. k :
               PeakAt(j, k) /\ equity.fall = FallBetween(j, k))'
      BY <2>1, <3>4
    <3>7. QED  BY <3>5, <3>6 DEF DrawdownIsLargestFall
  <2>8. WelfordIsExact'
    <3>1. Squares(welford.mean)' = Squares(welford.mean)
      BY <2>1 DEF Squares
    <3>2. QED  BY <2>1, <2>3, <3>1 DEF MetricsInv, WelfordIsExact
  <2>9. QED  BY <2>2, <2>5, <2>6, <2>7, <2>8 DEF MetricsInv
<1>2. CASE compute_metrics
  <2>1. MetricsType /\ SumInv /\ PeakInv /\ DrawdownIsLargestFall /\ WelfordIsExact
    BY DEF MetricsInv
  <2>2. /\ SumInv' /\ PeakInv' /\ DrawdownIsLargestFall' /\ WelfordIsExact'
        /\ tally' \in [total_pnl : Int, wins : Nat, leg_failure_count : Nat]
        /\ equity' \in [balance : Int, peak : Int, fall : [amount : Int, of : Int]]
        /\ welford' \in [mean : Int, M2 : Int]
    BY <1>2, <2>1, SumStep, TurnKeepsPeak, WelfordKeepsExact
  <2>3. records' = records /\ i' \in Nat /\ i' <= Len(records)
    BY <1>2, <2>1, TurnIs
  <2>4. MetricsType'
    BY <2>1, <2>2, <2>3 DEF MetricsType
  <2>5. QED  BY <2>2, <2>4 DEF MetricsInv
<1>3. CASE UNCHANGED vars
  <2>1. /\ records' = records /\ i' = i /\ tally' = tally /\ equity' = equity
        /\ welford' = welford
    BY <1>3 DEF vars
  <2>2. MetricsType' /\ SumInv'
    BY <2>1 DEF MetricsInv, MetricsType, SumInv
  <2>3. PeakInv' /\ WelfordIsExact'
    BY <2>1 DEF MetricsInv, PeakInv, WelfordIsExact, Equity, Squares
  <2>4. DrawdownIsLargestFall'
    <3>1. \A j, k : FallBetween(j, k)' = FallBetween(j, k) /\ (PeakAt(j, k)' <=> PeakAt(j, k))
      BY <2>1 DEF FallBetween, PeakAt, Equity
    <3>2. QED  BY <2>1, <3>1 DEF MetricsInv, DrawdownIsLargestFall
  <2>5. QED  BY <2>2, <2>3, <2>4 DEF MetricsInv
<1>4. QED  BY <1>1, <1>2, <1>3 DEF Next

LEMMA MetricsInvariant ==
    Spec => []MetricsInv
<1>1. Init => MetricsInv
  BY MetricsStart
<1>2. MetricsInv /\ [Next]_vars => MetricsInv'
  BY MetricsStep
<1>3. QED  BY <1>1, <1>2, PTL DEF Spec

\* After every turn the drawdown of the one pass is the largest fall, as a share of
\* the peak it starts from, from a peak of the session to any later moment of it
\* (metrics.cpp:41-44), for any session and any number of trades.
THEOREM DrawdownFound ==
    Spec => []DrawdownIsLargestFall
<1>1. MetricsInv => DrawdownIsLargestFall
  BY DEF MetricsInv
<1>2. QED  BY <1>1, MetricsInvariant, PTL

\* After every turn the running mean and sum of squared deviations are those of
\* the definition, taken of all records so far together (metrics.cpp:46-50).
THEOREM WelfordCorrect ==
    Spec => []WelfordIsExact
<1>1. MetricsInv => WelfordIsExact
  BY DEF MetricsInv
<1>2. QED  BY <1>1, MetricsInvariant, PTL
-----------------------------------------------------------------------------
(* LatencyStats: buckets.                                                  *)

LEMMA BoundsGrow ==
           /\ N_BUCKETS \in Nat /\ N_BUCKETS >= 1 /\ N_BUCKETS \in Buckets /\ Buckets \subseteq Nat
           /\ UINT64_MAX \in Nat /\ MaxSamples \in Nat
           /\ \A ns \in Samples : ns \in Nat /\ ns <= UINT64_MAX /\ ns * MaxSamples <= UINT64_MAX
           /\ \A b \in Buckets : b < N_BUCKETS => BOUNDS[b] \in Nat
           /\ \A b, c \in Buckets : b < c /\ c < N_BUCKETS => BOUNDS[b] < BOUNDS[c]
<1>1. BOUNDS \in Seq(Nat) /\ \A b, c \in DOMAIN BOUNDS : b < c => BOUNDS[b] < BOUNDS[c]
  BY LatencyAssumption
<1>2. Len(BOUNDS) \in Nat /\ DOMAIN BOUNDS = 1 .. Len(BOUNDS)
      /\ \A b \in 1 .. Len(BOUNDS) : BOUNDS[b] \in Nat
  BY <1>1
<1>3. N_BUCKETS = Len(BOUNDS) + 1 /\ Buckets = 1 .. Len(BOUNDS) + 1
  BY DEF N_BUCKETS, Buckets
<1>4. \A b \in Buckets : b < N_BUCKETS => b \in 1 .. Len(BOUNDS)
  BY <1>2, <1>3
<1>5. QED  BY <1>1, <1>2, <1>3, <1>4, LatencyAssumption

\* A latency lies in one bucket, the one that record() counts it in.
LEMMA BucketIs ==
    ASSUME NEW ns \in Nat
    PROVE  /\ Bucket(ns) \in Buckets
           /\ \A b \in Buckets : InBucket(ns, b) <=> b = Bucket(ns)
<1> DEFINE B == Bucket(ns)
           S == {b \in Buckets : b < N_BUCKETS => ns < BOUNDS[b]}
<1>0. /\ N_BUCKETS \in Nat /\ N_BUCKETS >= 1 /\ Buckets = 1 .. N_BUCKETS
      /\ \A b \in Buckets : b \in Nat /\ (b < N_BUCKETS => BOUNDS[b] \in Nat)
  BY BoundsGrow DEF Buckets
<1>1. S \subseteq Nat /\ N_BUCKETS \in S
  BY <1>0
<1>2. B \in S /\ \A c \in S : B <= c
  BY <1>1, LeastIsMin DEF Bucket
<1> HIDE DEF B
<1>3. B \in Buckets /\ B \in Nat /\ B >= 1 /\ B <= N_BUCKETS
  BY <1>0, <1>2
<1>4. InBucket(ns, B)
  <2>1. ASSUME B > 1 PROVE BOUNDS[B - 1] <= ns
    <3>1. B - 1 \in Buckets /\ B - 1 < N_BUCKETS
      BY <1>0, <1>3, <2>1
    <3>2. B - 1 \notin S
      <4>1. B - 1 \in S => B <= B - 1
        BY <1>2, Zenon
      <4>2. QED  BY <1>3, <4>1
    <3>3. QED  BY <1>0, <3>1, <3>2
  <2>2. QED  BY <1>2, <2>1 DEF InBucket
<1>5. ASSUME NEW b \in Buckets, InBucket(ns, b), b # B PROVE FALSE
  <2>1. b \in S
    BY <1>5 DEF InBucket
  <2>2. B < b /\ b \in Nat /\ b <= N_BUCKETS
    BY <1>0, <1>2, <1>3, <1>5, <2>1
  <2>3. BOUNDS[b - 1] <= ns
    BY <1>3, <1>5, <2>2 DEF InBucket
  <2>4. ns < BOUNDS[B] /\ B < N_BUCKETS
    BY <1>0, <1>2, <1>3, <2>2
  <2>5. b - 1 \in Buckets /\ b - 1 < N_BUCKETS /\ B <= b - 1
    BY <1>0, <1>3, <2>2
  <2>6. BOUNDS[B] <= BOUNDS[b - 1] /\ BOUNDS[B] \in Nat /\ BOUNDS[b - 1] \in Nat
    <3>1. CASE B = b - 1
      BY <1>3, <2>4, <3>1, BoundsGrow
    <3>2. CASE B # b - 1
      <4>1. B < b - 1
        BY <1>3, <2>2, <2>5, <3>2
      <4>2. QED  BY <1>3, <2>4, <2>5, <4>1, BoundsGrow
    <3>3. QED  BY <3>1, <3>2
  <2>7. QED  BY <2>3, <2>4, <2>6
<1>6. QED  BY <1>3, <1>4, <1>5 DEF B
-----------------------------------------------------------------------------
(* LatencyStats: counting.                                                 *)

\* How often each latency was measured.
Tally == [Samples -> 0 .. MaxSamples]

LEMMA TakenIsFinite ==
    ASSUME NEW S, S \subseteq Samples
    PROVE  IsFiniteSet(Taken(S)) /\ Count(S) \in Nat
<1>1. IsFiniteSet(0 .. UINT64_MAX) /\ IsFiniteSet(1 .. MaxSamples)
  BY FS_Interval, BoundsGrow
<1>2. IsFiniteSet(S)
  BY <1>1, FS_Subset, LatencyAssumption
<1>3. IsFiniteSet(S \X (1 .. MaxSamples))
  BY <1>1, <1>2, FS_Product
<1>4. IsFiniteSet(Taken(S))
  BY <1>3, FS_Subset DEF Taken
<1>5. QED  BY <1>4, FS_CardinalityType DEF Count

LEMMA CountMonotone ==
    ASSUME NEW S, NEW T, T \subseteq Samples, S \subseteq T
    PROVE  Count(S) <= Count(T)
<1>1. Taken(S) \subseteq Taken(T) /\ IsFiniteSet(Taken(T))
  BY TakenIsFinite DEF Taken
<1>2. QED  BY <1>1, FS_Subset DEF Count

LEMMA CountUnion ==
    ASSUME NEW S, NEW T, S \subseteq Samples, T \subseteq Samples, S \cap T = {}
    PROVE  Count(S \cup T) = Count(S) + Count(T)
<1>1. Taken(S \cup T) = Taken(S) \cup Taken(T) /\ Taken(S) \cap Taken(T) = {}
  BY DEF Taken
<1>2. IsFiniteSet(Taken(S)) /\ IsFiniteSet(Taken(T))
  BY TakenIsFinite
<1>3. Cardinality({}) = 0
  BY FS_EmptySet
<1>4. Cardinality(Taken(S)) \in Nat /\ Cardinality(Taken(T)) \in Nat
  BY <1>2, FS_CardinalityType
<1>5. Cardinality(Taken(S) \cup Taken(T))
        = Cardinality(Taken(S)) + Cardinality(Taken(T)) - Cardinality(Taken(S) \cap Taken(T))
  BY <1>2, FS_Union, Zenon
<1>6. PICK n \in Nat, m \in Nat : n = Cardinality(Taken(S)) /\ m = Cardinality(Taken(T))
  BY <1>4
<1>7. Cardinality(Taken(S) \cup Taken(T)) = n + m - 0
  BY <1>1, <1>3, <1>5, <1>6, Zenon
<1>8. n + m - 0 = n + m
  OBVIOUS
<1>9. QED  BY <1>1, <1>6, <1>7, <1>8, Zenon DEF Count

LEMMA CountEmpty ==
    Count({}) = 0
<1>1. Taken({}) = {}
  BY DEF Taken
<1>2. QED  BY <1>1, FS_EmptySet DEF Count

\* A measurement adds one to the sets it lies in.
LEMMA CountNext ==
    ASSUME samples \in Tally, NEW ns \in Samples, samples[ns] < MaxSamples,
           samples' = [samples EXCEPT ![ns] = @ + 1], NEW S, S \subseteq Samples
    PROVE  /\ Taken(S)' = IF ns \in S THEN Taken(S) \cup {<<ns, samples[ns] + 1>>} ELSE Taken(S)
           /\ <<ns, samples[ns] + 1>> \notin Taken(S)
           /\ Cardinality(Taken(S)') = IF ns \in S THEN Count(S) + 1 ELSE Count(S)
<1> DEFINE k == samples[ns] + 1
<1>1. k \in 1 .. MaxSamples /\ samples[ns] \in Nat
  BY BoundsGrow DEF Tally
<1>2. /\ samples'[ns] = k
      /\ \A x \in Samples : x # ns => samples'[x] = samples[x]
      /\ \A x \in Samples : samples[x] \in Nat
  BY BoundsGrow DEF Tally
<1>3. <<ns, k>> \notin Taken(S)
  BY <1>1 DEF Taken
<1>4. \A s : s \in Taken(S)' <=> s \in Taken(S) \/ (ns \in S /\ s = <<ns, k>>)
  <2>1. SUFFICES ASSUME NEW x \in S, NEW l \in 1 .. MaxSamples
                 PROVE  l <= samples'[x] <=> l <= samples[x] \/ (x = ns /\ l = k)
    BY <1>1 DEF Taken
  <2>2. QED  BY <1>1, <1>2
<1>5. Taken(S)' = IF ns \in S THEN Taken(S) \cup {<<ns, k>>} ELSE Taken(S)
  BY <1>4
<1>6. IsFiniteSet(Taken(S))
  BY TakenIsFinite
<1>7. Cardinality(Taken(S)') = IF ns \in S THEN Count(S) + 1 ELSE Count(S)
  BY <1>3, <1>5, <1>6, FS_AddElement DEF Count
<1>8. QED  BY <1>3, <1>5, <1>7

\* The nanoseconds the samples in S are made of.
Nanoseconds(S) == UNION {{s} \X (1 .. s[1]) : s \in Taken(S)}

LEMMA SumIsNat ==
    IsFiniteSet(Nanoseconds(Samples)) /\ SumOf(Samples) \in Nat
<1>1. IsFiniteSet(1 .. UINT64_MAX) /\ IsFiniteSet(Taken(Samples))
  BY FS_Interval, BoundsGrow, TakenIsFinite
<1>2. IsFiniteSet(Taken(Samples) \X (1 .. UINT64_MAX))
  BY <1>1, FS_Product
<1>3. ASSUME NEW s \in Taken(Samples) PROVE {s} \X (1 .. s[1]) \subseteq Taken(Samples) \X (1 .. UINT64_MAX)
  <2>1. s[1] \in Nat /\ s[1] <= UINT64_MAX
    BY <1>3, BoundsGrow DEF Taken
  <2>2. 1 .. s[1] \subseteq 1 .. UINT64_MAX
    BY <2>1, BoundsGrow
  <2>3. QED  BY <1>3, <2>2
<1>4. Nanoseconds(Samples) \subseteq Taken(Samples) \X (1 .. UINT64_MAX)
  BY <1>3, Zenon DEF Nanoseconds
<1>5. IsFiniteSet(Nanoseconds(Samples))
  BY <1>2, <1>4, FS_Subset
<1>6. QED  BY <1>5, FS_CardinalityType DEF SumOf, Nanoseconds

LEMMA SumNext ==
    ASSUME samples \in Tally, NEW ns \in Samples, samples[ns] < MaxSamples,
           samples' = [samples EXCEPT ![ns] = @ + 1]
    PROVE  SumOf(Samples)' = SumOf(Samples) + ns
<1> DEFINE e == <<ns, samples[ns] + 1>>
           P == Nanoseconds(Samples)
           Q == {e} \X (1 .. ns)
<1>1. Taken(Samples)' = Taken(Samples) \cup {e} /\ e \notin Taken(Samples) /\ e[1] = ns
  BY CountNext
<1>2. Nanoseconds(Samples)' = P \cup Q
  <2> HIDE DEF e
  <2>1. ASSUME NEW T
        PROVE  (UNION {{s} \X (1 .. s[1]) : s \in T \cup {e}})
                 = (UNION {{s} \X (1 .. s[1]) : s \in T}) \cup ({e} \X (1 .. e[1]))
    OBVIOUS
  <2>2. QED  BY <1>1, <2>1 DEF Nanoseconds
<1>3. P \cap Q = {}
  <2>1. \A x \in P : x[1] \in Taken(Samples)
    BY DEF Nanoseconds
  <2> HIDE DEF e, P
  <2>2. \A x \in Q : x[1] = e
    OBVIOUS
  <2>3. QED  BY <1>1, <2>1, <2>2
<1>4. ns \in Nat
  BY BoundsGrow
<1>5. IsFiniteSet(Q) /\ Cardinality(Q) = ns
  <2> HIDE DEF e
  <2>1. IsFiniteSet({e}) /\ Cardinality({e}) = 1
    BY FS_Singleton
  <2>2. IsFiniteSet(1 .. ns) /\ Cardinality(1 .. ns) = ns
    BY <1>4, FS_Interval
  <2>3. /\ IsFiniteSet({e} \X (1 .. ns))
        /\ Cardinality({e} \X (1 .. ns)) = Cardinality({e}) * Cardinality(1 .. ns)
    BY <2>1, <2>2, FS_Product, Zenon
  <2>4. 1 * ns = ns
    BY <1>4
  <2>5. QED  BY <2>1, <2>2, <2>3, <2>4, Zenon
<1>6. IsFiniteSet(P) /\ Cardinality(P) \in Nat /\ Cardinality(P) = SumOf(Samples)
  BY SumIsNat DEF SumOf, Nanoseconds
<1>7. Cardinality(P \cup Q) = SumOf(Samples) + ns
  <2> HIDE DEF P, Q
  <2>1. Cardinality(P \cup Q) = Cardinality(P) + Cardinality(Q) - Cardinality(P \cap Q)
    BY <1>5, <1>6, FS_Union, Zenon
  <2>2. Cardinality(P \cap Q) = 0
    BY <1>3, FS_EmptySet
  <2>3. Cardinality(P \cup Q) = SumOf(Samples) + ns - 0
    BY <1>5, <1>6, <2>1, <2>2, Zenon
  <2>4. SumOf(Samples) + ns - 0 = SumOf(Samples) + ns
    BY <1>4, <1>6
  <2>5. QED  BY <2>3, <2>4, Zenon
<1>8. SumOf(Samples)' = Cardinality(Nanoseconds(Samples)')
  BY DEF SumOf, Nanoseconds
<1>9. QED  BY <1>2, <1>7, <1>8, Zenon
-----------------------------------------------------------------------------
(* LatencyStats: what record() keeps up.                                   *)

LatencyType ==
    /\ stats \in [min_ns : 0 .. UINT64_MAX, max_ns : 0 .. UINT64_MAX,
                  sum_ns : 0 .. UINT64_MAX, count : 0 .. MaxSamples,
                  buckets : [Buckets -> Nat]]
    /\ samples \in Tally

\* The sum stays within its type because the average is at most the largest;
\* the first sample becomes both extremes.
ExtremeInv ==
    /\ \A ns \in Samples : samples[ns] <= stats.count
    /\ stats.sum_ns <= stats.count * stats.max_ns
    /\ Seen = {} => stats.min_ns = UINT64_MAX /\ stats.max_ns = 0

LatencyInv == LatencyType /\ ExtremeInv /\ StatsMatchSamples

LEMMA LatencyStart ==
    ASSUME LatencyInit
    PROVE  LatencyInv
<1> USE DEF LatencyInit
<1>1. LatencyType
  BY BoundsGrow DEF LatencyType, Tally
<1>2. Seen = {}
  BY DEF Seen
<1>3. ExtremeInv
  BY <1>2, BoundsGrow DEF ExtremeInv
<1>4. \A S : S \subseteq Samples => Taken(S) = {}
  BY DEF Taken
<1>5. \A S : S \subseteq Samples => Count(S) = 0
  BY <1>4, FS_EmptySet DEF Count
<1>6. SumOf(Samples) = 0
  <2>1. UNION {{s} \X (1 .. s[1]) : s \in Taken(Samples)} = {}
    BY <1>4
  <2>2. QED  BY <2>1, FS_EmptySet DEF SumOf
<1>7. StatsMatchSamples
  BY <1>2, <1>5, <1>6 DEF StatsMatchSamples
<1>8. QED  BY <1>1, <1>3, <1>7 DEF LatencyInv

LEMMA RecordStep ==
    ASSUME LatencyInv, NEW ns \in Samples, record(ns)
    PROVE  LatencyInv'
<1>0. LatencyType /\ ExtremeInv /\ StatsMatchSamples
  BY DEF LatencyInv
<1>1. /\ stats.count \in 0 .. MaxSamples /\ stats.sum_ns \in 0 .. UINT64_MAX
      /\ stats.min_ns \in 0 .. UINT64_MAX /\ stats.max_ns \in 0 .. UINT64_MAX
      /\ stats.buckets \in [Buckets -> Nat] /\ samples \in Tally
  BY <1>0 DEF LatencyType
<1>2. /\ stats.count < MaxSamples
      /\ stats'.min_ns = IF ns < stats.min_ns THEN ns ELSE stats.min_ns
      /\ stats'.max_ns = IF ns > stats.max_ns THEN ns ELSE stats.max_ns
      /\ stats'.sum_ns = (stats.sum_ns + ns) % (UINT64_MAX + 1)
      /\ stats'.count = stats.count + 1
      /\ stats'.buckets = [stats.buckets EXCEPT ![Bucket(ns)] = @ + 1]
      /\ stats' = [min_ns |-> stats'.min_ns, max_ns |-> stats'.max_ns,
                   sum_ns |-> stats'.sum_ns, count |-> stats'.count,
                   buckets |-> stats'.buckets]
      /\ samples' = [samples EXCEPT ![ns] = @ + 1]
  BY DEF record
<1>3. /\ ns \in Nat /\ ns <= UINT64_MAX /\ ns * MaxSamples <= UINT64_MAX
      /\ UINT64_MAX \in Nat /\ MaxSamples \in Nat
  BY BoundsGrow
<1>4. samples[ns] <= stats.count /\ samples[ns] \in Nat /\ samples[ns] < MaxSamples
  BY <1>0, <1>1, <1>2, <1>3 DEF ExtremeInv, Tally
<1>5. /\ samples' \in Tally /\ samples'[ns] = samples[ns] + 1
      /\ \A x \in Samples : x # ns => samples'[x] = samples[x]
  BY <1>1, <1>2, <1>3, <1>4 DEF Tally
<1>6. Seen' = Seen \cup {ns}
  BY <1>1, <1>4, <1>5 DEF Seen, Tally
<1>7. /\ stats'.min_ns \in 0 .. UINT64_MAX /\ stats'.max_ns \in 0 .. UINT64_MAX
      /\ stats'.count \in 0 .. MaxSamples
      /\ stats'.min_ns <= ns /\ ns <= stats'.max_ns
      /\ stats'.min_ns <= stats.min_ns /\ stats.max_ns <= stats'.max_ns
  BY <1>1, <1>2, <1>3
<1>8. {stats'.min_ns, stats'.max_ns} \subseteq Seen'
  <2>1. CASE Seen = {}
    <3>1. stats.min_ns = UINT64_MAX /\ stats.max_ns = 0
      BY <1>0, <2>1 DEF ExtremeInv
    <3>2. stats'.min_ns = ns /\ stats'.max_ns = ns
      BY <1>2, <1>3, <3>1
    <3>3. QED  BY <1>6, <3>2
  <2>2. CASE Seen # {}
    <3>1. {stats.min_ns, stats.max_ns} \subseteq Seen
      BY <1>0, <2>2 DEF StatsMatchSamples
    <3>2. QED  BY <1>2, <1>6, <3>1
  <2>3. QED  BY <2>1, <2>2
<1>9. \A x \in Seen' : stats'.min_ns <= x /\ x <= stats'.max_ns
  <2>1. ASSUME NEW x \in Seen PROVE stats'.min_ns <= x /\ x <= stats'.max_ns
    <3>1. stats.min_ns <= x /\ x <= stats.max_ns
      BY <1>0, <2>1 DEF StatsMatchSamples
    <3>2. x \in Nat
      BY <2>1, BoundsGrow DEF Seen
    <3>3. QED  BY <1>1, <1>7, <3>1, <3>2
  <2>2. QED  BY <1>6, <1>7, <2>1
\* The sum does not wrap.
<1>10. /\ stats.sum_ns + ns <= stats'.count * stats'.max_ns
       /\ stats.sum_ns + ns <= UINT64_MAX
  <2>1. PICK c \in Nat, m \in Nat, l \in Nat, t \in Nat :
            c = stats.count /\ m = stats.max_ns /\ l = stats'.max_ns /\ t = stats.sum_ns
    BY <1>1, <1>7
  <2>2. t <= c * m /\ m <= l /\ ns <= l /\ c + 1 <= MaxSamples
    BY <1>0, <1>2, <1>3, <1>7, <2>1 DEF ExtremeInv
  <2>3. l \in Samples
    BY <1>8, <2>1 DEF Seen
  <2>4. l * MaxSamples <= UINT64_MAX
    BY <2>3, BoundsGrow
  <2>5. c * m <= c * l /\ (c + 1) * l = c * l + l
    BY <2>2
  <2>6. (c + 1) * l <= l * MaxSamples
    BY <1>3, <2>2
  <2>7. t + ns <= (c + 1) * l
    <3>1. c * m \in Nat /\ c * l \in Nat
      OBVIOUS
    <3>2. QED  BY <1>3, <2>2, <2>5, <3>1
  <2>8. QED  BY <1>2, <1>3, <2>1, <2>4, <2>6, <2>7
<1>11. stats'.sum_ns = stats.sum_ns + ns
  <2>1. PICK t \in Nat : t = stats.sum_ns
    BY <1>1
  <2>2. PICK u \in Nat : u = t + ns
    BY <1>3
  <2>3. u % (UINT64_MAX + 1) = u
    <3>1. u <= UINT64_MAX
      BY <1>10, <2>1, <2>2
    <3>2. QED  BY <1>3, <3>1
  <2>4. QED  BY <1>2, <2>1, <2>2, <2>3
<1>12. LatencyType'
  <2>1. stats'.sum_ns \in 0 .. UINT64_MAX
    BY <1>1, <1>3, <1>10, <1>11
  <2>2. stats'.buckets \in [Buckets -> Nat]
    <3>1. PICK f \in [Buckets -> Nat] : f = stats.buckets
      BY <1>1
    <3>2. ASSUME NEW b, NEW n \in Nat PROVE [f EXCEPT ![b] = n] \in [Buckets -> Nat]
      OBVIOUS
    <3>3. Bucket(ns) \in Buckets /\ f[Bucket(ns)] + 1 \in Nat
      BY <1>3, BucketIs
    <3>4. QED  BY <1>2, <3>1, <3>2, <3>3
  <2>3. QED  BY <1>2, <1>5, <1>7, <2>1, <2>2 DEF LatencyType, Tally, Buckets, N_BUCKETS
<1>13. ExtremeInv'
  <2>1. ASSUME NEW x \in Samples PROVE samples'[x] <= stats'.count
    <3>1. samples[x] <= stats.count /\ samples[x] \in Nat
      BY <1>0, <1>1, BoundsGrow DEF ExtremeInv, Tally
    <3>2. QED  BY <1>1, <1>2, <1>5, <3>1
  <2>2. Seen' # {}
    BY <1>6
  <2>3. stats'.sum_ns <= stats'.count * stats'.max_ns
    BY <1>10, <1>11
  <2>4. QED  BY <2>1, <2>2, <2>3 DEF ExtremeInv
<1>14. ASSUME NEW S, S \subseteq Samples
       PROVE  Count(S)' = IF ns \in S THEN Count(S) + 1 ELSE Count(S)
  BY <1>1, <1>2, <1>4, <1>14, CountNext DEF Count
<1>15. StatsMatchSamples'
  <2>1. stats'.count = Count(Samples)'
    BY <1>0, <1>2, <1>14 DEF StatsMatchSamples
  <2>2. stats'.sum_ns = SumOf(Samples)'
    BY <1>0, <1>1, <1>2, <1>4, <1>11, SumNext DEF StatsMatchSamples
  <2>3. ASSUME NEW b \in Buckets
        PROVE  stats'.buckets[b] = Count({x \in Samples : InBucket(x, b)})'
    <3> DEFINE S == {x \in Samples : InBucket(x, b)}
    <3>1. stats.buckets[b] = Count(S)
      BY <1>0 DEF StatsMatchSamples
    <3>2. ns \in S <=> b = Bucket(ns)
      BY <1>3, BucketIs
    <3>3. Count(S)' = IF b = Bucket(ns) THEN Count(S) + 1 ELSE Count(S)
      <4>1. S \subseteq Samples
        OBVIOUS
      <4> HIDE DEF S
      <4>2. QED  BY <1>14, <3>2, <4>1
    <3>4. stats'.buckets[b] = IF b = Bucket(ns) THEN stats.buckets[b] + 1 ELSE stats.buckets[b]
      BY <1>1, <1>2
    <3>5. QED  BY <3>1, <3>3, <3>4
  <2>4. QED  BY <1>8, <1>9, <2>1, <2>2, <2>3 DEF StatsMatchSamples, InBucket, Buckets, N_BUCKETS
<1>16. QED  BY <1>12, <1>13, <1>15 DEF LatencyInv

LEMMA LatencyStep ==
    LatencyInv /\ [LatencyNext]_latency => LatencyInv'
<1> SUFFICES ASSUME LatencyInv, [LatencyNext]_latency
             PROVE  LatencyInv'
  OBVIOUS
<1>1. ASSUME NEW ns \in Samples, record(ns) PROVE LatencyInv'
  BY <1>1, RecordStep
<1>2. CASE UNCHANGED latency
  <2>1. stats' = stats /\ samples' = samples
    BY <1>2 DEF latency
  <2>2. QED  BY <2>1 DEF LatencyInv, LatencyType, ExtremeInv, StatsMatchSamples, Seen, Count,
                     SumOf, Taken, Tally
<1>3. QED  BY <1>1, <1>2 DEF LatencyNext

LEMMA LatencyInvariant ==
    LatencySpec => []LatencyInv
<1>1. LatencyInit => LatencyInv
  BY LatencyStart
<1>2. LatencyInv /\ [LatencyNext]_latency => LatencyInv'
  BY LatencyStep
<1>3. QED  BY <1>1, <1>2, PTL DEF LatencySpec

\* Extremes, sum, count and buckets, updated sample by sample, are those of all
\* samples taken together, and the sum never wraps (live.cpp:65-73).
THEOREM StatsAreExact ==
    LatencySpec => []StatsMatchSamples
<1>1. LatencyInv => StatsMatchSamples
  BY DEF LatencyInv
<1>2. QED  BY <1>1, LatencyInvariant, PTL
-----------------------------------------------------------------------------
(* LatencyStats: percentiles.                                              *)

\* The latencies in bucket b, and those in the buckets up to b.
Inside(b) == {x \in Samples : InBucket(x, b)}
Below(b) == {x \in Samples : b < N_BUCKETS => x < BOUNDS[b]}

LEMMA BelowNext ==
    /\ Below(1) = Inside(1) /\ Below(N_BUCKETS) = Samples
    /\ \A b \in Buckets : b > 1 => /\ b - 1 \in Buckets /\ Below(b) = Below(b - 1) \cup Inside(b)
                                   /\ Below(b - 1) \cap Inside(b) = {}
<1>1. Below(1) = Inside(1) /\ Below(N_BUCKETS) = Samples
  BY BoundsGrow DEF Below, Inside, InBucket
<1>2. ASSUME NEW b \in Buckets, b > 1
      PROVE  /\ b - 1 \in Buckets /\ Below(b) = Below(b - 1) \cup Inside(b)
             /\ Below(b - 1) \cap Inside(b) = {}
  <2>1. /\ b - 1 \in Buckets /\ b - 1 < N_BUCKETS /\ b - 1 < b /\ b \in Nat
        /\ N_BUCKETS \in Nat
    BY <1>2, BoundsGrow DEF Buckets
  <2>2. BOUNDS[b - 1] \in Nat
    BY <2>1, BoundsGrow
  <2>3. b < N_BUCKETS => BOUNDS[b] \in Nat /\ BOUNDS[b - 1] < BOUNDS[b]
    BY <2>1, BoundsGrow
  <2>4. ASSUME NEW x \in Samples
        PROVE  /\ x \in Below(b - 1) <=> x < BOUNDS[b - 1]
               /\ x \in Inside(b) <=> ~(x < BOUNDS[b - 1]) /\ (b < N_BUCKETS => x < BOUNDS[b])
               /\ x < BOUNDS[b - 1] => x \in Below(b)
    <3>1. x \in Nat
      BY BoundsGrow
    <3>2. QED  BY <1>2, <2>1, <2>2, <2>3, <3>1 DEF Below, Inside, InBucket
  <2>5. QED  BY <2>1, <2>4 DEF Below, Inside
<1>3. QED  BY <1>1, <1>2

\* What print_histogram() has counted at a bucket are the samples up to it.
LEMMA CumIs ==
    ASSUME LatencyInv
    PROVE  \A b \in Buckets : RunningSum(stats.buckets)[b] = Count(Below(b))
<1> DEFINE cum == RunningSum(stats.buckets)
           Bad == {b \in Buckets : cum[b] # Count(Below(b))}
<1>1. /\ stats.buckets \in Seq(Int) /\ Len(stats.buckets) = N_BUCKETS
      /\ \A b \in Buckets : stats.buckets[b] = Count(Inside(b))
  <2>1. stats.buckets \in [1 .. N_BUCKETS -> Nat] /\ N_BUCKETS \in Nat
    BY BoundsGrow DEF LatencyInv, LatencyType, Buckets
  <2>2. QED  BY <2>1 DEF LatencyInv, StatsMatchSamples, Inside
<1>2. cum[0] = 0 /\ \A b \in Buckets : cum[b] = cum[b - 1] + Count(Inside(b))
  BY <1>1, RunningSumIs DEF Buckets
<1> HIDE DEF cum
<1>3. \A b \in Buckets : Count(Inside(b)) \in Nat /\ Count(Below(b)) \in Nat
  BY TakenIsFinite DEF Inside, Below
<1>4. SUFFICES ASSUME Bad # {} PROVE FALSE
  BY DEF cum
<1>5. PICK b \in Bad : \A c \in Bad : b <= c
  <2>1. Bad \subseteq Nat
    BY BoundsGrow
  <2> HIDE DEF Bad
  <2>2. QED  BY <1>4, <2>1, Least
<1>6. b \in Buckets /\ b \in Nat /\ b >= 1 /\ cum[b] # Count(Below(b))
  BY <1>5, BoundsGrow DEF Buckets
<1>7. CASE b = 1
  <2>1. cum[1] = Count(Inside(1)) /\ Below(1) = Inside(1)
    BY <1>2, <1>3, <1>6, <1>7, BelowNext
  <2>2. QED  BY <1>6, <1>7, <2>1
<1>8. CASE b # 1
  <2>1. /\ b - 1 \in Buckets /\ Below(b) = Below(b - 1) \cup Inside(b)
        /\ Below(b - 1) \cap Inside(b) = {}
    BY <1>6, <1>8, BelowNext
  <2>2. b - 1 \notin Bad
    <3>1. b - 1 \in Bad => b <= b - 1
      BY <1>5, Zenon
    <3>2. QED  BY <1>6, <3>1
  <2>3. cum[b - 1] = Count(Below(b - 1))
    BY <2>1, <2>2
  <2>4. Inside(b) \subseteq Samples /\ Below(b - 1) \subseteq Samples
    BY DEF Inside, Below
  <2>5. Count(Below(b)) = Count(Below(b - 1)) + Count(Inside(b))
    BY <2>1, <2>4, CountUnion
  <2>6. QED  BY <1>2, <1>6, <2>3, <2>5
<1>9. QED  BY <1>7, <1>8

\* The largest sample of a set of latencies has the whole set up to it.
LEMMA LargestSample ==
    ASSUME LatencyInv, NEW S, S \subseteq Samples, Count(S) > 0
    PROVE  \E x \in S : x \in Seen /\ Count(S) <= Count(UpTo(x))
<1>1. \A x \in Samples : samples[x] \in Nat /\ x \in Nat /\ x <= UINT64_MAX
  BY BoundsGrow DEF LatencyInv, LatencyType, Tally
<1>2. S \cap Seen # {}
  <2>1. SUFFICES ASSUME S \cap Seen = {} PROVE FALSE
    OBVIOUS
  <2>2. Taken(S) = {}
    BY <1>1, <2>1, BoundsGrow DEF Taken, Seen
  <2>3. Count(S) = 0
    BY <2>2, FS_EmptySet DEF Count
  <2>4. QED  BY <2>3
<1>3. PICK x \in S \cap Seen : \A y \in S \cap Seen : y <= x
  <2>1. S \cap Seen \subseteq 0 .. UINT64_MAX /\ UINT64_MAX \in Nat
    BY <1>1, BoundsGrow
  <2>2. QED  BY <1>2, <2>1, Largest
<1>4. Taken(S) \subseteq Taken(UpTo(x))
  <2>1. ASSUME NEW t \in Taken(S) PROVE t[1] \in UpTo(x)
    <3>1. t[1] \in S /\ t[2] \in 1 .. MaxSamples /\ t[2] <= samples[t[1]]
      BY DEF Taken
    <3>2. samples[t[1]] > 0
      BY <1>1, <3>1, BoundsGrow
    <3>3. QED  BY <1>3, <3>1, <3>2 DEF UpTo, Seen
  <2>2. QED  BY <2>1 DEF Taken
<1>5. IsFiniteSet(Taken(UpTo(x)))
  BY TakenIsFinite DEF UpTo
<1>6. Count(S) <= Count(UpTo(x))
  BY <1>4, <1>5, FS_Subset DEF Count
<1>7. QED  BY <1>3, <1>6

LEMMA PercentileIs ==
    ASSUME LatencyInv, NEW p \in 1 .. 100
    PROVE  /\ Percentile(p) \in Buckets
           /\ 100 * Count(Below(Percentile(p))) >= p * stats.count
           /\ \A b \in Buckets :
                b < Percentile(p) => 100 * Count(Below(b)) < p * stats.count
<1> DEFINE cum == RunningSum(stats.buckets)
           S == {b \in Buckets : 100 * cum[b] >= p * stats.count}
           B == Percentile(p)
<1>1. \A b \in Buckets : cum[b] = Count(Below(b)) /\ Count(Below(b)) \in Nat /\ b \in Nat
  BY CumIs, TakenIsFinite, BoundsGrow DEF Below
<1>2. stats.count \in Nat /\ stats.count = Count(Samples) /\ Below(N_BUCKETS) = Samples
  BY BelowNext DEF LatencyInv, LatencyType, StatsMatchSamples
<1>3. N_BUCKETS \in Buckets /\ Buckets \subseteq Nat
  BY BoundsGrow
<1>4. N_BUCKETS \in S
  <2>1. cum[N_BUCKETS] = stats.count
    BY <1>1, <1>2, <1>3
  <2> HIDE DEF cum
  <2>2. QED  BY <1>2, <1>3, <2>1
<1>5. S \cup {N_BUCKETS} = S /\ S \subseteq Nat
  BY <1>3, <1>4
<1>6. B \in S /\ \A b \in S : B <= b
  <2>1. B = Min(S)
    BY <1>5 DEF Percentile
  <2> HIDE DEF B, S
  <2>2. QED  BY <1>4, <1>5, <2>1, LeastIsMin, Zenon
<1> HIDE DEF B, cum
<1>7. B \in Buckets /\ 100 * Count(Below(B)) >= p * stats.count
  BY <1>1, <1>6
<1>8. ASSUME NEW b \in Buckets, b < B PROVE 100 * Count(Below(b)) < p * stats.count
  <2>1. b \notin S
    BY <1>1, <1>6, <1>7, <1>8
  <2>2. ~(100 * Count(Below(b)) >= p * stats.count)
    BY <1>1, <2>1
  <2>3. QED  BY <1>1, <1>2, <2>2
<1>9. QED  BY <1>7, <1>8 DEF B

LEMMA RankedIs ==
    ASSUME LatencyInv, stats.count > 0, NEW p \in 1 .. 100
    PROVE  /\ Ranked(p) \in Seen /\ 100 * Count(UpTo(Ranked(p))) >= p * stats.count
           /\ \A x \in Seen : 100 * Count(UpTo(x)) >= p * stats.count => Ranked(p) <= x
<1> DEFINE S == {x \in Seen : 100 * Count(UpTo(x)) >= p * stats.count}
<1>1. stats.count \in Nat /\ stats.count = Count(Samples)
  BY DEF LatencyInv, LatencyType, StatsMatchSamples
<1>2. PICK x \in Samples : x \in Seen /\ stats.count <= Count(UpTo(x))
  BY <1>1, LargestSample
<1>3. Count(UpTo(x)) \in Nat
  BY TakenIsFinite DEF UpTo
<1>4. x \in S
  <2>1. PICK n \in Nat, c \in Nat : n = Count(UpTo(x)) /\ c = stats.count
    BY <1>1, <1>3
  <2>2. 100 * n >= p * c
    BY <1>2, <2>1
  <2>3. QED  BY <1>2, <2>1, <2>2
<1>5. S \subseteq Nat
  BY BoundsGrow DEF Seen
<1>6. Min(S) \in S /\ \A y \in S : Min(S) <= y
  BY <1>4, <1>5, LeastIsMin, Zenon
<1>7. QED  BY <1>6 DEF Ranked

LEMMA PercentileMatches ==
    ASSUME LatencyInv, stats.count > 0, NEW p \in 1 .. 100
    PROVE  InBucket(Ranked(p), Percentile(p))
<1> DEFINE R == Ranked(p)
           B == Percentile(p)
<1>1. /\ B \in Buckets /\ 100 * Count(Below(B)) >= p * stats.count
      /\ \A b \in Buckets : b < B => 100 * Count(Below(b)) < p * stats.count
  BY PercentileIs
<1>2. /\ R \in Seen /\ 100 * Count(UpTo(R)) >= p * stats.count
      /\ \A x \in Seen : 100 * Count(UpTo(x)) >= p * stats.count => R <= x
  BY RankedIs
<1> HIDE DEF R, B
<1>3. PICK c \in Nat : c = p * stats.count /\ c > 0
  <2>1. stats.count \in Nat
    BY DEF LatencyInv, LatencyType
  <2>2. QED  BY <2>1
<1>4. /\ \A b \in Buckets : Count(Below(b)) \in Nat /\ Below(b) \subseteq Samples
      /\ \A x \in Samples : Count(UpTo(x)) \in Nat
  BY TakenIsFinite DEF Below, UpTo
<1>5. R \in Nat /\ R \in Samples
  BY <1>2, BoundsGrow DEF Seen
<1>6. ASSUME B < N_BUCKETS PROVE R < BOUNDS[B]
  <2>1. Count(Below(B)) > 0
    BY <1>1, <1>3, <1>4
  <2>2. PICK x \in Below(B) : x \in Seen /\ Count(Below(B)) <= Count(UpTo(x))
    BY <1>1, <1>4, <2>1, LargestSample
  <2>3. x \in Samples /\ x \in Nat /\ x < BOUNDS[B] /\ BOUNDS[B] \in Nat
    BY <1>1, <1>6, BoundsGrow DEF Below
  <2>4. 100 * Count(UpTo(x)) >= p * stats.count
    BY <1>1, <1>3, <1>4, <2>2, <2>3
  <2>5. R <= x
    BY <1>2, <2>2, <2>4
  <2>6. QED  BY <1>5, <2>3, <2>5
<1>7. ASSUME B > 1 PROVE BOUNDS[B - 1] <= R
  <2>1. B - 1 \in Buckets /\ B - 1 < B /\ B - 1 < N_BUCKETS /\ BOUNDS[B - 1] \in Nat
    <3>1. B - 1 \in Buckets /\ B - 1 < B /\ B - 1 < N_BUCKETS
      BY <1>1, <1>7, BoundsGrow DEF Buckets
    <3>2. QED  BY <3>1, BoundsGrow
  <2>2. SUFFICES ASSUME R < BOUNDS[B - 1] PROVE FALSE
    BY <1>5, <2>1
  <2>3. UpTo(R) \subseteq Below(B - 1)
    <3>1. ASSUME NEW x \in Samples, x <= R PROVE x < BOUNDS[B - 1]
      <4>1. x \in Nat
        BY BoundsGrow
      <4>2. QED  BY <1>5, <2>1, <2>2, <3>1, <4>1
    <3>2. QED  BY <3>1 DEF UpTo, Below
  <2>4. Count(UpTo(R)) <= Count(Below(B - 1))
    BY <1>4, <2>1, <2>3, CountMonotone
  <2>5. 100 * Count(Below(B - 1)) < p * stats.count
    BY <1>1, <2>1
  <2>6. QED  BY <1>2, <1>3, <1>4, <1>5, <2>1, <2>4, <2>5
<1>8. QED  BY <1>6, <1>7 DEF InBucket, R, B

\* The percentile that is printed is the range the sample of that rank lies in,
\* for every sequence of samples (live.cpp:91-100).
THEOREM PercentilesCorrect ==
    LatencySpec => []PercentilesAreRanks
<1>1. LatencyInv => PercentilesAreRanks
  <2>1. \A p \in {50, 95, 99} : p \in 1 .. 100
    OBVIOUS
  <2>2. QED  BY <2>1, PercentileMatches DEF PercentilesAreRanks
<1>2. QED  BY <1>1, LatencyInvariant, PTL
=============================================================================
